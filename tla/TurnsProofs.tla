----------------------------- MODULE TurnsProofs -----------------------------
(***************************************************************************)
(* Theorems of Turns, for every set of turns and sessions and every choice *)
(* of the other constants that its assumptions allow: the types, the       *)
(* inductive invariant and what follows from it, the safety properties of  *)
(* the runs, that a turn is started once, that the orchestrator implements *)
(* TurnPromise, and two promises about a turn that runs or is stopped.     *)
(*                                                                         *)
(* The argument goes through the log.  Every step of the orchestrator adds *)
(* to a turn's events at most one fact that its earlier events allow       *)
(* (LogStep); what only depends on the log follows from that once for all  *)
(* actions, and each action is left with the sessions, the queues and the  *)
(* Stops it touches.                                                       *)
(***************************************************************************)
EXTENDS Turns, SequenceTheorems, TLAPS

-----------------------------------------------------------------------------
(* Facts about the three queue operations.                                 *)

(* Typing a message behind the queue adds it at the end. *)
LEMMA AppendFacts ==
  ASSUME NEW S, NEW q \in Seq(S), NEW x \in S
  PROVE  /\ Append(q, x) \in Seq(S)
         /\ DOMAIN Append(q, x) = 1..Len(q)+1
         /\ \A i \in DOMAIN q : i \in DOMAIN Append(q, x) /\ Append(q, x)[i] = q[i]
         /\ Append(q, x)[Len(q)+1] = x
         /\ \A i \in DOMAIN Append(q, x) : i \in DOMAIN q \/ i = Len(q)+1
BY AppendProperties

(* Taking the head leaves the others in order. *)
LEMMA TailFacts ==
  ASSUME NEW S, NEW q \in Seq(S), q # <<>>
  PROVE  /\ Head(q) \in S /\ 1 \in DOMAIN q /\ Head(q) = q[1]
         /\ Tail(q) \in Seq(S)
         /\ \A i \in DOMAIN Tail(q) : i+1 \in DOMAIN q /\ Tail(q)[i] = q[i+1] /\ i+1 # 1
         /\ \A i \in DOMAIN q : i # 1 => i-1 \in DOMAIN Tail(q) /\ Tail(q)[i-1] = q[i]
BY HeadTailProperties

(* Dropping one message leaves the others in order. *)
LEMMA RemoveAtFacts ==
  ASSUME NEW S, NEW q \in Seq(S), NEW k \in DOMAIN q
  PROVE  /\ RemoveAt(q, k) \in Seq(S)
         /\ \A i \in DOMAIN RemoveAt(q, k) :
              LET j == IF i < k THEN i ELSE i+1 IN
              j \in DOMAIN q /\ j # k /\ RemoveAt(q, k)[i] = q[j]
         /\ \A i \in DOMAIN q : i # k =>
              LET j == IF i < k THEN i ELSE i-1 IN
              j \in DOMAIN RemoveAt(q, k) /\ RemoveAt(q, k)[j] = q[i]
<1> DEFINE a == SubSeq(q, 1, k-1)
           b == SubSeq(q, k+1, Len(q))
<1>1. k \in 1..Len(q) /\ Len(q) \in Nat
  BY LenProperties
<1>2. /\ a \in Seq(S) /\ Len(a) = k-1
      /\ \A i \in 1..Len(a) : a[i] = q[i]
  BY <1>1, SubSeqProperties
<1>3. /\ b \in Seq(S) /\ Len(b) = Len(q)-k
      /\ \A i \in 1..Len(b) : b[i] = q[k+i]
  BY <1>1, SubSeqProperties
<1> HIDE DEF a, b
<1>4. /\ a \o b \in Seq(S)
      /\ Len(a \o b) = Len(q)-1
      /\ \A i \in 1..Len(q)-1 : (a \o b)[i] = IF i <= k-1 THEN a[i] ELSE b[i-(k-1)]
  <2>1. /\ a \o b \in Seq(S)
        /\ Len(a \o b) = Len(a) + Len(b)
        /\ \A i \in 1..Len(a)+Len(b) :
             (a \o b)[i] = IF i <= Len(a) THEN a[i] ELSE b[i-Len(a)]
    BY <1>2, <1>3, ConcatProperties
  <2>2. Len(a) + Len(b) = Len(q)-1
    BY <1>1, <1>2, <1>3
  <2>3. QED
    BY <2>1, <2>2, <1>2
<1>5. RemoveAt(q, k) = a \o b
  BY DEF RemoveAt, a, b
<1>6. /\ RemoveAt(q, k) \in Seq(S)
      /\ DOMAIN RemoveAt(q, k) = 1..Len(q)-1
      /\ DOMAIN q = 1..Len(q)
      /\ \A i \in 1..Len(q)-1 :
           RemoveAt(q, k)[i] = IF i < k THEN q[i] ELSE q[i+1]
  <2>1. DOMAIN RemoveAt(q, k) = 1..Len(q)-1 /\ DOMAIN q = 1..Len(q)
    BY <1>4, <1>5, LenProperties
  <2>2. ASSUME NEW i \in 1..Len(q)-1
        PROVE  RemoveAt(q, k)[i] = IF i < k THEN q[i] ELSE q[i+1]
    <3>1. CASE i < k
      BY <3>1, <1>1, <1>2, <1>4, <1>5
    <3>2. CASE ~(i < k)
      <4>1. i-(k-1) \in 1..Len(b) /\ k+(i-(k-1)) = i+1
        BY <3>2, <1>1, <1>3
      <4>2. b[i-(k-1)] = q[k+(i-(k-1))]
        BY <4>1, <1>3
      <4>3. QED
        BY <3>2, <4>1, <4>2, <1>1, <1>4, <1>5
    <3>3. QED
      BY <3>1, <3>2
  <2>3. QED
    BY <2>1, <2>2, <1>4, <1>5
<1>7. QED
  BY <1>1, <1>6

-----------------------------------------------------------------------------
(* Facts about the pieces the handlers are built from.                     *)

(* A commit adds one event to the turns it names and to no other. *)
LEMMA LogFacts ==
  ASSUME NEW log \in [Turns -> SUBSET Event], NEW e \in Event, NEW T
  PROVE  /\ Log(log, e, T) \in [Turns -> SUBSET Event]
         /\ \A t \in Turns :
              Log(log, e, T)[t] = IF t \in T THEN log[t] \cup {e} ELSE log[t]
BY DEF Log

(* Starting a turn claims the session and clears the marks of earlier ones. *)
LEMMA BeginFacts ==
  ASSUME NEW r \in LiveSession, NEW t \in Turns
  PROVE  /\ Begin(r, t) \in LiveSession
         /\ Begin(r, t).active = t /\ Begin(r, t).stopping = NoTurn
         /\ Begin(r, t).cancelled = {} /\ Begin(r, t).queued = r.queued
BY DEF Begin, LiveSession

(* Draining takes the head of the queue of a free session, or does nothing. *)
LEMMA DrainedFacts ==
  ASSUME NEW r \in LiveSession
  PROVE  /\ Drained(r) \in LiveSession
         /\ ~CanDrain(r) => Drained(r) = r
         /\ CanDrain(r) => /\ Head(r.queued) \in Turns
                           /\ Drained(r).active = Head(r.queued)
                           /\ Drained(r).stopping = NoTurn
                           /\ Drained(r).queued = Tail(r.queued)
<1>1. CASE ~CanDrain(r)
  BY <1>1 DEF Drained
<1>2. CASE CanDrain(r)
  <2>1. r.queued \in Seq(Turns) /\ r.queued # <<>>
    BY <1>2 DEF CanDrain, LiveSession
  <2>2. Head(r.queued) \in Turns /\ Tail(r.queued) \in Seq(Turns)
    BY <2>1, TailFacts
  <2>3. /\ Begin(r, Head(r.queued)) \in LiveSession
        /\ Begin(r, Head(r.queued)).active = Head(r.queued)
        /\ Begin(r, Head(r.queued)).stopping = NoTurn
    BY <2>2, BeginFacts
  <2>4. Drained(r) = [Begin(r, Head(r.queued)) EXCEPT !.queued = Tail(r.queued)]
    BY <1>2 DEF Drained
  <2>5. QED
    BY <1>2, <2>2, <2>3, <2>4 DEF LiveSession
<1>3. QED
  BY <1>1, <1>2

(* turn.completed lets go of its turn and keeps the queue. *)
LEMMA SettledFacts ==
  ASSUME NEW r \in LiveSession, NEW t \in Turns
  PROVE  /\ Settled(r, t) \in LiveSession
         /\ Settled(r, t).active = IF r.active = t THEN NoTurn ELSE r.active
         /\ Settled(r, t).stopping = IF r.stopping = t THEN NoTurn ELSE r.stopping
         /\ Settled(r, t).queued = r.queued
BY DEF Settled, LiveSession

(* What drainQueue does to the thread, after any handler. *)
LEMMA DrainFacts ==
  ASSUME TypeOK,
         NEW sessions \in [Sessions -> LiveSession],
         NEW log \in [Turns -> SUBSET Event],
         NEW points \in [Turns -> SendPoint],
         Drain(sessions, log, points)
  PROVE  /\ live' \in [Sessions -> LiveSession]
         /\ ev' \in [Turns -> SUBSET Event]
         /\ pc' \in [Turns -> SendPoint]
         /\ via' \in [Turns -> {"send", "drain"}]
         /\ Starting(sessions) \subseteq Turns
         /\ \A s \in Sessions :
              live'[s] = IF s = cur THEN Drained(sessions[s]) ELSE sessions[s]
         /\ \A t \in Turns :
              /\ ev'[t] = IF t \in Starting(sessions) THEN log[t] \cup {"started"} ELSE log[t]
              /\ pc'[t] = IF t \in Starting(sessions) THEN "checkpoint" ELSE points[t]
<1>1. cur \in Sessions \cup {NoSession}
  BY DEF TypeOK
<1>2. Starting(sessions) \subseteq Turns
  BY <1>1, DrainedFacts DEF Starting
<1>3. live' = [s \in Sessions |-> IF s = cur THEN Drained(sessions[s]) ELSE sessions[s]]
  BY DEF Drain
<1>4. ev' = Log(log, "started", Starting(sessions))
  BY DEF Drain
<1>5. pc' = [t \in Turns |-> IF t \in Starting(sessions) THEN "checkpoint" ELSE points[t]]
  BY DEF Drain
<1>6. via' = [t \in Turns |-> IF t \in Starting(sessions) THEN "drain" ELSE via[t]]
  BY DEF Drain
<1>7. \A s \in Sessions : Drained(sessions[s]) \in LiveSession
  BY DrainedFacts
<1>8. live' \in [Sessions -> LiveSession]
  BY <1>3, <1>7
<1>9. /\ ev' \in [Turns -> SUBSET Event]
      /\ \A t \in Turns :
           ev'[t] = IF t \in Starting(sessions) THEN log[t] \cup {"started"} ELSE log[t]
  <2>1. "started" \in Event
    BY DEF Event
  <2>2. QED
    BY <1>4, <2>1, LogFacts
<1>10. pc' \in [Turns -> SendPoint] /\ via' \in [Turns -> {"send", "drain"}]
  BY <1>5, <1>6 DEF TypeOK, SendPoint
<1>11. QED
  BY <1>2, <1>3, <1>5, <1>8, <1>9, <1>10

-----------------------------------------------------------------------------
(* Type correctness                                                        *)

(* Letting go of a session's turn, and of its stopping mark. *)
LEMMA FreedType ==
  ASSUME TypeOK, NEW s
  PROVE  /\ [live EXCEPT ![s].active = NoTurn] \in [Sessions -> LiveSession]
         /\ [live EXCEPT ![s].active = NoTurn, ![s].stopping = NoTurn]
               \in [Sessions -> LiveSession]
<1>1. [live EXCEPT ![s].active = NoTurn] \in [Sessions -> LiveSession]
  BY DEF TypeOK, LiveSession
<1> DEFINE freed == [live EXCEPT ![s].active = NoTurn]
<1>2. freed \in [Sessions -> LiveSession]
  BY <1>1
<1>3. [live EXCEPT ![s].active = NoTurn, ![s].stopping = NoTurn]
        = [freed EXCEPT ![s].stopping = NoTurn]
  OBVIOUS
<1> HIDE DEF freed
<1>4. [freed EXCEPT ![s].stopping = NoTurn] \in [Sessions -> LiveSession]
  BY <1>2 DEF LiveSession
<1>5. QED
  BY <1>1, <1>3, <1>4

(* Forgetting that a turn was cancelled. *)
LEMMA ForgottenType ==
  ASSUME TypeOK, NEW s, NEW t
  PROVE  [live EXCEPT ![s].cancelled = @ \ {t}] \in [Sessions -> LiveSession]
BY DEF TypeOK, LiveSession

(* The two ways a rejected dispatch leaves the variables it touches. *)
LEMMA SendFailsType ==
  ASSUME TypeOK, NEW t \in Turns, SendFails(t)
  PROVE  /\ live' \in [Sessions -> LiveSession]
         /\ ev' \in [Turns -> SUBSET Event]
         /\ pc' \in [Turns -> SendPoint]
         /\ via' \in [Turns -> {"send", "drain"}]
<1> DEFINE freed == [live EXCEPT ![at[t]].active = NoTurn]
           log   == Log(ev, "failed", {t})
           point == [pc EXCEPT ![t] = "done"]
<1>1. freed \in [Sessions -> LiveSession]
  BY DEF TypeOK, LiveSession
<1>2. log \in [Turns -> SUBSET Event]
  <2>1. "failed" \in Event
    BY DEF Event
  <2>2. QED
    BY <2>1, LogFacts DEF TypeOK
<1>3. point \in [Turns -> SendPoint]
  BY DEF TypeOK, SendPoint
<1>4. CASE Drain(freed, log, point)
  <2> HIDE DEF freed, log, point
  <2>1. QED
    BY <1>1, <1>2, <1>3, <1>4, DrainFacts
<1>5. CASE live' = freed /\ ev' = log /\ pc' = point /\ UNCHANGED via
  BY <1>1, <1>2, <1>3, <1>5 DEF TypeOK
<1>6. QED
  BY <1>4, <1>5 DEF SendFails

(* Starting a turn on the session the send holds. *)
LEMMA StartType ==
  ASSUME TypeOK, NEW t \in Turns, NEW s \in Sessions \cup {NoSession}, Start(t, s)
  PROVE  /\ live' \in [Sessions -> LiveSession]
         /\ ev' \in [Turns -> SUBSET Event]
         /\ pc' \in [Turns -> SendPoint]
         /\ at' \in [Turns -> Sessions \cup {NoSession}]
<1>1. live' \in [Sessions -> LiveSession]
  <2>1. CASE s \in Sessions
    <3>1. live[s] \in LiveSession
      BY <2>1 DEF TypeOK
    <3>2. Begin(live[s], t) \in LiveSession
      BY <3>1, BeginFacts
    <3>3. QED
      BY <2>1, <3>2 DEF Start, TypeOK
  <2>2. CASE s \notin Sessions
    BY <2>2 DEF Start, TypeOK
  <2>3. QED
    BY <2>1, <2>2
<1>2. ev' \in [Turns -> SUBSET Event]
  <2>1. "started" \in Event
    BY DEF Event
  <2>2. QED
    BY <2>1, LogFacts DEF Start, TypeOK
<1>3. QED
  BY <1>1, <1>2 DEF Start, TypeOK, SendPoint

(* The three ways sendTurn goes on once it has a session. *)
LEMMA HasSessionType ==
  ASSUME TypeOK, NEW t \in Turns, NEW s \in Sessions, HasSession(t, s)
  PROVE  /\ live' \in [Sessions -> LiveSession]
         /\ ev' \in [Turns -> SUBSET Event]
         /\ pc' \in [Turns -> SendPoint]
         /\ at' \in [Turns -> Sessions \cup {NoSession}]
<1>1. CASE Enqueue(t, s)
  <2>1. live[s] \in LiveSession /\ live[s].queued \in Seq(Turns)
    BY DEF TypeOK, LiveSession
  <2>2. Append(live[s].queued, t) \in Seq(Turns)
    BY <2>1, AppendFacts
  <2>3. live' \in [Sessions -> LiveSession]
    BY <1>1, <2>1, <2>2 DEF Enqueue, TypeOK, LiveSession
  <2>4. "queued" \in Event
    BY DEF Event
  <2>5. ev' \in [Turns -> SUBSET Event]
    BY <1>1, <2>4, LogFacts DEF Enqueue, TypeOK
  <2>6. QED
    BY <1>1, <2>3, <2>5 DEF Enqueue, TypeOK, SendPoint
<1>2. CASE Start(t, s)
  BY <1>2, StartType
<1>3. CASE /\ pc' = [pc EXCEPT ![t] = "writing"]
           /\ at' = [at EXCEPT ![t] = s]
           /\ UNCHANGED <<live, ev>>
  BY <1>3 DEF TypeOK, SendPoint
<1>4. QED
  BY <1>1, <1>2, <1>3 DEF HasSession

(* The daemon starts with every variable in its type. *)
LEMMA TypeInit == Init => TypeOK
<1>1. FreshSession \in LiveSession
  BY EmptySeq DEF FreshSession, LiveSession
<1>2. NoStop \in StopCall
  BY DEF NoStop, StopCall
<1>3. 0 \in 0..MaxErrors
  BY BoundAssumption
<1>4. "idle" \in SendPoint
  BY DEF SendPoint
<1> SUFFICES ASSUME Init PROVE TypeOK
  OBVIOUS
<1>5. cur \in Sessions \cup {NoSession} /\ warming \in BOOLEAN /\ switching \in BOOLEAN
      /\ errors \in 0..MaxErrors
  BY <1>3 DEF Init
<1>6. live \in [Sessions -> LiveSession] /\ stop \in [Turns -> StopCall]
  BY <1>1, <1>2 DEF Init
<1>7. /\ up \in [Sessions -> {"none", "up", "stopping", "down"}]
      /\ handed \in [Sessions -> SUBSET Turns]
      /\ at \in [Turns -> Sessions \cup {NoSession}]
      /\ via \in [Turns -> {"send", "drain"}]
      /\ pc \in [Turns -> SendPoint]
      /\ ev \in [Turns -> SUBSET Event]
  BY <1>4 DEF Init
<1>8. QED
  BY <1>5, <1>6, <1>7 DEF TypeOK

(* No action takes a variable out of its type. *)
LEMMA TypeStep == TypeOK /\ [Next]_vars => TypeOK'
<1> SUFFICES ASSUME TypeOK, [Next]_vars
             PROVE  TypeOK'
  OBVIOUS
<1>1. ASSUME NEW t \in Turns, SendWarm(t)
      PROVE  TypeOK'
  <2>1. cur \in Sessions
    BY <1>1 DEF SendWarm, TypeOK
  <2>2. QED
    BY <1>1, <2>1, HasSessionType DEF SendWarm, TypeOK
<1>2. ASSUME NEW t \in Turns, SendCold(t)
      PROVE  TypeOK'
  BY <1>2 DEF SendCold, TypeOK, SendPoint
<1>3. ASSUME NEW t \in Turns, SessionReady(t)
      PROVE  TypeOK'
  <2>1. PICK s \in Sessions : /\ up' = [up EXCEPT ![s] = "up"]
                              /\ cur' = s
                              /\ HasSession(t, s)
    BY <1>3 DEF SessionReady
  <2>2. QED
    BY <1>3, <2>1, HasSessionType DEF SessionReady, TypeOK
<1>4. ASSUME NEW t \in Turns, SessionFails(t) \/ ImagesRefused(t) \/ SendResolves(t)
      PROVE  TypeOK'
  BY <1>4 DEF SessionFails, ImagesRefused, SendResolves, TypeOK, SendPoint
<1>5. ASSUME NEW t \in Turns, ImagesWritten(t)
      PROVE  TypeOK'
  <2>1. at[t] \in Sessions \cup {NoSession}
    BY DEF TypeOK
  <2>2. QED
    BY <1>5, <2>1, StartType DEF ImagesWritten, TypeOK
<1>6. ASSUME NEW t \in Turns, CheckpointCancelled(t)
      PROVE  TypeOK'
  <2>1. live' \in [Sessions -> LiveSession]
    BY <1>6, ForgottenType DEF CheckpointCancelled
  <2>2. QED
    BY <1>6, <2>1 DEF CheckpointCancelled, TypeOK, SendPoint
<1>7. ASSUME NEW t \in Turns, Dispatch(t)
      PROVE  TypeOK'
  BY <1>7 DEF Dispatch, TypeOK, SendPoint
<1>8. ASSUME NEW t \in Turns, DispatchRefused(t) \/ SendRejects(t)
      PROVE  TypeOK'
  <2>1. SendFails(t)
    BY <1>8 DEF DispatchRefused, SendRejects
  <2>2. handed' \in [Sessions -> SUBSET Turns]
    BY <1>8 DEF DispatchRefused, SendRejects, TypeOK
  <2>3. QED
    BY <1>8, <2>1, <2>2, SendFailsType DEF DispatchRefused, SendRejects, TypeOK
<1>9. ASSUME NEW t \in Turns, Dequeue(t)
      PROVE  TypeOK'
  <2>1. cur \in Sessions
    BY <1>9 DEF Dequeue, TypeOK
  <2>2. live[cur] \in LiveSession /\ live[cur].queued \in Seq(Turns)
    BY <2>1 DEF TypeOK, LiveSession
  <2>3. PICK i \in DOMAIN live[cur].queued :
          live' = [live EXCEPT ![cur].queued = RemoveAt(@, i)]
    BY <1>9 DEF Dequeue
  <2>4. RemoveAt(live[cur].queued, i) \in Seq(Turns)
    BY <2>2, RemoveAtFacts
  <2>5. live' \in [Sessions -> LiveSession]
    BY <2>1, <2>2, <2>3, <2>4 DEF TypeOK, LiveSession
  <2>6. "dequeued" \in Event
    BY DEF Event
  <2>7. ev' \in [Turns -> SUBSET Event]
    BY <1>9, <2>6, LogFacts DEF Dequeue, TypeOK
  <2>8. QED
    BY <1>9, <2>5, <2>7 DEF Dequeue, TypeOK, SendPoint
<1>10. ASSUME NEW t \in Turns, Interrupt(t)
       PROVE  TypeOK'
  <2>1. cur \in Sessions
    BY <1>10 DEF Interrupt, TypeOK
  <2>2. live[cur] \in LiveSession /\ live[cur].queued \in Seq(Turns)
    BY <2>1 DEF TypeOK, LiveSession
  <2>3. <<>> \in Seq(Turns) /\ ToSet(live[cur].queued) \in SUBSET Turns
    BY <2>2, EmptySeq, ElementOfSeq, LenProperties DEF ToSet
  <2>4. live' \in [Sessions -> LiveSession]
    BY <1>10, <2>1, <2>2, <2>3 DEF Interrupt, TypeOK, LiveSession
  <2>5. stop' \in [Turns -> StopCall]
    BY <1>10, <2>1, <2>3 DEF Interrupt, TypeOK, StopCall
  <2>6. QED
    BY <1>10, <2>4, <2>5 DEF Interrupt, TypeOK
<1>11. ASSUME NEW t \in Turns, Interrupted(t) \/ InterruptFails(t)
       PROVE  TypeOK'
  <2>1. PICK outcome \in {"interrupted", "failed"} : StopReturns(t, outcome)
    BY <1>11 DEF Interrupted, InterruptFails
  <2>2. live' \in [Sessions -> LiveSession]
    BY <1>11, FreedType DEF Interrupted, InterruptFails
  <2>3. outcome \in Event /\ "dequeued" \in Event
    BY DEF Event
  <2>4. ev' \in [Turns -> SUBSET Event]
    <3>1. Log(ev, outcome, {t}) \in [Turns -> SUBSET Event]
      BY <2>3, LogFacts DEF TypeOK
    <3>2. ev' = Log(Log(ev, outcome, {t}), "dequeued", stop[t].abandoned)
      BY <2>1 DEF StopReturns
    <3> DEFINE log == Log(ev, outcome, {t})
    <3>3. log \in [Turns -> SUBSET Event]
      BY <3>1
    <3> HIDE DEF log
    <3>4. Log(log, "dequeued", stop[t].abandoned) \in [Turns -> SUBSET Event]
      BY <2>3, <3>3, LogFacts
    <3>5. QED
      BY <3>2, <3>4 DEF log
  <2>5. pc' \in [Turns -> SendPoint] /\ stop' \in [Turns -> StopCall]
    <3>1. pc' \in [Turns -> SendPoint]
      BY <2>1 DEF StopReturns, TypeOK, SendPoint
    <3>2. stop' = [stop EXCEPT ![t].phase = "done", ![t].abandoned = {}]
      BY <2>1 DEF StopReturns
    <3> DEFINE half == [stop EXCEPT ![t].phase = "done"]
    <3>3. half \in [Turns -> StopCall] /\ stop' = [half EXCEPT ![t].abandoned = {}]
      BY <3>2 DEF TypeOK, StopCall
    <3> HIDE DEF half
    <3>4. stop' \in [Turns -> StopCall]
      BY <3>3 DEF StopCall
    <3>5. QED
      BY <3>1, <3>4
  <2>6. QED
    BY <1>11, <2>2, <2>4, <2>5 DEF Interrupted, InterruptFails, TypeOK
<1>12. ASSUME NEW s \in Sessions, NEW t \in Turns, TurnCompleted(s, t)
       PROVE  TypeOK'
  <2> DEFINE settled == [x \in Sessions |-> IF x = cur THEN Settled(live[x], t) ELSE live[x]]
             log == Log(ev, "completed", {t})
  <2>1. settled \in [Sessions -> LiveSession]
    <3>1. \A x \in Sessions : live[x] \in LiveSession
      BY DEF TypeOK
    <3>2. \A x \in Sessions : Settled(live[x], t) \in LiveSession
      BY <3>1, SettledFacts
    <3>3. QED
      BY <3>1, <3>2
  <2>2. log \in [Turns -> SUBSET Event]
    <3>1. "completed" \in Event
      BY DEF Event
    <3>2. QED
      BY <3>1, LogFacts DEF TypeOK
  <2>3. Drain(settled, log, pc)
    BY <1>12 DEF TurnCompleted
  <2> HIDE DEF settled, log
  <2>4. /\ live' \in [Sessions -> LiveSession] /\ ev' \in [Turns -> SUBSET Event]
        /\ pc' \in [Turns -> SendPoint] /\ via' \in [Turns -> {"send", "drain"}]
    BY <2>1, <2>2, <2>3, DrainFacts DEF TypeOK
  <2>5. QED
    BY <1>12, <2>4 DEF TurnCompleted, TypeOK
<1>13. ASSUME NEW s \in Sessions, ProviderError(s)
       PROVE  TypeOK'
  <2> DEFINE freed == [live EXCEPT ![cur].active = NoTurn]
             log == Log(ev, "failed", {live[cur].active})
  <2>1. freed \in [Sessions -> LiveSession]
    BY DEF TypeOK, LiveSession
  <2>2. log \in [Turns -> SUBSET Event]
    <3>1. "failed" \in Event
      BY DEF Event
    <3>2. QED
      BY <3>1, LogFacts DEF TypeOK
  <2>3. Drain(freed, log, pc)
    BY <1>13 DEF ProviderError
  <2> HIDE DEF freed, log
  <2>4. /\ live' \in [Sessions -> LiveSession] /\ ev' \in [Turns -> SUBSET Event]
        /\ pc' \in [Turns -> SendPoint] /\ via' \in [Turns -> {"send", "drain"}]
    BY <2>1, <2>2, <2>3, DrainFacts DEF TypeOK
  <2>5. errors' \in 0..MaxErrors
    BY <1>13, BoundAssumption DEF ProviderError, TypeOK
  <2>6. QED
    BY <1>13, <2>4, <2>5 DEF ProviderError, TypeOK
<1>14. ASSUME NEW s \in Sessions, SessionExited(s)
       PROVE  TypeOK'
  BY <1>14 DEF SessionExited, TypeOK
<1>15. CASE Prewarm \/ PrewarmReady \/ PrewarmFails
  BY <1>15 DEF Prewarm, PrewarmReady, PrewarmFails, TypeOK
<1>16. ASSUME NEW s \in Sessions, ReapIdle(s) \/ EvictWarm(s)
       PROVE  TypeOK'
  BY <1>16 DEF ReapIdle, EvictWarm, DropSession, TypeOK
<1>21. ASSUME NEW t \in Turns, CheckpointThrows(t)
       PROVE  TypeOK'
  <2> DEFINE log == Log(ev, "failed", {t})
             point == [pc EXCEPT ![t] = "done"]
  <2>1. log \in [Turns -> SUBSET Event]
    <3>1. "failed" \in Event
      BY DEF Event
    <3>2. QED
      BY <3>1, LogFacts DEF TypeOK
  <2>2. point \in [Turns -> SendPoint]
    BY DEF TypeOK, SendPoint
  <2>3. \/ Drain(live, log, point)
        \/ pc' = point /\ UNCHANGED <<live, ev, via>>
    BY <1>21 DEF CheckpointThrows
  <2> HIDE DEF log, point
  <2>4. /\ live' \in [Sessions -> LiveSession] /\ ev' \in [Turns -> SUBSET Event]
        /\ pc' \in [Turns -> SendPoint] /\ via' \in [Turns -> {"send", "drain"}]
    BY <2>1, <2>2, <2>3, DrainFacts DEF TypeOK
  <2>5. QED
    BY <1>21, <2>4 DEF CheckpointThrows, TypeOK
<1>20. CASE SetPermissionMode
  BY <1>20 DEF SetPermissionMode, DropSession, TypeOK
<1>19. CASE SetProvider \/ ProviderSwitched
  BY <1>19 DEF SetProvider, ProviderSwitched, TypeOK
<1>17. CASE UNCHANGED vars
  BY <1>17 DEF vars, TypeOK
<1>18. QED
  BY <1>1, <1>2, <1>3, <1>4, <1>5, <1>6, <1>7, <1>8, <1>9, <1>10, <1>11, <1>12,
     <1>13, <1>14, <1>15, <1>16, <1>20, <1>21, <1>19, <1>17 DEF Next, Resume

(* Every variable keeps its type, in every behaviour. *)
THEOREM TypeCorrect == Spec => []TypeOK
BY TypeInit, TypeStep, PTL DEF Spec

-----------------------------------------------------------------------------
(* The inductive invariant, and what follows from it.                      *)

(* The events of one turn, before and after a step. *)
LogStep(old, new) ==
  \/ new = old
  \/ old = {} /\ new = {"queued"}
  \/ old \subseteq {"queued"} /\ new = old \cup {"started"}
  \/ old = {"queued"} /\ new = {"queued", "dequeued"}
  \/ "started" \in old /\ \E e \in Terminal : new = old \cup {e}

LogSteps == \A t \in Turns : LogStep(ev[t], ev'[t])

(* Only a turn that was at most queued reaches its checkpoint. *)
StartStep ==
  \A t \in Turns : pc[t] # "checkpoint" /\ pc'[t] = "checkpoint" => ev[t] \subseteq {"queued"}

-----------------------------------------------------------------------------
(* Queues as sets                                                          *)

(* A message typed behind the queue joins its set. *)
LEMMA AppendSet ==
  ASSUME NEW S, NEW q \in Seq(S), NEW x \in S
  PROVE  /\ ToSet(Append(q, x)) = ToSet(q) \cup {x}
         /\ IsInjective(q) /\ x \notin ToSet(q) => IsInjective(Append(q, x))
<1> DEFINE a == Append(q, x)
<1>1. /\ \A i \in DOMAIN q : i \in DOMAIN a /\ a[i] = q[i]
      /\ Len(q)+1 \in DOMAIN a /\ a[Len(q)+1] = x
      /\ \A i \in DOMAIN a : i \in DOMAIN q \/ i = Len(q)+1
  BY AppendProperties
<1> HIDE DEF a
<1>2. ToSet(a) = ToSet(q) \cup {x}
  BY <1>1 DEF ToSet
<1>3. ASSUME IsInjective(q), x \notin ToSet(q)
      PROVE  IsInjective(a)
  BY <1>1, <1>3 DEF IsInjective, ToSet
<1>4. QED
  BY <1>2, <1>3 DEF a

(* The head leaves the set, and it alone. *)
LEMMA TailSet ==
  ASSUME NEW S, NEW q \in Seq(S), q # <<>>, IsInjective(q)
  PROVE  /\ Head(q) \in ToSet(q)
         /\ ToSet(Tail(q)) = ToSet(q) \ {Head(q)}
         /\ IsInjective(Tail(q))
<1> DEFINE b == Tail(q)
           h == Head(q)
<1>1. /\ 1 \in DOMAIN q /\ h = q[1]
      /\ \A i \in DOMAIN b : i+1 \in DOMAIN q /\ b[i] = q[i+1] /\ i+1 # 1
      /\ \A i \in DOMAIN q : i # 1 => i-1 \in DOMAIN b /\ b[i-1] = q[i]
  BY TailFacts
<1>2. DOMAIN b \subseteq Nat
  BY TailFacts, LenProperties
<1> HIDE DEF b, h
<1>3. h \in ToSet(q)
  BY <1>1 DEF ToSet
<1>4. \A i \in DOMAIN q : i # 1 => q[i] # h
  BY <1>1 DEF IsInjective
<1>5. ToSet(b) = ToSet(q) \ {h}
  BY <1>1, <1>4 DEF ToSet
<1>6. IsInjective(b)
  BY <1>1, <1>2 DEF IsInjective
<1>7. QED
  BY <1>3, <1>5, <1>6 DEF b, h

(* A message taken out of the middle leaves the set, and it alone. *)
LEMMA RemoveAtSet ==
  ASSUME NEW S, NEW q \in Seq(S), NEW k \in DOMAIN q, IsInjective(q)
  PROVE  /\ ToSet(RemoveAt(q, k)) = ToSet(q) \ {q[k]}
         /\ IsInjective(RemoveAt(q, k))
<1> DEFINE b == RemoveAt(q, k)
           from(i) == IF i < k THEN i ELSE i+1
           to(i) == IF i < k THEN i ELSE i-1
<1>1. /\ \A i \in DOMAIN b : from(i) \in DOMAIN q /\ from(i) # k /\ b[i] = q[from(i)]
      /\ \A i \in DOMAIN q : i # k => to(i) \in DOMAIN b /\ b[to(i)] = q[i]
  BY RemoveAtFacts
<1>2. b \in Seq(S)
  BY RemoveAtFacts
<1>3. k \in Nat /\ \A i, j \in DOMAIN b : from(i) = from(j) => i = j
  <2>1. DOMAIN b \subseteq Nat /\ DOMAIN q \subseteq Nat
    BY <1>2, LenProperties
  <2>2. QED
    BY <2>1
<1> HIDE DEF b, from, to
<1>4. \A i \in DOMAIN q : i # k => q[i] # q[k]
  BY DEF IsInjective
<1>5. ToSet(b) = ToSet(q) \ {q[k]}
  BY <1>1, <1>4 DEF ToSet
<1>6. IsInjective(b)
  BY <1>1, <1>3 DEF IsInjective
<1>7. QED
  BY <1>5, <1>6 DEF b

(* The empty queue. *)
LEMMA EmptySet == ToSet(<<>>) = {} /\ IsInjective(<<>>)
BY EmptySeq DEF ToSet, IsInjective

-----------------------------------------------------------------------------
(* What every step keeps because it only moves turns forward.              *)

(* Two facts the log never forgets, and two that tie its events together. *)
LEMMA LogKeeps ==
  ASSUME TypeOK, LogMatchesSend, LogSteps, NEW t \in Turns
  PROVE  /\ "started" \in ev[t] => "started" \in ev'[t]
         /\ "dequeued" \in ev'[t] => ev'[t] = {"queued", "dequeued"}
         /\ ev'[t] \cap Terminal # {} => "started" \in ev'[t]
<1>1. LogStep(ev[t], ev'[t])
  BY DEF LogSteps
<1>2. /\ "dequeued" \in ev[t] => ev[t] = {"queued", "dequeued"}
      /\ ev[t] \cap Terminal # {} => "started" \in ev[t]
  BY DEF LogMatchesSend
<1>3. QED
  BY <1>1, <1>2 DEF LogStep, Terminal

(* An event committed for one turn. *)
LEMMA LogOne ==
  ASSUME NEW log \in [Turns -> SUBSET Event], NEW e \in Event, NEW t
  PROVE  /\ Log(log, e, {t}) \in [Turns -> SUBSET Event]
         /\ \A u \in Turns : Log(log, e, {t})[u] = IF u = t THEN log[u] \cup {e} ELSE log[u]
BY DEF Log

(* Queues hold turns. *)
LEMMA QueueTyped ==
  ASSUME TypeOK, NEW s \in Sessions
  PROVE  live[s].queued \in Seq(Turns) /\ ToSet(live[s].queued) \subseteq Turns
<1>1. live[s].queued \in Seq(Turns)
  BY DEF TypeOK, LiveSession
<1>2. QED
  BY <1>1, ElementOfSeq, LenProperties DEF ToSet

(* The queue and the Stops, when no message enters or leaves either. *)
LEMMA QueueFrame ==
  ASSUME QueuedInOnePlace,
         \A s \in Sessions : live'[s].queued = live[s].queued,
         \A u \in Turns : /\ stop'[u].abandoned = stop[u].abandoned
                          /\ stop'[u].phase = stop[u].phase,
         \A t \in Turns : pc[t] = "queued" =>
           pc'[t] = "queued" /\ ev'[t] = ev[t] /\ at'[t] = at[t],
         \A t \in Turns : pc'[t] = "queued" => pc[t] = "queued",
         TypeOK
  PROVE  QueuedInOnePlace'
<1>1. \A s \in Sessions : IsInjective(live'[s].queued)
  BY DEF QueuedInOnePlace
<1>2. \A s \in Sessions : \A t \in ToSet(live'[s].queued) :
        /\ Waits(t)' /\ at'[t] = s
        /\ \A u \in Turns : t \notin stop'[u].abandoned
  <2>1. \A s \in Sessions : ToSet(live[s].queued) \subseteq Turns
    BY QueueTyped
  <2>2. QED
    BY <2>1 DEF QueuedInOnePlace, Waits
<1>3. \A u \in Turns : \A t \in stop'[u].abandoned :
        /\ Waits(t)' /\ stop'[u].phase = "waiting"
        /\ \A v \in Turns : t \in stop'[v].abandoned => v = u
  <2>1. \A u \in Turns : stop[u].abandoned \subseteq Turns
    BY DEF TypeOK, StopCall
  <2>2. QED
    BY <2>1 DEF QueuedInOnePlace, Waits
<1>4. \A t \in Turns : pc'[t] = "queued" =>
        \/ \E s \in Sessions : t \in ToSet(live'[s].queued)
        \/ \E u \in Turns : t \in stop'[u].abandoned
  BY DEF QueuedInOnePlace
<1>5. QED
  BY <1>1, <1>2, <1>3, <1>4 DEF QueuedInOnePlace

(* drainQueue, entered after a handler freed the session and closed a turn:   *)
(* the head of the queue moves on, everything else stays where it was.        *)
LEMMA DrainKeeps ==
  ASSUME TypeOK, QueuedInOnePlace,
         NEW sessions \in [Sessions -> LiveSession],
         NEW log \in [Turns -> SUBSET Event],
         NEW points \in [Turns -> SendPoint],
         Drain(sessions, log, points), stop' = stop, at' = at,
         \A s \in Sessions : sessions[s].queued = live[s].queued,
         \A t \in Turns : \/ log[t] = ev[t]
                          \/ "started" \in ev[t] /\ \E e \in Terminal : log[t] = ev[t] \cup {e},
         \A t \in Turns : pc[t] = "queued" <=> points[t] = "queued"
  PROVE  /\ LogSteps /\ QueuedInOnePlace'
         /\ \A t \in Starting(sessions) :
              cur \in Sessions /\ Waits(t) /\ at[t] = cur /\ log[t] = ev[t]
<1>1. Starting(sessions) \subseteq Turns
  BY DrainFacts
<1>6. \A s \in Sessions : live'[s] = IF s = cur THEN Drained(sessions[s]) ELSE sessions[s]
  BY DEF Drain
<1>7. \A t \in Turns :
        /\ ev'[t] = IF t \in Starting(sessions) THEN log[t] \cup {"started"} ELSE log[t]
        /\ pc'[t] = IF t \in Starting(sessions) THEN "checkpoint" ELSE points[t]
  BY DEF Drain, Log
<1>2. ASSUME NEW t \in Starting(sessions)
      PROVE  /\ cur \in Sessions /\ live[cur].queued # <<>> /\ t = Head(live[cur].queued)
             /\ CanDrain(sessions[cur]) /\ t \in ToSet(live[cur].queued)
             /\ Waits(t) /\ at[t] = cur /\ log[t] = ev[t]
  <2>1. cur \in Sessions /\ CanDrain(sessions[cur]) /\ t = Head(sessions[cur].queued)
    BY DEF Starting, TypeOK
  <2>2. live[cur].queued # <<>> /\ t = Head(live[cur].queued)
    BY <2>1 DEF CanDrain
  <2>3. t \in ToSet(live[cur].queued)
    <3>1. live[cur].queued \in Seq(Turns) /\ IsInjective(live[cur].queued)
      BY <2>1, QueueTyped DEF QueuedInOnePlace
    <3>2. QED
      BY <2>2, <3>1, TailSet
  <2>4. Waits(t) /\ at[t] = cur
    BY <2>1, <2>3 DEF QueuedInOnePlace
  <2>5. log[t] = ev[t]
    BY <1>1, <1>6, <1>7, <2>4 DEF Waits
  <2>6. QED
    BY <2>1, <2>2, <2>3, <2>4, <2>5
<1>3. LogSteps
  <2> SUFFICES ASSUME NEW t \in Turns PROVE LogStep(ev[t], ev'[t])
    BY DEF LogSteps
  <2>1. CASE t \in Starting(sessions)
    <3>1. ev[t] = {"queued"} /\ ev'[t] = ev[t] \cup {"started"}
      BY <1>1, <1>6, <1>7, <1>2, <2>1 DEF Waits
    <3>2. QED
      BY <3>1 DEF LogStep
  <2>2. CASE t \notin Starting(sessions)
    BY <1>1, <1>6, <1>7, <2>2 DEF LogStep
  <2>3. QED
    BY <2>1, <2>2
<1>4. QueuedInOnePlace'
  <2>1. CASE Starting(sessions) = {}
    <3>1. \A s \in Sessions : live'[s].queued = live[s].queued
      <4>1. ASSUME NEW s \in Sessions, s = cur PROVE Drained(sessions[s]) = sessions[s]
        BY <2>1, <4>1, NullAssumption, DrainedFacts DEF Starting
      <4>2. QED
        BY <1>1, <1>6, <1>7, <4>1
    <3>2. \A t \in Turns : pc[t] = "queued" =>
            pc'[t] = "queued" /\ ev'[t] = ev[t] /\ at'[t] = at[t]
      <4>1. \A t \in Turns : pc[t] = "queued" => "started" \notin ev[t]
        BY DEF QueuedInOnePlace, Waits
      <4>2. QED
        BY <1>1, <1>6, <1>7, <2>1, <4>1
    <3>3. \A t \in Turns : pc'[t] = "queued" => pc[t] = "queued"
      BY <1>1, <1>6, <1>7, <2>1
    <3>4. QED
      BY <3>1, <3>2, <3>3, QueueFrame
  <2>2. ASSUME NEW h \in Starting(sessions)
        PROVE  QueuedInOnePlace'
    <3>1. /\ cur \in Sessions /\ h \in Turns /\ h \in ToSet(live[cur].queued)
          /\ Starting(sessions) = {h}
      BY <1>1, <1>6, <1>7, <1>2, <2>2 DEF Starting
    <3>2. live'[cur].queued = Tail(live[cur].queued)
      <4>1. CanDrain(sessions[cur]) /\ sessions[cur] \in LiveSession
        BY <1>2, <3>1
      <4>2. QED
        BY <1>1, <1>6, <1>7, <3>1, <4>1, DrainedFacts
    <3>3. /\ ToSet(live'[cur].queued) = ToSet(live[cur].queued) \ {h}
          /\ IsInjective(live'[cur].queued)
      <4>1. live[cur].queued \in Seq(Turns) /\ IsInjective(live[cur].queued)
        BY <3>1, QueueTyped DEF QueuedInOnePlace
      <4>2. live[cur].queued # <<>> /\ h = Head(live[cur].queued)
        BY <1>2, <2>2
      <4>3. QED
        BY <3>2, <4>1, <4>2, TailSet
    <3>4. \A s \in Sessions : s # cur => live'[s].queued = live[s].queued
      BY <1>1, <1>6, <1>7
    <3>5. \A t \in Turns : t # h /\ pc[t] = "queued" =>
            Waits(t)' /\ at'[t] = at[t]
      <4>1. \A t \in Turns : pc[t] = "queued" => Waits(t)
        BY DEF QueuedInOnePlace
      <4>2. QED
        BY <1>1, <1>6, <1>7, <3>1, <4>1 DEF Waits
    <3>6. ASSUME NEW t \in Turns, pc'[t] = "queued"
          PROVE  t # h /\ pc[t] = "queued"
      <4>1. t \notin Starting(sessions)
        BY <1>7, <3>6
      <4>2. pc'[t] = points[t]
        BY <1>7, <4>1
      <4>3. QED
        BY <2>2, <3>6, <4>1, <4>2
    <3>7. ASSUME NEW s \in Sessions, h \in ToSet(live[s].queued)
          PROVE  s = cur
      <4>1. at[h] = s
        BY <3>7 DEF QueuedInOnePlace
      <4>2. at[h] = cur
        BY <1>2, <2>2
      <4>3. QED
        BY <4>1, <4>2
    <3>8. \A u \in Turns : h \notin stop[u].abandoned
      BY <3>1 DEF QueuedInOnePlace
    <3>9. \A s \in Sessions : ToSet(live[s].queued) \subseteq Turns
      BY QueueTyped
    <3>10. \A u \in Turns : stop[u].abandoned \subseteq Turns
      BY DEF TypeOK, StopCall
    <3>11. \A s \in Sessions : ToSet(live'[s].queued) = ToSet(live[s].queued) \ {h}
      BY <3>3, <3>4, <3>7
    <3>12. \A s \in Sessions : IsInjective(live'[s].queued)
      BY <3>3, <3>4 DEF QueuedInOnePlace
    <3>13. ASSUME NEW s \in Sessions, NEW t \in ToSet(live'[s].queued)
           PROVE  /\ Waits(t)' /\ at'[t] = s
                  /\ \A u \in Turns : t \notin stop'[u].abandoned
      <4>1. t \in Turns /\ t \in ToSet(live[s].queued) /\ t # h
        BY <3>9, <3>11
      <4>2. pc[t] = "queued" /\ at[t] = s /\ \A u \in Turns : t \notin stop[u].abandoned
        BY <4>1 DEF QueuedInOnePlace, Waits
      <4>3. QED
        BY <3>5, <4>1, <4>2
    <3>14. \A u \in Turns : \A t \in stop'[u].abandoned :
             /\ Waits(t)' /\ stop'[u].phase = "waiting"
             /\ \A v \in Turns : t \in stop'[v].abandoned => v = u
      BY <3>5, <3>8, <3>10 DEF QueuedInOnePlace, Waits
    <3>15. ASSUME NEW t \in Turns, pc'[t] = "queued"
           PROVE  \/ \E s \in Sessions : t \in ToSet(live'[s].queued)
                  \/ \E u \in Turns : t \in stop'[u].abandoned
      <4>1. t # h /\ pc[t] = "queued"
        BY <3>6, <3>15
      <4>2. \/ \E s \in Sessions : t \in ToSet(live[s].queued)
            \/ \E u \in Turns : t \in stop[u].abandoned
        BY <4>1 DEF QueuedInOnePlace
      <4>3. QED
        BY <3>11, <4>1, <4>2
    <3>16. QED
      BY <3>12, <3>13, <3>14, <3>15 DEF QueuedInOnePlace
  <2>3. QED
    BY <2>1, <2>2
<1>5. QED
  BY <1>2, <1>3, <1>4

-----------------------------------------------------------------------------
(* One lemma per part of the invariant: what a step owes that part.         *)

(* The log and the sends move together. *)
LEMMA LogMatchesSendKept ==
  ASSUME TypeOK, LogMatchesSend, LogSteps,
         \A t \in Turns : pc'[t] \in {"idle", "ensuring", "writing"} => ev'[t] = {},
         \A t \in Turns : pc'[t] \in {"checkpoint", "sending"} =>
           pc[t] \in {"checkpoint", "sending"} \/ "started" \in ev'[t]
  PROVE  LogMatchesSend'
<1> SUFFICES ASSUME NEW t \in Turns
             PROVE  /\ pc'[t] \in {"idle", "ensuring", "writing"} => ev'[t] = {}
                    /\ pc'[t] \in {"checkpoint", "sending"} => "started" \in ev'[t]
                    /\ "dequeued" \in ev'[t] => ev'[t] = {"queued", "dequeued"}
                    /\ ev'[t] \cap Terminal # {} => "started" \in ev'[t]
  BY DEF LogMatchesSend
<1>1. /\ "started" \in ev[t] => "started" \in ev'[t]
      /\ "dequeued" \in ev'[t] => ev'[t] = {"queued", "dequeued"}
      /\ ev'[t] \cap Terminal # {} => "started" \in ev'[t]
  BY LogKeeps
<1>2. pc[t] \in {"checkpoint", "sending"} => "started" \in ev[t]
  BY DEF LogMatchesSend
<1>3. QED
  BY <1>1, <1>2

(* A session that exists stays in existence, and one that does not is blank. *)
LEMMA SessionsExistKept ==
  ASSUME SessionsExist,
         \A s \in Sessions : up'[s] = "none" =>
           up[s] = "none" /\ live'[s] = live[s] /\ handed'[s] = handed[s],
         cur' # NoSession => cur' = cur \/ up'[cur'] # "none",
         cur' \in Sessions \cup {NoSession},
         \A t \in Turns : at'[t] = at[t] \/ (at'[t] # NoSession /\ up'[at'[t]] # "none"),
         \A t \in Turns : pc'[t] \in {"writing", "checkpoint", "sending"} =>
           pc[t] \in {"writing", "checkpoint", "sending"} \/ at'[t] # NoSession,
         TypeOK
  PROVE  SessionsExist'
<1>1. cur' # NoSession => up'[cur'] # "none"
  BY DEF SessionsExist
<1>2. \A t \in Turns : pc'[t] \in {"writing", "checkpoint", "sending"} => at'[t] # NoSession
  BY DEF SessionsExist
<1>3. ASSUME NEW t \in Turns, at'[t] # NoSession
      PROVE  up'[at'[t]] # "none"
  <2>1. CASE at'[t] = at[t]
    <3>1. at[t] \in Sessions /\ up[at[t]] # "none"
      BY <1>3, <2>1 DEF SessionsExist, TypeOK
    <3>2. QED
      BY <2>1, <3>1
  <2>2. QED
    BY <2>1
<1>4. \A s \in Sessions : up'[s] = "none" => live'[s] = FreshSession /\ handed'[s] = {}
  BY DEF SessionsExist
<1>5. QED
  BY <1>1, <1>2, <1>3, <1>4 DEF SessionsExist, FreshSession

(* Stops, providers and sessions go on pointing at turns started there. *)
LEMMA PointersKept ==
  ASSUME PointersAreStarted, TypeOK, LogMatchesSend, LogSteps,
         \A t \in Turns : stop'[t].phase = "waiting" =>
           \/ stop[t].phase = "waiting" /\ stop'[t].on = stop[t].on
           \/ stop'[t].on = at[t] /\ at[t] # NoSession /\ "started" \in ev[t],
         \A t \in Turns : "started" \in ev[t] => at'[t] = at[t],
         \A s \in Sessions : \A t \in handed'[s] : t \in handed[s] \/ "started" \in ev'[t],
         \A s \in Sessions : live'[s].active # NoTurn =>
           \/ live'[s].active = live[s].active
           \/ at'[live'[s].active] = s /\ "started" \in ev'[live'[s].active]
  PROVE  PointersAreStarted'
<1>1. \A t \in Turns : "started" \in ev[t] => "started" \in ev'[t]
  BY LogKeeps
<1>2. ASSUME NEW t \in Turns, stop'[t].phase = "waiting"
      PROVE  stop'[t].on = at'[t] /\ at'[t] # NoSession /\ "started" \in ev'[t]
  <2>1. stop'[t].on = at[t] /\ at[t] # NoSession /\ "started" \in ev[t]
    BY <1>2 DEF PointersAreStarted
  <2>2. QED
    BY <1>1, <2>1
<1>3. ASSUME NEW s \in Sessions, NEW t \in handed'[s]
      PROVE  "started" \in ev'[t]
  <2>1. handed[s] \subseteq Turns
    BY DEF TypeOK
  <2>2. t \in handed[s] => "started" \in ev[t]
    BY DEF PointersAreStarted
  <2>3. QED
    BY <1>1, <2>1, <2>2
<1>4. ASSUME NEW s \in Sessions, live'[s].active # NoTurn
      PROVE  at'[live'[s].active] = s /\ "started" \in ev'[live'[s].active]
  <2>1. CASE live'[s].active = live[s].active
    <3>1. live[s].active \in Turns
      BY <1>4, <2>1 DEF TypeOK, LiveSession
    <3>2. at[live[s].active] = s /\ "started" \in ev[live[s].active]
      BY <1>4, <2>1 DEF PointersAreStarted
    <3>3. QED
      BY <1>1, <2>1, <3>1, <3>2
  <2>2. QED
    BY <1>4, <2>1
<1>5. QED
  BY <1>2, <1>3, <1>4 DEF PointersAreStarted

(* The running turn of the thread is still open. *)
LEMMA ActiveKept ==
  ASSUME ActiveIsOpen, TypeOK, LogMatchesSend, LogSteps,
         cur' # NoSession /\ live'[cur'].active # NoTurn =>
           \/ /\ cur' = cur /\ live'[cur].active = live[cur].active
              /\ ev'[live[cur].active] \cap Terminal \subseteq ev[live[cur].active]
           \/ /\ "started" \in ev'[live'[cur'].active]
              /\ ev'[live'[cur'].active] \cap Terminal = {}
  PROVE  ActiveIsOpen'
<1>1. \A t \in Turns : "started" \in ev[t] => "started" \in ev'[t]
  BY LogKeeps
<1> SUFFICES ASSUME cur' # NoSession, live'[cur'].active # NoTurn
             PROVE  /\ "started" \in ev'[live'[cur'].active]
                    /\ ev'[live'[cur'].active] \cap Terminal = {}
  BY DEF ActiveIsOpen
<1>2. CASE /\ cur' = cur /\ live'[cur].active = live[cur].active
           /\ ev'[live[cur].active] \cap Terminal \subseteq ev[live[cur].active]
  <2>1. live[cur].active \in Turns
    BY <1>2 DEF TypeOK, LiveSession
  <2>2. "started" \in ev[live[cur].active] /\ ev[live[cur].active] \cap Terminal = {}
    BY <1>2 DEF ActiveIsOpen
  <2>3. "started" \in ev'[live[cur].active]
    BY <1>1, <2>1, <2>2
  <2>4. QED
    BY <1>2, <2>2, <2>3
<1>3. QED
  BY <1>2

-----------------------------------------------------------------------------
(* The actions                                                             *)

(* What a step has to show. *)
Kept == IInv' /\ LogSteps /\ StartStep

(* Handlers that touch neither the log, the queues nor a Stop: they suspend  *)
(* or resume a call, hand a turn to the provider, or start and stop sessions. *)
LEMMA QuietKeeps ==
  ASSUME IInv, TypeOK', ev' = ev, stop' = stop, at' = at,
         \A s \in Sessions : /\ live'[s].active = live[s].active
                             /\ live'[s].stopping = live[s].stopping
                             /\ live'[s].queued = live[s].queued,
         \A s \in Sessions : up'[s] = "none" =>
           up[s] = "none" /\ live'[s] = live[s] /\ handed'[s] = handed[s],
         \A s \in Sessions : \A t \in handed'[s] : t \in handed[s] \/ "started" \in ev[t],
         \/ cur' = cur \/ cur' = NoSession
         \/ up[cur'] = "none" /\ up'[cur'] # "none",
         \A t \in Turns :
           \/ pc'[t] = pc[t]
           \/ pc[t] = "idle" /\ pc'[t] = "ensuring"
           \/ pc[t] = "checkpoint" /\ pc'[t] = "sending"
           \/ pc[t] # "queued" /\ pc'[t] = "done"
  PROVE  Kept
<1> USE DEF IInv, OpenUnlessLost
<1>1. LogSteps
  BY DEF LogSteps, LogStep
<1>2. StartStep
  BY DEF StartStep
<1>3. LogMatchesSend'
  <2>1. ASSUME NEW t \in Turns
        PROVE  /\ pc'[t] \in {"idle", "ensuring", "writing"} => ev'[t] = {}
               /\ pc'[t] \in {"checkpoint", "sending"} => pc[t] \in {"checkpoint", "sending"}
    BY DEF LogMatchesSend
  <2>2. QED
    BY <1>1, <2>1, LogMatchesSendKept
<1>4. SessionsExist'
  <2>1. cur' \in Sessions \cup {NoSession}
    BY DEF TypeOK
  <2>2. cur' # NoSession => cur' = cur \/ up'[cur'] # "none"
    OBVIOUS
  <2>3. \A t \in Turns : pc'[t] \in {"writing", "checkpoint", "sending"} =>
          pc[t] \in {"writing", "checkpoint", "sending"} \/ at'[t] # NoSession
    OBVIOUS
  <2>4. \A t \in Turns : at'[t] = at[t] \/ (at'[t] # NoSession /\ up'[at'[t]] # "none")
    OBVIOUS
  <2>5. TypeOK /\ SessionsExist
    OBVIOUS
  <2> HIDE DEF IInv, OpenUnlessLost
  <2>6. QED
    BY <2>1, <2>2, <2>3, <2>4, <2>5, SessionsExistKept
<1>5. PointersAreStarted'
  BY <1>1, PointersKept DEF PointersAreStarted
<1>6. ASSUME LostTurns = {}
      PROVE  ActiveIsOpen'
  <2>1. ASSUME cur' # NoSession, live'[cur'].active # NoTurn
        PROVE  cur' = cur
    <3>1. CASE up[cur'] = "none" /\ cur' \in Sessions
      BY <2>1, <3>1 DEF SessionsExist, FreshSession
    <3>2. QED
      BY <2>1, <3>1 DEF TypeOK
  <2>2. ASSUME cur' # NoSession, live'[cur'].active # NoTurn
        PROVE  live'[cur].active = live[cur].active
    <3>1. cur \in Sessions
      BY <2>1, <2>2 DEF TypeOK
    <3>2. QED
      BY <3>1
  <2>3. QED
    BY <1>6, <1>1, <2>1, <2>2, ActiveKept
<1>7. StoppingMatches'
  BY DEF StoppingMatches
<1>8. QueuedInOnePlace'
  BY QueueFrame
<1>9. QED
  BY <1>1, <1>2, <1>3, <1>4, <1>5, <1>6, <1>7, <1>8 DEF Kept

(* A turn starts on a free session, by a send that has its session object. *)
LEMMA StartKeeps ==
  ASSUME IInv, TypeOK', NEW t \in Turns, NEW s \in Sessions, Start(t, s),
         pc[t] \in {"idle", "ensuring", "writing"},
         cur' = cur \/ (cur' = s /\ up[s] = "none"),
         up'[s] # "none",
         \A x \in Sessions : up'[x] = "none" => up[x] = "none",
         handed' = handed, stop' = stop
  PROVE  Kept
<1> USE DEF IInv, OpenUnlessLost
<1>1. ev[t] = {}
  BY DEF LogMatchesSend
<1>2. /\ live'[s].active = t /\ live'[s].stopping = NoTurn
      /\ live'[s].queued = live[s].queued
      /\ \A x \in Sessions : x # s => live'[x] = live[x]
  <2>1. live[s] \in LiveSession /\ live' = [live EXCEPT ![s] = Begin(live[s], t)]
    BY DEF TypeOK, Start
  <2>2. live'[s] = Begin(live[s], t) /\ \A x \in Sessions : x # s => live'[x] = live[x]
    BY <2>1 DEF TypeOK
  <2>3. QED
    BY <2>1, <2>2, BeginFacts
<1>3. \A u \in Turns : ev'[u] = IF u = t THEN {"started"} ELSE ev[u]
  BY <1>1 DEF Start, Log
<1>4. \A u \in Turns : /\ pc'[u] = IF u = t THEN "checkpoint" ELSE pc[u]
                       /\ at'[u] = IF u = t THEN s ELSE at[u]
  BY DEF Start, TypeOK
<1>5. LogSteps
  BY <1>1, <1>3 DEF LogSteps, LogStep
<1>6. StartStep
  BY <1>1, <1>4 DEF StartStep
<1>7. s # NoSession
  BY NullAssumption
<1>8. LogMatchesSend'
  <2>1. \A u \in Turns : pc'[u] \in {"idle", "ensuring", "writing"} => ev'[u] = {}
    BY <1>3, <1>4 DEF LogMatchesSend
  <2>2. \A u \in Turns : pc'[u] \in {"checkpoint", "sending"} =>
          pc[u] \in {"checkpoint", "sending"} \/ "started" \in ev'[u]
    BY <1>3, <1>4
  <2>3. QED
    BY <1>5, <2>1, <2>2, LogMatchesSendKept
<1>9. SessionsExist'
  <2>1. \A x \in Sessions : up'[x] = "none" =>
          up[x] = "none" /\ live'[x] = live[x] /\ handed'[x] = handed[x]
    BY <1>2
  <2>2. cur' # NoSession => cur' = cur \/ up'[cur'] # "none"
    OBVIOUS
  <2>3. cur' \in Sessions \cup {NoSession}
    BY DEF TypeOK
  <2>4. \A u \in Turns : at'[u] = at[u] \/ (at'[u] # NoSession /\ up'[at'[u]] # "none")
    BY <1>4, <1>7
  <2>5. \A u \in Turns : pc'[u] \in {"writing", "checkpoint", "sending"} =>
          pc[u] \in {"writing", "checkpoint", "sending"} \/ at'[u] # NoSession
    BY <1>4, <1>7
  <2>6. QED
    BY <2>1, <2>2, <2>3, <2>4, <2>5, SessionsExistKept
<1>10. PointersAreStarted'
  <2>1. \A u \in Turns : "started" \in ev[u] => at'[u] = at[u]
    BY <1>1, <1>4
  <2>2. \A x \in Sessions : live'[x].active # NoTurn =>
          \/ live'[x].active = live[x].active
          \/ at'[live'[x].active] = x /\ "started" \in ev'[live'[x].active]
    BY <1>2, <1>3, <1>4
  <2>3. \A x \in Sessions : \A u \in handed'[x] : u \in handed[x] \/ "started" \in ev'[u]
    OBVIOUS
  <2>4. \A u \in Turns : stop'[u].phase = "waiting" =>
          \/ stop[u].phase = "waiting" /\ stop'[u].on = stop[u].on
          \/ stop'[u].on = at[u] /\ at[u] # NoSession /\ "started" \in ev[u]
    OBVIOUS
  <2>5. QED
    BY <1>5, <2>1, <2>2, <2>3, <2>4, PointersKept
<1>11. ASSUME LostTurns = {}
       PROVE  ActiveIsOpen'
  <2>1. CASE cur' = s
    BY <1>11, <1>2, <1>3, <1>5, <2>1, ActiveKept DEF Terminal
  <2>2. CASE cur' = cur /\ cur # s
    <3>1. ASSUME cur' # NoSession, live'[cur'].active # NoTurn
          PROVE  /\ live'[cur].active = live[cur].active
                 /\ ev'[live[cur].active] \cap Terminal \subseteq ev[live[cur].active]
      <4>1. cur \in Sessions /\ live'[cur] = live[cur]
        BY <1>2, <2>2, <3>1 DEF TypeOK
      <4>2. live[cur].active \in Turns
        BY <2>2, <3>1, <4>1 DEF TypeOK, LiveSession
      <4>3. live[cur].active # t
        BY <1>11, <1>1, <2>2, <3>1, <4>1 DEF ActiveIsOpen
      <4>4. QED
        BY <1>3, <4>1, <4>2, <4>3
    <3>2. QED
      BY <1>11, <1>5, <2>2, <3>1, ActiveKept
  <2>3. QED
    BY <2>1, <2>2
<1>12. StoppingMatches'
  BY <1>2 DEF StoppingMatches
<1>13. QueuedInOnePlace'
  <2>1. \A x \in Sessions : live'[x].queued = live[x].queued
    BY <1>2
  <2>2. \A u \in Turns : pc[u] = "queued" =>
          pc'[u] = "queued" /\ ev'[u] = ev[u] /\ at'[u] = at[u]
    BY <1>3, <1>4
  <2>3. \A u \in Turns : pc'[u] = "queued" => pc[u] = "queued"
    BY <1>4
  <2>4. QED
    BY <2>1, <2>2, <2>3, QueueFrame
<1>14. QED
  BY <1>5, <1>6, <1>8, <1>9, <1>10, <1>11, <1>12, <1>13 DEF Kept

(* A send joins the queue of the busy session it holds. *)
LEMMA EnqueueKeeps ==
  ASSUME IInv, TypeOK', NEW t \in Turns, NEW s \in Sessions, Enqueue(t, s),
         pc[t] \in {"idle", "ensuring"},
         cur' = s, cur = s \/ up[s] = "none",
         up'[s] # "none",
         \A x \in Sessions : up'[x] = "none" => up[x] = "none",
         handed' = handed, stop' = stop
  PROVE  Kept
<1> USE DEF IInv, OpenUnlessLost
<1>1. ev[t] = {}
  BY DEF LogMatchesSend
<1>2. /\ live'[s].active = live[s].active /\ live'[s].stopping = live[s].stopping
      /\ live'[s].queued = Append(live[s].queued, t)
      /\ \A x \in Sessions : x # s => live'[x] = live[x]
  BY DEF Enqueue, TypeOK, LiveSession
<1>3. \A u \in Turns : ev'[u] = IF u = t THEN {"queued"} ELSE ev[u]
  BY <1>1 DEF Enqueue, Log
<1>4. \A u \in Turns : /\ pc'[u] = IF u = t THEN "queued" ELSE pc[u]
                       /\ at'[u] = IF u = t THEN s ELSE at[u]
  BY DEF Enqueue, TypeOK
<1>5. LogSteps
  BY <1>1, <1>3 DEF LogSteps, LogStep
<1>6. StartStep
  BY <1>4 DEF StartStep
<1>7. s # NoSession
  BY NullAssumption
<1>8. cur = s
  BY DEF Enqueue, SessionsExist, FreshSession
<1>9. LogMatchesSend'
  <2>1. \A u \in Turns : pc'[u] \in {"idle", "ensuring", "writing"} => ev'[u] = {}
    BY <1>3, <1>4 DEF LogMatchesSend
  <2>2. \A u \in Turns : pc'[u] \in {"checkpoint", "sending"} =>
          pc[u] \in {"checkpoint", "sending"} \/ "started" \in ev'[u]
    BY <1>3, <1>4
  <2>3. QED
    BY <1>5, <2>1, <2>2, LogMatchesSendKept
<1>10. SessionsExist'
  <2>1. \A x \in Sessions : up'[x] = "none" =>
          up[x] = "none" /\ live'[x] = live[x] /\ handed'[x] = handed[x]
    BY <1>2
  <2>2. cur' \in Sessions \cup {NoSession}
    OBVIOUS
  <2>3. \A u \in Turns : at'[u] = at[u] \/ (at'[u] # NoSession /\ up'[at'[u]] # "none")
    BY <1>4, <1>7
  <2>4. \A u \in Turns : pc'[u] \in {"writing", "checkpoint", "sending"} =>
          pc[u] \in {"writing", "checkpoint", "sending"} \/ at'[u] # NoSession
    BY <1>4, <1>7
  <2>5. QED
    BY <1>8, <2>1, <2>2, <2>3, <2>4, SessionsExistKept
<1>11. PointersAreStarted'
  <2>1. \A u \in Turns : "started" \in ev[u] => at'[u] = at[u]
    BY <1>1, <1>4
  <2>2. \A x \in Sessions : live'[x].active = live[x].active
    BY <1>2
  <2>3. QED
    BY <1>5, <2>1, <2>2, PointersKept
<1>12. ASSUME LostTurns = {}
       PROVE  ActiveIsOpen'
  <2>1. live[s].active # t
    BY <1>12, <1>1, <1>7, <1>8 DEF Enqueue, ActiveIsOpen
  <2>2. live[s].active \in Turns
    BY DEF Enqueue, TypeOK, LiveSession
  <2>3. QED
    BY <1>12, <1>2, <1>3, <1>5, <1>8, <2>1, <2>2, ActiveKept
<1>13. StoppingMatches'
  BY <1>2 DEF StoppingMatches
<1>14. QueuedInOnePlace'
  <2>1. /\ \A x \in Sessions : t \notin ToSet(live[x].queued)
        /\ \A u \in Turns : t \notin stop[u].abandoned
    BY <1>1 DEF QueuedInOnePlace, Waits
  <2>2. /\ \A x \in Sessions : ToSet(live[x].queued) \subseteq Turns
        /\ \A u \in Turns : stop[u].abandoned \subseteq Turns
    BY QueueTyped DEF TypeOK, StopCall
  <2>3. /\ ToSet(live'[s].queued) = ToSet(live[s].queued) \cup {t}
        /\ IsInjective(live'[s].queued)
    <3>1. live[s].queued \in Seq(Turns) /\ IsInjective(live[s].queued)
      BY QueueTyped DEF QueuedInOnePlace
    <3>2. QED
      BY <1>2, <2>1, <3>1, AppendSet
  <2>4. \A u \in Turns : u # t => ev'[u] = ev[u] /\ pc'[u] = pc[u] /\ at'[u] = at[u]
    BY <1>3, <1>4
  <2>5. Waits(t)' /\ at'[t] = s
    BY <1>3, <1>4 DEF Waits
  <2>6. \A x \in Sessions : IsInjective(live'[x].queued)
    BY <1>2, <2>3 DEF QueuedInOnePlace
  <2>7. ASSUME NEW x \in Sessions, NEW u \in ToSet(live'[x].queued)
        PROVE  /\ Waits(u)' /\ at'[u] = x
               /\ \A v \in Turns : u \notin stop'[v].abandoned
    <3>1. CASE u = t
      <4>1. x = s
        BY <1>2, <2>1, <2>7, <3>1
      <4>2. QED
        BY <2>1, <2>5, <3>1, <4>1
    <3>2. CASE u # t
      <4>1. u \in ToSet(live[x].queued) /\ u \in Turns
        BY <1>2, <2>2, <2>3, <2>7, <3>2
      <4>2. Waits(u) /\ at[u] = x /\ \A v \in Turns : u \notin stop[v].abandoned
        BY <4>1 DEF QueuedInOnePlace
      <4>3. QED
        BY <2>4, <3>2, <4>1, <4>2 DEF Waits
    <3>3. QED
      BY <3>1, <3>2
  <2>8. \A v \in Turns : \A u \in stop'[v].abandoned :
          /\ Waits(u)' /\ stop'[v].phase = "waiting"
          /\ \A w \in Turns : u \in stop'[w].abandoned => w = v
    BY <2>1, <2>2, <2>4 DEF QueuedInOnePlace, Waits
  <2>9. ASSUME NEW u \in Turns, pc'[u] = "queued"
        PROVE  \/ \E x \in Sessions : u \in ToSet(live'[x].queued)
               \/ \E v \in Turns : u \in stop'[v].abandoned
    <3>1. CASE u = t
      BY <2>3, <3>1
    <3>2. CASE u # t
      <4>1. \/ \E x \in Sessions : u \in ToSet(live[x].queued)
            \/ \E v \in Turns : u \in stop[v].abandoned
        BY <1>4, <2>9, <3>2 DEF QueuedInOnePlace
      <4>2. QED
        BY <1>2, <2>3, <4>1
    <3>3. QED
      BY <3>1, <3>2
  <2>10. QED
    BY <2>6, <2>7, <2>8, <2>9 DEF QueuedInOnePlace
<1>15. QED
  BY <1>5, <1>6, <1>9, <1>10, <1>11, <1>12, <1>13, <1>14 DEF Kept

(* The rest of sendTurn up to its next await, whatever it finds. *)
LEMMA HasSessionKeeps ==
  ASSUME IInv, TypeOK', NEW t \in Turns, NEW s \in Sessions, HasSession(t, s),
         pc[t] \in {"idle", "ensuring"},
         cur' = s, cur = s \/ up[s] = "none",
         up'[s] # "none",
         \A x \in Sessions : up'[x] = "none" => up[x] = "none",
         handed' = handed, stop' = stop
  PROVE  Kept
<1>1. CASE Enqueue(t, s)
  BY <1>1, EnqueueKeeps
<1>2. CASE Start(t, s)
  <2>1. cur' = cur \/ (cur' = s /\ up[s] = "none")
    OBVIOUS
  <2>2. QED
    BY <1>2, <2>1, StartKeeps
<1>3. ASSUME pc' = [pc EXCEPT ![t] = "writing"], at' = [at EXCEPT ![t] = s],
             live' = live, ev' = ev
      PROVE  Kept
  <2> USE DEF IInv, OpenUnlessLost
  <2>1. ev[t] = {}
    BY DEF LogMatchesSend
  <2>2. \A u \in Turns : /\ pc'[u] = IF u = t THEN "writing" ELSE pc[u]
                         /\ at'[u] = IF u = t THEN s ELSE at[u]
    BY <1>3 DEF TypeOK
  <2>3. LogSteps
    BY <1>3 DEF LogSteps, LogStep
  <2>4. StartStep
    BY <2>2 DEF StartStep
  <2>5. s # NoSession
    BY NullAssumption
  <2>6. LogMatchesSend'
    <3>1. \A u \in Turns : pc'[u] \in {"idle", "ensuring", "writing"} => ev'[u] = {}
      BY <1>3, <2>1, <2>2 DEF LogMatchesSend
    <3>2. \A u \in Turns : pc'[u] \in {"checkpoint", "sending"} =>
            pc[u] \in {"checkpoint", "sending"} \/ "started" \in ev'[u]
      BY <2>2
    <3>3. QED
      BY <2>3, <3>1, <3>2, LogMatchesSendKept
  <2>7. SessionsExist'
    <3>1. cur' # NoSession => cur' = cur \/ up'[cur'] # "none"
      OBVIOUS
    <3>2. \A x \in Sessions : up'[x] = "none" =>
            up[x] = "none" /\ live'[x] = live[x] /\ handed'[x] = handed[x]
      BY <1>3
    <3>3. \A u \in Turns : at'[u] = at[u] \/ (at'[u] # NoSession /\ up'[at'[u]] # "none")
      BY <2>2, <2>5
    <3>4. \A u \in Turns : pc'[u] \in {"writing", "checkpoint", "sending"} =>
            pc[u] \in {"writing", "checkpoint", "sending"} \/ at'[u] # NoSession
      BY <2>2, <2>5
    <3>5. QED
      BY <3>1, <3>2, <3>3, <3>4, SessionsExistKept
  <2>8. PointersAreStarted'
    <3>1. \A u \in Turns : "started" \in ev[u] => at'[u] = at[u]
      BY <2>1, <2>2
    <3>2. QED
      BY <1>3, <2>3, <3>1, PointersKept
  <2>9. ASSUME LostTurns = {}
        PROVE  ActiveIsOpen'
    <3>1. CASE cur' = cur
      BY <1>3, <2>3, <2>9, <3>1, ActiveKept
    <3>2. CASE up[s] = "none"
      BY <1>3, <2>3, <2>9, <3>2, ActiveKept DEF SessionsExist, FreshSession
    <3>3. QED
      BY <3>1, <3>2
  <2>10. StoppingMatches'
    BY <1>3 DEF StoppingMatches
  <2>11. QueuedInOnePlace'
    <3>1. \A u \in Turns : pc[u] = "queued" =>
            pc'[u] = "queued" /\ ev'[u] = ev[u] /\ at'[u] = at[u]
      BY <1>3, <2>2
    <3>2. \A u \in Turns : pc'[u] = "queued" => pc[u] = "queued"
      BY <2>2
    <3>3. QED
      BY <1>3, <3>1, <3>2, QueueFrame
  <2>12. QED
    BY <2>3, <2>4, <2>6, <2>7, <2>8, <2>9, <2>10, <2>11 DEF Kept
<1>4. QED
  BY <1>1, <1>2, <1>3 DEF HasSession

(* A handler that frees sessions of turns it closes, with or without the     *)
(* drainQueue that may follow.                                               *)
LEMMA FreeingKeeps ==
  ASSUME IInv, TypeOK',
         NEW sessions \in [Sessions -> LiveSession],
         NEW log \in [Turns -> SUBSET Event],
         NEW points \in [Turns -> SendPoint],
         \/ Drain(sessions, log, points)
         \/ live' = sessions /\ ev' = log /\ pc' = points,
         cur' = cur, up' = up, at' = at, stop' = stop,
         \A s \in Sessions : \A t \in handed'[s] : t \in handed[s],
         \A s \in Sessions :
           /\ sessions[s].queued = live[s].queued
           /\ sessions[s].active \in {live[s].active, NoTurn}
           /\ sessions[s].stopping \in {live[s].stopping, NoTurn}
           /\ up[s] = "none" => sessions[s] = live[s],
         \A t \in Turns : \/ log[t] = ev[t]
                          \/ "started" \in ev[t] /\ \E e \in Terminal : log[t] = ev[t] \cup {e},
         \A t \in Turns : \/ points[t] = pc[t]
                          \/ pc[t] \in {"checkpoint", "sending"} /\ points[t] = "done",
         LostTurns = {} /\ cur # NoSession /\ sessions[cur].active # NoTurn =>
           log[sessions[cur].active] = ev[sessions[cur].active]
  PROVE  Kept
<1> USE DEF IInv, OpenUnlessLost
<1>1. \A t \in Turns : pc[t] = "queued" <=> points[t] = "queued"
  OBVIOUS
<1>2. LogSteps /\ QueuedInOnePlace'
  <2>1. \A s \in Sessions : sessions[s].queued = live[s].queued
    OBVIOUS
  <2>2. CASE Drain(sessions, log, points)
    BY <1>1, <2>1, <2>2, DrainKeeps
  <2>3. CASE live' = sessions /\ ev' = log /\ pc' = points
    <3>1. LogSteps
      BY <2>3 DEF LogSteps, LogStep
    <3>2. \A t \in Turns : pc[t] = "queued" =>
            pc'[t] = "queued" /\ ev'[t] = ev[t] /\ at'[t] = at[t]
      <4>1. \A t \in Turns : pc[t] = "queued" => "started" \notin ev[t]
        BY DEF QueuedInOnePlace, Waits
      <4>2. QED
        BY <1>1, <2>3, <4>1
    <3>3. \A t \in Turns : pc'[t] = "queued" => pc[t] = "queued"
      BY <1>1, <2>3
    <3>4. QED
      BY <2>1, <2>3, <3>1, <3>2, <3>3, QueueFrame
  <2>4. QED
    BY <2>2, <2>3
<1>3. ASSUME NEW t \in Turns
      PROVE  \/ ev'[t] = log[t] /\ pc'[t] = points[t]
             \/ /\ pc'[t] = "checkpoint" /\ ev[t] = {"queued"}
                /\ ev'[t] = {"queued", "started"}
                /\ at[t] = cur /\ cur # NoSession
  <2>1. CASE Drain(sessions, log, points) /\ t \in Starting(sessions)
    <3>1. cur \in Sessions /\ Waits(t) /\ at[t] = cur /\ log[t] = ev[t]
      <4>1. \A s \in Sessions : sessions[s].queued = live[s].queued
        OBVIOUS
      <4>2. QED
        BY <1>1, <2>1, <4>1, DrainKeeps
    <3>2. ev'[t] = log[t] \cup {"started"} /\ pc'[t] = "checkpoint"
      BY <2>1 DEF Drain, Log
    <3>3. QED
      BY <3>1, <3>2, NullAssumption DEF Waits
  <2>2. CASE Drain(sessions, log, points) /\ t \notin Starting(sessions)
    BY <2>2 DEF Drain, Log
  <2>3. QED
    BY <2>1, <2>2
<1>4. ASSUME NEW s \in Sessions
      PROVE  \/ live'[s] = sessions[s]
             \/ /\ s = cur /\ live'[s].stopping = NoTurn
                /\ live'[s].active \in Turns /\ at[live'[s].active] = s
                /\ ev'[live'[s].active] = {"queued", "started"}
  <2>1. CASE Drain(sessions, log, points) /\ s = cur /\ CanDrain(sessions[s])
    <3> DEFINE h == Head(sessions[s].queued)
    <3>1. h \in Starting(sessions)
      BY <2>1, NullAssumption DEF Starting
    <3>2. live'[s].active = h /\ live'[s].stopping = NoTurn /\ h \in Turns
      BY <2>1, DrainedFacts DEF Drain
    <3> HIDE DEF h
    <3>3. Waits(h) /\ at[h] = cur /\ log[h] = ev[h]
      <4>1. \A x \in Sessions : sessions[x].queued = live[x].queued
        OBVIOUS
      <4>2. QED
        BY <1>1, <2>1, <3>1, <4>1, DrainKeeps
    <3>4. ev'[h] = log[h] \cup {"started"}
      BY <2>1, <3>1, <3>2 DEF Drain, Log
    <3>5. QED
      BY <2>1, <3>2, <3>3, <3>4 DEF Waits
  <2>2. CASE Drain(sessions, log, points) /\ ~(s = cur /\ CanDrain(sessions[s]))
    BY <2>2, DrainedFacts DEF Drain
  <2>3. QED
    BY <2>1, <2>2
<1>5. StartStep
  BY <1>3 DEF StartStep
<1>6. LogMatchesSend'
  <2>1. \A t \in Turns : pc'[t] \in {"idle", "ensuring", "writing"} => ev'[t] = {}
    BY <1>3 DEF LogMatchesSend
  <2>2. \A t \in Turns : pc'[t] \in {"checkpoint", "sending"} =>
          pc[t] \in {"checkpoint", "sending"} \/ "started" \in ev'[t]
    BY <1>3
  <2>3. QED
    BY <1>2, <2>1, <2>2, LogMatchesSendKept
<1>7. SessionsExist'
  <2>1. ASSUME NEW s \in Sessions, up'[s] = "none"
        PROVE  up[s] = "none" /\ live'[s] = live[s] /\ handed'[s] = handed[s]
    <3>1. s # cur /\ handed[s] = {} /\ handed'[s] \subseteq handed[s]
      BY <2>1, NullAssumption DEF SessionsExist
    <3>2. QED
      BY <1>4, <2>1, <3>1
  <2>2. cur' \in Sessions \cup {NoSession}
    BY DEF TypeOK
  <2>3. \A t \in Turns : pc'[t] \in {"writing", "checkpoint", "sending"} =>
          pc[t] \in {"writing", "checkpoint", "sending"} \/ at'[t] # NoSession
    BY <1>3
  <2>4. QED
    BY <2>1, <2>2, <2>3, SessionsExistKept
<1>8. PointersAreStarted'
  <2>1. ASSUME NEW s \in Sessions, live'[s].active # NoTurn
        PROVE  \/ live'[s].active = live[s].active
               \/ at'[live'[s].active] = s /\ "started" \in ev'[live'[s].active]
    <3>1. CASE live'[s] = sessions[s]
      <4>1. sessions[s].active \in {live[s].active, NoTurn}
        OBVIOUS
      <4>2. QED
        BY <2>1, <3>1, <4>1
    <3>2. CASE at[live'[s].active] = s /\ ev'[live'[s].active] = {"queued", "started"}
      BY <3>2
    <3>3. QED
      BY <1>4, <3>1, <3>2
  <2>2. QED
    BY <1>2, <2>1, PointersKept
<1>9. ASSUME LostTurns = {}
      PROVE  ActiveIsOpen'
  <2>1. ASSUME cur' # NoSession, live'[cur'].active # NoTurn
        PROVE  \/ /\ live'[cur].active = live[cur].active
                  /\ ev'[live[cur].active] \cap Terminal \subseteq ev[live[cur].active]
               \/ /\ "started" \in ev'[live'[cur].active]
                  /\ ev'[live'[cur].active] \cap Terminal = {}
    <3>1. cur \in Sessions
      BY <2>1 DEF TypeOK
    <3>2. CASE live'[cur] = sessions[cur]
      <4>1. live'[cur].active = live[cur].active /\ live[cur].active # NoTurn
        BY <2>1, <3>1, <3>2
      <4>2. live[cur].active \in Turns
        BY <3>1, <4>1 DEF TypeOK, LiveSession
      <4>3. log[live[cur].active] = ev[live[cur].active]
        BY <1>9, <2>1, <3>2, <4>1
      <4>4. ev'[live[cur].active] = log[live[cur].active]
            \/ ev'[live[cur].active] = {"queued", "started"}
        BY <1>3, <4>2
      <4>5. QED
        BY <4>1, <4>3, <4>4 DEF Terminal
    <3>3. CASE ev'[live'[cur].active] = {"queued", "started"}
      BY <3>3 DEF Terminal
    <3>4. QED
      BY <1>4, <3>1, <3>2, <3>3
  <2>2. QED
    BY <1>9, <1>2, <2>1, ActiveKept
<1>10. StoppingMatches'
  <2>1. ASSUME NEW s \in Sessions, live'[s].stopping # NoTurn
        PROVE  live'[s].active \in {live'[s].stopping, NoTurn}
    <3>1. live'[s] = sessions[s]
      BY <1>4, <2>1
    <3>2. live[s].stopping # NoTurn => live[s].active \in {live[s].stopping, NoTurn}
      BY DEF StoppingMatches
    <3>3. QED
      BY <2>1, <3>1, <3>2
  <2>2. QED
    BY <2>1 DEF StoppingMatches
<1>11. QED
  BY <1>2, <1>5, <1>6, <1>7, <1>8, <1>9, <1>10 DEF Kept

(* The catch of a dispatch closes its turn and frees the session it held. *)
LEMMA SendFailsKeeps ==
  ASSUME IInv, TypeOK', NEW t \in Turns, SendFails(t),
         pc[t] \in {"checkpoint", "sending"},
         cur' = cur, up' = up, at' = at, stop' = stop,
         \A s \in Sessions : \A u \in handed'[s] : u \in handed[s]
  PROVE  Kept
<1> DEFINE freed == [live EXCEPT ![at[t]].active = NoTurn]
           log   == Log(ev, "failed", {t})
           point == [pc EXCEPT ![t] = "done"]
<1>1. freed \in [Sessions -> LiveSession]
  BY FreedType DEF IInv
<1>2. \A s \in Sessions :
        /\ freed[s].queued = live[s].queued
        /\ freed[s].stopping = live[s].stopping
        /\ freed[s].active = IF s = at[t] THEN NoTurn ELSE live[s].active
        /\ s # at[t] => freed[s] = live[s]
  BY DEF IInv, TypeOK, LiveSession
<1>3. /\ log \in [Turns -> SUBSET Event]
      /\ \A u \in Turns : log[u] = IF u = t THEN ev[u] \cup {"failed"} ELSE ev[u]
  <2>1. "failed" \in Event
    BY DEF Event
  <2>2. ev \in [Turns -> SUBSET Event]
    BY DEF IInv, TypeOK
  <2>3. QED
    BY <2>1, <2>2, LogOne
<1>4. /\ point \in [Turns -> SendPoint]
      /\ \A u \in Turns : point[u] = IF u = t THEN "done" ELSE pc[u]
  BY DEF IInv, TypeOK, SendPoint
<1>5. Drain(freed, log, point) \/ (live' = freed /\ ev' = log /\ pc' = point)
  BY DEF SendFails
<1> HIDE DEF freed, log, point
<1>6. "started" \in ev[t] /\ at[t] \in Sessions /\ up[at[t]] # "none"
  BY DEF IInv, LogMatchesSend, SessionsExist, TypeOK
<1>7. \A s \in Sessions :
        /\ freed[s].queued = live[s].queued
        /\ freed[s].active \in {live[s].active, NoTurn}
        /\ freed[s].stopping \in {live[s].stopping, NoTurn}
        /\ up[s] = "none" => freed[s] = live[s]
  BY <1>2, <1>6
<1>8. \A u \in Turns : \/ log[u] = ev[u]
                       \/ "started" \in ev[u] /\ \E e \in Terminal : log[u] = ev[u] \cup {e}
  BY <1>3, <1>6 DEF Terminal
<1>9. \A u \in Turns : \/ point[u] = pc[u]
                       \/ pc[u] \in {"checkpoint", "sending"} /\ point[u] = "done"
  BY <1>4
<1>10. ASSUME cur # NoSession, freed[cur].active # NoTurn
       PROVE  log[freed[cur].active] = ev[freed[cur].active]
  <2>1. cur \in Sessions
    BY <1>10 DEF IInv, TypeOK
  <2>2. cur # at[t] /\ freed[cur].active = live[cur].active
    BY <1>2, <1>10, <2>1
  <2>3. live[cur].active \in Turns
    BY <1>10, <2>1, <2>2 DEF IInv, TypeOK, LiveSession
  <2>4. at[live[cur].active] = cur
    BY <1>10, <2>1, <2>2 DEF IInv, PointersAreStarted
  <2>5. live[cur].active # t
    BY <2>2, <2>4
  <2>6. QED
    BY <1>3, <2>2, <2>3, <2>5
<1>11. QED
  BY <1>1, <1>3, <1>4, <1>5, <1>7, <1>8, <1>9, <1>10, FreeingKeeps

(* turn.completed closes its turn wherever the thread has moved to. *)
LEMMA TurnCompletedKeeps ==
  ASSUME IInv, TypeOK', NEW s \in Sessions, NEW t \in Turns, TurnCompleted(s, t)
  PROVE  Kept
<1> DEFINE settled == [x \in Sessions |-> IF x = cur THEN Settled(live[x], t) ELSE live[x]]
           log == Log(ev, "completed", {t})
<1>1. \A x \in Sessions : live[x] \in LiveSession
  BY DEF IInv, TypeOK
<1>2. settled \in [Sessions -> LiveSession]
  <2>1. \A x \in Sessions : Settled(live[x], t) \in LiveSession
    BY <1>1, SettledFacts
  <2>2. QED
    BY <1>1, <2>1
<1>3. /\ log \in [Turns -> SUBSET Event]
      /\ \A u \in Turns : log[u] = IF u = t THEN ev[u] \cup {"completed"} ELSE ev[u]
  <2>1. "completed" \in Event
    BY DEF Event
  <2>2. ev \in [Turns -> SUBSET Event]
    BY DEF IInv, TypeOK
  <2>3. QED
    BY <2>1, <2>2, LogOne
<1>4. Drain(settled, log, pc)
  BY DEF TurnCompleted
<1>5. \A x \in Sessions : settled[x] = IF x = cur THEN Settled(live[x], t) ELSE live[x]
  OBVIOUS
<1> HIDE DEF settled, log
<1>6. "started" \in ev[t]
  BY DEF IInv, PointersAreStarted, TurnCompleted
<1>7. \A x \in Sessions :
        /\ settled[x].queued = live[x].queued
        /\ settled[x].active \in {live[x].active, NoTurn}
        /\ settled[x].stopping \in {live[x].stopping, NoTurn}
        /\ up[x] = "none" => settled[x] = live[x]
  <2> SUFFICES ASSUME NEW x \in Sessions
               PROVE  /\ settled[x].queued = live[x].queued
                      /\ settled[x].active \in {live[x].active, NoTurn}
                      /\ settled[x].stopping \in {live[x].stopping, NoTurn}
                      /\ up[x] = "none" => settled[x] = live[x]
    OBVIOUS
  <2>1. CASE x = cur
    <3>1. up[x] # "none"
      BY <2>1, NullAssumption DEF IInv, SessionsExist
    <3>2. settled[x] = Settled(live[x], t) /\ live[x] \in LiveSession
      BY <1>1, <1>5, <2>1
    <3>3. QED
      BY <3>1, <3>2, SettledFacts
  <2>2. CASE x # cur
    BY <1>5, <2>2
  <2>3. QED
    BY <2>1, <2>2
<1>8. \A u \in Turns : \/ log[u] = ev[u]
                       \/ "started" \in ev[u] /\ \E e \in Terminal : log[u] = ev[u] \cup {e}
  BY <1>3, <1>6 DEF Terminal
<1>9. ASSUME cur # NoSession, settled[cur].active # NoTurn
      PROVE  log[settled[cur].active] = ev[settled[cur].active]
  <2>1. cur \in Sessions
    BY <1>9 DEF IInv, TypeOK
  <2>2. /\ live[cur] \in LiveSession
        /\ settled[cur].active = IF live[cur].active = t THEN NoTurn ELSE live[cur].active
    BY <1>1, <1>5, <2>1, SettledFacts
  <2>3. settled[cur].active = live[cur].active /\ live[cur].active # t
    BY <1>9, <2>2
  <2>4. live[cur].active \in Turns
    BY <1>9, <2>2, <2>3 DEF LiveSession
  <2>5. QED
    BY <1>3, <2>3, <2>4
<1>10. /\ cur' = cur /\ up' = up /\ at' = at /\ stop' = stop
       /\ \A x \in Sessions : \A u \in handed'[x] : u \in handed[x]
       /\ pc \in [Turns -> SendPoint]
  BY DEF TurnCompleted, IInv, TypeOK
<1>11. QED
  BY <1>2, <1>3, <1>4, <1>7, <1>8, <1>9, <1>10, FreeingKeeps

(* A provider error closes the turn the thread is running. *)
LEMMA ProviderErrorKeeps ==
  ASSUME IInv, TypeOK', NEW s \in Sessions, ProviderError(s)
  PROVE  Kept
<1> DEFINE freed == [live EXCEPT ![cur].active = NoTurn]
           log == Log(ev, "failed", {live[cur].active})
<1>1. freed \in [Sessions -> LiveSession]
  BY FreedType DEF IInv
<1>2. \A x \in Sessions :
        /\ freed[x].queued = live[x].queued
        /\ freed[x].stopping = live[x].stopping
        /\ freed[x].active = IF x = cur THEN NoTurn ELSE live[x].active
        /\ x # cur => freed[x] = live[x]
  BY DEF IInv, TypeOK, LiveSession
<1>3. /\ log \in [Turns -> SUBSET Event]
      /\ \A u \in Turns :
           log[u] = IF u = live[cur].active THEN ev[u] \cup {"failed"} ELSE ev[u]
  <2>1. "failed" \in Event
    BY DEF Event
  <2>2. ev \in [Turns -> SUBSET Event]
    BY DEF IInv, TypeOK
  <2> DEFINE a == live[cur].active
  <2>3. log = Log(ev, "failed", {a})
    OBVIOUS
  <2> HIDE DEF a, log
  <2>4. /\ log \in [Turns -> SUBSET Event]
        /\ \A u \in Turns : log[u] = IF u = a THEN ev[u] \cup {"failed"} ELSE ev[u]
    <3>1. /\ Log(ev, "failed", {a}) \in [Turns -> SUBSET Event]
          /\ \A u \in Turns :
               Log(ev, "failed", {a})[u] = IF u = a THEN ev[u] \cup {"failed"} ELSE ev[u]
      BY <2>1, <2>2 DEF Log
    <3>2. QED
      BY <2>3, <3>1
  <2>5. QED
    BY <2>4 DEF a
<1>4. Drain(freed, log, pc)
  BY DEF ProviderError
<1> HIDE DEF freed, log
<1>5. /\ cur \in Sessions /\ up[cur] # "none"
      /\ "started" \in ev[live[cur].active]
  BY DEF IInv, TypeOK, SessionsExist, PointersAreStarted, ProviderError
<1>6. \A x \in Sessions :
        /\ freed[x].queued = live[x].queued
        /\ freed[x].active \in {live[x].active, NoTurn}
        /\ freed[x].stopping \in {live[x].stopping, NoTurn}
        /\ up[x] = "none" => freed[x] = live[x]
  BY <1>2, <1>5
<1>7. \A u \in Turns : \/ log[u] = ev[u]
                       \/ "started" \in ev[u] /\ \E e \in Terminal : log[u] = ev[u] \cup {e}
  BY <1>3, <1>5 DEF Terminal
<1>8. freed[cur].active = NoTurn
  BY <1>2, <1>5
<1>9. /\ cur' = cur /\ up' = up /\ at' = at /\ stop' = stop
      /\ \A x \in Sessions : \A u \in handed'[x] : u \in handed[x]
      /\ pc \in [Turns -> SendPoint]
  BY DEF ProviderError, IInv, TypeOK
<1>10. QED
  BY <1>1, <1>3, <1>4, <1>6, <1>7, <1>8, <1>9, FreeingKeeps

(* A message taken back leaves the queue and is never started. *)
LEMMA DequeueKeeps ==
  ASSUME IInv, TypeOK', NEW t \in Turns, Dequeue(t)
  PROVE  Kept
<1> USE DEF IInv, OpenUnlessLost
<1>1. cur \in Sessions /\ live[cur] \in LiveSession
  BY DEF Dequeue, TypeOK
<1>2. live[cur].queued \in Seq(Turns) /\ IsInjective(live[cur].queued)
  BY <1>1, QueueTyped DEF QueuedInOnePlace
<1>3. PICK i \in DOMAIN live[cur].queued :
        /\ live[cur].queued[i] = t
        /\ live' = [live EXCEPT ![cur].queued = RemoveAt(@, i)]
  BY DEF Dequeue
<1>4. /\ live'[cur].active = live[cur].active /\ live'[cur].stopping = live[cur].stopping
      /\ live'[cur].queued = RemoveAt(live[cur].queued, i)
      /\ \A s \in Sessions : s # cur => live'[s] = live[s]
  BY <1>1, <1>3 DEF TypeOK, LiveSession
<1>5. /\ ToSet(live'[cur].queued) = ToSet(live[cur].queued) \ {t}
      /\ IsInjective(live'[cur].queued)
  BY <1>2, <1>3, <1>4, RemoveAtSet
<1>6. t \in ToSet(live[cur].queued)
  BY <1>3 DEF ToSet
<1>7. Waits(t) /\ at[t] = cur /\ \A u \in Turns : t \notin stop[u].abandoned
  BY <1>1, <1>6 DEF QueuedInOnePlace
<1>8. \A u \in Turns : /\ ev'[u] = IF u = t THEN {"queued", "dequeued"} ELSE ev[u]
                       /\ pc'[u] = IF u = t THEN "done" ELSE pc[u]
  <2>1. ev' = Log(ev, "dequeued", {t}) /\ pc' = [pc EXCEPT ![t] = "done"]
    BY DEF Dequeue
  <2>2. \A u \in Turns : ev'[u] = IF u = t THEN ev[t] \cup {"dequeued"} ELSE ev[u]
    BY <2>1 DEF Log
  <2>3. ev[t] = {"queued"}
    BY <1>7 DEF Waits
  <2>4. \A u \in Turns : pc'[u] = IF u = t THEN "done" ELSE pc[u]
    BY <2>1 DEF TypeOK
  <2>5. QED
    BY <2>2, <2>3, <2>4
<1>9. cur' = cur /\ up' = up /\ handed' = handed /\ at' = at /\ stop' = stop
  BY DEF Dequeue
<1>10. LogSteps
  BY <1>7, <1>8 DEF LogSteps, LogStep, Waits
<1>11. StartStep
  BY <1>8 DEF StartStep
<1>12. LogMatchesSend'
  <2>1. \A u \in Turns : pc'[u] \in {"idle", "ensuring", "writing"} => ev'[u] = {}
    BY <1>8 DEF LogMatchesSend
  <2>2. \A u \in Turns : pc'[u] \in {"checkpoint", "sending"} =>
          pc[u] \in {"checkpoint", "sending"} \/ "started" \in ev'[u]
    BY <1>8
  <2>3. QED
    BY <1>10, <2>1, <2>2, LogMatchesSendKept
<1>13. SessionsExist'
  <2>1. up[cur] # "none"
    BY <1>1, NullAssumption DEF SessionsExist
  <2>2. \A s \in Sessions : up'[s] = "none" =>
          up[s] = "none" /\ live'[s] = live[s] /\ handed'[s] = handed[s]
    BY <1>4, <1>9, <2>1
  <2>3. \A u \in Turns : pc'[u] \in {"writing", "checkpoint", "sending"} =>
          pc[u] \in {"writing", "checkpoint", "sending"} \/ at'[u] # NoSession
    BY <1>8
  <2>4. QED
    BY <1>1, <1>9, <2>2, <2>3, SessionsExistKept
<1>14. PointersAreStarted'
  <2>1. \A s \in Sessions : live'[s].active = live[s].active
    BY <1>4
  <2>2. QED
    BY <1>9, <1>10, <2>1, PointersKept
<1>15. ASSUME LostTurns = {}
       PROVE  ActiveIsOpen'
  <2>1. ASSUME live[cur].active # NoTurn
        PROVE  ev'[live[cur].active] = ev[live[cur].active]
    <3>1. live[cur].active \in Turns /\ "started" \in ev[live[cur].active]
      BY <1>15, <1>1, <2>1, NullAssumption DEF ActiveIsOpen, LiveSession
    <3>2. live[cur].active # t
      BY <1>7, <3>1 DEF Waits
    <3>3. QED
      BY <1>8, <3>1, <3>2
  <2>2. QED
    BY <1>15, <1>4, <1>9, <1>10, <2>1, ActiveKept
<1>16. StoppingMatches'
  BY <1>4 DEF StoppingMatches
<1>17. QueuedInOnePlace'
  <2>1. /\ \A s \in Sessions : ToSet(live[s].queued) \subseteq Turns
        /\ \A u \in Turns : stop[u].abandoned \subseteq Turns
    BY QueueTyped DEF TypeOK, StopCall
  <2>2. ASSUME NEW s \in Sessions, t \in ToSet(live[s].queued)
        PROVE  s = cur
    <3>1. at[t] = s
      BY <2>2 DEF QueuedInOnePlace
    <3>2. QED
      BY <1>7, <3>1
  <2>3. \A s \in Sessions : ToSet(live'[s].queued) = ToSet(live[s].queued) \ {t}
    BY <1>4, <1>5, <2>2
  <2>4. \A s \in Sessions : IsInjective(live'[s].queued)
    BY <1>4, <1>5 DEF QueuedInOnePlace
  <2>5. ASSUME NEW s \in Sessions, NEW u \in ToSet(live'[s].queued)
        PROVE  /\ Waits(u)' /\ at'[u] = s
               /\ \A v \in Turns : u \notin stop'[v].abandoned
    <3>1. u \in Turns /\ u \in ToSet(live[s].queued) /\ u # t
      BY <2>1, <2>3
    <3>2. Waits(u) /\ at[u] = s /\ \A v \in Turns : u \notin stop[v].abandoned
      BY <3>1 DEF QueuedInOnePlace
    <3>3. QED
      BY <1>8, <1>9, <3>1, <3>2 DEF Waits
  <2>6. \A v \in Turns : \A u \in stop'[v].abandoned :
          /\ Waits(u)' /\ stop'[v].phase = "waiting"
          /\ \A w \in Turns : u \in stop'[w].abandoned => w = v
    BY <1>7, <1>8, <1>9, <2>1 DEF QueuedInOnePlace, Waits
  <2>7. ASSUME NEW u \in Turns, pc'[u] = "queued"
        PROVE  \/ \E s \in Sessions : u \in ToSet(live'[s].queued)
               \/ \E v \in Turns : u \in stop'[v].abandoned
    <3>1. u # t /\ pc[u] = "queued"
      BY <1>8, <2>7
    <3>2. \/ \E s \in Sessions : u \in ToSet(live[s].queued)
          \/ \E v \in Turns : u \in stop[v].abandoned
      BY <3>1 DEF QueuedInOnePlace
    <3>3. QED
      BY <1>9, <2>3, <3>1, <3>2
  <2>8. QED
    BY <2>4, <2>5, <2>6, <2>7 DEF QueuedInOnePlace
<1>18. QED
  BY <1>10, <1>11, <1>12, <1>13, <1>14, <1>15, <1>16, <1>17 DEF Kept

(* Stop moves the whole queue of the thread into its own hands. *)
LEMMA InterruptKeeps ==
  ASSUME IInv, TypeOK', NEW t \in Turns, Interrupt(t)
  PROVE  Kept
<1> USE DEF IInv, OpenUnlessLost
<1>1. cur \in Sessions /\ live[cur] \in LiveSession /\ live[cur].active = t
  BY DEF Interrupt, TypeOK
<1>2. /\ live'[cur].active = t /\ live'[cur].stopping = t /\ live'[cur].queued = <<>>
      /\ \A s \in Sessions : s # cur => live'[s] = live[s]
  BY <1>1 DEF Interrupt, TypeOK, LiveSession
<1>3. /\ stop'[t].phase = "waiting" /\ stop'[t].on = cur
      /\ stop'[t].abandoned = ToSet(live[cur].queued)
      /\ \A u \in Turns : u # t => stop'[u] = stop[u]
  BY DEF Interrupt, TypeOK
<1>4. ev' = ev /\ pc' = pc /\ at' = at /\ cur' = cur /\ up' = up /\ handed' = handed
  BY DEF Interrupt
<1>5. up[cur] # "none" /\ at[t] = cur /\ "started" \in ev[t] /\ cur # NoSession
  BY <1>1, NullAssumption DEF SessionsExist, PointersAreStarted
<1>6. LogSteps
  BY <1>4 DEF LogSteps, LogStep
<1>7. StartStep
  BY <1>4 DEF StartStep
<1>8. LogMatchesSend'
  BY <1>4 DEF LogMatchesSend
<1>9. SessionsExist'
  <2>1. \A s \in Sessions : up'[s] = "none" =>
          up[s] = "none" /\ live'[s] = live[s] /\ handed'[s] = handed[s]
    BY <1>2, <1>4, <1>5
  <2>2. QED
    BY <1>1, <1>4, <2>1, SessionsExistKept
<1>10. PointersAreStarted'
  <2>1. \A s \in Sessions : live'[s].active = live[s].active
    BY <1>1, <1>2
  <2>2. \A u \in Turns : stop'[u].phase = "waiting" =>
          \/ stop[u].phase = "waiting" /\ stop'[u].on = stop[u].on
          \/ stop'[u].on = at[u] /\ at[u] # NoSession /\ "started" \in ev[u]
    BY <1>3, <1>5
  <2>3. QED
    BY <1>4, <1>6, <2>1, <2>2, PointersKept
<1>11. ASSUME LostTurns = {}
       PROVE  ActiveIsOpen'
  BY <1>11, <1>1, <1>2, <1>4 DEF ActiveIsOpen
<1>12. StoppingMatches'
  BY <1>2 DEF StoppingMatches
<1>13. QueuedInOnePlace'
  <2>1. ToSet(live'[cur].queued) = {} /\ IsInjective(live'[cur].queued)
    BY <1>2, EmptySet
  <2>2. stop[t].abandoned = {}
    BY DEF QueuedInOnePlace, Interrupt
  <2>3. \A s \in Sessions : IsInjective(live'[s].queued)
    BY <1>2, <2>1 DEF QueuedInOnePlace
  <2>4. ASSUME NEW s \in Sessions, NEW u \in ToSet(live'[s].queued)
        PROVE  /\ Waits(u)' /\ at'[u] = s
               /\ \A v \in Turns : u \notin stop'[v].abandoned
    <3>1. s # cur /\ u \in ToSet(live[s].queued)
      BY <1>2, <2>1, <2>4
    <3>2. Waits(u) /\ at[u] = s /\ \A v \in Turns : u \notin stop[v].abandoned
      BY <3>1 DEF QueuedInOnePlace
    <3>3. u \notin ToSet(live[cur].queued)
      BY <1>1, <3>1, <3>2 DEF QueuedInOnePlace
    <3>4. QED
      BY <1>3, <1>4, <3>2, <3>3 DEF Waits
  <2>5. ASSUME NEW v \in Turns, NEW u \in stop'[v].abandoned
        PROVE  /\ Waits(u)' /\ stop'[v].phase = "waiting"
               /\ \A w \in Turns : u \in stop'[w].abandoned => w = v
    <3>1. CASE v = t
      <4>1. u \in ToSet(live[cur].queued)
        BY <1>3, <2>5, <3>1
      <4>2. Waits(u) /\ \A w \in Turns : u \notin stop[w].abandoned
        BY <1>1, <4>1 DEF QueuedInOnePlace
      <4>3. QED
        BY <1>3, <1>4, <3>1, <4>2 DEF Waits
    <3>2. CASE v # t
      <4>1. u \in stop[v].abandoned
        BY <1>3, <2>5, <3>2
      <4>2. /\ Waits(u) /\ stop[v].phase = "waiting"
            /\ \A w \in Turns : u \in stop[w].abandoned => w = v
        BY <4>1 DEF QueuedInOnePlace
      <4>3. u \notin ToSet(live[cur].queued)
        BY <1>1, <4>1 DEF QueuedInOnePlace
      <4>4. QED
        BY <1>3, <1>4, <3>2, <4>2, <4>3 DEF Waits
    <3>3. QED
      BY <3>1, <3>2
  <2>6. ASSUME NEW u \in Turns, pc'[u] = "queued"
        PROVE  \/ \E s \in Sessions : u \in ToSet(live'[s].queued)
               \/ \E v \in Turns : u \in stop'[v].abandoned
    <3>1. \/ \E s \in Sessions : u \in ToSet(live[s].queued)
          \/ \E v \in Turns : u \in stop[v].abandoned
      BY <1>4, <2>6 DEF QueuedInOnePlace
    <3>2. QED
      BY <1>2, <1>3, <2>2, <3>1
  <2>7. QED
    BY <2>3, <2>4, <2>5, <2>6 DEF QueuedInOnePlace
<1>14. QED
  BY <1>6, <1>7, <1>8, <1>9, <1>10, <1>11, <1>12, <1>13 DEF Kept

(* Stop returns: its turn is over, its session free, its messages dropped. *)
LEMMA StopReturnsKeeps ==
  ASSUME IInv, TypeOK', NEW t \in Turns, Interrupted(t) \/ InterruptFails(t)
  PROVE  Kept
<1> USE DEF IInv, OpenUnlessLost
<1> DEFINE on   == stop[t].on
           gone == stop[t].abandoned
<1>1. PICK outcome \in {"interrupted", "failed"} : StopReturns(t, outcome)
  BY DEF Interrupted, InterruptFails
<1>2. /\ on \in Sessions /\ up[on] # "none" /\ on = at[t]
      /\ "started" \in ev[t] /\ stop[t].phase = "waiting"
  BY <1>1 DEF StopReturns, PointersAreStarted, SessionsExist, TypeOK
<1>3. /\ live'[on].active = NoTurn /\ live'[on].queued = live[on].queued
      /\ live'[on].stopping \in {live[on].stopping, NoTurn}
      /\ \A s \in Sessions : s # on => live'[s] = live[s]
  <2>1. CASE Interrupted(t)
    <3>1. live' = [live EXCEPT ![on].active = NoTurn]
      BY <2>1 DEF Interrupted
    <3> HIDE DEF on
    <3>2. QED
      BY <1>2, <3>1 DEF TypeOK, LiveSession
  <2>2. CASE InterruptFails(t)
    <3>1. live' = [live EXCEPT ![on].active = NoTurn, ![on].stopping = NoTurn]
      BY <2>2 DEF InterruptFails
    <3> HIDE DEF on
    <3>2. QED
      BY <1>2, <3>1 DEF TypeOK, LiveSession
  <2>3. QED
    BY <2>1, <2>2
<1>4. gone \subseteq Turns /\ \A u \in gone : Waits(u) /\ u # t
  BY <1>2 DEF QueuedInOnePlace, Waits, TypeOK, StopCall
<1>5. /\ stop'[t].phase = "done" /\ stop'[t].abandoned = {}
      /\ \A u \in Turns : u # t => stop'[u] = stop[u]
  <2>1. stop' = [stop EXCEPT ![t].phase = "done", ![t].abandoned = {}]
    BY <1>1 DEF StopReturns
  <2>2. QED
    BY <2>1 DEF TypeOK, StopCall
<1>6. /\ cur' = cur /\ up' = up /\ handed' = handed /\ at' = at
  BY DEF Interrupted, InterruptFails
<1>7. \A u \in Turns :
        /\ ev'[u] = IF u \in gone THEN {"queued", "dequeued"}
                    ELSE IF u = t THEN ev[u] \cup {outcome} ELSE ev[u]
        /\ pc'[u] = IF u \in gone THEN "done" ELSE pc[u]
  <2>1. /\ ev' = Log(Log(ev, outcome, {t}), "dequeued", gone)
        /\ pc' = [u \in Turns |-> IF u \in gone THEN "done" ELSE pc[u]]
    BY <1>1 DEF StopReturns
  <2> HIDE DEF gone
  <2>2. ASSUME NEW u \in Turns
        PROVE  ev'[u] = IF u \in gone THEN {"queued", "dequeued"}
                        ELSE IF u = t THEN ev[u] \cup {outcome} ELSE ev[u]
    <3>1. CASE u \in gone
      <4>1. u # t /\ ev[u] = {"queued"}
        BY <1>4, <3>1 DEF Waits
      <4>2. QED
        BY <2>1, <3>1, <4>1 DEF Log
    <3>2. CASE u \notin gone
      BY <2>1, <3>2 DEF Log
    <3>3. QED
      BY <3>1, <3>2
  <2>3. QED
    BY <2>1, <2>2
<1> HIDE DEF on, gone
<1>8. LogSteps
  <2> SUFFICES ASSUME NEW u \in Turns PROVE LogStep(ev[u], ev'[u])
    BY DEF LogSteps
  <2>1. CASE u \in gone
    BY <1>4, <1>7, <2>1 DEF LogStep, Waits
  <2>2. CASE u \notin gone
    BY <1>2, <1>7, <2>2 DEF LogStep, Terminal
  <2>3. QED
    BY <2>1, <2>2
<1>9. StartStep
  BY <1>7 DEF StartStep
<1>10. LogMatchesSend'
  <2>1. ASSUME NEW u \in Turns, pc'[u] \in {"idle", "ensuring", "writing"}
        PROVE  ev'[u] = {}
    <3>1. u \notin gone /\ pc[u] = pc'[u] /\ ev[u] = {}
      BY <1>7, <2>1 DEF LogMatchesSend
    <3>2. QED
      BY <1>2, <1>7, <3>1
  <2>2. \A u \in Turns : pc'[u] \in {"checkpoint", "sending"} =>
          pc[u] \in {"checkpoint", "sending"} \/ "started" \in ev'[u]
    BY <1>7
  <2>3. QED
    BY <1>8, <2>1, <2>2, LogMatchesSendKept
<1>11. SessionsExist'
  <2>1. \A s \in Sessions : up'[s] = "none" =>
          up[s] = "none" /\ live'[s] = live[s] /\ handed'[s] = handed[s]
    BY <1>2, <1>3, <1>6
  <2>2. \A u \in Turns : pc'[u] \in {"writing", "checkpoint", "sending"} =>
          pc[u] \in {"writing", "checkpoint", "sending"} \/ at'[u] # NoSession
    BY <1>7
  <2>3. cur' \in Sessions \cup {NoSession}
    BY DEF TypeOK
  <2>4. QED
    BY <1>6, <2>1, <2>2, <2>3, SessionsExistKept
<1>12. PointersAreStarted'
  <2>1. \A s \in Sessions : live'[s].active # NoTurn => live'[s].active = live[s].active
    BY <1>3
  <2>2. \A u \in Turns : stop'[u].phase = "waiting" =>
          stop[u].phase = "waiting" /\ stop'[u].on = stop[u].on
    BY <1>5
  <2>3. QED
    BY <1>6, <1>8, <2>1, <2>2, PointersKept
<1>13. ASSUME LostTurns = {}
       PROVE  ActiveIsOpen'
  <2>1. ASSUME cur # NoSession, live'[cur].active # NoTurn
        PROVE  /\ live'[cur].active = live[cur].active
               /\ ev'[live[cur].active] \cap Terminal \subseteq ev[live[cur].active]
    <3>1. cur \in Sessions /\ cur # on
      BY <1>3, <2>1 DEF TypeOK
    <3>2. live'[cur].active = live[cur].active /\ live[cur].active \in Turns
      BY <1>3, <2>1, <3>1 DEF TypeOK, LiveSession
    <3>3. at[live[cur].active] = cur /\ "started" \in ev[live[cur].active]
      BY <2>1, <3>1, <3>2 DEF PointersAreStarted
    <3>4. live[cur].active # t /\ live[cur].active \notin gone
      BY <1>2, <1>4, <3>1, <3>3 DEF Waits
    <3>5. QED
      BY <1>7, <3>2, <3>4
  <2>2. QED
    BY <1>13, <1>6, <1>8, <2>1, ActiveKept
<1>14. StoppingMatches'
  BY <1>3 DEF StoppingMatches
<1>15. QueuedInOnePlace'
  <2>1. \A s \in Sessions : live'[s].queued = live[s].queued
    BY <1>3
  <2>2. \A u \in Turns : u \notin gone /\ pc[u] = "queued" =>
          ev'[u] = ev[u] /\ pc'[u] = "queued"
    <3>1. pc[t] # "queued"
      BY <1>2 DEF QueuedInOnePlace, Waits
    <3>2. QED
      BY <1>7, <3>1
  <2>3. /\ \A s \in Sessions : ToSet(live[s].queued) \subseteq Turns
        /\ \A u \in Turns : stop[u].abandoned \subseteq Turns
    BY QueueTyped DEF TypeOK, StopCall
  <2>4. ASSUME NEW s \in Sessions, NEW u \in ToSet(live'[s].queued)
        PROVE  /\ Waits(u)' /\ at'[u] = s
               /\ \A v \in Turns : u \notin stop'[v].abandoned
    <3>1. u \in Turns /\ u \in ToSet(live[s].queued)
      BY <2>1, <2>3
    <3>2. Waits(u) /\ at[u] = s /\ \A v \in Turns : u \notin stop[v].abandoned
      BY <3>1 DEF QueuedInOnePlace
    <3>3. u \notin gone
      BY <3>2 DEF gone
    <3>4. QED
      BY <1>5, <1>6, <2>2, <3>1, <3>2, <3>3 DEF Waits
  <2>5. ASSUME NEW v \in Turns, NEW u \in stop'[v].abandoned
        PROVE  /\ Waits(u)' /\ stop'[v].phase = "waiting"
               /\ \A w \in Turns : u \in stop'[w].abandoned => w = v
    <3>1. v # t /\ u \in stop[v].abandoned /\ u \in Turns
      BY <1>5, <2>3, <2>5
    <3>2. /\ Waits(u) /\ stop[v].phase = "waiting"
          /\ \A w \in Turns : u \in stop[w].abandoned => w = v
      BY <3>1 DEF QueuedInOnePlace
    <3>3. u \notin gone
      BY <3>1, <3>2 DEF gone
    <3>4. QED
      BY <1>5, <2>2, <3>1, <3>2, <3>3 DEF Waits
  <2>6. ASSUME NEW u \in Turns, pc'[u] = "queued"
        PROVE  \/ \E s \in Sessions : u \in ToSet(live'[s].queued)
               \/ \E v \in Turns : u \in stop'[v].abandoned
    <3>1. u \notin gone /\ pc[u] = "queued"
      BY <1>7, <2>6
    <3>2. \/ \E s \in Sessions : u \in ToSet(live[s].queued)
          \/ \E v \in Turns : u \in stop[v].abandoned
      BY <3>1 DEF QueuedInOnePlace
    <3>3. QED
      BY <1>5, <2>1, <3>1, <3>2 DEF gone
  <2>7. \A s \in Sessions : IsInjective(live'[s].queued)
    BY <2>1 DEF QueuedInOnePlace
  <2>8. QED
    BY <2>4, <2>5, <2>6, <2>7 DEF QueuedInOnePlace
<1>16. QED
  BY <1>8, <1>9, <1>10, <1>11, <1>12, <1>13, <1>14, <1>15 DEF Kept

-----------------------------------------------------------------------------
(* The invariant is inductive                                              *)

(* The daemon starts with an empty thread. *)
LEMMA InvariantInit == Init => IInv
<1> SUFFICES ASSUME Init PROVE IInv
  OBVIOUS
<1>1. TypeOK
  BY TypeInit
<1>2. LogMatchesSend
  BY DEF Init, LogMatchesSend, Terminal
<1>3. SessionsExist
  BY DEF Init, SessionsExist
<1>4. PointersAreStarted
  BY DEF Init, PointersAreStarted, NoStop, FreshSession
<1>5. ActiveIsOpen /\ StoppingMatches
  BY DEF Init, ActiveIsOpen, StoppingMatches, FreshSession
<1>6. QueuedInOnePlace
  <2>1. \A s \in Sessions : ToSet(live[s].queued) = {} /\ IsInjective(live[s].queued)
    BY EmptySet DEF Init, FreshSession
  <2>2. \A u \in Turns : stop[u].abandoned = {} /\ pc[u] = "idle"
    BY DEF Init, NoStop
  <2>3. QED
    BY <2>1, <2>2 DEF QueuedInOnePlace
<1>7. QED
  BY <1>1, <1>2, <1>3, <1>4, <1>5, <1>6 DEF IInv, OpenUnlessLost

(* Every step keeps the invariant, and moves every turn forward. *)
LEMMA InvariantStep == IInv /\ [Next]_vars => Kept
<1> SUFFICES ASSUME IInv, [Next]_vars
             PROVE  Kept
  OBVIOUS
<1>0. TypeOK /\ TypeOK'
  BY TypeStep DEF IInv
<1>1. ASSUME NEW t \in Turns, SendWarm(t)
      PROVE  Kept
  <2>1. /\ cur \in Sessions /\ up[cur] # "none"
        /\ pc[t] \in {"idle", "ensuring"} /\ HasSession(t, cur)
        /\ cur' = cur /\ up' = up /\ handed' = handed /\ stop' = stop
    BY <1>0, <1>1 DEF SendWarm, TypeOK, IInv, SessionsExist
  <2>2. QED
    BY <1>0, <2>1, HasSessionKeeps
<1>2. ASSUME NEW t \in Turns, SessionReady(t)
      PROVE  Kept
  <2>1. PICK s \in Sessions : /\ up[s] = "none" /\ up' = [up EXCEPT ![s] = "up"]
                              /\ cur' = s
                              /\ HasSession(t, s)
    BY <1>2 DEF SessionReady
  <2>2. up'[s] # "none" /\ \A x \in Sessions : up'[x] = "none" => up[x] = "none"
    BY <1>0, <2>1 DEF TypeOK
  <2>3. pc[t] \in {"idle", "ensuring"} /\ handed' = handed /\ stop' = stop
    BY <1>2 DEF SessionReady
  <2>4. QED
    BY <1>0, <2>1, <2>2, <2>3, HasSessionKeeps
<1>3. ASSUME NEW t \in Turns, ImagesWritten(t)
      PROVE  Kept
  <2>1. /\ pc[t] \in {"idle", "ensuring", "writing"} /\ Start(t, at[t])
        /\ cur' = cur /\ up' = up /\ handed' = handed /\ stop' = stop
    BY <1>3 DEF ImagesWritten
  <2>2. at[t] \in Sessions /\ up[at[t]] # "none"
    BY <1>0, <1>3 DEF ImagesWritten, IInv, SessionsExist, TypeOK
  <2>3. QED
    BY <1>0, <2>1, <2>2, StartKeeps
<1>4. ASSUME NEW t \in Turns, DispatchRefused(t) \/ SendRejects(t)
      PROVE  Kept
  <2>1. /\ SendFails(t) /\ pc[t] \in {"checkpoint", "sending"}
        /\ cur' = cur /\ up' = up /\ at' = at /\ stop' = stop
    BY <1>4 DEF DispatchRefused, SendRejects
  <2>2. \A s \in Sessions : \A u \in handed'[s] : u \in handed[s]
    BY <1>0, <1>4 DEF DispatchRefused, SendRejects, TypeOK
  <2>3. QED
    BY <1>0, <2>1, <2>2, SendFailsKeeps
<1>5. ASSUME NEW t \in Turns, CheckpointCancelled(t)
      PROVE  Kept
  <2>1. at[t] \in Sessions /\ up[at[t]] # "none" /\ pc[t] # "queued"
    BY <1>0, <1>5 DEF CheckpointCancelled, IInv, SessionsExist, TypeOK
  <2>2. \A s \in Sessions :
          /\ live'[s].active = live[s].active
          /\ live'[s].stopping = live[s].stopping
          /\ live'[s].queued = live[s].queued
          /\ s # at[t] => live'[s] = live[s]
    BY <1>0, <1>5 DEF CheckpointCancelled, TypeOK, LiveSession
  <2>3. \A u \in Turns : pc'[u] = IF u = t THEN "done" ELSE pc[u]
    BY <1>0, <1>5 DEF CheckpointCancelled, TypeOK
  <2>4. cur' = cur /\ up' = up /\ handed' = handed /\ at' = at /\ stop' = stop /\ ev' = ev
    BY <1>5 DEF CheckpointCancelled
  <2>5. QED
    BY <1>0, <2>1, <2>2, <2>3, <2>4, QuietKeeps
<1>6. ASSUME NEW t \in Turns, Dispatch(t)
      PROVE  Kept
  <2>1. at[t] \in Sessions /\ up[at[t]] # "none" /\ "started" \in ev[t]
    BY <1>0, <1>6 DEF Dispatch, IInv, SessionsExist, LogMatchesSend, TypeOK
  <2>2. \A s \in Sessions : handed'[s] = IF s = at[t] THEN {t} ELSE handed[s]
    BY <1>0, <1>6 DEF Dispatch, TypeOK
  <2>3. pc[t] = "checkpoint" /\ \A u \in Turns : pc'[u] = IF u = t THEN "sending" ELSE pc[u]
    BY <1>0, <1>6 DEF Dispatch, TypeOK
  <2>4. cur' = cur /\ up' = up /\ live' = live /\ at' = at /\ stop' = stop /\ ev' = ev
    BY <1>6 DEF Dispatch
  <2>5. QED
    BY <1>0, <2>1, <2>2, <2>3, <2>4, QuietKeeps
<1>7. ASSUME NEW t \in Turns,
             SendCold(t) \/ SessionFails(t) \/ ImagesRefused(t) \/ SendResolves(t)
      PROVE  Kept
  <2>1. \A u \in Turns :
          \/ pc'[u] = pc[u]
          \/ pc[u] = "idle" /\ pc'[u] = "ensuring"
          \/ pc[u] # "queued" /\ pc'[u] = "done"
    BY <1>0, <1>7 DEF SendCold, SessionFails, ImagesRefused, SendResolves, TypeOK
  <2>2. /\ cur' = cur /\ up' = up /\ live' = live /\ handed' = handed
        /\ at' = at /\ stop' = stop /\ ev' = ev
    BY <1>7 DEF SendCold, SessionFails, ImagesRefused, SendResolves
  <2>3. QED
    BY <1>0, <2>1, <2>2, QuietKeeps
<1>8. ASSUME NEW t \in Turns, Dequeue(t)
      PROVE  Kept
  BY <1>0, <1>8, DequeueKeeps
<1>9. ASSUME NEW t \in Turns, Interrupt(t)
      PROVE  Kept
  BY <1>0, <1>9, InterruptKeeps
<1>10. ASSUME NEW t \in Turns, Interrupted(t) \/ InterruptFails(t)
       PROVE  Kept
  BY <1>0, <1>10, StopReturnsKeeps
<1>11. ASSUME NEW s \in Sessions, NEW t \in Turns, TurnCompleted(s, t)
       PROVE  Kept
  BY <1>0, <1>11, TurnCompletedKeeps
<1>12. ASSUME NEW s \in Sessions, ProviderError(s)
       PROVE  Kept
  BY <1>0, <1>12, ProviderErrorKeeps
<1>13. ASSUME NEW s \in Sessions, SessionExited(s)
       PROVE  Kept
  <2>1. /\ \A x \in Sessions : up'[x] = "none" => up[x] = "none" /\ handed'[x] = handed[x]
        /\ \A x \in Sessions : \A u \in handed'[x] : u \in handed[x]
    BY <1>0, <1>13 DEF SessionExited, TypeOK
  <2>2. cur' = NoSession /\ live' = live /\ pc' = pc /\ at' = at /\ stop' = stop /\ ev' = ev
    BY <1>13 DEF SessionExited
  <2>3. QED
    BY <1>0, <2>1, <2>2, QuietKeeps
<1>14. CASE PrewarmReady
  <2>1. PICK s \in Sessions : up[s] = "none" /\ up' = [up EXCEPT ![s] = "up"] /\ cur' = s
    BY <1>14 DEF PrewarmReady
  <2>2. up'[s] # "none" /\ \A x \in Sessions : up'[x] = "none" => up[x] = "none"
    BY <1>0, <2>1 DEF TypeOK
  <2>3. live' = live /\ handed' = handed /\ pc' = pc /\ at' = at /\ stop' = stop /\ ev' = ev
    BY <1>14 DEF PrewarmReady
  <2>4. QED
    BY <1>0, <2>1, <2>2, <2>3, QuietKeeps
<1>15. CASE Prewarm \/ PrewarmFails \/ ProviderSwitched \/ UNCHANGED vars
  <2>1. /\ cur' = cur \/ cur' = NoSession
        /\ up' = up /\ live' = live /\ handed' = handed
        /\ pc' = pc /\ at' = at /\ stop' = stop /\ ev' = ev
    BY <1>15 DEF Prewarm, PrewarmFails, ProviderSwitched, vars
  <2>2. QED
    BY <1>0, <2>1, QuietKeeps
<1>16. ASSUME NEW s \in Sessions, ReapIdle(s) \/ EvictWarm(s)
       PROVE  Kept
  <2>1. /\ cur' = NoSession
        /\ live' = live /\ handed' = handed
        /\ pc' = pc /\ at' = at /\ stop' = stop /\ ev' = ev
    BY <1>16 DEF ReapIdle, EvictWarm, DropSession
  <2>2. \A x \in Sessions : up'[x] = "none" => up[x] = "none"
    BY <1>0, <1>16 DEF ReapIdle, EvictWarm, DropSession, TypeOK
  <2>3. QED
    BY <1>0, <2>1, <2>2, QuietKeeps
<1>18. ASSUME NEW t \in Turns, CheckpointThrows(t)
       PROVE  Kept
  <2> DEFINE log == Log(ev, "failed", {t})
             point == [pc EXCEPT ![t] = "done"]
  <2>1. /\ pc[t] = "checkpoint" /\ "started" \in ev[t] /\ LostTurns # {}
        /\ cur' = cur /\ up' = up /\ at' = at /\ stop' = stop /\ handed' = handed
    BY <1>18 DEF CheckpointThrows, IInv, LogMatchesSend
  <2>2. /\ log \in [Turns -> SUBSET Event]
        /\ \A u \in Turns : log[u] = IF u = t THEN ev[u] \cup {"failed"} ELSE ev[u]
    <3>1. "failed" \in Event
      BY DEF Event
    <3>2. ev \in [Turns -> SUBSET Event]
      BY <1>0 DEF TypeOK
    <3>3. QED
      BY <3>1, <3>2, LogOne
  <2>3. /\ point \in [Turns -> SendPoint]
        /\ \A u \in Turns : point[u] = IF u = t THEN "done" ELSE pc[u]
    BY <1>0 DEF TypeOK, SendPoint
  <2>4. Drain(live, log, point) \/ (pc' = point /\ live' = live /\ ev' = ev)
    BY <1>18 DEF CheckpointThrows
  <2> HIDE DEF log, point
  <2>5. CASE Drain(live, log, point)
    <3>1. live \in [Sessions -> LiveSession]
      BY <1>0 DEF TypeOK
    <3>2. \A u \in Turns : \/ log[u] = ev[u]
                           \/ "started" \in ev[u] /\ \E e \in Terminal : log[u] = ev[u] \cup {e}
      BY <2>1, <2>2 DEF Terminal
    <3>3. \A u \in Turns : \/ point[u] = pc[u]
                           \/ pc[u] \in {"checkpoint", "sending"} /\ point[u] = "done"
      BY <2>1, <2>3
    <3>4. QED
      BY <1>0, <2>1, <2>2, <2>3, <2>5, <3>1, <3>2, <3>3, FreeingKeeps
  <2>6. CASE pc' = point /\ live' = live /\ ev' = ev
    BY <1>0, <2>1, <2>3, <2>6, QuietKeeps
  <2>7. QED
    BY <2>4, <2>5, <2>6
<1>17. CASE SetPermissionMode \/ SetProvider
  <2>1. /\ cur' = cur \/ cur' = NoSession
        /\ live' = live /\ handed' = handed
        /\ pc' = pc /\ at' = at /\ stop' = stop /\ ev' = ev
    BY <1>17 DEF SetPermissionMode, DropSession, SetProvider
  <2>2. \A x \in Sessions : up'[x] = "none" => up[x] = "none"
    BY <1>0, <1>17 DEF SetPermissionMode, DropSession, SetProvider, TypeOK
  <2>3. QED
    BY <1>0, <2>1, <2>2, QuietKeeps
<1>19. QED
  BY <1>1, <1>2, <1>3, <1>4, <1>5, <1>6, <1>7, <1>8, <1>9, <1>10, <1>11, <1>12,
     <1>13, <1>14, <1>15, <1>16, <1>17, <1>18 DEF Next, Resume

(* The inductive invariant holds in every reachable state. *)
THEOREM Invariant == Spec => []IInv
<1>1. IInv /\ [Next]_vars => IInv'
  BY InvariantStep DEF Kept
<1>2. QED
  BY InvariantInit, <1>1, PTL DEF Spec

(* When no checkpoint throws, the running turn of the thread is never one    *)
(* that the log reports over: whatever order completions, errors, Stops and  *)
(* failed sends arrive in, no thread is busy with a turn that has ended.     *)
THEOREM RunningTurnIsOpen ==
  ASSUME LostTurns = {}
  PROVE  Spec => []ActiveIsOpen
<1>1. IInv => ActiveIsOpen
  BY DEF IInv, OpenUnlessLost
<1>2. QED
  BY Invariant, <1>1, PTL

(* The stopping mark never outlives its turn into another one, so an error   *)
(* is swallowed only for a turn the user did stop.                           *)
THEOREM StoppingMarkMatches == Spec => []StoppingMatches
<1>1. IInv => StoppingMatches
  BY DEF IInv
<1>2. QED
  BY Invariant, <1>1, PTL

(* A queued message is in one queue, or in the hands of one Stop: it cannot  *)
(* be lost, run twice, or run after a Stop has taken it.                     *)
THEOREM QueuedMessageHasOnePlace == Spec => []QueuedInOnePlace
<1>1. IInv => QueuedInOnePlace
  BY DEF IInv
<1>2. QED
  BY Invariant, <1>1, PTL

(* A turn is started at most once, by sendTurn or by drainQueue. *)
THEOREM TurnStartsOnce == Spec => StartsOnce
<1>1. IInv /\ [Next]_vars =>
        [\A t \in Turns :
           pc[t] # "checkpoint" /\ pc'[t] = "checkpoint" => ev[t] \subseteq {"queued"}]_vars
  BY InvariantStep DEF Kept, StartStep
<1>2. QED
  BY Invariant, <1>1, PTL DEF Spec, StartsOnce

(* The orchestrator implements TurnPromise: seen through its events, a turn  *)
(* only ever moves forward through its life.                                 *)
THEOREM PromiseKept == Spec => KeepsPromise
<1> DEFINE life == [t \in Turns |-> Status(t)]
<1>1. Init => life = [t \in Turns |-> "absent"]
  BY DEF Init, Status, Terminal
<1>2. IInv /\ [Next]_vars => [Promise!Next]_life
  <2> SUFFICES ASSUME IInv, [Next]_vars
               PROVE  Promise!Next
    OBVIOUS
  <2>1. LogSteps /\ LogMatchesSend
    BY InvariantStep DEF Kept, IInv
  <2>2. ASSUME NEW t \in Turns, Status(t)' # Status(t)
        PROVE  <<Status(t), Status(t)'>> \in Promise!Forward
    <3>1. LogStep(ev[t], ev'[t])
      BY <2>1 DEF LogSteps
    <3>2. /\ "dequeued" \in ev[t] => ev[t] = {"queued", "dequeued"}
          /\ ev[t] \cap Terminal # {} => "started" \in ev[t]
      BY <2>1 DEF LogMatchesSend
    <3>3. QED
      BY <2>2, <3>1, <3>2 DEF LogStep, Status, Terminal, Promise!Forward
  <2>3. \A t \in Turns : life[t] = Status(t) /\ life'[t] = Status(t)'
    OBVIOUS
  <2>4. QED
    BY <2>2, <2>3 DEF Promise!Next
<1>3. QED
  BY Invariant, <1>1, <1>2, PTL DEF Spec, KeepsPromise, Promise!Spec, Promise!Init
-----------------------------------------------------------------------------
(***************************************************************************)
(* Two promises about a turn that is running or being stopped: a busy      *)
(* thread always has something behind it that will free it (BusyHasWork),  *)
(* and an error of the provider is not charged to a turn the user stopped  *)
(* (StopIsNotAFailure).                                                    *)
(*                                                                         *)
(* Neither is inductive.  The send of a running turn may be long settled,  *)
(* so the thread is kept busy by the provider alone; and the error handler *)
(* only looks at the stopping mark, so the mark must be on the session for *)
(* as long as it holds a stopped turn.  StopInv adds both facts to IInv.   *)
(* A step is then judged by what it does to the hold of a session on its   *)
(* turn: Owed lists what it has to show, action by action.                 *)
(***************************************************************************)

(* A session goes on holding its turn, and the mark on it, or takes a turn   *)
(* whose start nobody has reported.                                          *)
HoldsMove ==
  \A s \in Sessions : \A t \in Turns : live'[s].active = t =>
    \/ live[s].active = t /\ (live[s].stopping = t => live'[s].stopping = t)
    \/ "started" \notin ev[t] /\ pc'[t] = "checkpoint" /\ stop'[t] = stop[t]

(* A turn is cancelled by its Stop. *)
CancelsMove ==
  \A s \in Sessions : \A t \in live'[s].cancelled :
    t \in live[s].cancelled \/ stop'[t].phase # "none"

(* A Stop marks the turn its session holds, and takes it from the session    *)
(* when it returns.                                                          *)
StopsMove ==
  \A t \in Turns :
    \/ stop'[t].phase = stop[t].phase
    \/ /\ stop[t].phase = "none" /\ stop'[t].phase = "waiting" /\ "started" \in ev[t]
       /\ \A s \in Sessions : live'[s].active = t => live'[s].stopping = t
    \/ /\ stop[t].phase = "waiting" /\ stop'[t].phase = "done"
       /\ \A s \in Sessions : live'[s].active # t

(* The turn the thread goes on running is not let down: its checkpoint ends  *)
(* in the provider's hands or in a Stop, and the provider keeps it.          *)
WorkMoves ==
  /\ cur' = cur \/ cur' = NoSession \/ up[cur'] = "none"
  /\ LostTurns = {} /\ cur' = cur /\ cur # NoSession =>
       \A t \in Turns : live[cur].active = t /\ live'[cur].active = t =>
         /\ pc[t] = "checkpoint" =>
              pc'[t] = "checkpoint" \/ t \in handed'[cur] \/ stop[t].phase # "none"
         /\ t \in handed[cur] => t \in handed'[cur]

(* A stopped turn fails by its own send or by its own Stop. *)
FailsFairly ==
  \A t \in Turns :
    stop[t].phase # "none" /\ "failed" \in ev'[t] \ ev[t] =>
      \/ pc[t] # "done" /\ pc'[t] = "done"
      \/ stop'[t].phase # stop[t].phase

Owed == HoldsMove /\ CancelsMove /\ StopsMove /\ WorkMoves /\ FailsFairly

-----------------------------------------------------------------------------
(* What a step that shows all this keeps.                                  *)

(* A stopped turn stays marked where it is held. *)
LEMMA StopsMarkedKept ==
  ASSUME StopInv, LogSteps, HoldsMove, StopsMove
  PROVE  StopsMarked'
<1>1. ASSUME NEW t \in Turns, stop'[t].phase # "none"
      PROVE  "started" \in ev'[t]
  <2>1. "started" \in ev[t]
    BY <1>1 DEF StopsMove, StopInv, StopsMarked
  <2>2. QED
    BY <2>1, LogKeeps DEF StopInv, IInv
<1>2. ASSUME NEW s \in Sessions, NEW t \in Turns,
             live'[s].active = t, stop'[t].phase # "none"
      PROVE  stop'[t].phase = "waiting" /\ live'[s].stopping = t
  <2>1. CASE "started" \notin ev[t] /\ stop'[t] = stop[t]
    BY <1>2, <2>1 DEF StopInv, StopsMarked
  <2>2. CASE live[s].active = t /\ (live[s].stopping = t => live'[s].stopping = t)
    <3>1. CASE stop'[t].phase = stop[t].phase
      BY <1>2, <2>2, <3>1 DEF StopInv, StopsMarked
    <3>2. CASE stop'[t].phase # stop[t].phase
      BY <1>2, <3>2 DEF StopsMove
    <3>3. QED
      BY <3>1, <3>2
  <2>3. QED
    BY <1>2, <2>1, <2>2 DEF HoldsMove
<1>3. QED
  BY <1>1, <1>2 DEF StopsMarked

(* A cancelled turn stays a stopped one. *)
LEMMA CancelledKept ==
  ASSUME StopInv, CancelsMove, StopsMove
  PROVE  CancelledStopped'
<1> SUFFICES ASSUME NEW s \in Sessions, NEW t \in live'[s].cancelled, stop'[t].phase = "none"
             PROVE  FALSE
  BY DEF CancelledStopped
<1>1. t \in live[s].cancelled
  BY DEF CancelsMove
<1>2. stop[t].phase # "none"
  BY <1>1 DEF StopInv, CancelledStopped
<1>3. t \in Turns
  BY <1>1 DEF StopInv, IInv, TypeOK, LiveSession
<1>4. QED
  BY <1>2, <1>3 DEF StopsMove

(* A busy thread still has its work. *)
LEMMA WorkKept ==
  ASSUME StopInv, IInv', HoldsMove, StopsMove, WorkMoves
  PROVE  WorkUnlessLost'
<1> SUFFICES ASSUME LostTurns = {}, cur' # NoSession, NEW t \in Turns, live'[cur'].active = t
             PROVE  \/ pc'[t] = "checkpoint" \/ t \in handed'[cur']
                    \/ stop'[t].phase = "waiting"
  BY DEF WorkUnlessLost, WorkBehind
<1>1. cur' \in Sessions
  BY DEF IInv, TypeOK
<1>2. CASE cur' # cur
  <2>1. live[cur'].active = NoTurn
    BY <1>1, <1>2 DEF WorkMoves, StopInv, IInv, SessionsExist, FreshSession
  <2>2. QED
    BY <1>1, <2>1, NullAssumption DEF HoldsMove
<1>3. CASE cur' = cur /\ live[cur].active = t
  <2>1. pc[t] = "checkpoint" \/ t \in handed[cur] \/ stop[t].phase = "waiting"
    BY <1>3 DEF StopInv, WorkUnlessLost, WorkBehind
  <2>2. CASE stop[t].phase # "none"
    <3>1. stop[t].phase = "waiting"
      BY <1>1, <1>3, <2>2 DEF StopInv, StopsMarked
    <3>2. stop'[t].phase = "waiting"
      BY <1>1, <3>1 DEF StopsMove
    <3>3. QED
      BY <3>2
  <2>3. CASE stop[t].phase = "none"
    BY <1>3, <2>1, <2>3 DEF WorkMoves
  <2>4. QED
    BY <2>2, <2>3
<1>4. CASE cur' = cur /\ live[cur].active # t
  BY <1>1, <1>4 DEF HoldsMove
<1>5. QED
  BY <1>2, <1>3, <1>4

-----------------------------------------------------------------------------
(* Handlers by what they have in common                                    *)

(* Handlers that leave the log, the Stops and the sessions' holds alone. *)
LEMMA QuietOwes ==
  ASSUME StopInv, ev' = ev, stop' = stop,
         \A s \in Sessions : /\ live'[s].active = live[s].active
                             /\ live'[s].stopping = live[s].stopping
                             /\ live'[s].cancelled \subseteq live[s].cancelled,
         cur' = cur \/ cur' = NoSession \/ up[cur'] = "none",
         cur' = cur /\ cur # NoSession =>
           \A t \in Turns : live[cur].active = t =>
             /\ pc[t] = "checkpoint" =>
                  pc'[t] = "checkpoint" \/ t \in handed'[cur] \/ stop[t].phase # "none"
             /\ t \in handed[cur] => t \in handed'[cur]
  PROVE  Owed
<1>1. HoldsMove /\ CancelsMove
  BY DEF HoldsMove, CancelsMove
<1>2. StopsMove /\ WorkMoves /\ FailsFairly
  BY DEF StopsMove, WorkMoves, FailsFairly
<1>3. QED
  BY <1>1, <1>2 DEF Owed

(* A send that starts its turn on a free session, or is queued behind it. *)
LEMMA HasSessionOwes ==
  ASSUME StopInv, NEW t \in Turns, NEW s \in Sessions,
         HasSession(t, s) \/ Start(t, s),
         pc[t] \in {"idle", "ensuring", "writing"},
         cur' = cur \/ up[cur'] = "none",
         handed' = handed, stop' = stop
  PROVE  Owed
<1>1. ev[t] = {}
  BY DEF StopInv, IInv, LogMatchesSend
<1>2. /\ live \in [Sessions -> LiveSession] /\ pc \in [Turns -> SendPoint]
      /\ ev \in [Turns -> SUBSET Event]
  BY DEF StopInv, IInv, TypeOK
<1>3. \A x \in Sessions : live[x].active # t
  <2>1. \A x \in Sessions : live[x].active = t => "started" \in ev[t]
    BY NullAssumption DEF StopInv, IInv, PointersAreStarted
  <2>2. QED
    BY <1>1, <2>1
<1>4. \A u \in Turns : u # t => pc'[u] = pc[u] /\ ev'[u] = ev[u]
  BY <1>2 DEF HasSession, Enqueue, Start, Log
<1>5. "failed" \notin ev'[t]
  BY <1>1, <1>2 DEF HasSession, Enqueue, Start, Log
<1>6. \A x \in Sessions :
        \/ /\ live'[x].active = live[x].active
           /\ live'[x].stopping = live[x].stopping
           /\ live'[x].cancelled = live[x].cancelled
        \/ live'[x].active = t /\ live'[x].cancelled = {} /\ pc'[t] = "checkpoint"
  <2>1. CASE Start(t, s)
    <3>1. live' = [live EXCEPT ![s] = Begin(live[s], t)] /\ pc'[t] = "checkpoint"
      BY <1>2, <2>1 DEF Start
    <3>2. Begin(live[s], t).active = t /\ Begin(live[s], t).cancelled = {}
      BY <1>2, BeginFacts
    <3>3. QED
      BY <1>2, <3>1, <3>2
  <2>2. CASE Enqueue(t, s)
    BY <1>2, <2>2 DEF Enqueue, LiveSession
  <2>3. CASE live' = live
    BY <2>3
  <2>4. QED
    BY <2>1, <2>2, <2>3 DEF HasSession
<1>7. HoldsMove /\ CancelsMove
  BY <1>1, <1>6 DEF HoldsMove, CancelsMove
<1>8. StopsMove
  BY DEF StopsMove
<1>9. WorkMoves
  BY <1>3, <1>4 DEF WorkMoves
<1>10. FailsFairly
  BY <1>4, <1>5 DEF FailsFairly
<1>11. QED
  BY <1>7, <1>8, <1>9, <1>10 DEF Owed

(* A turn that starts from the queue forgets who was cancelled. *)
LEMMA DrainedForgets ==
  ASSUME NEW r \in LiveSession
  PROVE  /\ Drained(r).cancelled \subseteq r.cancelled
         /\ Drained(r) = r \/ Drained(r).cancelled = {}
<1>1. CASE CanDrain(r)
  <2>1. Drained(r) = [Begin(r, Head(r.queued)) EXCEPT !.queued = Tail(r.queued)]
    BY <1>1 DEF Drained
  <2>2. Drained(r).cancelled = {}
    BY <2>1 DEF Begin, LiveSession
  <2>3. QED
    BY <2>2
<1>2. QED
  BY <1>1 DEF Drained

(* A handler that lets sessions go of turns it closes, with or without the   *)
(* drainQueue that may follow: what it writes in the log and in the sends is *)
(* all that is left to look at.                                              *)
LEMMA FreeingOwes ==
  ASSUME StopInv,
         NEW sessions \in [Sessions -> LiveSession],
         NEW log \in [Turns -> SUBSET Event],
         NEW points \in [Turns -> SendPoint],
         \/ Drain(sessions, log, points)
         \/ live' = sessions /\ ev' = log /\ pc' = points,
         cur' = cur, at' = at, stop' = stop,
         \A s \in Sessions :
           /\ sessions[s].queued = live[s].queued
           /\ sessions[s].cancelled \subseteq live[s].cancelled
           /\ \/ sessions[s].active = NoTurn
              \/ /\ sessions[s].active = live[s].active
                 /\ live[s].stopping = live[s].active =>
                      sessions[s].stopping = live[s].stopping,
         \A t \in Turns : \/ log[t] = ev[t]
                          \/ "started" \in ev[t] /\ \E e \in Terminal : log[t] = ev[t] \cup {e},
         \A t \in Turns : pc[t] = "queued" <=> points[t] = "queued",
         \A t \in Turns : stop[t].phase # "none" /\ "failed" \in log[t] \ ev[t] =>
           pc[t] # "done" /\ points[t] = "done",
         LostTurns = {} /\ cur # NoSession =>
           \A t \in Turns : live[cur].active = t /\ sessions[cur].active = t =>
             points[t] = pc[t] /\ (t \in handed[cur] => t \in handed'[cur])
  PROVE  Owed
<1> DEFINE first == IF Drain(sessions, log, points) THEN Starting(sessions) ELSE {}
<1>0. \/ Drain(sessions, log, points) /\ first = Starting(sessions)
      \/ live' = sessions /\ ev' = log /\ pc' = points /\ first = {}
  OBVIOUS
<1> HIDE DEF first
<1>1. TypeOK /\ QueuedInOnePlace
  BY DEF StopInv, IInv
<1>2. \A t \in first : t \in Turns /\ Waits(t) /\ log[t] = ev[t]
  <2>1. CASE Drain(sessions, log, points) /\ first = Starting(sessions)
    BY <1>1, <2>1, DrainKeeps, DrainFacts
  <2>2. QED
    BY <1>0, <2>1
<1>3. \A t \in Turns :
        /\ ev'[t] = IF t \in first THEN log[t] \cup {"started"} ELSE log[t]
        /\ pc'[t] = IF t \in first THEN "checkpoint" ELSE points[t]
  <2>1. CASE Drain(sessions, log, points) /\ first = Starting(sessions)
    <3>1. \A t \in Turns :
            /\ ev'[t] = IF t \in Starting(sessions) THEN log[t] \cup {"started"} ELSE log[t]
            /\ pc'[t] = IF t \in Starting(sessions) THEN "checkpoint" ELSE points[t]
      BY <2>1 DEF Drain, Log
    <3>2. QED
      BY <2>1, <3>1
  <2>2. CASE live' = sessions /\ ev' = log /\ pc' = points /\ first = {}
    BY <2>2
  <2>3. QED
    BY <1>0, <2>1, <2>2
<1>4. \A s \in Sessions :
        /\ live'[s].cancelled \subseteq sessions[s].cancelled
        /\ \/ live'[s].active = sessions[s].active /\ live'[s].stopping = sessions[s].stopping
           \/ live'[s].active \in first /\ sessions[s].active = NoTurn /\ s = cur
  <2>1. CASE Drain(sessions, log, points) /\ first = Starting(sessions)
    <3> SUFFICES ASSUME NEW s \in Sessions
                 PROVE  /\ live'[s].cancelled \subseteq sessions[s].cancelled
                        /\ \/ /\ live'[s].active = sessions[s].active
                              /\ live'[s].stopping = sessions[s].stopping
                           \/ /\ live'[s].active \in first
                              /\ sessions[s].active = NoTurn /\ s = cur
      OBVIOUS
    <3>1. live'[s] = IF s = cur THEN Drained(sessions[s]) ELSE sessions[s]
      BY <1>1, <2>1, DrainFacts
    <3>2. CASE s = cur /\ CanDrain(sessions[s])
      <4>1. first = {Head(sessions[s].queued)}
        BY <2>1, <3>2, NullAssumption DEF Starting
      <4>2. live'[s].active = Head(sessions[s].queued)
        BY <3>1, <3>2, DrainedFacts
      <4>3. live'[s].cancelled \subseteq sessions[s].cancelled
        BY <3>1, <3>2, DrainedForgets
      <4>4. sessions[s].active = NoTurn
        BY <3>2 DEF CanDrain
      <4>5. QED
        BY <3>2, <4>1, <4>2, <4>3, <4>4
    <3>3. CASE ~(s = cur /\ CanDrain(sessions[s]))
      <4>1. live'[s] = sessions[s]
        BY <3>1, <3>3, DrainedFacts
      <4>2. QED
        BY <4>1
    <3>4. QED
      BY <3>2, <3>3
  <2>2. CASE live' = sessions
    BY <2>2
  <2>3. QED
    BY <1>0, <2>1, <2>2
<1>5. \A t \in first : "started" \notin ev[t]
  BY <1>2 DEF Waits
<1>6. HoldsMove
  <2> SUFFICES ASSUME NEW s \in Sessions, NEW t \in Turns, live'[s].active = t
               PROVE  \/ /\ live[s].active = t
                         /\ live[s].stopping = t => live'[s].stopping = t
                      \/ "started" \notin ev[t] /\ pc'[t] = "checkpoint" /\ stop'[t] = stop[t]
    BY DEF HoldsMove
  <2>1. CASE live'[s].active \in first
    BY <1>3, <1>5, <2>1
  <2>2. CASE live'[s].active = sessions[s].active /\ live'[s].stopping = sessions[s].stopping
    <3>1. sessions[s].active # NoTurn
      BY <2>2, NullAssumption
    <3>2. QED
      BY <2>2, <3>1
  <2>3. QED
    BY <1>4, <2>1, <2>2
<1>7. CancelsMove
  BY <1>4 DEF CancelsMove
<1>8. StopsMove
  BY DEF StopsMove
<1>9. WorkMoves
  <2>1. ASSUME cur # NoSession, NEW t \in Turns, live[cur].active = t, live'[cur].active = t
        PROVE  sessions[cur].active = t /\ t \notin first
    <3>1. cur \in Sessions /\ "started" \in ev[t]
      BY <1>1, <2>1, NullAssumption DEF TypeOK, StopInv, IInv, PointersAreStarted
    <3>2. QED
      BY <1>4, <1>5, <2>1, <3>1
  <2>2. QED
    BY <1>3, <2>1 DEF WorkMoves
<1>10. FailsFairly
  <2> SUFFICES ASSUME NEW t \in Turns, stop[t].phase # "none", "failed" \in ev'[t] \ ev[t]
               PROVE  pc[t] # "done" /\ pc'[t] = "done"
    BY DEF FailsFairly
  <2>1. "failed" \in log[t] \ ev[t]
    <3>1. ev'[t] \subseteq log[t] \cup {"started"}
      BY <1>3
    <3>2. QED
      BY <3>1
  <2>2. t \notin first
    BY <1>2, <2>1
  <2>3. QED
    BY <1>3, <2>1, <2>2
<1>11. QED
  BY <1>6, <1>7, <1>8, <1>9, <1>10 DEF Owed
(* An end committed for one turn. *)
LEMMA LogEvent ==
  ASSUME TypeOK, NEW e \in {"completed", "failed", "interrupted"}, NEW t
  PROVE  /\ Log(ev, e, {t}) \in [Turns -> SUBSET Event]
         /\ \A u \in Turns : Log(ev, e, {t})[u] = IF u = t THEN ev[u] \cup {e} ELSE ev[u]
<1>1. e \in Event
  BY DEF Event
<1>2. ev \in [Turns -> SUBSET Event]
  BY DEF TypeOK
<1>3. QED
  BY <1>1, <1>2 DEF Log

(* A session lets go of its turn. *)
LEMMA FreedFacts ==
  ASSUME TypeOK, NEW s
  PROVE  \A x \in Sessions :
           /\ [live EXCEPT ![s].active = NoTurn][x].queued = live[x].queued
           /\ [live EXCEPT ![s].active = NoTurn][x].cancelled = live[x].cancelled
           /\ [live EXCEPT ![s].active = NoTurn][x].stopping = live[x].stopping
           /\ [live EXCEPT ![s].active = NoTurn][x].active =
                IF x = s THEN NoTurn ELSE live[x].active
BY DEF TypeOK, LiveSession

-----------------------------------------------------------------------------
(* The actions                                                             *)

(* A rejected dispatch closes its own turn, or finds it closed. *)
LEMMA SendFailsOwes ==
  ASSUME StopInv, NEW t \in Turns, SendFails(t), pc[t] \in {"checkpoint", "sending"},
         \A s \in Sessions : \A u \in Turns : u # t /\ u \in handed[s] => u \in handed'[s],
         cur' = cur, at' = at, stop' = stop
  PROVE  Owed
<1> DEFINE freed == [live EXCEPT ![at[t]].active = NoTurn]
           log == Log(ev, "failed", {t})
           point == [pc EXCEPT ![t] = "done"]
<1>1. TypeOK
  BY DEF StopInv, IInv
<1>2. "started" \in ev[t]
  BY DEF StopInv, IInv, LogMatchesSend
<1>3. freed \in [Sessions -> LiveSession]
  BY <1>1, FreedType
<1>4. \A x \in Sessions :
        /\ freed[x].queued = live[x].queued /\ freed[x].cancelled = live[x].cancelled
        /\ freed[x].stopping = live[x].stopping
        /\ freed[x].active = IF x = at[t] THEN NoTurn ELSE live[x].active
  BY <1>1, FreedFacts
<1>5. /\ log \in [Turns -> SUBSET Event]
      /\ \A u \in Turns : log[u] = IF u = t THEN ev[u] \cup {"failed"} ELSE ev[u]
  BY <1>1, LogEvent
<1>6. /\ point \in [Turns -> SendPoint]
      /\ \A u \in Turns : point[u] = IF u = t THEN "done" ELSE pc[u]
  BY <1>1 DEF TypeOK, SendPoint
<1>7. Drain(freed, log, point) \/ (live' = freed /\ ev' = log /\ pc' = point)
  BY DEF SendFails
<1> HIDE DEF freed, log, point
<1>8. ASSUME cur # NoSession, NEW u \in Turns, live[cur].active = u, freed[cur].active = u
      PROVE  point[u] = pc[u] /\ (u \in handed[cur] => u \in handed'[cur])
  <2>1. cur \in Sessions /\ at[u] = cur
    BY <1>1, <1>8, NullAssumption DEF TypeOK, StopInv, IInv, PointersAreStarted
  <2>2. u # t
    BY <1>4, <1>8, <2>1, NullAssumption
  <2>3. QED
    BY <1>6, <2>1, <2>2
<1>9. \A u \in Turns : \/ log[u] = ev[u]
                       \/ "started" \in ev[u] /\ \E e \in Terminal : log[u] = ev[u] \cup {e}
  BY <1>2, <1>5 DEF Terminal
<1>10. /\ \A u \in Turns : pc[u] = "queued" <=> point[u] = "queued"
       /\ \A u \in Turns : "failed" \in log[u] \ ev[u] => pc[u] # "done" /\ point[u] = "done"
  BY <1>5, <1>6
<1>11. \A x \in Sessions :
         /\ freed[x].queued = live[x].queued
         /\ freed[x].cancelled \subseteq live[x].cancelled
         /\ \/ freed[x].active = NoTurn
            \/ /\ freed[x].active = live[x].active
               /\ live[x].stopping = live[x].active => freed[x].stopping = live[x].stopping
  BY <1>4
<1>12. QED
  BY <1>3, <1>5, <1>6, <1>7, <1>8, <1>9, <1>10, <1>11, FreeingOwes

(* turn.completed takes its turn out of the provider's hands and, if the     *)
(* thread runs it, off the thread.                                           *)
LEMMA TurnCompletedOwes ==
  ASSUME StopInv, NEW s \in Sessions, NEW t \in Turns, TurnCompleted(s, t)
  PROVE  Owed
<1> DEFINE settled == [x \in Sessions |-> IF x = cur THEN Settled(live[x], t) ELSE live[x]]
           log == Log(ev, "completed", {t})
<1>1. TypeOK /\ \A x \in Sessions : live[x] \in LiveSession
  BY DEF StopInv, IInv, TypeOK
<1>2. \A x \in Sessions :
        /\ settled[x] \in LiveSession
        /\ settled[x].queued = live[x].queued
        /\ settled[x].cancelled \subseteq live[x].cancelled
        /\ x = cur => settled[x].active = IF live[x].active = t THEN NoTurn ELSE live[x].active
        /\ x # cur => settled[x].active = live[x].active
        /\ settled[x].stopping = live[x].stopping \/ live[x].stopping = t
        /\ x # cur => settled[x].stopping = live[x].stopping
  BY <1>1, SettledFacts DEF Settled, LiveSession
<1>3. settled \in [Sessions -> LiveSession]
  BY <1>2
<1>4. /\ log \in [Turns -> SUBSET Event]
      /\ \A u \in Turns : log[u] = IF u = t THEN ev[u] \cup {"completed"} ELSE ev[u]
  BY <1>1, LogEvent
<1>5. /\ Drain(settled, log, pc) /\ t \in handed[s]
      /\ cur' = cur /\ at' = at /\ stop' = stop /\ pc \in [Turns -> SendPoint]
      /\ \A x \in Sessions : \A u \in Turns : u # t /\ u \in handed[x] => u \in handed'[x]
  BY <1>1 DEF TurnCompleted, TypeOK
<1> HIDE DEF settled, log
<1>6. "started" \in ev[t]
  BY <1>5 DEF StopInv, IInv, PointersAreStarted
<1>7. \A x \in Sessions :
        /\ settled[x].queued = live[x].queued
        /\ settled[x].cancelled \subseteq live[x].cancelled
        /\ \/ settled[x].active = NoTurn
           \/ /\ settled[x].active = live[x].active
              /\ live[x].stopping = live[x].active => settled[x].stopping = live[x].stopping
  BY <1>2
<1>8. \A u \in Turns :
        /\ \/ log[u] = ev[u]
           \/ "started" \in ev[u] /\ \E e \in Terminal : log[u] = ev[u] \cup {e}
        /\ "failed" \notin log[u] \ ev[u]
  BY <1>4, <1>6 DEF Terminal
<1>9. ASSUME cur # NoSession, NEW u \in Turns, live[cur].active = u, settled[cur].active = u
      PROVE  pc[u] = pc[u] /\ (u \in handed[cur] => u \in handed'[cur])
  <2>1. cur \in Sessions
    BY <1>1, <1>9 DEF TypeOK
  <2>2. u # t
    BY <1>2, <1>9, <2>1, NullAssumption
  <2>3. QED
    BY <1>5, <2>1, <2>2
<1>10. QED
  BY <1>3, <1>4, <1>5, <1>7, <1>8, <1>9, FreeingOwes

(* A provider error is charged to the running turn only while its user has   *)
(* not stopped it: StopsMarked puts the mark there that the handler looks at. *)
LEMMA ProviderErrorOwes ==
  ASSUME StopInv, NEW s \in Sessions, ProviderError(s)
  PROVE  Owed
<1> DEFINE freed == [live EXCEPT ![cur].active = NoTurn]
           a == live[cur].active
           log == Log(ev, "failed", {a})
<1>1. TypeOK
  BY DEF StopInv, IInv
<1>2. /\ cur \in Sessions /\ a \in Turns /\ a # live[cur].stopping
      /\ "started" \in ev[a] /\ stop[a].phase = "none"
  <2>1. cur \in Sessions /\ a \in Turns /\ a # live[cur].stopping /\ a # NoTurn
    BY <1>1 DEF ProviderError, TypeOK, LiveSession
  <2>2. QED
    BY <2>1 DEF StopInv, StopsMarked, IInv, PointersAreStarted
<1>3. freed \in [Sessions -> LiveSession]
  BY <1>1, FreedType
<1>4. \A x \in Sessions :
        /\ freed[x].queued = live[x].queued /\ freed[x].cancelled = live[x].cancelled
        /\ freed[x].stopping = live[x].stopping
        /\ freed[x].active = IF x = cur THEN NoTurn ELSE live[x].active
  BY <1>1, FreedFacts
<1>5. /\ Drain(freed, log, pc)
      /\ cur' = cur /\ at' = at /\ stop' = stop /\ handed' = handed
      /\ pc \in [Turns -> SendPoint]
  BY <1>1 DEF ProviderError, TypeOK
<1> HIDE DEF freed, a
<1>6. /\ log \in [Turns -> SUBSET Event]
      /\ \A u \in Turns : log[u] = IF u = a THEN ev[u] \cup {"failed"} ELSE ev[u]
  BY <1>1, LogEvent
<1> HIDE DEF log
<1>7. \A u \in Turns :
        /\ \/ log[u] = ev[u]
           \/ "started" \in ev[u] /\ \E e \in Terminal : log[u] = ev[u] \cup {e}
        /\ stop[u].phase # "none" => "failed" \notin log[u] \ ev[u]
  BY <1>2, <1>6 DEF Terminal
<1>8. \A u \in Turns : freed[cur].active # u
  BY <1>2, <1>4, NullAssumption
<1>9. \A x \in Sessions :
        /\ freed[x].queued = live[x].queued
        /\ freed[x].cancelled \subseteq live[x].cancelled
        /\ \/ freed[x].active = NoTurn
           \/ /\ freed[x].active = live[x].active
              /\ live[x].stopping = live[x].active => freed[x].stopping = live[x].stopping
  BY <1>4
<1>10. QED
  BY <1>3, <1>5, <1>6, <1>7, <1>8, <1>9, FreeingOwes

(* A message taken back is nobody's running turn. *)
LEMMA DequeueOwes ==
  ASSUME StopInv, NEW t \in Turns, Dequeue(t)
  PROVE  Owed
<1>1. /\ live \in [Sessions -> LiveSession] /\ ev \in [Turns -> SUBSET Event]
      /\ pc \in [Turns -> SendPoint] /\ cur \in Sessions
  BY DEF StopInv, IInv, TypeOK, Dequeue
<1>2. /\ ev' = Log(ev, "dequeued", {t}) /\ pc' = [pc EXCEPT ![t] = "done"]
      /\ cur' = cur /\ stop' = stop /\ handed' = handed
  BY DEF Dequeue
<1>3. \A x \in Sessions : /\ live'[x].active = live[x].active
                          /\ live'[x].stopping = live[x].stopping
                          /\ live'[x].cancelled = live[x].cancelled
  <2>1. PICK i \in DOMAIN live[cur].queued :
          live' = [live EXCEPT ![cur].queued = RemoveAt(@, i)]
    BY DEF Dequeue
  <2>2. PICK q : live' = [live EXCEPT ![cur].queued = q]
    BY <2>1
  <2>3. QED
    BY <1>1, <2>2 DEF LiveSession
<1>4. pc[t] = "queued" /\ ev[t] = {"queued"}
  <2>1. t \in ToSet(live[cur].queued)
    BY DEF Dequeue, ToSet
  <2>2. QED
    BY <1>1, <2>1 DEF StopInv, IInv, QueuedInOnePlace, Waits
<1>5. \A x \in Sessions : live[x].active # t
  BY <1>4, NullAssumption DEF StopInv, IInv, PointersAreStarted
<1>6. \A u \in Turns : pc'[u] = IF u = t THEN "done" ELSE pc[u]
  BY <1>1, <1>2
<1>7. HoldsMove /\ CancelsMove /\ StopsMove
  BY <1>2, <1>3 DEF HoldsMove, CancelsMove, StopsMove
<1>8. WorkMoves
  BY <1>1, <1>2, <1>5, <1>6 DEF WorkMoves
<1>9. FailsFairly
  BY <1>1, <1>2 DEF FailsFairly, Log
<1>10. QED
  BY <1>7, <1>8, <1>9 DEF Owed

(* Stop marks the turn its session holds before anything else may run. *)
LEMMA InterruptOwes ==
  ASSUME StopInv, NEW t \in Turns, Interrupt(t)
  PROVE  Owed
<1>1. /\ live \in [Sessions -> LiveSession] /\ stop \in [Turns -> StopCall]
      /\ cur \in Sessions /\ live[cur].active = t
  BY DEF StopInv, IInv, TypeOK, Interrupt
<1>2. /\ at[t] = cur /\ "started" \in ev[t] /\ stop[t].phase = "none"
      /\ \A x \in Sessions : live[x].active = t => x = cur
  BY <1>1, NullAssumption DEF StopInv, IInv, PointersAreStarted, Interrupt
<1>3. \A x \in Sessions :
        /\ live'[x].active = live[x].active
        /\ live'[x].stopping = IF x = cur THEN t ELSE live[x].stopping
        /\ live'[x].cancelled = IF x = cur THEN live[x].cancelled \cup {t}
                                ELSE live[x].cancelled
  BY <1>1 DEF Interrupt, LiveSession
<1>4. \A u \in Turns : stop'[u] = IF u = t THEN [phase |-> "waiting", on |-> cur,
                                   abandoned |-> ToSet(live[cur].queued)] ELSE stop[u]
  BY <1>1 DEF Interrupt
<1>5. /\ cur' = cur /\ ev' = ev /\ handed' = handed /\ pc' = pc
  BY DEF Interrupt
<1>6. stop'[t].phase = "waiting" /\ \A u \in Turns : u # t => stop'[u] = stop[u]
  BY <1>4
<1>7. HoldsMove
  BY <1>1, <1>2, <1>3 DEF HoldsMove
<1>8. CancelsMove
  BY <1>3, <1>6 DEF CancelsMove
<1>9. StopsMove
  BY <1>2, <1>3, <1>6 DEF StopsMove
<1>10. WorkMoves /\ FailsFairly
  BY <1>5 DEF WorkMoves, FailsFairly
<1>11. QED
  BY <1>7, <1>8, <1>9, <1>10 DEF Owed

(* The Stop returns: its own session lets go of whatever it holds, which is  *)
(* the stopped turn if any session holds it.                                 *)
LEMMA StopReturnsOwes ==
  ASSUME StopInv, NEW t \in Turns, Interrupted(t) \/ InterruptFails(t)
  PROVE  Owed
<1>1. /\ live \in [Sessions -> LiveSession] /\ stop \in [Turns -> StopCall]
      /\ ev \in [Turns -> SUBSET Event] /\ pc \in [Turns -> SendPoint]
      /\ cur \in Sessions \cup {NoSession}
  BY DEF StopInv, IInv, TypeOK
<1>2. stop[t].phase = "waiting" /\ stop[t].on = at[t] /\ at[t] \in Sessions
  BY DEF StopInv, IInv, TypeOK, PointersAreStarted, Interrupted, InterruptFails, StopReturns
<1>3. cur' = cur /\ handed' = handed
  BY DEF Interrupted, InterruptFails
<1>4. \A x \in Sessions :
        /\ live'[x].active = IF x = at[t] THEN NoTurn ELSE live[x].active
        /\ live'[x].stopping = live[x].stopping \/ x = at[t]
        /\ live'[x].cancelled = live[x].cancelled
  <2>1. CASE live' = [live EXCEPT ![at[t]].active = NoTurn]
    BY <1>1, <2>1 DEF LiveSession
  <2>2. CASE live' = [live EXCEPT ![at[t]].active = NoTurn, ![at[t]].stopping = NoTurn]
    BY <1>1, <2>2 DEF LiveSession
  <2>3. QED
    BY <1>2, <2>1, <2>2 DEF Interrupted, InterruptFails
<1>5. \A x \in Sessions : live'[x].active # t
  BY <1>2, <1>4, NullAssumption DEF StopInv, IInv, PointersAreStarted
<1>6. /\ stop'[t].phase = "done"
      /\ \A u \in Turns : u # t => stop'[u] = stop[u]
  BY <1>1 DEF Interrupted, InterruptFails, StopReturns, StopCall
<1>7. \A u \in Turns : u # t => ("failed" \in ev'[u] => "failed" \in ev[u])
  BY <1>1 DEF Interrupted, InterruptFails, StopReturns, Log
<1>8. \A u \in Turns : ev[u] # {"queued"} => pc'[u] = pc[u]
  <2>1. \A u \in stop[t].abandoned : ev[u] = {"queued"}
    BY DEF StopInv, IInv, QueuedInOnePlace, Waits
  <2>2. QED
    BY <1>1, <2>1 DEF Interrupted, InterruptFails, StopReturns
<1>9. HoldsMove
  BY <1>4, NullAssumption DEF HoldsMove
<1>10. CancelsMove
  BY <1>4 DEF CancelsMove
<1>11. StopsMove
  BY <1>2, <1>5, <1>6 DEF StopsMove
<1>12. WorkMoves
  <2>1. \A u \in Turns : cur # NoSession /\ live[cur].active = u => ev[u] # {"queued"}
    BY <1>1, NullAssumption DEF StopInv, IInv, PointersAreStarted
  <2>2. QED
    BY <1>3, <1>8, <2>1 DEF WorkMoves
<1>13. FailsFairly
  BY <1>2, <1>6, <1>7 DEF FailsFairly
<1>14. QED
  BY <1>9, <1>10, <1>11, <1>12, <1>13 DEF Owed

(* The pre-turn checkpoint of a send settles. *)
LEMMA CheckpointOwes ==
  ASSUME StopInv, NEW t \in Turns, CheckpointCancelled(t) \/ Dispatch(t)
  PROVE  Owed
<1>1. /\ live \in [Sessions -> LiveSession] /\ pc \in [Turns -> SendPoint]
      /\ handed \in [Sessions -> SUBSET Turns] /\ at[t] \in Sessions
      /\ pc[t] = "checkpoint" /\ cur \in Sessions \cup {NoSession}
  BY DEF StopInv, IInv, TypeOK, SessionsExist, CheckpointCancelled, Dispatch
<1>2. ev' = ev /\ stop' = stop /\ cur' = cur
  BY DEF CheckpointCancelled, Dispatch
<1>3. \A x \in Sessions : /\ live'[x].active = live[x].active
                          /\ live'[x].stopping = live[x].stopping
                          /\ live'[x].cancelled \subseteq live[x].cancelled
  <2>1. CASE live' = live
    BY <2>1
  <2>2. CASE live' = [live EXCEPT ![at[t]].cancelled = live[at[t]].cancelled \ {t}]
    BY <1>1, <2>2 DEF LiveSession
  <2>3. QED
    BY <2>1, <2>2 DEF CheckpointCancelled, Dispatch
<1>4. ASSUME cur # NoSession, NEW u \in Turns, live[cur].active = u
      PROVE  /\ pc[u] = "checkpoint" =>
                  pc'[u] = "checkpoint" \/ u \in handed'[cur] \/ stop[u].phase # "none"
             /\ u \in handed[cur] => u \in handed'[cur]
  <2>1. at[u] = cur /\ cur \in Sessions
    BY <1>1, <1>4, NullAssumption DEF StopInv, IInv, PointersAreStarted
  <2>2. CASE CheckpointCancelled(t)
    <3>1. stop[t].phase # "none"
      BY <1>1, <2>2 DEF CheckpointCancelled, StopInv, CancelledStopped
    <3>2. handed' = handed /\ pc' = [pc EXCEPT ![t] = "done"]
      BY <2>2 DEF CheckpointCancelled
    <3>3. QED
      BY <1>1, <3>1, <3>2
  <2>3. CASE Dispatch(t)
    <3>1. /\ handed[at[t]] = {} /\ handed' = [handed EXCEPT ![at[t]] = {t}]
          /\ pc' = [pc EXCEPT ![t] = "sending"]
      BY <2>3 DEF Dispatch
    <3>2. QED
      BY <1>1, <2>1, <3>1
  <2>4. QED
    BY <2>2, <2>3
<1>5. QED
  BY <1>2, <1>3, <1>4, QuietOwes

(* The checkpoint of a turn throws, in a directory that may be lost. *)
LEMMA CheckpointThrowsOwes ==
  ASSUME StopInv, NEW t \in Turns, CheckpointThrows(t)
  PROVE  Owed
<1> DEFINE log == Log(ev, "failed", {t})
           point == [pc EXCEPT ![t] = "done"]
<1>1. TypeOK
  BY DEF StopInv, IInv
<1>2. /\ "started" \in ev[t] /\ pc[t] = "checkpoint" /\ LostTurns # {}
      /\ cur' = cur /\ at' = at /\ stop' = stop /\ handed' = handed
  BY DEF StopInv, IInv, LogMatchesSend, CheckpointThrows
<1>3. /\ log \in [Turns -> SUBSET Event]
      /\ \A u \in Turns : log[u] = IF u = t THEN ev[u] \cup {"failed"} ELSE ev[u]
  BY <1>1, LogEvent
<1>4. /\ point \in [Turns -> SendPoint]
      /\ \A u \in Turns : point[u] = IF u = t THEN "done" ELSE pc[u]
  BY <1>1 DEF TypeOK, SendPoint
<1>5. Drain(live, log, point) \/ (live' = live /\ ev' = ev /\ pc' = point)
  BY DEF CheckpointThrows
<1> HIDE DEF log, point
<1>6. /\ \A u \in Turns :
           \/ log[u] = ev[u]
           \/ "started" \in ev[u] /\ \E e \in Terminal : log[u] = ev[u] \cup {e}
      /\ \A u \in Turns : pc[u] = "queued" <=> point[u] = "queued"
      /\ \A u \in Turns : "failed" \in log[u] \ ev[u] => pc[u] # "done" /\ point[u] = "done"
  BY <1>2, <1>3, <1>4 DEF Terminal
<1>7. live \in [Sessions -> LiveSession] /\ ev \in [Turns -> SUBSET Event]
  BY <1>1 DEF TypeOK
<1>8. CASE Drain(live, log, point)
  BY <1>2, <1>3, <1>4, <1>6, <1>7, <1>8, FreeingOwes
<1>9. CASE live' = live /\ ev' = ev /\ pc' = point
  BY <1>2, <1>4, <1>6, <1>7, <1>9, FreeingOwes
<1>10. QED
  BY <1>5, <1>8, <1>9

-----------------------------------------------------------------------------
(* Every step                                                              *)

LEMMA StopInit == Init => StopInv
<1> SUFFICES ASSUME Init PROVE StopInv
  OBVIOUS
<1>1. IInv
  BY InvariantInit
<1>2. StopsMarked /\ CancelledStopped /\ WorkUnlessLost
  BY DEF Init, StopsMarked, CancelledStopped, WorkUnlessLost, WorkBehind, NoStop, FreshSession
<1>3. QED
  BY <1>1, <1>2 DEF StopInv

LEMMA StepOwes == StopInv /\ [Next]_vars => Owed
<1> SUFFICES ASSUME StopInv, [Next]_vars
             PROVE  Owed
  OBVIOUS
<1>0. TypeOK
  BY DEF StopInv, IInv
<1>1. ASSUME NEW t \in Turns, SendWarm(t)
      PROVE  Owed
  <2>1. /\ cur \in Sessions /\ HasSession(t, cur) /\ pc[t] \in {"idle", "ensuring", "writing"}
        /\ cur' = cur /\ handed' = handed /\ stop' = stop
    BY <1>0, <1>1 DEF SendWarm, TypeOK
  <2>2. QED
    BY <2>1, HasSessionOwes
<1>2. ASSUME NEW t \in Turns, SessionReady(t)
      PROVE  Owed
  <2>1. PICK s \in Sessions : up[s] = "none" /\ cur' = s /\ HasSession(t, s)
    BY <1>2 DEF SessionReady
  <2>2. pc[t] \in {"idle", "ensuring", "writing"} /\ handed' = handed /\ stop' = stop
    BY <1>2 DEF SessionReady
  <2>3. QED
    BY <2>1, <2>2, HasSessionOwes
<1>3. ASSUME NEW t \in Turns, ImagesWritten(t)
      PROVE  Owed
  <2>1. /\ at[t] \in Sessions /\ Start(t, at[t]) /\ pc[t] \in {"idle", "ensuring", "writing"}
        /\ cur' = cur /\ handed' = handed /\ stop' = stop
    BY <1>0, <1>3 DEF ImagesWritten, TypeOK, StopInv, IInv, SessionsExist
  <2>2. QED
    BY <2>1, HasSessionOwes
<1>4. ASSUME NEW t \in Turns, DispatchRefused(t) \/ SendRejects(t)
      PROVE  Owed
  <2>1. /\ SendFails(t) /\ pc[t] \in {"checkpoint", "sending"}
        /\ cur' = cur /\ at' = at /\ stop' = stop
    BY <1>4 DEF DispatchRefused, SendRejects
  <2>2. \A s \in Sessions : \A u \in Turns : u # t /\ u \in handed[s] => u \in handed'[s]
    BY <1>0, <1>4 DEF DispatchRefused, SendRejects, TypeOK
  <2>3. QED
    BY <2>1, <2>2, SendFailsOwes
<1>5. ASSUME NEW t \in Turns,
             SendCold(t) \/ SessionFails(t) \/ ImagesRefused(t) \/ SendResolves(t)
      PROVE  Owed
  <2>1. \A u \in Turns : pc[u] = "checkpoint" => pc'[u] = "checkpoint"
    BY <1>0, <1>5 DEF SendCold, SessionFails, ImagesRefused, SendResolves, TypeOK
  <2>2. /\ cur' = cur /\ live' = live /\ handed' = handed /\ stop' = stop /\ ev' = ev
    BY <1>5 DEF SendCold, SessionFails, ImagesRefused, SendResolves
  <2>3. QED
    BY <2>1, <2>2, QuietOwes
<1>6. ASSUME NEW s \in Sessions, SessionExited(s) \/ ReapIdle(s) \/ EvictWarm(s)
      PROVE  Owed
  <2>1. cur' = NoSession /\ live' = live /\ stop' = stop /\ ev' = ev
    BY <1>6 DEF SessionExited, ReapIdle, EvictWarm, DropSession
  <2>2. QED
    BY <2>1, QuietOwes
<1>7. CASE PrewarmReady
  <2>1. /\ up[cur'] = "none" /\ cur' \in Sessions
        /\ live' = live /\ handed' = handed /\ pc' = pc /\ stop' = stop /\ ev' = ev
    BY <1>7 DEF PrewarmReady
  <2>2. QED
    BY <2>1, QuietOwes
<1>8. CASE \/ Prewarm \/ PrewarmFails \/ ProviderSwitched
           \/ SetPermissionMode \/ SetProvider \/ UNCHANGED vars
  <2>1. /\ cur' = cur \/ cur' = NoSession
        /\ live' = live /\ handed' = handed /\ pc' = pc /\ stop' = stop /\ ev' = ev
    BY <1>8 DEF Prewarm, PrewarmFails, ProviderSwitched, SetPermissionMode, DropSession,
                SetProvider, vars
  <2>2. QED
    BY <2>1, QuietOwes
<1>9. QED
  BY <1>1, <1>2, <1>3, <1>4, <1>5, <1>6, <1>7, <1>8, CheckpointOwes, CheckpointThrowsOwes,
     DequeueOwes, InterruptOwes, StopReturnsOwes, TurnCompletedOwes, ProviderErrorOwes
  DEF Next, Resume

LEMMA StopStep == StopInv /\ [Next]_vars => StopInv'
<1> SUFFICES ASSUME StopInv, [Next]_vars
             PROVE  StopInv'
  OBVIOUS
<1>1. Kept
  BY InvariantStep DEF StopInv
<1>2. Owed
  BY StepOwes
<1>3. IInv' /\ LogSteps
  BY <1>1 DEF Kept
<1>4. StopsMarked' /\ CancelledStopped' /\ WorkUnlessLost'
  BY <1>2, <1>3, StopsMarkedKept, CancelledKept, WorkKept DEF Owed
<1>5. QED
  BY <1>3, <1>4 DEF StopInv

(* The strengthened invariant: a stopped turn is marked where it is held,    *)
(* and a busy thread has the checkpoint, the provider or a Stop behind it.   *)
THEOREM StopInvariant == Spec => []StopInv
BY StopInit, StopStep, PTL DEF Spec

(* When no checkpoint throws, a busy thread always has something that will   *)
(* free it: no order of completions, errors, exits, Stops and session        *)
(* replacements leaves a thread busy with nothing behind it.                 *)
THEOREM BusyThreadHasWork ==
  ASSUME LostTurns = {}
  PROVE  Spec => []BusyHasWork
<1>1. StopInv => BusyHasWork
  <2> SUFFICES ASSUME StopInv, cur # NoSession, live[cur].active # NoTurn
               PROVE  LET t == live[cur].active IN
                      \/ pc[t] \in {"checkpoint", "sending"}
                      \/ t \in handed[cur]
                      \/ stop[t].phase = "waiting"
    BY DEF BusyHasWork
  <2>1. live[cur].active \in Turns
    BY DEF StopInv, IInv, TypeOK, LiveSession
  <2>2. QED
    BY <2>1 DEF StopInv, WorkUnlessLost, WorkBehind
<1>2. QED
  BY StopInvariant, <1>1, PTL

(* Stop is not a failure: an error that arrives while the user is stopping a *)
(* turn never becomes that turn's failure.                                   *)
THEOREM StopIsNoFailure == Spec => StopIsNotAFailure
<1>1. StopInv /\ [Next]_vars =>
        [\A t \in Turns :
           stop[t].phase # "none" /\ "failed" \in ev'[t] \ ev[t] =>
             \/ pc[t] # "done" /\ pc'[t] = "done"
             \/ stop'[t].phase # stop[t].phase]_vars
  BY StepOwes DEF Owed, FailsFairly
<1>2. QED
  BY StopInvariant, <1>1, PTL DEF Spec, StopIsNotAFailure
=============================================================================
