--------------------------- MODULE AdapterProofs ----------------------------
(***************************************************************************)
(* Every adapter keeps the contract of AdapterPromise, repeats a           *)
(* conversation that makes sense, and leaves no process of a turn behind.  *)
(*                                                                         *)
(* What an adapter believes is running was given to it and has not ended   *)
(* (RunningIsGiven of its module, CallsAreGiven of codex): with that, an   *)
(* end is only ever reported for a turn that was given.  Each section has  *)
(* the invariant of one adapter, that it holds at first, and that a step   *)
(* keeps it and moves at most one turn, forward.  AcpTurn in print mode is *)
(* the per-turn adapter; ClaudeTurn is instantiated twice, with one proof. *)
(***************************************************************************)
EXTENDS AdapterParts, FiniteSetTheorems, TLAPS

-----------------------------------------------------------------------------
(* The orchestrator as an adapter meets it                                  *)

(* What the orchestrator's record is after each thing it hears or does.     *)
LEMMA HostKept ==
  ASSUME NEW h \in Hosts, NEW t \in Turns
  PROVE  /\ Gave(h, t) \in Hosts /\ Refused(h, t) \in Hosts
         /\ Stopped(h, t) \in Hosts /\ StopReturned(h) \in Hosts
         /\ HearCompleted(h, t) \in Hosts /\ HearError(h) \in Hosts /\ HearExited(h) \in Hosts
<1>1. Gave(h, t) \in Hosts /\ Refused(h, t) \in Hosts
  BY DEF Hosts, Lives, MaybeTurn, Gave, Refused
<1>2. Stopped(h, t) \in Hosts /\ StopReturned(h) \in Hosts /\ HearError(h) \in Hosts
      /\ HearExited(h) \in Hosts
  BY DEF Hosts, Lives, MaybeTurn, Stopped, StopReturned, HearError, HearExited
<1>3. HearCompleted(h, t) \in Hosts
  BY DEF Hosts, Lives, MaybeTurn, HearCompleted
<1>4. QED
  BY <1>1, <1>2, <1>3

(* Calls take a turn or refuse it; nothing but turn.completed ends one.     *)
LEMMA LifeMoves ==
  ASSUME NEW h \in Hosts, NEW t \in Turns
  PROVE  /\ Gave(h, t).life = [h.life EXCEPT ![t] = "given"]
         /\ Refused(h, t).life = [h.life EXCEPT ![t] = "refused"]
         /\ Stopped(h, t).life = h.life /\ StopReturned(h).life = h.life
         /\ HearError(h).life = h.life /\ HearExited(h).life = h.life
         /\ h.life[t] = "given" => HearCompleted(h, t).life = [h.life EXCEPT ![t] = "over"]
BY DEF Hosts, Gave, Refused, Stopped, StopReturned, HearCompleted, HearError, HearExited

LEMMA EndsLife ==
  ASSUME NEW h \in Hosts, NEW t \in Turns, h.life[t] = "given"
  PROVE  HearCompleted(h, t).life = [h.life EXCEPT ![t] = "over"]
BY LifeMoves

LEMMA ActiveMoves ==
  ASSUME NEW h \in Hosts, NEW t \in Turns
  PROVE  /\ Gave(h, t).active = t /\ Refused(h, t).active = NoTurn
         /\ Stopped(h, t).active = h.active /\ StopReturned(h).active = NoTurn
         /\ HearError(h).active \in {h.active, NoTurn} /\ HearExited(h).active = NoTurn
         /\ HearCompleted(h, t).active \in {h.active, NoTurn}
BY DEF Hosts, Gave, Refused, Stopped, StopReturned, HearCompleted, HearError, HearExited

(* One turn at most moves on, and forward.                                  *)
Forwards(f, g) ==
  \/ g = f
  \/ \E t \in Turns : \E a \in Promise!Life :
       <<f[t], a>> \in Promise!Forward /\ g = [f EXCEPT ![t] = a]

LEMMA MovesForward ==
  ASSUME NEW h \in Hosts, NEW t \in Turns, h.life[t] = "fresh"
  PROVE  Forwards(h.life, Gave(h, t).life) /\ Forwards(h.life, Refused(h, t).life)
BY LifeMoves DEF Forwards, Promise!Life, Promise!Forward

LEMMA EndsForward ==
  ASSUME NEW h \in Hosts, NEW t \in Turns, h.life[t] = "given"
  PROVE  Forwards(h.life, HearCompleted(h, t).life)
BY LifeMoves DEF Forwards, Promise!Life, Promise!Forward

(* The same by event.                                                       *)
LEMMA AfterGave ==
  ASSUME NEW h \in Hosts, NEW t \in Turns, h.life[t] = "fresh"
  PROVE  /\ Gave(h, t) \in Hosts /\ Gave(h, t).life = [h.life EXCEPT ![t] = "given"]
         /\ Gave(h, t).active = t /\ Forwards(h.life, Gave(h, t).life)
<1>1. Gave(h, t) \in Hosts
  BY HostKept
<1>2. Gave(h, t).life = [h.life EXCEPT ![t] = "given"]
  BY LifeMoves
<1>3. Gave(h, t).active = t
  BY ActiveMoves
<1>4. QED
  BY <1>1, <1>2, <1>3, MovesForward

LEMMA AfterRefused ==
  ASSUME NEW h \in Hosts, NEW t \in Turns, h.life[t] = "fresh"
  PROVE  /\ Refused(h, t) \in Hosts /\ Refused(h, t).life = [h.life EXCEPT ![t] = "refused"]
         /\ Refused(h, t).active = NoTurn /\ Forwards(h.life, Refused(h, t).life)
<1>1. Refused(h, t) \in Hosts
  BY HostKept
<1>2. Refused(h, t).life = [h.life EXCEPT ![t] = "refused"]
  BY LifeMoves
<1>3. Refused(h, t).active = NoTurn
  BY ActiveMoves
<1>4. QED
  BY <1>1, <1>2, <1>3, MovesForward

LEMMA AfterCompleted ==
  ASSUME NEW h \in Hosts, NEW t \in Turns, h.life[t] = "given"
  PROVE  /\ HearCompleted(h, t) \in Hosts
         /\ HearCompleted(h, t).life = [h.life EXCEPT ![t] = "over"]
         /\ HearCompleted(h, t).active \in {h.active, NoTurn}
         /\ Forwards(h.life, HearCompleted(h, t).life)
<1>1. HearCompleted(h, t) \in Hosts
  BY HostKept
<1>2. HearCompleted(h, t).life = [h.life EXCEPT ![t] = "over"]
  BY LifeMoves
<1>3. HearCompleted(h, t).active \in {h.active, NoTurn}
  BY ActiveMoves
<1>4. QED
  BY <1>1, <1>2, <1>3, EndsForward

LEMMA AfterStopped ==
  ASSUME NEW h \in Hosts, NEW t \in Turns
  PROVE  Stopped(h, t) \in Hosts /\ Stopped(h, t).life = h.life /\ Stopped(h, t).active = h.active
BY DEF Hosts, MaybeTurn, Stopped

LEMMA AfterOther ==
  ASSUME NEW h \in Hosts
  PROVE  /\ HearExited(h) \in Hosts /\ HearExited(h).life = h.life /\ HearExited(h).active = NoTurn
         /\ StopReturned(h) \in Hosts /\ StopReturned(h).life = h.life
         /\ StopReturned(h).active = NoTurn
         /\ HearError(h) \in Hosts /\ HearError(h).life = h.life
         /\ HearError(h).active \in {h.active, NoTurn}
BY DEF Hosts, MaybeTurn, HearExited, StopReturned, HearError

-----------------------------------------------------------------------------
(* The mock adapter                                                         *)

MockSessions == [registered : BOOLEAN, active : MaybeTurn, cancelled : BOOLEAN,
                 timer : MaybeTurn, waiter : MaybeTurn, sent : Nat, limit : {1, 2}]
MockInv == x1 \in Hosts /\ x2 \in MockSessions /\ Mock!RunningIsGiven

LEMMA MockHost ==
  /\ Mock!FreshHost = FreshHost
  /\ \A h, t : /\ Mock!MaySend(h, t) <=> MaySend(h, t)
               /\ Mock!Gave(h, t) = Gave(h, t) /\ Mock!Refused(h, t) = Refused(h, t)
               /\ Mock!Stopped(h, t) = Stopped(h, t)
               /\ Mock!HearCompleted(h, t) = HearCompleted(h, t)
  /\ \A h : /\ Mock!StopReturned(h) = StopReturned(h) /\ Mock!HearError(h) = HearError(h)
            /\ Mock!HearExited(h) = HearExited(h)
BY DEF Mock!FreshHost, Mock!MaySend, Mock!Gave, Mock!Refused, Mock!Stopped, Mock!HearCompleted,
       Mock!StopReturned, Mock!HearError, Mock!HearExited, FreshHost, MaySend, Gave, Refused, Stopped,
       HearCompleted, StopReturned, HearError, HearExited

LEMMA MockStarts == Mock!Init => MockInv
BY MockHost DEF Mock!Init, MockInv, MockSessions, Mock!RunningIsGiven, FreshHost, Hosts, Lives, MaybeTurn

LEMMA MockKept ==
  ASSUME MockInv, Mock!Next
  PROVE  MockInv' /\ Forwards(x1.life, x1'.life)
<1> USE NoTurnIsNoTurn, MockHost
<1> DEFINE Kept == MockInv' /\ Forwards(x1.life, x1'.life)
<1>0. /\ x1 \in Hosts /\ x1.life \in [Turns -> Lives] /\ x2 \in MockSessions
      /\ x2.active \in Turns => x1.life[x2.active] = "given"
      /\ x2.active \in Turns \cup {NoTurn} /\ x2.sent \in Nat /\ x2.waiter \in MaybeTurn
  BY DEF MockInv, Mock!RunningIsGiven, MaybeTurn, MockSessions, Hosts
<1>1. ASSUME x1' \in Hosts, x2' \in MockSessions, Forwards(x1.life, x1'.life),
             x2'.active = NoTurn \/ x1'.life[x2'.active] = "given"
      PROVE  Kept
  BY <1>1 DEF MockInv, Mock!RunningIsGiven
<1>2. ASSUME NEW t \in Turns, Mock!Send(t) PROVE Kept
  <2>1. x1.life[t] = "fresh"
    BY <1>2 DEF Mock!Send, MaySend
  <2>2. CASE x1' = Refused(x1, t) /\ (x2' = x2 \/ x2' = [x2 EXCEPT !.sent = @ + 1])
    <3>0. x2.sent + 1 \in Nat
      BY <1>0
    <3>1. x2' \in MockSessions /\ x2'.active = x2.active
      BY <1>0, <2>2, <3>0 DEF MockSessions
    <3>2. x1' \in Hosts /\ x1'.life = [x1.life EXCEPT ![t] = "refused"]
      BY <1>0, <2>2, HostKept, LifeMoves
    <3>3. QED
      BY <1>0, <1>1, <2>1, <2>2, <3>1, <3>2, MovesForward
  <2>3. CASE x1' = Gave(x1, t) /\ x2' = [x2 EXCEPT !.sent = @ + 1, !.active = t, !.cancelled = FALSE,
                                                   !.timer = t]
    <3>0. x2.sent + 1 \in Nat
      BY <1>0
    <3>1. x2' \in MockSessions /\ x2'.active = t
      BY <1>0, <2>3, <3>0 DEF MockSessions, MaybeTurn
    <3>2. x1' \in Hosts /\ x1'.life = [x1.life EXCEPT ![t] = "given"]
      BY <1>0, <2>3, HostKept, LifeMoves
    <3>3. QED
      BY <1>0, <1>1, <2>1, <2>3, <3>1, <3>2, MovesForward
  <2>4. QED
    BY <1>2, <2>2, <2>3 DEF Mock!Send
<1>3. ASSUME NEW t \in Turns, Mock!RunScript(t) PROVE Kept
  <2>1. CASE Mock!Completes(t)
    <3>1. x2' \in MockSessions /\ x2'.active = NoTurn
      BY <1>0, <2>1 DEF Mock!Completes, MockSessions, MaybeTurn
    <3>2. x1.life[t] = "given" /\ x1' = HearCompleted(x1, t)
      BY <1>0, <2>1 DEF Mock!Completes, Mock!Current
    <3>3. QED
      BY <1>0, <1>1, <3>1, <3>2, HostKept, EndsForward
  <2>2. CASE Mock!GivesUp(t) \/ Mock!AsksApproval(t)
    <3>1. x2' \in MockSessions /\ x2'.active = x2.active /\ x1' = x1
      BY <1>0, <2>2 DEF Mock!GivesUp, Mock!AsksApproval, MockSessions, MaybeTurn
    <3>2. QED
      BY <1>0, <1>1, <3>1 DEF Forwards
  <2>3. QED
    BY <1>3, <2>1, <2>2 DEF Mock!RunScript
<1>4. CASE Mock!RespondToApproval
  <2>1. x2' \in MockSessions /\ x2'.active = x2.active /\ x1' = x1
    BY <1>0, <1>4 DEF Mock!RespondToApproval, MockSessions, MaybeTurn
  <2>2. QED
    BY <1>0, <1>1, <2>1 DEF Forwards
<1>5. ASSUME NEW t \in Turns, Mock!Stop(t) PROVE Kept
  <2>1. CASE x2.registered /\ x2.active = t
    <3>1. x2' \in MockSessions /\ x2'.active = NoTurn
      BY <1>0, <1>5, <2>1 DEF Mock!Stop, MockSessions, MaybeTurn
    <3>2. x1' = StopReturned(HearCompleted(HearError(Stopped(x1, t)), t))
      BY <1>5, <2>1 DEF Mock!Stop
    <3> DEFINE h == HearError(Stopped(x1, t))
    <3>3. Stopped(x1, t) \in Hosts /\ Stopped(x1, t).life = x1.life
      BY <1>0, HostKept, LifeMoves
    <3>4. h \in Hosts /\ h.life = x1.life
      BY <3>3, HostKept, LifeMoves
    <3> HIDE DEF h
    <3>5. HearCompleted(h, t) \in Hosts /\ Forwards(x1.life, HearCompleted(h, t).life)
      BY <1>0, <2>1, <3>4, HostKept, EndsForward
    <3>6. x1' = StopReturned(HearCompleted(h, t))
      BY <3>2 DEF h
    <3>7. x1' \in Hosts /\ Forwards(x1.life, x1'.life)
      BY <3>5, <3>6, HostKept, LifeMoves
    <3>8. QED
      BY <1>1, <3>1, <3>7
  <2>2. CASE ~(x2.registered /\ x2.active = t)
    <3>1. x1' = StopReturned(Stopped(x1, t)) /\ x2' = x2
      BY <1>5, <2>2 DEF Mock!Stop
    <3>2. Stopped(x1, t) \in Hosts /\ Stopped(x1, t).life = x1.life
      BY <1>0, HostKept, LifeMoves
    <3>3. x1' \in Hosts /\ x1'.life = x1.life
      BY <3>1, <3>2, HostKept, LifeMoves
    <3>4. QED
      BY <1>0, <1>1, <3>1, <3>3 DEF Forwards
  <2>3. QED
    BY <2>1, <2>2
<1>6. CASE Mock!StopSession
  <2>1. x2' \in MockSessions /\ x2'.active = x2.active
    BY <1>0, <1>6 DEF Mock!StopSession, MockSessions, MaybeTurn
  <2>2. x1' \in Hosts /\ x1'.life = x1.life
    BY <1>0, <1>6 DEF Mock!StopSession, HearExited, Hosts, MaybeTurn
  <2>3. QED
    BY <1>0, <1>1, <2>1, <2>2 DEF Forwards
<1>7. QED
  BY <1>2, <1>3, <1>4, <1>5, <1>6 DEF Mock!Next, Mock!Adapter

-----------------------------------------------------------------------------
(* The openai-compatible adapter                                            *)

LEMMA OpenaiHost ==
  /\ Openai!FreshHost = FreshHost
  /\ \A h, t : /\ Openai!MaySend(h, t) <=> MaySend(h, t)
               /\ Openai!Gave(h, t) = Gave(h, t) /\ Openai!Refused(h, t) = Refused(h, t)
               /\ Openai!Stopped(h, t) = Stopped(h, t)
               /\ Openai!HearCompleted(h, t) = HearCompleted(h, t)
  /\ \A h : /\ Openai!StopReturned(h) = StopReturned(h) /\ Openai!HearError(h) = HearError(h)
            /\ Openai!HearExited(h) = HearExited(h)
BY DEF Openai!FreshHost, Openai!MaySend, Openai!Gave, Openai!Refused, Openai!Stopped, Openai!HearCompleted,
       Openai!StopReturned, Openai!HearError, Openai!HearExited, FreshHost, MaySend, Gave, Refused, Stopped,
       HearCompleted, StopReturned, HearError, HearExited

Line == [role : {"user", "assistant"}, turn : Turns]
OpenaiSessions == [registered : BOOLEAN, running : MaybeTurn, messages : Seq(Line)]
OpenaiInv ==
  /\ x1 \in Hosts /\ x2 \in OpenaiSessions
  /\ Openai!RunningIsGiven /\ Openai!ConversationMakesSense

(* A conversation that makes sense whatever is running.                     *)
Sensible(M) ==
  /\ \A i \in DOMAIN M : M[i].role = "assistant" => i > 1 /\ M[i - 1] = Openai!Said("user", M[i].turn)
  /\ \A i, j \in DOMAIN M : M[i] = M[j] => i = j

LEMMA QuestionMakesSense ==
  ASSUME NEW M \in Seq(Line), Sensible(M), NEW t \in Turns, \A i \in DOMAIN M : M[i].turn # t
  PROVE  Sensible(Append(M, Openai!Said("user", t)))
<1> DEFINE N == Append(M, Openai!Said("user", t))
<1>1. /\ N \in Seq(Line) /\ Len(N) = Len(M) + 1 /\ Len(M) \in Nat
      /\ DOMAIN N = 1..Len(M) + 1 /\ DOMAIN M = 1..Len(M)
      /\ \A i \in 1..Len(M) : N[i] = M[i]
      /\ N[Len(M) + 1] = Openai!Said("user", t)
  BY DEF Line, Openai!Said
<1>2. \A i \in DOMAIN N : i \in DOMAIN M \/ i = Len(M) + 1
  BY <1>1
<1>3. Openai!Said("user", t).role = "user" /\ Openai!Said("user", t).turn = t
  BY DEF Openai!Said
<1>4. ASSUME NEW i \in DOMAIN N, N[i].role = "assistant"
      PROVE  i > 1 /\ N[i - 1] = Openai!Said("user", N[i].turn)
  <2>1. i \in DOMAIN M /\ N[i] = M[i]
    BY <1>1, <1>2, <1>3, <1>4
  <2>2. i > 1 /\ M[i - 1] = Openai!Said("user", M[i].turn)
    BY <1>4, <2>1 DEF Sensible
  <2>3. N[i - 1] = M[i - 1]
    BY <1>1, <2>1, <2>2
  <2>4. QED
    BY <2>1, <2>2, <2>3
<1>5. ASSUME NEW i \in DOMAIN N, NEW j \in DOMAIN N, N[i] = N[j] PROVE i = j
  BY <1>1, <1>2, <1>3, <1>5 DEF Sensible
<1>6. QED
  BY <1>4, <1>5 DEF Sensible

LEMMA AnswerMakesSense ==
  ASSUME NEW M \in Seq(Line), Sensible(M), NEW t \in Turns,
         M # <<>>, M[Len(M)] = Openai!Said("user", t)
  PROVE  Sensible(Append(M, Openai!Said("assistant", t)))
<1> DEFINE N == Append(M, Openai!Said("assistant", t))
<1>1. /\ N \in Seq(Line) /\ Len(N) = Len(M) + 1 /\ Len(M) \in Nat /\ Len(M) > 0
      /\ DOMAIN N = 1..Len(M) + 1 /\ DOMAIN M = 1..Len(M)
      /\ \A i \in 1..Len(M) : N[i] = M[i]
      /\ N[Len(M) + 1] = Openai!Said("assistant", t)
  BY DEF Line, Openai!Said
<1>2. \A i \in DOMAIN N : i \in DOMAIN M \/ i = Len(M) + 1
  BY <1>1
<1>3. Openai!Said("assistant", t).role = "assistant" /\ Openai!Said("assistant", t).turn = t
  BY DEF Openai!Said
<1>4. ASSUME NEW i \in DOMAIN N, N[i].role = "assistant"
      PROVE  i > 1 /\ N[i - 1] = Openai!Said("user", N[i].turn)
  <2>1. CASE i = Len(M) + 1
    <3>1. i - 1 = Len(M) /\ Len(M) \in 1..Len(M)
      BY <1>1, <2>1
    <3>2. QED
      BY <1>1, <1>3, <2>1, <3>1
  <2>2. CASE i \in DOMAIN M
    <3>1. N[i] = M[i]
      BY <1>1, <2>2
    <3>2. i > 1 /\ M[i - 1] = Openai!Said("user", M[i].turn)
      BY <1>4, <2>2, <3>1 DEF Sensible
    <3>3. N[i - 1] = M[i - 1]
      BY <1>1, <2>2, <3>2
    <3>4. QED
      BY <3>1, <3>2, <3>3
  <2>3. QED
    BY <1>2, <2>1, <2>2
<1>5. \A i \in DOMAIN M : M[i] # Openai!Said("assistant", t)
  <2> SUFFICES ASSUME NEW i \in DOMAIN M, M[i] = Openai!Said("assistant", t) PROVE FALSE
    OBVIOUS
  <2>1. i > 1 /\ M[i - 1] = Openai!Said("user", t)
    BY <1>3 DEF Sensible
  <2>2. i - 1 \in DOMAIN M /\ Len(M) \in DOMAIN M
    BY <1>1, <2>1
  <2>3. i - 1 = Len(M)
    BY <2>1, <2>2 DEF Sensible
  <2>4. QED
    BY <1>1, <2>3
<1>6. ASSUME NEW i \in DOMAIN N, NEW j \in DOMAIN N, N[i] = N[j] PROVE i = j
  BY <1>1, <1>2, <1>5, <1>6 DEF Sensible
<1>7. QED
  BY <1>4, <1>6 DEF Sensible

LEMMA RestMakesSense ==
  ASSUME NEW M \in Seq(Line), Sensible(M), Len(M) > 0
  PROVE  /\ SubSeq(M, 1, Len(M) - 1) \in Seq(Line)
         /\ Sensible(SubSeq(M, 1, Len(M) - 1))
         /\ \A i \in DOMAIN SubSeq(M, 1, Len(M) - 1) :
              i \in DOMAIN M /\ SubSeq(M, 1, Len(M) - 1)[i] = M[i]
<1> DEFINE N == SubSeq(M, 1, Len(M) - 1)
<1>1. /\ N \in Seq(Line) /\ Len(M) \in Nat
      /\ DOMAIN N = 1..Len(M) - 1 /\ DOMAIN M = 1..Len(M)
      /\ \A i \in 1..Len(M) - 1 : N[i] = M[i]
  OBVIOUS
<1>2. \A i \in DOMAIN N : i \in DOMAIN M /\ N[i] = M[i]
  BY <1>1
<1>3. \A i \in DOMAIN N : i > 1 => i - 1 \in DOMAIN N
  BY <1>1
<1> HIDE DEF N
<1>4. Sensible(N)
  BY <1>2, <1>3 DEF Sensible
<1>5. QED
  BY <1>1, <1>2, <1>4 DEF N

LEMMA OpenaiStarts == Openai!Init => OpenaiInv
<1> SUFFICES ASSUME Openai!Init PROVE OpenaiInv
  OBVIOUS
<1>1. x1 \in Hosts
  BY OpenaiHost DEF Openai!Init, FreshHost, Hosts, Lives, MaybeTurn
<1>2. /\ x2 \in OpenaiSessions /\ x2.running = NoTurn /\ x2.messages = <<>>
  BY DEF Openai!Init, OpenaiSessions, MaybeTurn
<1>3. QED
  BY <1>1, <1>2 DEF OpenaiInv, Openai!RunningIsGiven, Openai!ConversationMakesSense

(* The invariant, and what the request or a call leaves of a session.       *)
LEMMA OpenaiKept ==
  ASSUME OpenaiInv, Openai!Next
  PROVE  OpenaiInv' /\ Forwards(x1.life, x1'.life)
<1> USE NoTurnIsNoTurn, OpenaiHost
<1> DEFINE Kept == OpenaiInv' /\ Forwards(x1.life, x1'.life)
<1> DEFINE M == x2.messages  N == x2'.messages
<1>0. /\ x1 \in Hosts /\ x1.life \in [Turns -> Lives] /\ x2 \in OpenaiSessions
      /\ x2.running \in Turns => x1.life[x2.running] = "given"
      /\ x2.running \in Turns \cup {NoTurn} /\ M \in Seq(Line)
      /\ Sensible(M)
      /\ \A i \in DOMAIN M : x1.life[M[i].turn] # "fresh"
      /\ \A i \in DOMAIN M : M[i].turn \in Turns
      /\ x2.running # NoTurn => M # <<>> /\ M[Len(M)] = Openai!Said("user", x2.running)
  <2>1. /\ x1 \in Hosts /\ x1.life \in [Turns -> Lives] /\ x2 \in OpenaiSessions
        /\ x2.running \in Turns \cup {NoTurn} /\ M \in Seq(Line)
    BY DEF OpenaiInv, MaybeTurn, OpenaiSessions, Hosts
  <2>2. \A i \in DOMAIN M : M[i] \in Line
    BY <2>1
  <2>3. \A i \in DOMAIN M : M[i].turn \in Turns
    BY <2>2 DEF Line
  <2>4. /\ x2.running \in Turns => x1.life[x2.running] = "given"
        /\ \A i \in DOMAIN M : x1.life[M[i].turn] # "fresh"
    BY DEF OpenaiInv, Openai!RunningIsGiven
  <2>5. /\ Sensible(M)
        /\ x2.running # NoTurn => M # <<>> /\ M[Len(M)] = Openai!Said("user", x2.running)
    BY DEF OpenaiInv, Openai!ConversationMakesSense, Sensible
  <2>6. QED
    BY <2>1, <2>3, <2>4, <2>5
<1>1. ASSUME x1' \in Hosts, x2' \in OpenaiSessions, Forwards(x1.life, x1'.life), Sensible(N),
             x2'.running = NoTurn \/ x1'.life[x2'.running] = "given",
             \A i \in DOMAIN N : x1'.life[N[i].turn] # "fresh",
             x2'.running # NoTurn => N # <<>> /\ N[Len(N)] = Openai!Said("user", x2'.running)
      PROVE  Kept
  BY <1>1 DEF OpenaiInv, Openai!RunningIsGiven, Openai!ConversationMakesSense, Sensible
<1>2. ASSUME x2' \in OpenaiSessions, x2'.running = x2.running, N = M,
             x1' \in Hosts, x1'.life = x1.life
      PROVE  Kept
  BY <1>0, <1>1, <1>2 DEF Forwards
<1>3. ASSUME NEW t \in Turns, Openai!Send(t) PROVE Kept
  <2>1. x1.life[t] = "fresh"
    BY <1>3 DEF Openai!Send, MaySend
  <2>2. CASE x1' = Refused(x1, t) /\ x2' = x2
    <3>1. x1' \in Hosts /\ x1'.life = [x1.life EXCEPT ![t] = "refused"]
      BY <1>0, <2>2, HostKept, LifeMoves
    <3>2. Forwards(x1.life, x1'.life)
      BY <1>0, <2>1, <2>2, MovesForward
    <3>3. \A i \in DOMAIN M : x1'.life[M[i].turn] # "fresh"
      BY <1>0, <3>1
    <3>4. QED
      BY <1>0, <1>1, <2>1, <2>2, <3>1, <3>2, <3>3
  <2>3. CASE /\ x1' = Gave(x1, t)
             /\ x2' = [x2 EXCEPT !.running = t, !.messages = Append(@, Openai!Said("user", t))]
    <3>1. x1' \in Hosts /\ x1'.life = [x1.life EXCEPT ![t] = "given"]
      BY <1>0, <2>3, HostKept, LifeMoves
    <3>2. Forwards(x1.life, x1'.life)
      BY <1>0, <2>1, <2>3, MovesForward
    <3>3. Append(M, Openai!Said("user", t)) \in Seq(Line)
      BY <1>0 DEF Line, Openai!Said
    <3>4. /\ x2' \in OpenaiSessions /\ x2'.running = t
          /\ N = Append(M, Openai!Said("user", t))
      BY <1>0, <2>3, <3>3 DEF OpenaiSessions, MaybeTurn
    <3>5. Sensible(N)
      BY <1>0, <2>1, <3>4, QuestionMakesSense
    <3>6. /\ DOMAIN N = 1..Len(M) + 1 /\ Len(N) = Len(M) + 1 /\ DOMAIN M = 1..Len(M) /\ Len(M) \in Nat
          /\ \A i \in 1..Len(M) : N[i] = M[i]
          /\ N[Len(M) + 1] = Openai!Said("user", t)
      BY <1>0, <3>4 DEF Line, Openai!Said
    <3>7. \A i \in DOMAIN N : x1'.life[N[i].turn] # "fresh"
      <4> SUFFICES ASSUME NEW i \in DOMAIN N PROVE x1'.life[N[i].turn] # "fresh"
        OBVIOUS
      <4>1. CASE i \in DOMAIN M
        BY <1>0, <3>1, <3>6, <4>1
      <4>2. CASE i = Len(M) + 1
        BY <1>0, <3>1, <3>6, <4>2 DEF Openai!Said
      <4>3. QED
        BY <3>6, <4>1, <4>2
    <3>8. N # <<>> /\ N[Len(N)] = Openai!Said("user", t)
      BY <3>6
    <3>9. QED
      BY <1>0, <1>1, <3>1, <3>2, <3>4, <3>5, <3>7, <3>8
  <2>4. QED
    BY <1>3, <2>2, <2>3 DEF Openai!Send
<1>4. ASSUME NEW t \in Turns, Openai!Stop(t) PROVE Kept
  <2>1. x1' = StopReturned(Stopped(x1, t)) /\ x2' = x2
    BY <1>4 DEF Openai!Stop
  <2>2. Stopped(x1, t) \in Hosts /\ Stopped(x1, t).life = x1.life
    BY <1>0, HostKept, LifeMoves
  <2>3. x1' \in Hosts /\ x1'.life = x1.life
    BY <2>1, <2>2, HostKept, LifeMoves
  <2>4. QED
    BY <1>0, <1>2, <2>1, <2>3
<1>5. CASE Openai!Delta
  BY <1>0, <1>2, <1>5 DEF Openai!Delta
<1>6. CASE Openai!StopSession
  <2>1. x1' \in Hosts /\ x1'.life = x1.life
    BY <1>0, <1>6 DEF Openai!StopSession, HearExited, Hosts, MaybeTurn
  <2>2. x2' \in OpenaiSessions /\ x2'.running = x2.running /\ N = M
    BY <1>0, <1>6 DEF Openai!StopSession, OpenaiSessions
  <2>3. QED
    BY <1>2, <2>1, <2>2
<1>7. ASSUME NEW messages \in Seq(Line), NEW failed \in BOOLEAN, Openai!Ends(messages, failed),
             Sensible(messages),
             \A i \in DOMAIN messages : x1.life[messages[i].turn] # "fresh",
             \A i \in DOMAIN messages : messages[i].turn \in Turns
      PROVE  Kept
  <2> DEFINE t == x2.running  h == IF failed THEN HearError(x1) ELSE x1
  <2>1. t \in Turns /\ x1.life[t] = "given"
    BY <1>0, <1>7 DEF Openai!Ends
  <2>2. h \in Hosts /\ h.life = x1.life
    BY <1>0, <2>1, HostKept, LifeMoves
  <2>3. x1' = HearCompleted(h, t)
    BY <1>7 DEF Openai!Ends
  <2> HIDE DEF h
  <2>4. x1' \in Hosts /\ x1'.life = [x1.life EXCEPT ![t] = "over"]
    <3> HIDE DEF t
    <3>1. HearCompleted(h, t) \in Hosts
      BY <2>1, <2>2, HostKept
    <3>2. HearCompleted(h, t).life = [h.life EXCEPT ![t] = "over"]
      BY <2>1, <2>2, EndsLife
    <3>3. QED
      BY <2>2, <2>3, <3>1, <3>2
  <2>5. Forwards(x1.life, x1'.life)
    BY <2>1, <2>2, <2>3, EndsForward
  <2>6. x2' \in OpenaiSessions /\ x2'.running = NoTurn /\ N = messages
    BY <1>0, <1>7 DEF Openai!Ends, OpenaiSessions, MaybeTurn
  <2>7. \A i \in DOMAIN N : x1'.life[N[i].turn] # "fresh"
    BY <1>0, <1>7, <2>4, <2>6
  <2>8. QED
    BY <1>1, <1>7, <2>4, <2>5, <2>6, <2>7
<1>8. ASSUME x2.running # NoTurn
      PROVE  /\ Openai!Kept(x2.running) \in Seq(Line) /\ Sensible(Openai!Kept(x2.running))
             /\ \A i \in DOMAIN Openai!Kept(x2.running) :
                  /\ x1.life[Openai!Kept(x2.running)[i].turn] # "fresh"
                  /\ Openai!Kept(x2.running)[i].turn \in Turns
  <2> DEFINE K == Append(M, Openai!Said("assistant", x2.running))
  <2>1. x2.running \in Turns
    BY <1>0, <1>8
  <2>2. /\ K \in Seq(Line) /\ DOMAIN K = 1..Len(M) + 1 /\ DOMAIN M = 1..Len(M) /\ Len(M) \in Nat
        /\ \A i \in 1..Len(M) : K[i] = M[i]
        /\ K[Len(M) + 1] = Openai!Said("assistant", x2.running)
    BY <1>0, <2>1 DEF Line, Openai!Said
  <2>3. Sensible(K)
    BY <1>0, <1>8, <2>1, AnswerMakesSense
  <2>4. \A i \in DOMAIN K : x1.life[K[i].turn] # "fresh" /\ K[i].turn \in Turns
    <3> SUFFICES ASSUME NEW i \in DOMAIN K PROVE x1.life[K[i].turn] # "fresh" /\ K[i].turn \in Turns
      OBVIOUS
    <3>1. CASE i \in DOMAIN M
      BY <1>0, <2>2, <3>1
    <3>2. CASE i = Len(M) + 1
      BY <1>0, <2>1, <2>2, <3>2 DEF Openai!Said
    <3>3. QED
      BY <2>2, <3>1, <3>2
  <2>5. Openai!Kept(x2.running) = IF x4.text THEN K ELSE M
    BY DEF Openai!Kept
  <2> HIDE DEF K
  <2>6. QED
    BY <1>0, <2>2, <2>3, <2>4, <2>5
<1>9. CASE Openai!Answered \/ Openai!Aborted
  <2>1. x2.running # NoTurn
    BY <1>9 DEF Openai!Answered, Openai!Aborted, Openai!Ends
  <2>2. \E failed \in BOOLEAN : Openai!Ends(Openai!Kept(x2.running), failed)
    <3>1. (~x4.text) \in BOOLEAN /\ FALSE \in BOOLEAN
      OBVIOUS
    <3>2. QED
      BY <1>9, <3>1 DEF Openai!Answered, Openai!Aborted
  <2>3. QED
    BY <1>7, <1>8, <2>1, <2>2
<1>10. CASE Openai!Failed
  <2>1. x2.running # NoTurn /\ Len(M) > 0
    BY <1>10 DEF Openai!Failed, Openai!Ends
  <2>2. M[Len(M)].role = "user"
    BY <1>0, <2>1 DEF Openai!Said
  <2> DEFINE R == SubSeq(M, 1, Len(M) - 1)
  <2>3. Openai!Ends(R, TRUE)
    BY <1>10, <2>2 DEF Openai!Failed
  <2>4. /\ R \in Seq(Line) /\ Sensible(R)
        /\ \A i \in DOMAIN R : i \in DOMAIN M /\ R[i] = M[i]
    <3> HIDE DEF M
    <3>1. QED
      BY <1>0, <2>1, RestMakesSense
  <2>5. \A i \in DOMAIN R : x1.life[R[i].turn] # "fresh" /\ R[i].turn \in Turns
    <3> HIDE DEF R, M
    <3>1. QED
      BY <1>0, <2>4
  <2> HIDE DEF R
  <2>6. TRUE \in BOOLEAN
    OBVIOUS
  <2>7. QED
    BY <1>7, <2>3, <2>4, <2>5, <2>6
<1>11. QED
  BY <1>3, <1>4, <1>5, <1>6, <1>9, <1>10 DEF Openai!Next, Openai!Request

-----------------------------------------------------------------------------
(* The per-turn process adapters                                            *)

LEMMA StreamHost ==
  /\ Stream!FreshHost = FreshHost
  /\ \A h, t : /\ Stream!MaySend(h, t) = MaySend(h, t) /\ Stream!MayStop(h, t) = MayStop(h, t)
               /\ Stream!Gave(h, t) = Gave(h, t) /\ Stream!Refused(h, t) = Refused(h, t)
               /\ Stream!Stopped(h, t) = Stopped(h, t)
               /\ Stream!HearCompleted(h, t) = HearCompleted(h, t)
  /\ \A h : /\ Stream!StopReturned(h) = StopReturned(h) /\ Stream!HearError(h) = HearError(h)
            /\ Stream!HearExited(h) = HearExited(h)
BY DEF Stream!FreshHost, Stream!MaySend, Stream!MayStop, Stream!Gave, Stream!Refused, Stream!Stopped,
       Stream!HearCompleted, Stream!StopReturned, Stream!HearError, Stream!HearExited, FreshHost,
       MaySend, MayStop, Gave, Refused, Stopped, HearCompleted, StopReturned, HearError, HearExited

StopCalls == [stop : [Turns -> Turns \cup {"none", "cancelling", "done"}]]

(* Of the session only what the per-turn adapters use: AcpTurn's has more.  *)
StreamInv ==
  /\ x1 \in Hosts /\ {"registered", "cur"} \subseteq DOMAIN x2 /\ x2.cur \in MaybeTurn
  /\ x3 \in StopCalls /\ Stream!RunningIsGiven

LEMMA StreamStarts == Stream!Init => StreamInv
<1> SUFFICES ASSUME Stream!Init PROVE StreamInv
  OBVIOUS
<1>1. x1 \in Hosts
  BY StreamHost DEF Stream!Init, FreshHost, Hosts, Lives, MaybeTurn
<1>2. /\ {"registered", "cur"} \subseteq DOMAIN x2 /\ x2.cur = NoTurn /\ x3 \in StopCalls
      /\ \A t \in Turns : x3.stop[t] = "none"
  BY DEF Stream!Init, Stream!PrintInit, StopCalls
<1>3. \A t \in Turns : ~Stream!Killing(t)
  BY <1>2, TurnsAreNoPhases DEF Stream!Killing
<1>4. QED
  BY <1>1, <1>2, <1>3 DEF StreamInv, Stream!RunningIsGiven, MaybeTurn

(* A per-turn process: the invariant, and what one step of its adapter or   *)
(* of itself leaves of the session.                                         *)
LEMMA StreamKept ==
  ASSUME StreamInv, Stream!Next
  PROVE  StreamInv' /\ Forwards(x1.life, x1'.life)
<1> USE NoTurnIsNoTurn
<1> DEFINE Kept == StreamInv' /\ Forwards(x1.life, x1'.life)
<1>0. /\ x1 \in Hosts /\ x1.life \in [Turns -> Lives] /\ {"registered", "cur"} \subseteq DOMAIN x2
      /\ x2.cur \in Turns \cup {NoTurn} /\ x3 \in StopCalls
      /\ x3.stop \in [Turns -> Turns \cup {"none", "cancelling", "done"}]
      /\ x2.cur # NoTurn => x1.life[x2.cur] = "given" /\ x1.active \in {x2.cur, NoTurn}
      /\ \A t \in Turns : x3.stop[t] \in Turns => x1.life[t] = "given" /\ x2.cur # t
  BY DEF StreamInv, Stream!RunningIsGiven, Stream!Killing, MaybeTurn, Hosts, StopCalls
<1>1. ASSUME x1' \in Hosts, {"registered", "cur"} \subseteq DOMAIN x2', x2'.cur \in MaybeTurn,
             x3' \in StopCalls, Forwards(x1.life, x1'.life),
             x2'.cur # NoTurn => x1'.life[x2'.cur] = "given" /\ x1'.active \in {x2'.cur, NoTurn},
             \A t \in Turns : x3'.stop[t] \in Turns => x1'.life[t] = "given" /\ x2'.cur # t
      PROVE  Kept
  BY <1>1 DEF StreamInv, Stream!RunningIsGiven, Stream!Killing
<1>2. ASSUME x1' \in Hosts, x1'.life = x1.life, x1'.active \in {x1.active, NoTurn},
             {"registered", "cur"} \subseteq DOMAIN x2', x2'.cur = x2.cur, x3' = x3
      PROVE  Kept
  BY <1>0, <1>1, <1>2 DEF Forwards, MaybeTurn
<1>3. ASSUME NEW t \in Turns, Stream!Send(t) PROVE Kept
  <2>1. x1.life[t] = "fresh" /\ x3' = x3
    BY <1>3, StreamHost DEF Stream!Send, MaySend
  <2>2. CASE x1' = Refused(x1, t) /\ x2' = x2
    <3>1. /\ x1' \in Hosts /\ x1'.life = [x1.life EXCEPT ![t] = "refused"] /\ x1'.active = NoTurn
          /\ Forwards(x1.life, x1'.life)
      BY <1>0, <2>1, <2>2, AfterRefused
    <3>2. QED
      BY <1>0, <1>1, <2>1, <2>2, <3>1 DEF MaybeTurn
  <2>3. CASE x1' = Gave(x1, t) /\ x2' = [x2 EXCEPT !.cur = t]
    <3>1. /\ x1' \in Hosts /\ x1'.life = [x1.life EXCEPT ![t] = "given"] /\ x1'.active = t
          /\ Forwards(x1.life, x1'.life)
      BY <1>0, <2>1, <2>3, AfterGave
    <3>2. {"registered", "cur"} \subseteq DOMAIN x2' /\ x2'.cur = t
      BY <1>0, <2>3
    <3>3. QED
      BY <1>0, <1>1, <2>1, <3>1, <3>2 DEF MaybeTurn
  <2>4. QED
    BY <1>3, <2>2, <2>3, StreamHost DEF Stream!Send
<1>4. ASSUME NEW t \in Turns, Stream!PumpLine(t) PROVE Kept
  <2>1. x1' \in {x1, HearError(x1)} /\ x2' = x2 /\ x3' = x3
    BY <1>4, StreamHost DEF Stream!PumpLine
  <2>2. x1' \in Hosts /\ x1'.life = x1.life /\ x1'.active \in {x1.active, NoTurn}
    BY <1>0, <2>1, AfterOther
  <2>3. QED
    BY <1>0, <1>2, <2>1, <2>2
<1>5. ASSUME NEW t \in Turns, Stream!PumpEnds(t) \/ Stream!PumpFails(t) PROVE Kept
  <2>1. CASE x2.cur = t
    <3>1. /\ x2' = [x2 EXCEPT !.cur = NoTurn] /\ x3' = x3
          /\ \E h \in {x1, HearError(x1)} : x1' = HearCompleted(h, t)
      BY <1>5, <2>1, StreamHost DEF Stream!PumpEnds, Stream!PumpFails
    <3>2. PICK h \in {x1, HearError(x1)} : x1' = HearCompleted(h, t)
      BY <3>1
    <3>3. h \in Hosts /\ h.life = x1.life /\ h.life[t] = "given"
      BY <1>0, <2>1, AfterOther
    <3>4. /\ x1' \in Hosts /\ x1'.life = [x1.life EXCEPT ![t] = "over"]
          /\ Forwards(x1.life, x1'.life)
      BY <3>2, <3>3, AfterCompleted
    <3>5. {"registered", "cur"} \subseteq DOMAIN x2' /\ x2'.cur = NoTurn
      BY <1>0, <3>1
    <3>6. QED
      BY <1>0, <1>1, <2>1, <3>1, <3>4, <3>5 DEF MaybeTurn
  <2>2. CASE x2.cur # t
    <3>1. x1' = x1 /\ x2' = x2 /\ x3' = x3
      BY <1>5, <2>2 DEF Stream!PumpEnds, Stream!PumpFails
    <3>2. QED
      BY <1>0, <1>2, <3>1
  <2>3. QED
    BY <2>1, <2>2
<1>6. ASSUME NEW t \in Turns, Stream!StopKilled(t) PROVE Kept
  <2>1. /\ x1' = StopReturned(HearCompleted(x1, t)) /\ x2' = x2
        /\ x3' = [x3 EXCEPT !.stop[t] = "done"] /\ x3.stop[t] \in Turns
    BY <1>6, StreamHost DEF Stream!StopKilled, Stream!Killing, Stream!NowStop
  <2>2. x1.life[t] = "given" /\ x2.cur # t
    BY <1>0, <2>1
  <2>3. /\ HearCompleted(x1, t) \in Hosts /\ HearCompleted(x1, t).life = [x1.life EXCEPT ![t] = "over"]
        /\ Forwards(x1.life, HearCompleted(x1, t).life)
    BY <1>0, <2>2, AfterCompleted
  <2>4. /\ x1' \in Hosts /\ x1'.life = [x1.life EXCEPT ![t] = "over"] /\ x1'.active = NoTurn
        /\ Forwards(x1.life, x1'.life)
    BY <2>1, <2>3, AfterOther
  <2>5. x3' \in StopCalls /\ x3'.stop = [x3.stop EXCEPT ![t] = "done"]
    BY <1>0, <2>1 DEF StopCalls
  <2>6. "done" \notin Turns
    BY TurnsAreNoPhases
  <2>7. QED
    BY <1>0, <1>1, <2>1, <2>2, <2>4, <2>5, <2>6 DEF MaybeTurn
<1>7. ASSUME NEW t \in Turns, Stream!Stop(t) PROVE Kept
  <2>1. Stopped(x1, t) \in Hosts /\ Stopped(x1, t).life = x1.life /\ x1.active = t
    BY <1>0, <1>7, AfterStopped, StreamHost DEF Stream!Stop, MayStop
  <2>2. CASE ~x2.registered \/ x2.cur = NoTurn
    <3>1. /\ x1' = StopReturned(Stopped(x1, t)) /\ x2' = x2
          /\ x3' = [x3 EXCEPT !.stop[t] = "done"]
      BY <1>7, <2>2, StreamHost DEF Stream!Stop, Stream!NowStop
    <3>2. x1' \in Hosts /\ x1'.life = x1.life /\ x1'.active = NoTurn
      BY <2>1, <3>1, AfterOther
    <3>3. x3' \in StopCalls /\ x3'.stop = [x3.stop EXCEPT ![t] = "done"]
      BY <1>0, <3>1 DEF StopCalls
    <3>4. "done" \notin Turns
      BY TurnsAreNoPhases
    <3>5. QED
      BY <1>0, <1>1, <3>1, <3>2, <3>3, <3>4 DEF MaybeTurn, Forwards
  <2>3. CASE x2.registered /\ x2.cur # NoTurn
    <3>1. /\ x1' = Stopped(x1, t) /\ x2' = [x2 EXCEPT !.cur = NoTurn]
          /\ x3' = [x3 EXCEPT !.stop[t] = x2.cur]
      BY <1>7, <2>3, StreamHost DEF Stream!Stop, Stream!NowStop
    <3>2. x2.cur = t
      BY <1>0, <2>1, <2>3
    <3>3. {"registered", "cur"} \subseteq DOMAIN x2' /\ x2'.cur = NoTurn
      BY <1>0, <3>1
    <3>4. x3' \in StopCalls /\ x3'.stop = [x3.stop EXCEPT ![t] = t]
      BY <1>0, <3>1, <3>2 DEF StopCalls
    <3>5. QED
      BY <1>0, <1>1, <2>1, <3>1, <3>2, <3>3, <3>4 DEF MaybeTurn, Forwards
  <2>4. QED
    BY <2>2, <2>3
<1>8. CASE Stream!StopSession
  <2>1. x1' = HearExited(x1) /\ x2' = [x2 EXCEPT !.registered = FALSE] /\ x3' = x3
    BY <1>8, StreamHost DEF Stream!StopSession
  <2>2. x1' \in Hosts /\ x1'.life = x1.life /\ x1'.active = NoTurn
    BY <1>0, <2>1, AfterOther
  <2>3. {"registered", "cur"} \subseteq DOMAIN x2' /\ x2'.cur = x2.cur
    BY <1>0, <2>1
  <2>4. QED
    BY <1>2, <2>1, <2>2, <2>3
<1>9. ASSUME NEW t \in Turns, Stream!CliExits(t) \/ Stream!CliPrints(t) PROVE Kept
  <2>1. x1' = x1 /\ x2' = x2 /\ x3' = x3
    BY <1>9 DEF Stream!CliExits, Stream!CliPrints
  <2>2. QED
    BY <1>0, <1>2, <2>1
<1>10. QED
  BY <1>3, <1>4, <1>5, <1>6, <1>7, <1>8, <1>9 DEF Stream!Next, Stream!Pump

-----------------------------------------------------------------------------
(* The acp adapters                                                         *)

LEMMA AcpHost ==
  /\ Acp!FreshHost = FreshHost
  /\ \A h, t : /\ Acp!MaySend(h, t) = MaySend(h, t) /\ Acp!MayStop(h, t) = MayStop(h, t)
               /\ Acp!Gave(h, t) = Gave(h, t) /\ Acp!Refused(h, t) = Refused(h, t)
               /\ Acp!Stopped(h, t) = Stopped(h, t)
               /\ Acp!HearCompleted(h, t) = HearCompleted(h, t)
  /\ \A h : /\ Acp!StopReturned(h) = StopReturned(h) /\ Acp!HearError(h) = HearError(h)
            /\ Acp!HearExited(h) = HearExited(h)
BY DEF Acp!FreshHost, Acp!MaySend, Acp!MayStop, Acp!Gave, Acp!Refused, Acp!Stopped,
       Acp!HearCompleted, Acp!StopReturned, Acp!HearError, Acp!HearExited, FreshHost,
       MaySend, MayStop, Gave, Refused, Stopped, HearCompleted, StopReturned, HearError, HearExited

(* Print mode of the agent is the per-turn adapter.                         *)
LEMMA PrintMode ==
  /\ \A t : /\ Acp!PerTurn!Send(t) <=> Stream!Send(t)
            /\ Acp!PerTurn!Stop(t) <=> Stream!Stop(t)
            /\ Acp!PerTurn!Pump(t) <=> Stream!Pump(t)
            /\ Acp!PerTurn!CliPrints(t) <=> Stream!CliPrints(t)
            /\ Acp!PerTurn!Killing(t) <=> Stream!Killing(t)
  /\ Acp!PerTurn!StopSession <=> Stream!StopSession
  /\ Acp!PerTurn!RunningIsGiven <=> Stream!RunningIsGiven
<1>1. \A t : Acp!PerTurn!Send(t) <=> Stream!Send(t)
  BY DEF Acp!PerTurn!Send, Stream!Send, Acp!PerTurn!MaySend, Stream!MaySend, Acp!PerTurn!Refused,
         Stream!Refused, Acp!PerTurn!Gave, Stream!Gave
<1>2. \A t : Acp!PerTurn!Stop(t) <=> Stream!Stop(t)
  BY DEF Acp!PerTurn!Stop, Stream!Stop, Acp!PerTurn!MayStop, Stream!MayStop, Acp!PerTurn!Stopped,
         Stream!Stopped, Acp!PerTurn!StopReturned, Stream!StopReturned, Acp!PerTurn!NowStop,
         Stream!NowStop, Acp!PerTurn!StopIs, Stream!StopIs
<1>3. \A t : Acp!PerTurn!PumpLine(t) <=> Stream!PumpLine(t)
  BY DEF Acp!PerTurn!PumpLine, Stream!PumpLine, Acp!PerTurn!HearError, Stream!HearError
<1>4. \A t : /\ Acp!PerTurn!PumpEnds(t) <=> Stream!PumpEnds(t)
             /\ Acp!PerTurn!PumpFails(t) <=> Stream!PumpFails(t)
  BY DEF Acp!PerTurn!PumpEnds, Stream!PumpEnds, Acp!PerTurn!PumpFails, Stream!PumpFails, Acp!PerTurn!HearError, Stream!HearError,
         Acp!PerTurn!HearCompleted, Stream!HearCompleted
<1>5. \A t : Acp!PerTurn!StopKilled(t) <=> Stream!StopKilled(t)
  BY DEF Acp!PerTurn!StopKilled, Stream!StopKilled, Acp!PerTurn!Killing, Stream!Killing,
         Acp!PerTurn!HearCompleted, Stream!HearCompleted, Acp!PerTurn!StopReturned,
         Stream!StopReturned, Acp!PerTurn!NowStop, Stream!NowStop
<1>6. \A t : /\ Acp!PerTurn!CliExits(t) <=> Stream!CliExits(t)
             /\ Acp!PerTurn!CliPrints(t) <=> Stream!CliPrints(t)
             /\ Acp!PerTurn!Killing(t) <=> Stream!Killing(t)
  BY DEF Acp!PerTurn!CliExits, Stream!CliExits, Acp!PerTurn!CliPrints, Stream!CliPrints,
         Acp!PerTurn!Killing, Stream!Killing
<1>7. Acp!PerTurn!StopSession <=> Stream!StopSession
  BY DEF Acp!PerTurn!StopSession, Stream!StopSession, Acp!PerTurn!HearExited, Stream!HearExited
<1>8. Acp!PerTurn!RunningIsGiven <=> Stream!RunningIsGiven
  BY <1>6 DEF Acp!PerTurn!RunningIsGiven, Stream!RunningIsGiven
<1>9. \A t : Acp!PerTurn!Pump(t) <=> Stream!Pump(t)
  BY <1>3, <1>4, <1>5, <1>6 DEF Acp!PerTurn!Pump, Stream!Pump
<1>10. QED
  BY <1>1, <1>2, <1>6, <1>7, <1>8, <1>9

AcpFields == {"registered", "cur", "acp", "active", "pending"}

(* Until the protocol is open or has been given up, no call comes.          *)
AcpInv ==
  /\ x1 \in Hosts /\ AcpFields \subseteq DOMAIN x2 /\ x2.cur \in MaybeTurn /\ x2.active \in MaybeTurn
  /\ x3 \in StopCalls /\ Acp!RunningIsGiven
  /\ x2.acp # "open" => x2.active = NoTurn
  /\ x2.acp \notin {"open", "none"} => ~x1.live

LEMMA AcpStarts == Acp!Init => AcpInv
<1> SUFFICES ASSUME Acp!Init PROVE AcpInv
  OBVIOUS
<1>1. x1 \in Hosts /\ ~x1.live
  BY AcpHost DEF Acp!Init, FreshHost, Hosts, Lives, MaybeTurn
<1>2. /\ AcpFields \subseteq DOMAIN x2 /\ x2.cur = NoTurn /\ x2.active = NoTurn /\ x3 \in StopCalls
      /\ x2.acp = "initialize" /\ \A t \in Turns : x3.stop[t] = "none"
  BY DEF Acp!Init, AcpFields, StopCalls
<1>3. \A t \in Turns : ~Stream!Killing(t)
  BY <1>2, TurnsAreNoPhases DEF Stream!Killing
<1>4. QED
  BY <1>1, <1>2, <1>3, PrintMode DEF AcpInv, Acp!RunningIsGiven, Stream!RunningIsGiven, MaybeTurn

(* A completion nobody is named in changes no turn.                         *)
LEMMA HearNobody ==
  ASSUME NEW h \in Hosts
  PROVE  /\ HearCompleted(h, NoTurn) \in Hosts /\ HearCompleted(h, NoTurn).life = h.life
         /\ HearCompleted(h, NoTurn).active = h.active
<1> DEFINE g == HearCompleted(h, NoTurn)
<1>1. g.life = [h.life EXCEPT ![NoTurn] = IF @ \in {"over", "again"} THEN "again" ELSE "over"]
  BY DEF HearCompleted, Hosts
<1>2. h.life \in [Turns -> Lives]
  BY DEF Hosts
<1>3. g.life = h.life
  BY <1>1, <1>2, NoTurnIsNoTurn
<1>4. g.active = h.active /\ g.stopping = h.stopping /\ g.live = h.live
  BY DEF HearCompleted, Hosts
<1>5. g \in [{"life", "active", "stopping", "live"} ->
                {g.life, g.active, g.stopping, g.live}]
  BY DEF HearCompleted, Hosts
<1>6. g = [life |-> g.life, active |-> g.active, stopping |-> g.stopping, live |-> g.live]
  <2> HIDE DEF g
  <2>1. QED
    BY <1>5
<1>7. h.active \in MaybeTurn /\ h.stopping \in MaybeTurn /\ h.live \in BOOLEAN
  BY DEF Hosts
<1> HIDE DEF g
<1>8. g \in Hosts
  BY <1>2, <1>3, <1>4, <1>6, <1>7 DEF Hosts
<1>9. QED
  BY <1>3, <1>4, <1>8 DEF g

(* What a step of the per-turn adapter leaves of the rest of the session,   *)
(* and how little happens while it has no turn.                             *)
LEMMA PrintLeaves ==
  ASSUME AcpFields \subseteq DOMAIN x2, Stream!Next
  PROVE  /\ AcpFields \subseteq DOMAIN x2' /\ x2'.acp = x2.acp /\ x2'.active = x2.active
         /\ x2'.pending = x2.pending
<1> USE DEF AcpFields
<1>1. \/ x2' = x2 \/ \E t : x2' = [x2 EXCEPT !.cur = t]
      \/ x2' = [x2 EXCEPT !.registered = FALSE]
  BY DEF Stream!Next, Stream!Pump, Stream!Send, Stream!Stop, Stream!PumpLine, Stream!PumpEnds,
         Stream!PumpFails, Stream!StopKilled, Stream!CliExits, Stream!CliPrints, Stream!StopSession
<1>2. QED
  BY <1>1

LEMMA PrintIdles ==
  ASSUME x1 \in Hosts, x2.cur = NoTurn, \A t \in Turns : ~Stream!Killing(t),
         NEW t \in Turns, Stream!Pump(t) \/ Stream!CliPrints(t)
  PROVE  /\ x1' \in Hosts /\ x1'.life = x1.life /\ x1'.live = x1.live /\ x2' = x2 /\ x3' = x3
<1>1. x1' \in {x1, HearError(x1)} /\ x2' = x2 /\ x3' = x3
  <2>1. CASE Stream!PumpLine(t)
    BY <2>1, StreamHost DEF Stream!PumpLine
  <2>2. CASE Stream!PumpEnds(t) \/ Stream!PumpFails(t)
    BY <2>2, NoTurnIsNoTurn DEF Stream!PumpEnds, Stream!PumpFails
  <2>3. CASE Stream!StopKilled(t)
    BY <2>3 DEF Stream!StopKilled
  <2>4. CASE Stream!CliExits(t) \/ Stream!CliPrints(t)
    BY <2>4 DEF Stream!CliExits, Stream!CliPrints
  <2>5. QED
    BY <2>1, <2>2, <2>3, <2>4 DEF Stream!Pump
<1>2. HearError(x1).live = x1.live
  BY DEF HearError, Hosts
<1>3. QED
  BY <1>1, <1>2, AfterOther

(* One step of the adapter on either transport.                             *)
LEMMA AcpKept ==
  ASSUME AcpInv, Acp!Next
  PROVE  AcpInv' /\ Forwards(x1.life, x1'.life)
<1> USE NoTurnIsNoTurn
<1> DEFINE Kept == AcpInv' /\ Forwards(x1.life, x1'.life)
<1>0. /\ x1 \in Hosts /\ x1.life \in [Turns -> Lives] /\ AcpFields \subseteq DOMAIN x2
      /\ x2.cur \in Turns \cup {NoTurn} /\ x2.active \in Turns \cup {NoTurn} /\ x3 \in StopCalls
      /\ Stream!RunningIsGiven
      /\ x2.active # NoTurn => x1.life[x2.active] = "given"
      /\ x2.acp # "none" => x2.cur = NoTurn /\ \A t \in Turns : ~Stream!Killing(t)
      /\ x2.acp # "open" => x2.active = NoTurn
      /\ x2.acp \notin {"open", "none"} => ~x1.live
  BY PrintMode DEF AcpInv, Acp!RunningIsGiven, MaybeTurn, Hosts
<1>1. StreamInv
  BY <1>0 DEF StreamInv, AcpFields, MaybeTurn
<1>2. ASSUME x1' \in Hosts, AcpFields \subseteq DOMAIN x2', x2'.cur \in MaybeTurn,
             x2'.active \in MaybeTurn, x3' \in StopCalls, Forwards(x1.life, x1'.life),
             Stream!RunningIsGiven',
             x2'.active # NoTurn => x1'.life[x2'.active] = "given",
             x2'.acp # "none" => x2'.cur = NoTurn /\ \A t \in Turns : ~Stream!Killing(t)',
             x2'.acp # "open" => x2'.active = NoTurn,
             x2'.acp \notin {"open", "none"} => ~x1'.live
      PROVE  Kept
  <2>1. Acp!PerTurn!RunningIsGiven' /\ \A t \in Turns : ~Stream!Killing(t)' => ~Acp!PerTurn!Killing(t)'
    BY <1>2 DEF Acp!PerTurn!RunningIsGiven, Stream!RunningIsGiven, Acp!PerTurn!Killing, Stream!Killing
  <2>2. Acp!RunningIsGiven'
    BY <1>2, <2>1 DEF Acp!RunningIsGiven
  <2>3. QED
    BY <1>2, <2>2 DEF AcpInv
(* On the protocol: no process of a turn's own is involved.                 *)
<1>3. ASSUME x1' \in Hosts, AcpFields \subseteq DOMAIN x2', x2'.cur = x2.cur,
             x2'.active \in MaybeTurn, x3' \in StopCalls, Forwards(x1.life, x1'.life),
             x2.acp # "none", \A t \in Turns : x3'.stop[t] \in {x3.stop[t], "cancelling", "done"},
             x2'.active # NoTurn => x1'.life[x2'.active] = "given",
             x2'.acp # "open" => x2'.active = NoTurn,
             x2'.acp \notin {"open", "none"} => ~x1'.live
      PROVE  Kept
  <2>1. "done" \notin Turns /\ "cancelling" \notin Turns
    BY TurnsAreNoPhases
  <2>2. x2'.cur = NoTurn /\ \A t \in Turns : x3'.stop[t] \notin Turns
    BY <1>0, <1>3, <2>1 DEF Stream!Killing
  <2>3. Stream!RunningIsGiven' /\ \A t \in Turns : ~Stream!Killing(t)'
    BY <2>2 DEF Stream!RunningIsGiven, Stream!Killing
  <2>4. QED
    BY <1>2, <1>3, <2>2, <2>3 DEF MaybeTurn
(* In print mode, or while calls cannot come.                               *)
<1>4. ASSUME Stream!Next, x2.acp = "none" PROVE Kept
  <2>1. StreamInv' /\ Forwards(x1.life, x1'.life)
    BY <1>1, <1>4, StreamKept
  <2>2. AcpFields \subseteq DOMAIN x2' /\ x2'.acp = x2.acp /\ x2'.active = x2.active
    BY <1>0, <1>4, PrintLeaves
  <2>3. x2'.active = NoTurn /\ x2'.acp = "none"
    BY <1>0, <1>4, <2>2
  <2>4. QED
    BY <1>2, <2>1, <2>2, <2>3 DEF StreamInv, MaybeTurn
<1>5. ASSUME NEW t \in Turns, Stream!Pump(t) \/ Stream!CliPrints(t) PROVE Kept
  <2>1. CASE x2.acp = "none"
    BY <1>4, <1>5, <2>1 DEF Stream!Next
  <2>2. CASE x2.acp # "none"
    <3>1. x1' \in Hosts /\ x1'.life = x1.life /\ x1'.live = x1.live /\ x2' = x2 /\ x3' = x3
      BY <1>0, <1>5, <2>2, PrintIdles
    <3>2. QED
      BY <1>0, <1>3, <2>2, <3>1 DEF Forwards, MaybeTurn
  <2>3. QED
    BY <2>1, <2>2
<1>6. ASSUME NEW t \in Turns, Acp!Send(t) PROVE Kept
  <2>1. CASE Acp!AcpSend(t)
    <3>1. x2.acp = "open" /\ x1.life[t] = "fresh" /\ x3' = x3
      BY <2>1, AcpHost DEF Acp!AcpSend, Acp!OnAcp, MaySend
    <3>2. CASE x1' = Refused(x1, t) /\ x2' = x2
      <4>1. /\ x1' \in Hosts /\ x1'.life = [x1.life EXCEPT ![t] = "refused"]
            /\ Forwards(x1.life, x1'.life)
        BY <1>0, <3>1, <3>2, AfterRefused
      <4>2. QED
        BY <1>0, <1>3, <3>1, <3>2, <4>1 DEF MaybeTurn
    <3>3. CASE x1' = Gave(x1, t) /\ x2' = [x2 EXCEPT !.active = t]
      <4>1. /\ x1' \in Hosts /\ x1'.life = [x1.life EXCEPT ![t] = "given"]
            /\ Forwards(x1.life, x1'.life)
        BY <1>0, <3>1, <3>3, AfterGave
      <4>2. /\ AcpFields \subseteq DOMAIN x2' /\ x2'.active = t /\ x2'.cur = x2.cur
            /\ x2'.acp = "open"
        BY <1>0, <3>1, <3>3 DEF AcpFields
      <4>3. QED
        BY <1>0, <1>3, <3>1, <4>1, <4>2 DEF MaybeTurn
    <3>4. QED
      BY <2>1, <3>2, <3>3, AcpHost DEF Acp!AcpSend
  <2>2. CASE ~Acp!OnAcp /\ Acp!PerTurn!Send(t)
    <3>1. Stream!Send(t)
      BY <2>2, PrintMode
    <3>2. x2.acp = "none"
      BY <1>0, <2>2, <3>1, StreamHost DEF Acp!OnAcp, Stream!Send, MaySend
    <3>3. QED
      BY <1>4, <3>1, <3>2 DEF Stream!Next
  <2>3. QED
    BY <1>6, <2>1, <2>2 DEF Acp!Send
<1>7. ASSUME NEW t \in Turns, Acp!Stop(t) PROVE Kept
  <2>1. CASE Acp!AcpStop(t)
    <3>1. /\ x2.acp = "open" /\ x1' \in {StopReturned(Stopped(x1, t)), Stopped(x1, t)}
          /\ x3' = [x3 EXCEPT !.stop[t] = "done"] \/ x3' = [x3 EXCEPT !.stop[t] = "cancelling"]
          /\ x2' = x2 \/ x2' = [x2 EXCEPT !.pending = {}]
      BY <2>1, AcpHost DEF Acp!AcpStop, Acp!OnAcp, Acp!PerTurn!NowStop
    <3>2. Stopped(x1, t) \in Hosts /\ Stopped(x1, t).life = x1.life
      BY <1>0, AfterStopped
    <3>3. x1' \in Hosts /\ x1'.life = x1.life
      BY <3>1, <3>2, AfterOther
    <3>4. x3' \in StopCalls /\ \E p \in {"cancelling", "done"} : x3'.stop = [x3.stop EXCEPT ![t] = p]
      BY <1>0, <3>1 DEF StopCalls
    <3>5. \A u \in Turns : x3'.stop[u] \in {x3.stop[u], "cancelling", "done"}
      BY <1>0, <3>4 DEF StopCalls
    <3>6. /\ AcpFields \subseteq DOMAIN x2' /\ x2'.active = x2.active /\ x2'.cur = x2.cur
          /\ x2'.acp = "open"
      BY <1>0, <3>1 DEF AcpFields
    <3>7. QED
      BY <1>0, <1>3, <3>1, <3>3, <3>4, <3>5, <3>6 DEF MaybeTurn, Forwards
  <2>2. CASE ~Acp!OnAcp /\ Acp!PerTurn!Stop(t)
    <3>1. Stream!Stop(t)
      BY <2>2, PrintMode
    <3>2. x2.acp = "none"
      BY <1>0, <2>2, <3>1, StreamHost DEF Acp!OnAcp, Stream!Stop, MayStop
    <3>3. QED
      BY <1>4, <3>1, <3>2 DEF Stream!Next
  <2>3. QED
    BY <1>7, <2>1, <2>2 DEF Acp!Stop
<1>8. ASSUME x1' = x1, x3' = x3, x2' = x2 \/ \E P : x2' = [x2 EXCEPT !.pending = P] PROVE Kept
  <2>1. /\ AcpFields \subseteq DOMAIN x2' /\ x2'.active = x2.active /\ x2'.cur = x2.cur
        /\ x2'.acp = x2.acp
    BY <1>0, <1>8 DEF AcpFields
  <2>2. Stream!RunningIsGiven' /\ \A t \in Turns : Stream!Killing(t)' <=> Stream!Killing(t)
    BY <1>0, <1>8, <2>1 DEF Stream!RunningIsGiven, Stream!Killing
  <2>3. QED
    BY <1>0, <1>2, <1>8, <2>1, <2>2 DEF Forwards, MaybeTurn
<1>9. CASE Acp!Open
  <2>1. PICK next \in Acp!Answers(x2.acp) \cup IF MayExit THEN Acp!Refusals(x2.acp) ELSE {} :
          /\ x2' = Acp!Opened(x2, next)
          /\ x1' = [x1 EXCEPT !.live = next \in {"open", "none"}]
    BY <1>9 DEF Acp!Open
  <2>2. x3' = x3 /\ x2.acp \in Acp!Opening
    BY <1>9 DEF Acp!Open
  <2>3. x2.acp # "none" /\ x2.acp # "open"
    BY <2>2 DEF Acp!Opening
  <2>4. x1' \in Hosts /\ x1'.life = x1.life /\ (x1'.live <=> next \in {"open", "none"})
    <3>0. (next \in {"open", "none"}) \in BOOLEAN
      OBVIOUS
    <3>1. PICK e \in BOOLEAN : e = (next \in {"open", "none"})
      BY <3>0
    <3>2. x1' = [x1 EXCEPT !.live = e]
      BY <2>1, <3>1
    <3>3. QED
      BY <1>0, <3>1, <3>2 DEF Hosts
  <2>5. /\ AcpFields \subseteq DOMAIN x2' /\ x2'.active = x2.active /\ x2'.cur = x2.cur
        /\ x2'.acp = next
    BY <1>0, <2>1 DEF AcpFields, Acp!Opened
  <2>6. QED
    BY <1>0, <1>3, <2>2, <2>3, <2>4, <2>5 DEF Forwards, MaybeTurn
<1>10. ASSUME NEW t, x2' = Acp!Settled(x2, t),
              x1' = IF x2.active = t THEN HearCompleted(x1, t) ELSE x1, x3' = x3
       PROVE  Kept
  <2>1. CASE x2.active # t
    <3>1. x1' = x1 /\ x2' = x2
      BY <1>10, <2>1 DEF Acp!Settled
    <3>2. QED
      BY <1>8, <1>10, <3>1
  <2>2. CASE x2.active = t /\ t = NoTurn
    <3>1. x2' = [x2 EXCEPT !.active = NoTurn, !.pending = {}] /\ x1' = HearCompleted(x1, NoTurn)
      BY <1>10, <2>2 DEF Acp!Settled
    <3>2. /\ AcpFields \subseteq DOMAIN x2' /\ x2'.active = NoTurn /\ x2'.cur = x2.cur
          /\ x2'.acp = x2.acp
      BY <1>0, <3>1 DEF AcpFields
    <3>3. x1' \in Hosts /\ x1'.life = x1.life /\ x1'.active = x1.active /\ x1'.live = x1.live
      BY <1>0, <3>1, HearNobody DEF HearCompleted, Hosts
    <3>4. Stream!RunningIsGiven' /\ \A u \in Turns : Stream!Killing(u)' <=> Stream!Killing(u)
      BY <1>0, <1>10, <3>2, <3>3 DEF Stream!RunningIsGiven, Stream!Killing
    <3>5. QED
      BY <1>0, <1>2, <1>10, <3>2, <3>3, <3>4 DEF Forwards, MaybeTurn
  <2>3. CASE x2.active = t /\ t # NoTurn
    <3>1. x2' = [x2 EXCEPT !.active = NoTurn, !.pending = {}] /\ x1' = HearCompleted(x1, t)
      BY <1>10, <2>3 DEF Acp!Settled
    <3>2. t \in Turns /\ x1.life[t] = "given" /\ x2.acp = "open"
      BY <1>0, <2>3
    <3>3. x1' \in Hosts /\ Forwards(x1.life, x1'.life)
      BY <1>0, <3>1, <3>2, AfterCompleted
    <3>4. /\ AcpFields \subseteq DOMAIN x2' /\ x2'.active = NoTurn /\ x2'.cur = x2.cur
          /\ x2'.acp = "open"
      BY <1>0, <3>1, <3>2 DEF AcpFields
    <3>5. QED
      BY <1>0, <1>3, <1>10, <3>2, <3>3, <3>4 DEF MaybeTurn
  <2>4. QED
    BY <2>1, <2>2, <2>3
<1>11. CASE Acp!Inbound
  <2>1. CASE Acp!PromptAnswered
    BY <1>10, <2>1, AcpHost DEF Acp!PromptAnswered, Acp!SettleTurn
  <2>2. CASE Acp!PermissionRequest
    BY <1>8, <2>2 DEF Acp!PermissionRequest
  <2>3. QED
    BY <1>11, <2>1, <2>2 DEF Acp!Inbound
<1>12. CASE Acp!AgentExits
  <2>1. /\ x2.acp = "open" /\ x2' = [Acp!Settled(x2, x2.active) EXCEPT !.acp = "none"]
        /\ x1' = IF x2.active = NoTurn THEN x1 ELSE HearCompleted(HearError(x1), x2.active)
        /\ x3' = x3
    BY <1>12, AcpHost DEF Acp!AgentExits
  <2>2. /\ AcpFields \subseteq DOMAIN x2' /\ x2'.active = NoTurn /\ x2'.cur = x2.cur
        /\ x2'.acp = "none"
    BY <1>0, <2>1 DEF AcpFields, Acp!Settled
  <2>3. x1' \in Hosts /\ Forwards(x1.life, x1'.life)
    <3>1. CASE x2.active = NoTurn
      BY <1>0, <2>1, <3>1 DEF Forwards
    <3>2. CASE x2.active # NoTurn
      <4>1. HearError(x1) \in Hosts /\ HearError(x1).life = x1.life
        BY <1>0, AfterOther
      <4>2. QED
        BY <1>0, <2>1, <3>2, <4>1, AfterCompleted
    <3>3. QED
      BY <3>1, <3>2
  <2>4. QED
    BY <1>0, <1>3, <2>1, <2>2, <2>3 DEF MaybeTurn
<1>13. CASE Acp!StopSession
  <2>1. CASE Acp!OnAcp
    <3>1. /\ x2.acp = "open" /\ x1' = HearExited(x1) /\ x3' = x3
          /\ x2' = [x2 EXCEPT !.registered = FALSE, !.acp = "none", !.active = NoTurn, !.pending = {}]
      BY <1>13, <2>1, AcpHost DEF Acp!StopSession, Acp!OnAcp
    <3>2. /\ AcpFields \subseteq DOMAIN x2' /\ x2'.active = NoTurn /\ x2'.cur = x2.cur
          /\ x2'.acp = "none"
      BY <1>0, <3>1 DEF AcpFields
    <3>3. x1' \in Hosts /\ x1'.life = x1.life
      BY <1>0, <3>1, AfterOther
    <3>4. QED
      BY <1>0, <1>3, <3>1, <3>2, <3>3 DEF MaybeTurn, Forwards
  <2>2. CASE ~Acp!OnAcp
    <3>1. x2.acp = "none" /\ Stream!StopSession
      BY <1>13, <2>2, PrintMode DEF Acp!StopSession
    <3>2. QED
      BY <1>4, <3>1 DEF Stream!Next
  <2>3. QED
    BY <2>1, <2>2
<1>14. ASSUME NEW t \in Turns, Acp!RespondToApproval(t) PROVE Kept
  BY <1>8, <1>14 DEF Acp!RespondToApproval
<1>15. CASE Acp!Agent
  BY <1>8, <1>15 DEF Acp!Agent
<1>16. CASE Acp!Processes
  BY <1>5, <1>16, PrintMode DEF Acp!Processes
(* The cancellation is written whatever became of the agent.                *)
<1>17. ASSUME NEW t \in Turns, Acp!Cancel(t) PROVE Kept
  <2>1. x1' = StopReturned(x1) /\ x2' = x2 /\ x3' = [x3 EXCEPT !.stop[t] = "done"]
    BY <1>17, AcpHost DEF Acp!Cancel, Acp!PerTurn!NowStop
  <2>2. x1' \in Hosts /\ x1'.life = x1.life /\ x1'.active = NoTurn /\ x1'.live = x1.live
    BY <1>0, <2>1, AfterOther DEF StopReturned, Hosts
  <2>3. x3' \in StopCalls /\ x3'.stop = [x3.stop EXCEPT ![t] = "done"]
    BY <1>0, <2>1 DEF StopCalls
  <2>4. \A u \in Turns : x3'.stop[u] \in Turns => x3'.stop[u] = x3.stop[u]
    BY <1>0, <2>3, TurnsAreNoPhases DEF StopCalls
  <2>5. Stream!RunningIsGiven' /\ \A u \in Turns : Stream!Killing(u)' => Stream!Killing(u)
    BY <1>0, <2>1, <2>2, <2>4 DEF Stream!RunningIsGiven, Stream!Killing
  <2>6. QED
    BY <1>0, <1>2, <2>1, <2>2, <2>3, <2>5 DEF Forwards, MaybeTurn
<1>18. QED
  BY <1>6, <1>7, <1>9, <1>11, <1>12, <1>13, <1>14, <1>15, <1>16, <1>17 DEF Acp!Next

-----------------------------------------------------------------------------
(* The codex adapter                                                        *)

LEMMA CodexHost ==
  /\ Codex!FreshHost = FreshHost
  /\ \A h, t : /\ Codex!MaySend(h, t) = MaySend(h, t) /\ Codex!MayStop(h, t) = MayStop(h, t)
               /\ Codex!Gave(h, t) = Gave(h, t) /\ Codex!Refused(h, t) = Refused(h, t)
               /\ Codex!Stopped(h, t) = Stopped(h, t)
               /\ Codex!HearCompleted(h, t) = HearCompleted(h, t)
  /\ \A h : /\ Codex!StopReturned(h) = StopReturned(h) /\ Codex!HearError(h) = HearError(h)
            /\ Codex!HearExited(h) = HearExited(h)
BY DEF Codex!FreshHost, Codex!MaySend, Codex!MayStop, Codex!Gave, Codex!Refused, Codex!Stopped,
       Codex!HearCompleted, Codex!StopReturned, Codex!HearError, Codex!HearExited, FreshHost,
       MaySend, MayStop, Gave, Refused, Stopped, HearCompleted, StopReturned, HearError, HearExited

(* A turn that was taken, whether or not it was reported over.              *)
Taken(h, t) == h.life[t] \in {"given", "over", "again"}

(* The orchestrator's record after something the codex adapter reports: the *)
(* folded life moves forward, and what was taken stays taken.               *)
Reported(h, g) ==
  /\ g \in Hosts /\ Forwards(Folded(h), Folded(g))
  /\ \A u \in Turns : Taken(h, u) => Taken(g, u)
  /\ g.active \in {h.active, NoTurn}

LEMMA SameLife ==
  ASSUME NEW h \in Hosts, NEW g \in Hosts, g.life = h.life, g.active \in {h.active, NoTurn}
  PROVE  Reported(h, g)
BY DEF Reported, Forwards, Folded, Taken

LEMMA TakesForward ==
  ASSUME NEW h \in Hosts, NEW t \in Turns, NEW g \in Hosts, h.life[t] = "fresh",
         g.life = [h.life EXCEPT ![t] = "given"] \/ g.life = [h.life EXCEPT ![t] = "refused"]
  PROVE  /\ Forwards(Folded(h), Folded(g)) /\ \A u \in Turns : Taken(h, u) => Taken(g, u)
<1> DEFINE a == g.life[t]
<1>1. h.life \in [Turns -> Lives] /\ a \in {"given", "refused"}
  BY DEF Hosts
<1>2. Folded(g) = [Folded(h) EXCEPT ![t] = a] /\ Folded(h)[t] = "fresh"
  BY <1>1 DEF Folded
<1>3. \A u \in Turns : Taken(h, u) => Taken(g, u)
  BY <1>1 DEF Taken
<1> HIDE DEF a
<1>4. Forwards(Folded(h), Folded(g))
  BY <1>1, <1>2 DEF Forwards, Promise!Life, Promise!Forward
<1>5. QED
  BY <1>3, <1>4

(* A second report of a turn is folded into the first.                      *)
LEMMA ReportsForward ==
  ASSUME NEW h \in Hosts, NEW t \in Turns, Taken(h, t)
  PROVE  Reported(h, HearCompleted(h, t))
<1> DEFINE g == HearCompleted(h, t)
<1>1. /\ h.life \in [Turns -> Lives] /\ g \in Hosts /\ g.active \in {h.active, NoTurn}
      /\ g.life = [h.life EXCEPT ![t] = IF @ \in {"over", "again"} THEN "again" ELSE "over"]
  <2>1. g \in Hosts
    BY HostKept
  <2>2. g.active \in {h.active, NoTurn}
    BY ActiveMoves
  <2>3. QED
    BY <2>1, <2>2 DEF Hosts, HearCompleted
<1> HIDE DEF g
<1>2. \A u \in Turns : Taken(h, u) => Taken(g, u)
  BY <1>1 DEF Taken
<1>3. CASE h.life[t] = "given"
  <2>1. Folded(g) = [Folded(h) EXCEPT ![t] = "over"] /\ Folded(h)[t] = "given"
    BY <1>1, <1>3 DEF Folded
  <2>2. QED
    BY <1>1, <1>2, <2>1 DEF g, Reported, Forwards, Promise!Life, Promise!Forward
<1>4. CASE h.life[t] # "given"
  <2>1. Folded(g) = Folded(h)
    BY <1>1, <1>4 DEF Folded, Taken
  <2>2. QED
    BY <1>1, <1>2, <2>1 DEF g, Reported, Forwards
<1>5. QED
  BY <1>3, <1>4

LEMMA ReportsFollow ==
  ASSUME NEW h \in Hosts, NEW f \in {h, HearError(h)}, NEW t \in Turns, Taken(h, t)
  PROVE  /\ Reported(h, HearCompleted(f, t)) /\ Reported(h, StopReturned(HearCompleted(f, t)))
<1>1. f \in Hosts /\ f.life = h.life /\ f.active \in {h.active, NoTurn}
  BY AfterOther
<1>2. Folded(f) = Folded(h) /\ \A u : Taken(f, u) <=> Taken(h, u)
  BY <1>1 DEF Folded, Taken
<1> DEFINE g == HearCompleted(f, t)  k == StopReturned(g)
<1>3. Reported(f, g)
  BY <1>1, <1>2, ReportsForward
<1> HIDE DEF g
<1>4. g \in Hosts
  BY <1>3 DEF Reported
<1>5. k \in Hosts /\ k.life = g.life /\ k.active = NoTurn
  BY <1>4, AfterOther
<1> HIDE DEF k
<1>6. Folded(k) = Folded(g) /\ \A u : Taken(k, u) <=> Taken(g, u)
  BY <1>5 DEF Folded, Taken
<1>7. QED
  BY <1>1, <1>2, <1>3, <1>5, <1>6 DEF Reported, g, k

Phases == {"none", "starting", "stopping", "rejected", "gone", "done", "cancelling", "interrupting"}
CodexCalls == [send : [Turns -> Phases], stop : [Turns -> Phases]]
CodexFields == {"phase", "registered", "client", "norm", "map", "interrupted", "approvals"}
CodexSession(s) ==
  CodexFields \subseteq DOMAIN s /\ {"turn", "native"} \subseteq DOMAIN s.norm /\ s.norm.turn \in MaybeTurn

CodexInv == x1 \in Hosts /\ CodexSession(x2) /\ x3 \in CodexCalls /\ Codex!CallsAreGiven

LEMMA CodexStarts == Codex!Init => CodexInv
<1> SUFFICES ASSUME Codex!Init PROVE CodexInv
  OBVIOUS
<1>1. x1 \in Hosts /\ x1.active = NoTurn
  BY CodexHost DEF Codex!Init, FreshHost, Hosts, Lives, MaybeTurn
<1>2. CodexSession(x2) /\ x2.norm.turn = NoTurn
  BY DEF Codex!Init, Codex!Idle, CodexSession, CodexFields, MaybeTurn
<1>3. x3 \in CodexCalls /\ \A t \in Turns : x3.send[t] = "none" /\ x3.stop[t] = "none"
  BY DEF Codex!Init, CodexCalls, Phases
<1>4. QED
  BY <1>1, <1>2, <1>3 DEF CodexInv, Codex!CallsAreGiven

(* What the pieces of the adapter do to its session and its calls.          *)
LEMMA CodexSettles ==
  ASSUME NEW s, CodexSession(s), NEW t
  PROVE  /\ CodexSession(Codex!SettledSession(s, t))
         /\ Codex!SettledSession(s, t).norm.turn \in {s.norm.turn, NoTurn}
BY DEF CodexSession, CodexFields, Codex!SettledSession, Codex!Idle, MaybeTurn

LEMMA CodexCallsMove ==
  ASSUME x3 \in CodexCalls, NEW t \in Turns, NEW p \in Phases
  PROVE  /\ Codex!NowSend(t, p) \in CodexCalls /\ Codex!NowStop(t, p) \in CodexCalls
         /\ \A u \in Turns : u # t => Codex!NowSend(t, p).send[u] = x3.send[u]
         /\ \A u \in Turns : u # t => Codex!NowStop(t, p).stop[u] = x3.stop[u]
         /\ Codex!NowSend(t, p).stop = x3.stop /\ Codex!NowStop(t, p).send = x3.send
BY DEF CodexCalls, Codex!NowSend, Codex!NowStop

LEMMA CodexCallsReject ==
  ASSUME x3 \in CodexCalls
  PROVE  /\ Codex!Rejected(x3) \in CodexCalls
         /\ \A u \in Turns : /\ Codex!Rejected(x3).send[u] # "none" => x3.send[u] # "none"
                             /\ Codex!Rejected(x3).stop[u] # "none" => x3.stop[u] # "none"
<1>1. /\ x3.send \in [Turns -> Phases] /\ x3.stop \in [Turns -> Phases]
  BY DEF CodexCalls
<1>2. \A u \in Turns : /\ Codex!Rejected(x3).send[u] \in Phases
                       /\ Codex!Rejected(x3).send[u] # "none" => x3.send[u] # "none"
  <2> SUFFICES ASSUME NEW u \in Turns
               PROVE  /\ Codex!Rejected(x3).send[u] \in Phases
                      /\ Codex!Rejected(x3).send[u] # "none" => x3.send[u] # "none"
    OBVIOUS
  <2>1. Codex!Rejected(x3).send[u] = CASE x3.send[u] = "starting" -> "rejected"
                                       [] x3.send[u] = "stopping" -> "gone"
                                       [] OTHER -> x3.send[u]
    BY DEF Codex!Rejected
  <2>2. CASE x3.send[u] = "starting"
    BY <2>1, <2>2 DEF Phases
  <2>3. CASE x3.send[u] = "stopping"
    BY <2>1, <2>3 DEF Phases
  <2>4. CASE x3.send[u] # "starting" /\ x3.send[u] # "stopping"
    BY <1>1, <2>1, <2>4
  <2>5. QED
    BY <2>2, <2>3, <2>4
<1>3. \A u \in Turns : /\ Codex!Rejected(x3).stop[u] \in Phases
                       /\ Codex!Rejected(x3).stop[u] # "none" => x3.stop[u] # "none"
  BY <1>1 DEF Codex!Rejected, Phases
<1>4. /\ Codex!Rejected(x3) = [send |-> Codex!Rejected(x3).send, stop |-> Codex!Rejected(x3).stop]
      /\ DOMAIN Codex!Rejected(x3).send = Turns /\ DOMAIN Codex!Rejected(x3).stop = Turns
      /\ Codex!Rejected(x3).send = [u \in Turns |-> Codex!Rejected(x3).send[u]]
      /\ Codex!Rejected(x3).stop = [u \in Turns |-> Codex!Rejected(x3).stop[u]]
  BY DEF Codex!Rejected
<1>5. Codex!Rejected(x3).send \in [Turns -> Phases] /\ Codex!Rejected(x3).stop \in [Turns -> Phases]
  BY <1>2, <1>3, <1>4
<1>6. Codex!Rejected(x3) \in CodexCalls
  BY <1>4, <1>5 DEF CodexCalls
<1>7. QED
  BY <1>2, <1>3, <1>6

(* One step of the adapter, of codex or of the orchestrator.                *)
LEMMA CodexKept ==
  ASSUME CodexInv, Codex!Next
  PROVE  CodexInv' /\ Forwards(Folded(x1), Folded(x1'))
<1> USE NoTurnIsNoTurn
<1> DEFINE Kept == CodexInv' /\ Forwards(Folded(x1), Folded(x1'))
           Asked(t) == x3.send[t] # "none" \/ x3.stop[t] # "none"
<1>0. /\ x1 \in Hosts /\ x1.active \in Turns \cup {NoTurn}
      /\ CodexSession(x2) /\ x2.norm.turn \in Turns \cup {NoTurn}
      /\ x3 \in CodexCalls
      /\ x2.norm.turn # NoTurn => Taken(x1, x2.norm.turn)
      /\ x1.active # NoTurn => Taken(x1, x1.active)
      /\ \A t \in Turns : Asked(t) => Taken(x1, t)
  BY DEF CodexInv, Codex!CallsAreGiven, Codex!Handed, Taken, CodexSession, MaybeTurn, Hosts
<1>1. ASSUME x1' \in Hosts, CodexSession(x2'), x3' \in CodexCalls, Forwards(Folded(x1), Folded(x1')),
             x2'.norm.turn # NoTurn => Taken(x1', x2'.norm.turn),
             x1'.active # NoTurn => Taken(x1', x1'.active),
             \A t \in Turns : x3'.send[t] # "none" \/ x3'.stop[t] # "none" => Taken(x1', t)
      PROVE  Kept
  BY <1>1 DEF CodexInv, Codex!CallsAreGiven, Codex!Handed, Taken
(* Most steps: nothing is taken, and no call begins for a turn without one. *)
<1>2. ASSUME Reported(x1, x1'), CodexSession(x2'), x2'.norm.turn \in {x2.norm.turn, NoTurn},
             x3' \in CodexCalls,
             \A t \in Turns : x3'.send[t] # "none" \/ x3'.stop[t] # "none" => Taken(x1, t)
      PROVE  Kept
  <2>1. /\ x1' \in Hosts /\ Forwards(Folded(x1), Folded(x1'))
        /\ \A u \in Turns : Taken(x1, u) => Taken(x1', u)
        /\ x1'.active \in {x1.active, NoTurn}
    BY <1>2 DEF Reported
  <2>2. x2'.norm.turn # NoTurn => Taken(x1', x2'.norm.turn)
    BY <1>0, <1>2, <2>1
  <2>3. x1'.active # NoTurn => Taken(x1', x1'.active)
    BY <1>0, <2>1
  <2>4. QED
    BY <1>1, <1>2, <2>1, <2>2, <2>3
<1>3. Reported(x1, x1)
  BY <1>0, SameLife
<1>5. ASSUME NEW t \in Turns, NEW p \in Phases, Taken(x1, t),
             x3' = Codex!NowSend(t, p) \/ x3' = Codex!NowStop(t, p)
      PROVE  /\ x3' \in CodexCalls
             /\ \A u \in Turns : x3'.send[u] # "none" \/ x3'.stop[u] # "none" => Taken(x1, u)
  BY <1>0, <1>5, CodexCallsMove
<1>6. ASSUME x3' = Codex!Rejected(x3)
      PROVE  /\ x3' \in CodexCalls
             /\ \A u \in Turns : x3'.send[u] # "none" \/ x3'.stop[u] # "none" => Taken(x1, u)
  BY <1>0, <1>6, CodexCallsReject
<1>7. ASSUME x1' = x1, x3' = x3, CodexSession(x2'), x2'.norm.turn \in {x2.norm.turn, NoTurn} PROVE Kept
  BY <1>0, <1>2, <1>3, <1>7
<1>8. CASE Codex!BootAnswered \/ Codex!BootRefused
  <2>1. x1' = x1 \/ x1' = [x1 EXCEPT !.live = TRUE]
    BY <1>8 DEF Codex!BootAnswered, Codex!BootRefused
  <2>2. x1' \in Hosts /\ x1'.life = x1.life /\ x1'.active = x1.active
    BY <1>0, <2>1 DEF Hosts
  <2>3. CodexSession(x2') /\ x2'.norm.turn = x2.norm.turn
    BY <1>0, <1>8 DEF Codex!BootAnswered, Codex!BootRefused, Codex!Closed, CodexSession, CodexFields
  <2>4. x3' = x3
    BY <1>8 DEF Codex!BootAnswered, Codex!BootRefused
  <2>5. Reported(x1, x1')
    BY <1>0, <2>2, SameLife
  <2>6. QED
    BY <1>0, <1>2, <2>3, <2>4, <2>5
<1>9. ASSUME NEW t \in Turns, Codex!Send(t) PROVE Kept
  <2>1. x1.life[t] = "fresh"
    BY <1>9, CodexHost DEF Codex!Send, MaySend
  <2>2. CASE ~x2.client \/ x2.norm.turn # NoTurn
    <3>1. x1' = Refused(x1, t) /\ x2' = x2 /\ x3' = x3
      BY <1>9, <2>2, CodexHost DEF Codex!Send
    <3>2. /\ x1' \in Hosts /\ x1'.life = [x1.life EXCEPT ![t] = "refused"] /\ x1'.active = NoTurn
      BY <1>0, <2>1, <3>1, AfterRefused
    <3>3. Reported(x1, x1')
      BY <1>0, <2>1, <3>2, TakesForward DEF Reported
    <3>4. QED
      BY <1>0, <1>2, <3>1, <3>3
  <2>3. CASE x2.client /\ x2.norm.turn = NoTurn
    <3>1. /\ x1' = Gave(x1, t) /\ x2' = [x2 EXCEPT !.norm = [turn |-> t, native |-> NoTurn]]
          /\ x3' = Codex!NowSend(t, "starting")
      BY <1>9, <2>3, CodexHost DEF Codex!Send
    <3>2. x1' \in Hosts /\ x1'.life = [x1.life EXCEPT ![t] = "given"] /\ x1'.active = t
      BY <1>0, <2>1, <3>1, AfterGave
    <3>3. Forwards(Folded(x1), Folded(x1')) /\ \A u \in Turns : Taken(x1, u) => Taken(x1', u)
      BY <1>0, <2>1, <3>2, TakesForward
    <3>4. Taken(x1', t)
      BY <1>0, <3>2 DEF Taken, Hosts
    <3>5. CodexSession(x2') /\ x2'.norm.turn = t
      BY <1>0, <3>1 DEF CodexSession, CodexFields, MaybeTurn
    <3>6. "starting" \in Phases
      BY DEF Phases
    <3>7. /\ x3' \in CodexCalls /\ x3'.stop = x3.stop
          /\ \A u \in Turns : u # t => x3'.send[u] = x3.send[u]
      BY <1>0, <3>1, <3>6, CodexCallsMove
    <3>8. \A u \in Turns : x3'.send[u] # "none" \/ x3'.stop[u] # "none" => Taken(x1', u)
      BY <1>0, <3>3, <3>4, <3>7
    <3>9. QED
      BY <1>1, <3>2, <3>3, <3>4, <3>5, <3>7, <3>8
  <2>4. QED
    BY <2>2, <2>3
<1>10. ASSUME NEW t \in Turns, Codex!StartAnswered(t) PROVE Kept
  <2>1. /\ x1' = x1 /\ x3.send[t] = "starting"
        /\ x2' = [x2 EXCEPT !.norm.native = t, !.map[t] = t, !.interrupted = @ \ {t}]
        /\ \E p \in {"stopping", "done"} : x3' = Codex!NowSend(t, p)
    BY <1>10 DEF Codex!StartAnswered, Codex!SendIs
  <2>2. CodexSession(x2') /\ x2'.norm.turn = x2.norm.turn
    BY <1>0, <2>1 DEF CodexSession, CodexFields
  <2>3. /\ x3' \in CodexCalls
        /\ \A u \in Turns : x3'.send[u] # "none" \/ x3'.stop[u] # "none" => Taken(x1, u)
    BY <1>0, <1>5, <2>1 DEF Phases
  <2>4. QED
    BY <1>2, <1>3, <2>1, <2>2, <2>3
<1>11. ASSUME NEW t \in Turns, Codex!StartRefused(t) PROVE Kept
  <2>1. /\ x1' = HearCompleted(HearError(x1), t) /\ x3.send[t] # "none"
        /\ x2' = [x2 EXCEPT !.norm = Codex!Idle] /\ x3' = Codex!NowSend(t, "done")
    BY <1>11, CodexHost DEF Codex!StartRefused, Codex!SendIs
  <2>2. Reported(x1, x1') /\ Taken(x1, t)
    BY <1>0, <2>1, ReportsFollow
  <2>3. CodexSession(x2') /\ x2'.norm.turn = NoTurn
    BY <1>0, <2>1 DEF CodexSession, CodexFields, Codex!Idle, MaybeTurn
  <2>4. QED
    BY <1>2, <1>5, <2>1, <2>2, <2>3 DEF Phases
<1>12. ASSUME NEW t \in Turns, Codex!Stop(t) PROVE Kept
  <2>1. x1.active = t /\ Taken(x1, t) /\ Stopped(x1, t) \in Hosts /\ Stopped(x1, t).life = x1.life
        /\ Stopped(x1, t).active = x1.active
    BY <1>0, <1>12, AfterStopped, CodexHost DEF Codex!Stop, MayStop
  <2>2. /\ x1' \in {Stopped(x1, t), StopReturned(Stopped(x1, t))}
        /\ x2' = x2 \/ x2' = [x2 EXCEPT !.approvals = {}]
        /\ \E p \in {"done", "cancelling"} : x3' = Codex!NowStop(t, p)
    BY <1>12, CodexHost DEF Codex!Stop
  <2>3. x1' \in Hosts /\ x1'.life = x1.life /\ x1'.active \in {x1.active, NoTurn}
    BY <2>1, <2>2, AfterOther
  <2>4. Reported(x1, x1')
    BY <1>0, <2>3, SameLife
  <2>5. CodexSession(x2') /\ x2'.norm.turn = x2.norm.turn
    BY <1>0, <2>2 DEF CodexSession, CodexFields
  <2>6. /\ x3' \in CodexCalls
        /\ \A u \in Turns : x3'.send[u] # "none" \/ x3'.stop[u] # "none" => Taken(x1, u)
    BY <1>5, <2>1, <2>2 DEF Phases
  <2>7. QED
    BY <1>2, <2>4, <2>5, <2>6
<1>13. ASSUME NEW t \in Turns, Codex!StopGoesOn(t) PROVE Kept
  <2>1. Taken(x1, t)
    BY <1>0, <1>13 DEF Codex!StopGoesOn, Codex!StopIs
  <2>2. CASE Codex!NativeOf(t) = NoTurn
    <3>1. /\ x1' = StopReturned(HearCompleted(x1, t)) /\ x3' = Codex!NowStop(t, "done")
          /\ \E v : x2' = [Codex!SettledSession(x2, t) EXCEPT !.interrupted = v]
      BY <1>13, <2>2, CodexHost DEF Codex!StopGoesOn
    <3>2. Reported(x1, x1')
      BY <1>0, <2>1, <3>1, ReportsFollow
    <3>3. /\ CodexSession(Codex!SettledSession(x2, t))
          /\ Codex!SettledSession(x2, t).norm.turn \in {x2.norm.turn, NoTurn}
      BY <1>0, CodexSettles
    <3>4. CodexSession(x2') /\ x2'.norm.turn \in {x2.norm.turn, NoTurn}
      BY <3>1, <3>3 DEF CodexSession, CodexFields
    <3>5. QED
      BY <1>2, <1>5, <2>1, <3>1, <3>2, <3>4 DEF Phases
  <2>3. CASE Codex!NativeOf(t) # NoTurn
    <3>1. /\ x1' = x1 /\ x2' = x2
          /\ \E p \in {"interrupting", "rejected"} : x3' = Codex!NowStop(t, p)
      BY <1>13, <2>3 DEF Codex!StopGoesOn
    <3>2. /\ x3' \in CodexCalls
          /\ \A u \in Turns : x3'.send[u] # "none" \/ x3'.stop[u] # "none" => Taken(x1, u)
      BY <1>5, <2>1, <3>1 DEF Phases
    <3>3. QED
      BY <1>0, <1>2, <1>3, <3>1, <3>2
  <2>4. QED
    BY <2>2, <2>3
<1>14. ASSUME NEW t \in Turns, Codex!InterruptAnswered(t) \/ Codex!InterruptRejected(t) PROVE Kept
  <2>1. /\ Asked(t) /\ x2' = Codex!SettledSession(x2, t)
        /\ x1' \in {HearCompleted(x1, t), StopReturned(HearCompleted(x1, t))}
        /\ x3' \in {Codex!NowSend(t, "done"), Codex!NowStop(t, "done")}
    BY <1>14, CodexHost DEF Codex!InterruptAnswered, Codex!InterruptRejected, Codex!SettleTurn,
                            Codex!SendIs, Codex!StopIs
  <2>2. Taken(x1, t)
    BY <1>0, <2>1
  <2>3. Reported(x1, x1')
    BY <1>0, <2>1, <2>2, ReportsFollow
  <2>4. CodexSession(x2') /\ x2'.norm.turn \in {x2.norm.turn, NoTurn}
    BY <1>0, <2>1, CodexSettles
  <2>5. QED
    BY <1>2, <1>5, <2>1, <2>2, <2>3, <2>4 DEF Phases
<1>15. CASE Codex!Notification
  <2> DEFINE m == Head(x4.out)  running == x2.norm.turn
  <2>1. x3' = x3
    BY <1>15 DEF Codex!Notification
  <2>2. CASE /\ x1' = x1
             /\ x2' = [x2 EXCEPT !.norm.native = m.turn,
                         !.map = IF running = NoTurn THEN @ ELSE [@ EXCEPT ![running] = m.turn]]
    <3>1. CodexSession(x2') /\ x2'.norm.turn = x2.norm.turn
      BY <1>0, <2>2 DEF CodexSession, CodexFields
    <3>2. QED
      BY <1>7, <2>1, <2>2, <3>1
  <2>3. CASE x1' = x1 /\ x2' = x2
    BY <1>0, <1>7, <2>1, <2>3
  <2>4. CASE /\ running # NoTurn
             /\ x2' = [x2 EXCEPT !.norm = Codex!Idle, !.map[running] = NoTurn,
                         !.interrupted = @ \ {running}]
             /\ \E failed \in BOOLEAN :
                  x1' = HearCompleted(IF failed THEN HearError(x1) ELSE x1, running)
    <3>1. CodexSession(x2') /\ x2'.norm.turn = NoTurn
      BY <1>0, <2>4 DEF CodexSession, CodexFields, Codex!Idle, MaybeTurn
    <3>2. \E f \in {x1, HearError(x1)} : x1' = HearCompleted(f, running)
      BY <2>4
    <3>3. running \in Turns /\ Taken(x1, running)
      BY <1>0, <2>4
    <3>4. Reported(x1, x1')
      <4> HIDE DEF running
      <4>1. QED
        BY <1>0, <3>2, <3>3, ReportsFollow
    <3>5. QED
      BY <1>0, <1>2, <2>1, <3>1, <3>4
  <2>5. CASE x1' = HearError(x1) /\ x2' = x2
    <3>1. x1' \in Hosts /\ x1'.life = x1.life /\ x1'.active \in {x1.active, NoTurn}
      BY <1>0, <2>5, AfterOther
    <3>2. Reported(x1, x1')
      BY <1>0, <3>1, SameLife
    <3>3. QED
      BY <1>0, <1>2, <2>1, <2>5, <3>2
  <2>6. QED
    BY <1>15, <2>2, <2>3, <2>4, <2>5, CodexHost DEF Codex!Notification
<1>16. CASE Codex!ApprovalRequest \/ Codex!StrayAnswer
  <2>1. /\ x1' = x1 /\ x3' = x3
        /\ x2' = x2 \/ \E v : x2' = [x2 EXCEPT !.approvals = v]
    BY <1>16 DEF Codex!ApprovalRequest, Codex!StrayAnswer
  <2>2. CodexSession(x2') /\ x2'.norm.turn = x2.norm.turn
    BY <1>0, <2>1 DEF CodexSession, CodexFields
  <2>3. QED
    BY <1>7, <2>1, <2>2
<1>17. ASSUME NEW n \in Turns, Codex!RespondToApproval(n) PROVE Kept
  <2>1. x1' = x1 /\ x3' = x3 /\ x2' = [x2 EXCEPT !.approvals = @ \ {n}]
    BY <1>17 DEF Codex!RespondToApproval
  <2>2. CodexSession(x2') /\ x2'.norm.turn = x2.norm.turn
    BY <1>0, <2>1 DEF CodexSession, CodexFields
  <2>3. QED
    BY <1>7, <2>1, <2>2
<1>18. CASE Codex!Exit \/ Codex!StopSession
  <2>1. /\ x1' = x1 \/ x1' = HearExited(x1)
        /\ x3' = Codex!Rejected(x3)
    BY <1>18, CodexHost DEF Codex!Exit, Codex!StopSession
  <2>2. CodexSession(x2') /\ x2'.norm.turn = x2.norm.turn
    BY <1>0, <1>18 DEF Codex!Exit, Codex!StopSession, Codex!Closed, CodexSession, CodexFields
  <2>3. x1' \in Hosts /\ x1'.life = x1.life /\ x1'.active \in {x1.active, NoTurn}
    BY <1>0, <2>1, AfterOther
  <2>4. Reported(x1, x1')
    BY <1>0, <2>3, SameLife
  <2>5. QED
    BY <1>2, <1>6, <2>1, <2>2, <2>4
<1>19. CASE Codex!Cli \/ Codex!CliSays("error", ErrorTurns) \/ Codex!CliSays("approval", AskTurns)
  <2>1. x1' = x1 /\ x2' = x2 /\ x3' = x3
    BY <1>19 DEF Codex!Cli, Codex!CliSays, Codex!CliStarts, Codex!CliInterrupts, Codex!CliGetsAnswer,
                 Codex!CliCompletes
  <2>2. QED
    BY <1>0, <1>7, <2>1
<1>20. QED
  BY <1>8, <1>9, <1>10, <1>11, <1>12, <1>13, <1>14, <1>15, <1>16, <1>17, <1>18, <1>19
  DEF Codex!Next, Codex!Adapter, Codex!User

-----------------------------------------------------------------------------
(* The claude adapter, and the same one with modes to switch between        *)

LEMMA ClaudeHost ==
  /\ Claude!FreshHost = FreshHost
  /\ \A h, t : /\ Claude!MaySend(h, t) = MaySend(h, t) /\ Claude!MayStop(h, t) = MayStop(h, t)
               /\ Claude!Gave(h, t) = Gave(h, t) /\ Claude!Refused(h, t) = Refused(h, t)
               /\ Claude!Stopped(h, t) = Stopped(h, t)
               /\ Claude!HearCompleted(h, t) = HearCompleted(h, t)
  /\ \A h : /\ Claude!StopReturned(h) = StopReturned(h) /\ Claude!HearError(h) = HearError(h)
            /\ Claude!HearExited(h) = HearExited(h)
BY DEF Claude!FreshHost, Claude!MaySend, Claude!MayStop, Claude!Gave, Claude!Refused, Claude!Stopped,
       Claude!HearCompleted, Claude!StopReturned, Claude!HearError, Claude!HearExited, FreshHost,
       MaySend, MayStop, Gave, Refused, Stopped, HearCompleted, StopReturned, HearError, HearExited

ClaudeFields == {"registered", "active", "timer", "cur", "mode", "applied", "model", "pending", "rejected"}
SendPhases == {"none", "mode", "model", "done"}

ClaudeSession(s) ==
  /\ ClaudeFields \subseteq DOMAIN s /\ s.active \in MaybeTurn
  /\ \A m \in s.pending \cup s.rejected :
       m.kind \in {"setMode", "setModel", "interrupt"} /\ m.turn \in Turns
ClaudeCalls(c) == {"send", "stop", "model"} \subseteq DOMAIN c /\ c.send \in [Turns -> SendPhases]

(* The requests that configure a turn, and the turns that wait for one.     *)
Configures(s) == {m \in s.pending \cup s.rejected : m.kind \in {"setMode", "setModel"}}
Waits(c, t) == c.send[t] \in {"mode", "model"}

(* ClaudeTurn's RunningIsGiven, written out: it says the same in both       *)
(* instances of the module.                                                 *)
Configured ==
  /\ x2.active # NoTurn => x1.life[x2.active] = "given"
  /\ \A t \in Turns : Waits(x3, t) => x1.life[t] = "given" /\ x2.active # t
  /\ \A m \in Configures(x2) : Waits(x3, m.turn)
  /\ \A m, n \in Configures(x2) : m.turn = n.turn => m = n
ClaudeInv == x1 \in Hosts /\ ClaudeSession(x2) /\ ClaudeCalls(x3) /\ Configured
ClaudeMoves == ClaudeInv' /\ Forwards(x1.life, x1'.life)

(* Five kinds of step.  Nothing happens to a turn:                          *)
LEMMA ClaudeIdles ==
  ASSUME ClaudeInv, x1' \in Hosts, x1'.life = x1.life, ClaudeSession(x2'), ClaudeCalls(x3'),
         x2'.active \in {x2.active, NoTurn}, x3'.send = x3.send, Configures(x2') \subseteq Configures(x2)
  PROVE  ClaudeMoves
<1>1. Configured'
  <2>1. x2'.active # NoTurn => x1'.life[x2'.active] = "given"
    BY DEF ClaudeInv, Configured
  <2>2. \A t \in Turns : Waits(x3', t) => x1'.life[t] = "given" /\ x2'.active # t
    BY NoTurnIsNoTurn DEF ClaudeInv, Configured, Waits
  <2>3. \A m \in Configures(x2') : Waits(x3', m.turn)
    BY DEF ClaudeInv, Configured, Waits
  <2>4. \A m, n \in Configures(x2') : m.turn = n.turn => m = n
    BY DEF ClaudeInv, Configured
  <2>5. QED
    BY <2>1, <2>2, <2>3, <2>4 DEF Configured
<1>2. QED
  BY <1>1 DEF ClaudeInv, ClaudeMoves, Forwards

(* the active turn is reported over;                                        *)
LEMMA ClaudeReports ==
  ASSUME ClaudeInv, x1' \in Hosts, ClaudeSession(x2'), ClaudeCalls(x3'), x2.active # NoTurn,
         x1'.life = [x1.life EXCEPT ![x2.active] = "over"], Forwards(x1.life, x1'.life),
         x2'.active = NoTurn, x3'.send = x3.send, Configures(x2') \subseteq Configures(x2)
  PROVE  ClaudeMoves
<1>0. x1.life \in [Turns -> Lives]
  BY DEF ClaudeInv, Hosts
<1>1. Configured'
  <2>2. \A t \in Turns : Waits(x3', t) => x1'.life[t] = "given" /\ x2'.active # t
    BY <1>0, NoTurnIsNoTurn DEF ClaudeInv, Configured, Waits
  <2>3. \A m \in Configures(x2') : Waits(x3', m.turn)
    BY DEF ClaudeInv, Configured, Waits
  <2>4. \A m, n \in Configures(x2') : m.turn = n.turn => m = n
    BY DEF ClaudeInv, Configured
  <2>5. QED
    BY <2>2, <2>3, <2>4 DEF Configured
<1>2. QED
  BY <1>1 DEF ClaudeInv, ClaudeMoves

(* a turn, just taken or waiting, goes on: its message is written and it    *)
(* becomes the active one,                                                  *)
Goes(t) ==
  \/ Waits(x3, t) /\ x1'.life = x1.life
  \/ x1.life[t] = "fresh" /\ x1'.life = [x1.life EXCEPT ![t] = "given"]

LEMMA GoesForward ==
  ASSUME ClaudeInv, x1' \in Hosts, NEW t \in Turns, Goes(t)
  PROVE  /\ Forwards(x1.life, x1'.life) /\ x1'.life[t] = "given" /\ x2.active # t
         /\ \A u \in Turns : x1.life[u] = "given" => x1'.life[u] = "given"
<1>0. x1.life \in [Turns -> Lives] /\ x2.active \in MaybeTurn
  BY DEF ClaudeInv, Hosts, ClaudeSession
<1>1. CASE Waits(x3, t) /\ x1'.life = x1.life
  BY <1>1 DEF ClaudeInv, Configured, Forwards
<1>2. CASE x1.life[t] = "fresh" /\ x1'.life = [x1.life EXCEPT ![t] = "given"]
  <2>1. Forwards(x1.life, x1'.life)
    BY <1>2 DEF Forwards, Promise!Life, Promise!Forward
  <2>2. x1'.life[t] = "given" /\ \A u \in Turns : x1.life[u] = "given" => x1'.life[u] = "given"
    BY <1>0, <1>2
  <2>3. x2.active # t
    BY <1>0, <1>2, NoTurnIsNoTurn DEF ClaudeInv, Configured
  <2>4. QED
    BY <2>1, <2>2, <2>3
<1>3. QED
  BY <1>1, <1>2 DEF Goes

LEMMA ClaudeDelivers ==
  ASSUME ClaudeInv, x1' \in Hosts, ClaudeSession(x2'), ClaudeCalls(x3'), NEW t \in Turns, Goes(t),
         x2'.active = t, x3'.send = [x3.send EXCEPT ![t] = "done"],
         Configures(x2') \subseteq {m \in Configures(x2) : m.turn # t}
  PROVE  ClaudeMoves
<1>0. /\ x3.send \in [Turns -> SendPhases] /\ \A m \in Configures(x2) : m.turn \in Turns
      /\ \A u \in Turns : Waits(x3, u) => x1.life[u] = "given"
      /\ \A m \in Configures(x2) : Waits(x3, m.turn)
      /\ \A m, n \in Configures(x2) : m.turn = n.turn => m = n
  BY DEF ClaudeInv, ClaudeCalls, ClaudeSession, Configures, Configured
<1>1. /\ Forwards(x1.life, x1'.life) /\ x1'.life[t] = "given"
      /\ \A u \in Turns : x1.life[u] = "given" => x1'.life[u] = "given"
  BY GoesForward
<1>2. x3'.send[t] = "done" /\ \A u \in Turns : u # t => x3'.send[u] = x3.send[u]
  BY <1>0
<1>3. \A u \in Turns : Waits(x3', u) => x1'.life[u] = "given" /\ x2'.active # u
  BY <1>0, <1>1, <1>2 DEF Waits
<1>4. \A m \in Configures(x2') : Waits(x3', m.turn)
  BY <1>0, <1>2 DEF Waits
<1>5. \A m, n \in Configures(x2') : m.turn = n.turn => m = n
  BY <1>0
<1>6. Configured'
  BY <1>1, <1>3, <1>4, <1>5 DEF Configured
<1>7. QED
  BY <1>1, <1>6 DEF ClaudeInv, ClaudeMoves

(* or it waits for one more request.                                        *)
LEMMA ClaudeAsks ==
  ASSUME ClaudeInv, x1' \in Hosts, ClaudeSession(x2'), ClaudeCalls(x3'), NEW t \in Turns, Goes(t),
         x2'.active = x2.active, NEW p \in {"mode", "model"}, x3'.send = [x3.send EXCEPT ![t] = p],
         NEW r, r.turn = t,
         Configures(x2') \subseteq {m \in Configures(x2) : m.turn # t} \cup {r}
  PROVE  ClaudeMoves
<1>0. /\ x3.send \in [Turns -> SendPhases] /\ \A m \in Configures(x2) : m.turn \in Turns
      /\ \A u \in Turns : Waits(x3, u) => x1.life[u] = "given" /\ x2.active # u
      /\ \A m \in Configures(x2) : Waits(x3, m.turn)
      /\ \A m, n \in Configures(x2) : m.turn = n.turn => m = n
      /\ x2.active \in MaybeTurn
      /\ x2.active # NoTurn => x1.life[x2.active] = "given"
  BY DEF ClaudeInv, ClaudeCalls, ClaudeSession, Configures, Configured
<1>1. /\ Forwards(x1.life, x1'.life) /\ x1'.life[t] = "given" /\ x2.active # t
      /\ \A u \in Turns : x1.life[u] = "given" => x1'.life[u] = "given"
  BY GoesForward
<1>2. x3'.send[t] = p /\ \A u \in Turns : u # t => x3'.send[u] = x3.send[u]
  BY <1>0
<1>3. \A u \in Turns : Waits(x3', u) => x1'.life[u] = "given" /\ x2'.active # u
  BY <1>0, <1>1, <1>2 DEF Waits
<1>4. \A m \in Configures(x2') : Waits(x3', m.turn)
  BY <1>0, <1>2 DEF Waits
<1>5. \A m, n \in Configures(x2') : m.turn = n.turn => m = n
  BY <1>0
<1>6. x2'.active # NoTurn => x1'.life[x2'.active] = "given"
  BY <1>0, <1>1 DEF MaybeTurn
<1>7. Configured'
  BY <1>3, <1>4, <1>5, <1>6 DEF Configured
<1>8. QED
  BY <1>1, <1>7 DEF ClaudeInv, ClaudeMoves

(* What the pieces of the adapter do to the state a call works on.          *)
ClaudeState(st) ==
  /\ DOMAIN st = {"session", "calls", "proc"}
  /\ ClaudeSession(st.session) /\ ClaudeCalls(st.calls)

LEMMA ClaudeDelivered ==
  ASSUME NEW st, ClaudeState(st), NEW t \in Turns
  PROVE  LET d == Claude!Delivered(st, t) IN
           /\ ClaudeState(d) /\ d.session.active = t
           /\ d.session.pending = st.session.pending /\ d.session.rejected = st.session.rejected
           /\ d.calls.send = [st.calls.send EXCEPT ![t] = "done"]
<1> DEFINE d == Claude!Delivered(st, t)
<1>1. /\ DOMAIN d = {"session", "calls", "proc"}
      /\ d.session = [st.session EXCEPT !.active = t]
      /\ d.calls = [st.calls EXCEPT !.send[t] = "done"]
  BY DEF Claude!Delivered
<1> HIDE DEF d
<1>2. /\ ClaudeSession(d.session) /\ d.session.active = t
      /\ d.session.pending = st.session.pending /\ d.session.rejected = st.session.rejected
  BY <1>1 DEF ClaudeState, ClaudeSession, ClaudeFields, MaybeTurn
<1>3. ClaudeCalls(d.calls) /\ d.calls.send = [st.calls.send EXCEPT ![t] = "done"]
  BY <1>1 DEF ClaudeState, ClaudeCalls, SendPhases
<1>4. QED
  BY <1>1, <1>2, <1>3 DEF ClaudeState, d

AskedIn(st, d, m, t, p) ==
  /\ ClaudeState(d) /\ d.session.active = st.session.active
  /\ d.session.pending = st.session.pending \cup {m}
  /\ d.session.rejected = st.session.rejected
  /\ d.calls.send = [st.calls.send EXCEPT ![t] = p]

LEMMA ClaudeAsking ==
  ASSUME NEW st, ClaudeState(st), NEW m, NEW t \in Turns, m.turn = t,
         m.kind = "setMode" \/ m.kind = "setModel", NEW p \in {"mode", "model"}
  PROVE  AskedIn(st, Claude!Asking(st, m, p), m, t, p)
<1> DEFINE d == Claude!Asking(st, m, p)
<1>1. /\ DOMAIN d = {"session", "calls", "proc"}
      /\ d.session = [st.session EXCEPT !.pending = @ \cup {m}]
      /\ d.calls = [st.calls EXCEPT !.send[t] = p]
  BY DEF Claude!Asking
<1> HIDE DEF d
<1>2. /\ ClaudeSession(d.session) /\ d.session.active = st.session.active
      /\ d.session.pending = st.session.pending \cup {m} /\ d.session.rejected = st.session.rejected
  BY <1>1 DEF ClaudeState, ClaudeSession, ClaudeFields, MaybeTurn
<1>3. ClaudeCalls(d.calls) /\ d.calls.send = [st.calls.send EXCEPT ![t] = p]
  BY <1>1 DEF ClaudeState, ClaudeCalls, SendPhases
<1>4. QED
  BY <1>1, <1>2, <1>3 DEF ClaudeState, d, AskedIn

(* After the mode comes the model or the message.                           *)
LEMMA ClaudeModeDone ==
  ASSUME NEW st, ClaudeState(st), NEW t \in Turns
  PROVE  \/ Claude!ModeDone(st, t) = Claude!Delivered(st, t)
         \/ \E m : /\ m.turn = t /\ m.kind = "setModel"
                   /\ Claude!ModeDone(st, t) = Claude!Asking(st, m, "model")
<1> DEFINE m == Claude!Set("setModel", t, st.calls.model[t])
<1>1. m.turn = t /\ m.kind = "setModel"
  BY DEF Claude!Set
<1>2. \/ Claude!ModeDone(st, t) = Claude!Delivered(st, t)
      \/ Claude!ModeDone(st, t) = Claude!Asking(st, m, "model")
  BY DEF Claude!ModeDone
<1> HIDE DEF m
<1>3. QED
  BY <1>1, <1>2

(* A turn goes on to the state st.                                          *)
GoesOn(st, t) ==
  \/ Claude!Becomes(Claude!Delivered(st, t))
  \/ \E m, p : /\ m.turn = t /\ m.kind \in {"setMode", "setModel"} /\ p \in {"mode", "model"}
               /\ Claude!Becomes(Claude!Asking(st, m, p))

LEMMA ClaudeGoesOn ==
  ASSUME ClaudeInv, x1' \in Hosts, NEW t \in Turns, Goes(t), NEW st, ClaudeState(st),
         st.session.active = x2.active, st.calls.send = x3.send,
         Configures(st.session) \subseteq {m \in Configures(x2) : m.turn # t},
         GoesOn(st, t)
  PROVE  ClaudeMoves
<1>1. CASE Claude!Becomes(Claude!Delivered(st, t))
  <2> DEFINE d == Claude!Delivered(st, t)
  <2>1. /\ ClaudeState(d) /\ d.session.active = t
        /\ d.session.pending = st.session.pending /\ d.session.rejected = st.session.rejected
        /\ d.calls.send = [st.calls.send EXCEPT ![t] = "done"]
    BY ClaudeDelivered
  <2>2. x2' = d.session /\ x3' = d.calls
    BY <1>1 DEF Claude!Becomes
  <2> HIDE DEF d
  <2>3. /\ ClaudeSession(x2') /\ ClaudeCalls(x3') /\ x2'.active = t
        /\ x3'.send = [x3.send EXCEPT ![t] = "done"]
    BY <2>1, <2>2 DEF ClaudeState
  <2>4. Configures(x2') = Configures(st.session)
    BY <2>1, <2>2 DEF Configures
  <2>5. QED
    BY <2>3, <2>4, ClaudeDelivers
<1>2. ASSUME NEW m, NEW p \in {"mode", "model"}, m.turn = t, m.kind \in {"setMode", "setModel"},
             Claude!Becomes(Claude!Asking(st, m, p))
      PROVE  ClaudeMoves
  <2> DEFINE d == Claude!Asking(st, m, p)
  <2>1. AskedIn(st, d, m, t, p)
    <3>1. m.kind = "setMode" \/ m.kind = "setModel"
      BY <1>2
    <3>2. m.turn = t
      BY <1>2
    <3>3. QED
      BY <3>1, <3>2, ClaudeAsking
  <2>2. x2' = d.session /\ x3' = d.calls
    BY <1>2 DEF Claude!Becomes
  <2> HIDE DEF d
  <2>3. /\ ClaudeSession(x2') /\ ClaudeCalls(x3') /\ x2'.active = x2.active
        /\ x3'.send = [x3.send EXCEPT ![t] = p]
    BY <1>2, <2>1, <2>2 DEF ClaudeState, AskedIn
  <2>4. Configures(x2') \subseteq Configures(st.session) \cup {m}
    BY <2>1, <2>2 DEF Configures, AskedIn
  <2>5. Configures(x2') \subseteq {n \in Configures(x2) : n.turn # t} \cup {m}
    BY <2>4
  <2>6. QED
    BY <1>2, <2>3, <2>5, ClaudeAsks
<1>3. QED
  BY <1>1, <1>2 DEF GoesOn

(* A control request is answered, refused, late or rejected.                *)
AnsweredState(m, pr) ==
  [session |-> [x2 EXCEPT !.pending = @ \ {m}, !.rejected = @ \ {m}], calls |-> x3, proc |-> pr]

LEMMA GivesResolves ==
  ASSUME NEW m, NEW acked, NEW pr, Claude!Gives([Claude!Here EXCEPT !.proc = pr], m, acked)
  PROVE  /\ Claude!Becomes(Claude!Resolved(AnsweredState(m, pr), m, acked))
         /\ x1' = IF m.kind = "interrupt" /\ acked THEN StopReturned(x1) ELSE x1
<1> DEFINE s1 == [x2 EXCEPT !.pending = @ \ {m}, !.rejected = @ \ {m}]
           st == [session |-> s1, calls |-> x3, proc |-> pr]
<1>1. [[Claude!Here EXCEPT !.proc = pr] EXCEPT !.session.pending = @ \ {m}, !.session.rejected = @ \ {m}]
        = st
  <2>1. [Claude!Here EXCEPT !.proc = pr] = [session |-> x2, calls |-> x3, proc |-> pr]
    BY DEF Claude!Here
  <2> DEFINE h == [session |-> x2, calls |-> x3, proc |-> pr]
  <2>2. [h EXCEPT !.session.pending = @ \ {m}, !.session.rejected = @ \ {m}]
          = [h EXCEPT !.session = s1]
    OBVIOUS
  <2>3. [h EXCEPT !.session = s1] = st
    BY DEF s1
  <2>4. QED
    BY <2>1, <2>2, <2>3
<1>2. st = AnsweredState(m, pr)
  BY DEF AnsweredState
<1> HIDE DEF st
<1>3. QED
  BY <1>1, <1>2, ClaudeHost DEF Claude!Gives

LEMMA ClaudeGives ==
  ASSUME ClaudeInv, NEW m \in x2.pending \cup x2.rejected, NEW acked \in BOOLEAN, NEW pr,
         Claude!Gives([Claude!Here EXCEPT !.proc = pr], m, acked)
  PROVE  ClaudeMoves
<1> DEFINE s1 == [x2 EXCEPT !.pending = @ \ {m}, !.rejected = @ \ {m}]
           st == [session |-> s1, calls |-> x3, proc |-> pr]
           t  == m.turn
<1>0. /\ x1 \in Hosts /\ ClaudeSession(x2) /\ ClaudeCalls(x3)
      /\ m.kind \in {"setMode", "setModel", "interrupt"} /\ t \in Turns
  BY DEF ClaudeInv, ClaudeSession
<1>1. /\ Claude!Becomes(Claude!Resolved(st, m, acked))
      /\ x1' = IF m.kind = "interrupt" /\ acked THEN StopReturned(x1) ELSE x1
  BY GivesResolves DEF AnsweredState
<1>2. x1' \in Hosts /\ x1'.life = x1.life
  BY <1>0, <1>1, AfterOther
<1>3. /\ ClaudeSession(s1) /\ s1.active = x2.active
      /\ s1.pending = x2.pending \ {m} /\ s1.rejected = x2.rejected \ {m}
  BY <1>0 DEF ClaudeSession, ClaudeFields
<1> HIDE DEF s1
<1>4. /\ ClaudeState(st) /\ st.session = s1 /\ st.calls = x3
  BY <1>0, <1>3 DEF ClaudeState
<1>5. Configures(s1) = Configures(x2) \ {m}
  BY <1>3 DEF Configures
<1> HIDE DEF st
<1>6. CASE m.kind \in {"setMode", "setModel"}
  <2>1. m \in Configures(x2)
    BY <1>6 DEF Configures
  <2>2. Configures(s1) \subseteq {n \in Configures(x2) : n.turn # t}
    BY <1>5, <2>1 DEF ClaudeInv, Configured
  <2>3. Goes(t)
    BY <1>2, <2>1 DEF ClaudeInv, Configured, Goes
  <2>4. ASSUME NEW sa, ClaudeState(sa), sa.session.active = s1.active, sa.calls = x3,
               sa.session.pending = s1.pending, sa.session.rejected = s1.rejected, GoesOn(sa, t)
        PROVE  ClaudeMoves
    <3>1. Configures(sa.session) = Configures(s1)
      BY <2>4 DEF Configures
    <3>2. /\ Configures(sa.session) \subseteq {n \in Configures(x2) : n.turn # t}
          /\ sa.session.active = x2.active /\ sa.calls.send = x3.send
      BY <1>3, <2>2, <2>4, <3>1
    <3> HIDE DEF t
    <3>3. QED
      BY <1>0, <1>2, <2>3, <2>4, <3>2, ClaudeGoesOn
  <2>5. CASE m.kind = "setMode"
    <3> DEFINE sa == IF acked THEN [st EXCEPT !.session.applied = st.session.mode] ELSE st
    <3>1. Claude!Becomes(Claude!ModeDone(sa, t))
      BY <1>1, <2>5 DEF Claude!Resolved
    <3>2. /\ ClaudeState(sa) /\ sa.calls = x3
          /\ sa.session.active = s1.active /\ sa.session.pending = s1.pending
          /\ sa.session.rejected = s1.rejected
      BY <1>3, <1>4 DEF ClaudeState, ClaudeSession, ClaudeFields
    <3> HIDE DEF sa, t
    <3>3. GoesOn(sa, t)
      BY <1>0, <3>1, <3>2, ClaudeModeDone DEF GoesOn
    <3>4. QED
      BY <2>4, <3>2, <3>3
  <2>6. CASE m.kind = "setModel"
    <3> DEFINE sa == IF acked THEN [st EXCEPT !.session.model = m.want] ELSE st
    <3>1. Claude!Becomes(Claude!Delivered(sa, t))
      BY <1>1, <2>6 DEF Claude!Resolved
    <3>2. /\ ClaudeState(sa) /\ sa.calls = x3
          /\ sa.session.active = s1.active /\ sa.session.pending = s1.pending
          /\ sa.session.rejected = s1.rejected
      BY <1>3, <1>4 DEF ClaudeState, ClaudeSession, ClaudeFields
    <3> HIDE DEF sa, t
    <3>3. GoesOn(sa, t)
      BY <3>1 DEF GoesOn
    <3>4. QED
      BY <2>4, <3>2, <3>3
  <2>7. QED
    BY <1>6, <2>5, <2>6
<1>7. CASE m.kind = "interrupt"
  <2>1. ASSUME NEW sa, Claude!Becomes(sa), ClaudeState(sa), sa.session.active = s1.active,
               sa.calls.send = x3.send,
               sa.session.pending = s1.pending, sa.session.rejected = s1.rejected
        PROVE  ClaudeMoves
    <3>1. x2' = sa.session /\ x3' = sa.calls
      BY <2>1 DEF Claude!Becomes
    <3>2. ClaudeSession(x2') /\ ClaudeCalls(x3') /\ x2'.active = x2.active /\ x3'.send = x3.send
      BY <1>3, <2>1, <3>1 DEF ClaudeState
    <3>3. Configures(x2') \subseteq Configures(x2)
      BY <1>5, <2>1, <3>1 DEF Configures
    <3>4. QED
      BY <1>2, <3>2, <3>3, ClaudeIdles
  <2>2. CASE acked
    <3> DEFINE v == IF st.session.active = m.turn /\ st.session.timer = NoTurn THEN m.turn
                    ELSE st.session.timer
               sa == [st EXCEPT !.calls.stop[m.turn] = "done", !.session.timer = v]
    <3>1. Claude!Becomes(sa)
      BY <1>1, <1>7, <2>2 DEF Claude!Resolved
    <3>2. /\ DOMAIN sa = DOMAIN st
          /\ sa.session = [s1 EXCEPT !.timer = v]
          /\ sa.calls = [x3 EXCEPT !.stop = [@ EXCEPT ![m.turn] = "done"]]
      BY <1>4 DEF ClaudeState
    <3> HIDE DEF sa, v
    <3>3. /\ ClaudeState(sa) /\ sa.calls.send = x3.send
          /\ sa.session.active = s1.active /\ sa.session.pending = s1.pending
          /\ sa.session.rejected = s1.rejected
      BY <1>0, <1>3, <1>4, <3>2 DEF ClaudeState, ClaudeSession, ClaudeFields, ClaudeCalls
    <3>4. QED
      BY <2>1, <3>1, <3>3
  <2>3. CASE ~acked
    <3> DEFINE sa == Claude!Killing(st, m.turn)
    <3>1. Claude!Becomes(sa)
      BY <1>1, <1>7, <2>3 DEF Claude!Resolved
    <3>2. /\ DOMAIN sa = {"session", "calls", "proc"}
          /\ sa.session = [s1 EXCEPT !.cur = Claude!NoProc, !.applied = NoTurn]
          /\ sa.calls = [x3 EXCEPT !.stop = [@ EXCEPT ![m.turn] = "killing"]]
      BY <1>4 DEF ClaudeState, Claude!Killing
    <3> HIDE DEF sa
    <3>3. /\ ClaudeState(sa) /\ sa.calls.send = x3.send
          /\ sa.session.active = s1.active /\ sa.session.pending = s1.pending
          /\ sa.session.rejected = s1.rejected
      BY <1>0, <1>3, <1>4, <3>2 DEF ClaudeState, ClaudeSession, ClaudeFields, ClaudeCalls
    <3>4. QED
      BY <2>1, <3>1, <3>3
  <2>4. QED
    BY <2>2, <2>3
<1>8. QED
  BY <1>0, <1>6, <1>7

(* The turn that was active, if there is one, is reported over.             *)
LEMMA ClaudeEnds ==
  ASSUME ClaudeInv, ClaudeSession(x2'), ClaudeCalls(x3'), x2'.active = NoTurn, x3'.send = x3.send,
         Configures(x2') \subseteq Configures(x2), NEW failed \in BOOLEAN,
         LET g == Claude!EndsWith(x1, x2.active, failed) IN x1' = g \/ x1' = StopReturned(g)
  PROVE  ClaudeMoves
<1> USE NoTurnIsNoTurn
<1> DEFINE a == x2.active  f == IF failed THEN HearError(x1) ELSE x1
<1>1. x1 \in Hosts /\ a \in MaybeTurn /\ f \in Hosts /\ f.life = x1.life
  <2>1. x1 \in Hosts /\ a \in MaybeTurn
    BY DEF ClaudeInv, ClaudeSession
  <2>2. QED
    BY <2>1, AfterOther
<1>2. CASE a = NoTurn
  <2>1. x1' = x1 \/ x1' = StopReturned(x1)
    BY <1>2 DEF Claude!EndsWith
  <2>2. x1' \in Hosts /\ x1'.life = x1.life
    BY <1>1, <2>1, AfterOther
  <2>3. QED
    BY <2>2, ClaudeIdles
<1>3. CASE a # NoTurn
  <2> DEFINE g == HearCompleted(f, a)
  <2>1. x1' = g \/ x1' = StopReturned(g)
    BY <1>3, ClaudeHost DEF Claude!EndsWith
  <2>2. a \in Turns /\ x1.life[a] = "given"
    BY <1>1, <1>3 DEF ClaudeInv, Configured, MaybeTurn
  <2> HIDE DEF f, a
  <2>3. g \in Hosts /\ g.life = [x1.life EXCEPT ![a] = "over"] /\ Forwards(x1.life, g.life)
    BY <1>1, <2>2, AfterCompleted
  <2> HIDE DEF g
  <2>4. x1' \in Hosts /\ x1'.life = g.life
    BY <2>1, <2>3, AfterOther
  <2>5. QED
    BY <1>3, <2>3, <2>4, ClaudeReports DEF a
<1>4. QED
  BY <1>2, <1>3

LEMMA ClaudeSettled ==
  ASSUME ClaudeSession(x2)
  PROVE  LET s == Claude!Settled(x2, x2.active) IN
           /\ ClaudeSession(s) /\ s.active = NoTurn
           /\ s.pending = x2.pending /\ s.rejected = x2.rejected
BY DEF ClaudeSession, ClaudeFields, Claude!Settled, MaybeTurn

(* The two instances differ in what may come, not in what is done about it. *)
LEMMA SameAdapter ==
  /\ \A st, t : Switch!Delivered(st, t) = Claude!Delivered(st, t)
  /\ \A st, t : Switch!ModeDone(st, t) = Claude!ModeDone(st, t)
  /\ \A st, m, p : Switch!Asking(st, m, p) = Claude!Asking(st, m, p)
  /\ \A st : Switch!Becomes(st) <=> Claude!Becomes(st)
  /\ \A st, m, acked : Switch!Gives(st, m, acked) <=> Claude!Gives(st, m, acked)
  /\ Switch!Here = Claude!Here
<1>1. \A st, t : Switch!Delivered(st, t) = Claude!Delivered(st, t)
  BY DEF Switch!Delivered, Claude!Delivered, Switch!Wrote, Claude!Wrote, Switch!NoProc, Claude!NoProc,
         Switch!Msg, Claude!Msg
<1>2. \A st, m, p : Switch!Asking(st, m, p) = Claude!Asking(st, m, p)
  BY DEF Switch!Asking, Claude!Asking, Switch!Wrote, Claude!Wrote, Switch!NoProc, Claude!NoProc
<1>3. \A st, t : Switch!ModeDone(st, t) = Claude!ModeDone(st, t)
  BY <1>1, <1>2 DEF Switch!ModeDone, Claude!ModeDone, Switch!NoProc, Claude!NoProc, Switch!Set, Claude!Set
<1>4. \A st, t : Switch!Killing(st, t) = Claude!Killing(st, t)
  BY DEF Switch!Killing, Claude!Killing, Switch!Dead, Claude!Dead, Switch!NoProc, Claude!NoProc
<1>5. ASSUME NEW st, NEW m, NEW acked
      PROVE  Switch!Resolved(st, m, acked) = Claude!Resolved(st, m, acked)
  <2> DEFINE moded == IF acked THEN [st EXCEPT !.session.applied = st.session.mode] ELSE st
             modeled == IF acked THEN [st EXCEPT !.session.model = m.want] ELSE st
  <2>1. Switch!ModeDone(moded, m.turn) = Claude!ModeDone(moded, m.turn)
    BY <1>3, Zenon
  <2>2. Switch!Delivered(modeled, m.turn) = Claude!Delivered(modeled, m.turn)
    BY <1>1, Zenon
  <2>3. Switch!Killing(st, m.turn) = Claude!Killing(st, m.turn)
    BY <1>4, Zenon
  <2>4. QED
    BY <2>1, <2>2, <2>3, ZenonT(60) DEF Switch!Resolved, Claude!Resolved
<1>6. \A st : Switch!Becomes(st) <=> Claude!Becomes(st)
  BY DEF Switch!Becomes, Claude!Becomes
<1>7. \A st, m, acked : Switch!Gives(st, m, acked) <=> Claude!Gives(st, m, acked)
  BY <1>5, <1>6 DEF Switch!Gives, Claude!Gives, Switch!StopReturned, Claude!StopReturned
<1>8. Switch!Here = Claude!Here
  BY DEF Switch!Here, Claude!Here
<1>9. QED
  BY <1>1, <1>2, <1>3, <1>6, <1>7, <1>8

LEMMA SameSteps ==
  /\ \A t : Switch!Stop(t) <=> Claude!Stop(t)
  /\ \A t : Switch!StopKilled(t) <=> Claude!StopKilled(t)
  /\ Switch!TimerFires <=> Claude!TimerFires
  /\ Switch!ControlRejected <=> Claude!ControlRejected
  /\ \A p : Switch!ExitReported(p) <=> Claude!ExitReported(p)
  /\ \A t : Switch!Send(t) => Claude!Send(t)
  /\ \A p : Claude!ReadLine(p) => Switch!ReadLine(p)
<1>1. Switch!IsAlive <=> Claude!IsAlive
  BY DEF Switch!IsAlive, Claude!IsAlive, Switch!NoProc, Claude!NoProc
<1>2. \A st, t : Switch!Killing(st, t) = Claude!Killing(st, t)
  BY DEF Switch!Killing, Claude!Killing, Switch!Dead, Claude!Dead, Switch!NoProc, Claude!NoProc
<1>3. \A t : Switch!Stop(t) <=> Claude!Stop(t)
  BY <1>1, <1>2, SameAdapter DEF Switch!Stop, Claude!Stop, Switch!MayStop, Claude!MayStop,
     Switch!StopIs, Claude!StopIs, Switch!StopReturned, Claude!StopReturned, Switch!Stopped,
     Claude!Stopped, Switch!NowStop, Claude!NowStop, Switch!Msg, Claude!Msg
<1>4. \A s, t : Switch!Settled(s, t) = Claude!Settled(s, t)
  BY DEF Switch!Settled, Claude!Settled
<1>5. \A h, t : Switch!HearCompleted(h, t) = Claude!HearCompleted(h, t)
  BY DEF Switch!HearCompleted, Claude!HearCompleted
<1>6. \A h, t, f : Switch!EndsWith(h, t, f) = Claude!EndsWith(h, t, f)
  BY <1>5 DEF Switch!EndsWith, Claude!EndsWith, Switch!HearError, Claude!HearError
<1>7. \A t : Switch!StopKilled(t) <=> Claude!StopKilled(t)
  BY <1>4, <1>5 DEF Switch!StopKilled, Claude!StopKilled, Switch!StopIs, Claude!StopIs,
     Switch!StopReturned, Claude!StopReturned, Switch!NowStop, Claude!NowStop
<1>8. Switch!TimerFires <=> Claude!TimerFires
  BY <1>4, <1>5 DEF Switch!TimerFires, Claude!TimerFires
<1>9. Switch!ControlRejected <=> Claude!ControlRejected
  BY SameAdapter DEF Switch!ControlRejected, Claude!ControlRejected
<1>10. \A p : Switch!ExitReported(p) <=> Claude!ExitReported(p)
  BY <1>4, <1>6 DEF Switch!ExitReported, Claude!ExitReported, Switch!NoProc, Claude!NoProc
<1>11. Switch!Unused = Claude!Unused
  BY DEF Switch!Unused, Claude!Unused, Switch!Procs, Claude!Procs
<1>12. Switch!NextProc = Claude!NextProc
  BY <1>11 DEF Switch!NextProc, Claude!NextProc
<1>13. \A mode, model : Switch!Born(mode, model) = Claude!Born(mode, model)
  BY DEF Switch!Born, Claude!Born, Switch!Unborn, Claude!Unborn
<1>14. ASSUME NEW t, Switch!Send(t) PROVE Claude!Send(t)
  <2>1. /\ Switch!MaySend(x1, t) = Claude!MaySend(x1, t)
        /\ Switch!Refused(x1, t) = Claude!Refused(x1, t) /\ Switch!Gave(x1, t) = Claude!Gave(x1, t)
    BY DEF Switch!MaySend, Claude!MaySend, Switch!Refused, Claude!Refused, Switch!Gave, Claude!Gave
  <2>2. CASE x1' = Switch!Refused(x1, t)
             /\ (~x2.registered \/ x2.active # NoTurn \/ (~Switch!IsAlive /\ Switch!Unused = {}))
             /\ UNCHANGED <<x2, x3, x4>>
    BY <1>1, <1>11, <1>14, <2>1, <2>2 DEF Switch!Send, Claude!Send
  <2>3. CASE /\ x2.registered /\ x2.active = NoTurn /\ (Switch!IsAlive \/ Switch!Unused # {})
             /\ x1' = Switch!Gave(x1, t)
             /\ \E m \in Models :
                  LET st == [Switch!Here EXCEPT !.calls.model[t] = m]
                      spawned == [st EXCEPT
                        !.session.cur = Switch!NextProc, !.session.applied = x2.mode, !.session.model = m,
                        !.proc[Switch!NextProc] = Switch!Born(x2.mode, x2.model)]
                  IN  Switch!Becomes(IF ~Switch!IsAlive THEN Switch!Delivered(spawned, t)
                                     ELSE IF x2.applied # x2.mode
                                     THEN Switch!Asking(st, Switch!Set("setMode", t, x2.mode), "mode")
                                     ELSE Switch!ModeDone(st, t))
    <3> DEFINE st(m) == [Claude!Here EXCEPT !.calls.model[t] = m]
               spawned(m) == [st(m) EXCEPT
                 !.session.cur = Claude!NextProc, !.session.applied = x2.mode, !.session.model = m,
                 !.proc[Claude!NextProc] = Claude!Born(x2.mode, x2.model)]
               next(m) == IF ~Claude!IsAlive THEN Claude!Delivered(spawned(m), t)
                          ELSE IF x2.applied # x2.mode
                          THEN Claude!Asking(st(m), Claude!Set("setMode", t, x2.mode), "mode")
                          ELSE Claude!ModeDone(st(m), t)
    <3>1. \A m : st(m) = [Switch!Here EXCEPT !.calls.model[t] = m]
      BY SameAdapter
    <3>2. \A m : spawned(m) = [[Switch!Here EXCEPT !.calls.model[t] = m] EXCEPT
                 !.session.cur = Switch!NextProc, !.session.applied = x2.mode, !.session.model = m,
                 !.proc[Switch!NextProc] = Switch!Born(x2.mode, x2.model)]
      BY <1>12, <1>13, SameAdapter
    <3>3. Switch!Set("setMode", t, x2.mode) = Claude!Set("setMode", t, x2.mode)
      BY DEF Switch!Set, Claude!Set
    <3> HIDE DEF st, spawned
    <3>4. PICK k \in Models : Claude!Becomes(next(k))
      BY <1>1, <2>3, <3>1, <3>2, <3>3, SameAdapter
    <3>5. \E m \in Models : Claude!Becomes(next(m))
      BY <3>4
    <3> HIDE DEF next
    <3>6. QED
      BY <1>1, <1>11, <1>14, <2>1, <2>3, <3>5 DEF Switch!Send, Claude!Send, next, st, spawned
  <2>4. QED
    BY <1>14, <2>2, <2>3 DEF Switch!Send
<1>15. \A p : Claude!ReadLine(p) => Switch!ReadLine(p)
  BY <1>4, <1>6, SameAdapter DEF Switch!ReadLine, Claude!ReadLine, Switch!Current, Claude!Current,
     Switch!NoProc, Claude!NoProc, Switch!Wrote, Claude!Wrote, Switch!Msg, Claude!Msg
<1>16. QED
  BY <1>3, <1>7, <1>8, <1>9, <1>10, <1>14, <1>15

(* sendTurn: what the turn goes on to is prepared in one go.                *)
LEMMA ClaudeSends ==
  ASSUME ClaudeInv, NEW t \in Turns, Claude!Send(t)
  PROVE  ClaudeMoves
<1> USE NoTurnIsNoTurn
<1>0. /\ x1 \in Hosts /\ ClaudeSession(x2) /\ ClaudeCalls(x3)
      /\ x1.life \in [Turns -> Lives] /\ x1.life[t] = "fresh"
  BY ClaudeHost DEF ClaudeInv, Claude!Send, MaySend, Hosts
<1>1. CASE x1' = Refused(x1, t) /\ x2' = x2 /\ x3' = x3
  <2>1. /\ x1' \in Hosts /\ x1'.life = [x1.life EXCEPT ![t] = "refused"]
        /\ Forwards(x1.life, x1'.life)
    BY <1>0, <1>1, AfterRefused
  <2>2. \A u \in Turns : x1.life[u] = "given" => x1'.life[u] = "given"
    BY <1>0, <2>1
  <2>3. Configured'
    BY <1>0, <1>1, <2>2 DEF ClaudeInv, Configured, Waits, Configures, ClaudeSession, MaybeTurn
  <2>4. QED
    BY <1>0, <1>1, <2>1, <2>3 DEF ClaudeInv, ClaudeMoves
<1>2. ASSUME x1' = Gave(x1, t), NEW m \in Models, NEW st, ClaudeState(st),
             st.session.active = x2.active, st.session.pending = x2.pending,
             st.session.rejected = x2.rejected, st.calls.send = x3.send, GoesOn(st, t)
      PROVE  ClaudeMoves
  <2>1. x1' \in Hosts /\ Goes(t)
    BY <1>0, <1>2, AfterGave DEF Goes
  <2>2. \A m1 \in Configures(x2) : m1.turn # t
    BY <1>0 DEF ClaudeInv, Configured
  <2>3. Configures(st.session) \subseteq {m1 \in Configures(x2) : m1.turn # t}
    BY <1>2, <2>2 DEF Configures
  <2>4. QED
    BY <1>2, <2>1, <2>3, ClaudeGoesOn
<1>3. ASSUME NEW m \in Models, x1' = Gave(x1, t),
             LET st == [Claude!Here EXCEPT !.calls.model[t] = m]
                 spawned == [st EXCEPT
                   !.session.cur = Claude!NextProc, !.session.applied = x2.mode, !.session.model = m,
                   !.proc[Claude!NextProc] = Claude!Born(x2.mode, x2.model)]
             IN  Claude!Becomes(IF ~Claude!IsAlive THEN Claude!Delivered(spawned, t)
                                ELSE IF x2.applied # x2.mode
                                THEN Claude!Asking(st, Claude!Set("setMode", t, x2.mode), "mode")
                                ELSE Claude!ModeDone(st, t))
      PROVE  ClaudeMoves
  <2> DEFINE st == [Claude!Here EXCEPT !.calls.model[t] = m]
             pr == [x4 EXCEPT ![Claude!NextProc] = Claude!Born(x2.mode, x2.model)]
             spawned == [st EXCEPT
               !.session.cur = Claude!NextProc, !.session.applied = x2.mode, !.session.model = m,
               !.proc[Claude!NextProc] = Claude!Born(x2.mode, x2.model)]
             c == [x3 EXCEPT !.model = [x3.model EXCEPT ![t] = m]]
  <2>1. st = [session |-> x2, calls |-> c, proc |-> x4]
    BY DEF Claude!Here
  <2>2. ClaudeCalls(c) /\ c.send = x3.send
    BY <1>0 DEF ClaudeCalls
  <2>3. /\ DOMAIN spawned = {"session", "calls", "proc"} /\ spawned.calls = c
        /\ spawned.session = [x2 EXCEPT !.cur = Claude!NextProc, !.applied = x2.mode, !.model = m]
    <3> HIDE DEF st
    <3>1. QED
      BY <2>1
  <2> HIDE DEF st, spawned, c
  <2>4. ClaudeState(st) /\ st.session = x2 /\ st.calls.send = x3.send
    BY <1>0, <2>1, <2>2 DEF ClaudeState
  <2>5. /\ ClaudeSession(spawned.session) /\ spawned.session.active = x2.active
        /\ spawned.session.pending = x2.pending /\ spawned.session.rejected = x2.rejected
    BY <1>0, <2>3 DEF ClaudeSession, ClaudeFields
  <2>6. ClaudeState(spawned) /\ spawned.calls.send = x3.send
    BY <2>2, <2>3, <2>5 DEF ClaudeState
  <2>7. CASE ~Claude!IsAlive
    <3>1. GoesOn(spawned, t)
      BY <1>3, <2>7 DEF GoesOn, st, spawned
    <3>2. QED
      BY <1>2, <1>3, <2>5, <2>6, <3>1
  <2>8. CASE Claude!IsAlive
    <3> DEFINE r == Claude!Set("setMode", t, x2.mode)
    <3>1. r.turn = t /\ r.kind = "setMode"
      BY DEF Claude!Set
    <3>2. Claude!Becomes(Claude!Asking(st, r, "mode")) \/ Claude!Becomes(Claude!ModeDone(st, t))
      BY <1>3, <2>8 DEF st
    <3> HIDE DEF r
    <3>3. GoesOn(st, t)
      BY <2>4, <3>1, <3>2, ClaudeModeDone DEF GoesOn
    <3>4. QED
      BY <1>2, <1>3, <2>4, <3>3
  <2>9. QED
    BY <2>7, <2>8
<1>4. QED
  BY <1>1, <1>3, ClaudeHost DEF Claude!Send

(* One step of either instance.                                             *)
LEMMA ClaudeStep ==
  ASSUME ClaudeInv,
         \/ \E t \in Turns : Claude!Send(t) \/ Claude!Stop(t) \/ Claude!StopKilled(t)
         \/ Claude!TimerFires \/ Claude!ControlRejected \/ Switch!ControlTimesOut
         \/ \E p : Switch!ReadLine(p) \/ Claude!ExitReported(p)
         \/ Claude!StopSession
         \/ x1' = x1 /\ x3' = x3 /\ \E mode : x2' = [x2 EXCEPT !.mode = mode]
         \/ x1' = x1 /\ x2' = x2 /\ x3' = x3
  PROVE  ClaudeMoves
<1> USE NoTurnIsNoTurn
<1>0. /\ x1 \in Hosts /\ ClaudeSession(x2) /\ ClaudeCalls(x3) /\ x2.active \in MaybeTurn
  BY DEF ClaudeInv, ClaudeSession
<1>1. ASSUME x1' \in Hosts, x1'.life = x1.life, ClaudeSession(x2'), x2'.active = x2.active,
             x2'.pending = x2.pending, x2'.rejected = x2.rejected, ClaudeCalls(x3'), x3'.send = x3.send
      PROVE  ClaudeMoves
  BY <1>1, ClaudeIdles DEF Configures
<1>2. ASSUME NEW m \in x2.pending \cup x2.rejected, NEW acked \in BOOLEAN,
             Claude!Gives(Claude!Here, m, acked)
      PROVE  ClaudeMoves
  <2>1. Claude!Here = [Claude!Here EXCEPT !.proc = x4]
    BY DEF Claude!Here
  <2>2. Claude!Gives([Claude!Here EXCEPT !.proc = x4], m, acked)
    BY <1>2, <2>1
  <2>3. QED
    BY <1>2, <2>2, ClaudeGives
<1>3. ASSUME NEW t \in Turns, Claude!Stop(t) PROVE ClaudeMoves
  <2>1. Stopped(x1, t) \in Hosts /\ Stopped(x1, t).life = x1.life
    BY <1>0, AfterStopped
  <2>2. CASE ~x2.registered \/ x2.active # t
    <3>1. /\ x1' = StopReturned(Stopped(x1, t)) /\ x2' = x2
          /\ x3' = [x3 EXCEPT !.stop = [@ EXCEPT ![t] = "done"]]
      BY <1>3, <2>2, ClaudeHost DEF Claude!Stop, Claude!NowStop
    <3>2. x1' \in Hosts /\ x1'.life = x1.life
      BY <2>1, <3>1, AfterOther
    <3>3. ClaudeCalls(x3') /\ x3'.send = x3.send
      BY <1>0, <3>1 DEF ClaudeCalls
    <3>4. QED
      BY <1>0, <1>1, <3>1, <3>2, <3>3
  <2>3. CASE x2.registered /\ x2.active = t /\ Claude!IsAlive
    <3> DEFINE m == Claude!Msg("interrupt", t)
    <3>1. m.kind = "interrupt" /\ m.turn = t
      BY DEF Claude!Msg
    <3>2. x1' = Stopped(x1, t) /\ Claude!Becomes(Claude!Asking(Claude!Here, m, "asking"))
      BY <1>3, <2>3, ClaudeHost DEF Claude!Stop
    <3> HIDE DEF m
    <3>3. /\ x2' = [x2 EXCEPT !.pending = @ \cup {m}]
          /\ x3' = [x3 EXCEPT !.stop = [@ EXCEPT ![t] = "asking"]]
      BY <3>1, <3>2 DEF Claude!Becomes, Claude!Asking, Claude!Here
    <3>4. ClaudeCalls(x3') /\ x3'.send = x3.send
      BY <1>0, <3>3 DEF ClaudeCalls
    <3>5. /\ ClaudeSession(x2') /\ x2'.active = x2.active
          /\ x2'.pending = x2.pending \cup {m} /\ x2'.rejected = x2.rejected
      BY <1>0, <3>1, <3>3 DEF ClaudeSession, ClaudeFields
    <3>6. Configures(x2') \subseteq Configures(x2)
      BY <3>1, <3>5 DEF Configures
    <3>7. QED
      BY <2>1, <3>2, <3>4, <3>5, <3>6, ClaudeIdles
  <2>4. CASE x2.registered /\ x2.active = t /\ ~Claude!IsAlive
    <3>1. x1' = Stopped(x1, t) /\ Claude!Becomes(Claude!Killing(Claude!Here, t))
      BY <1>3, <2>4, ClaudeHost DEF Claude!Stop
    <3>2. /\ x2' = [x2 EXCEPT !.cur = Claude!NoProc, !.applied = NoTurn]
          /\ x3' = [x3 EXCEPT !.stop = [@ EXCEPT ![t] = "killing"]]
      BY <3>1 DEF Claude!Becomes, Claude!Killing, Claude!Here
    <3>3. ClaudeCalls(x3') /\ x3'.send = x3.send
      BY <1>0, <3>2 DEF ClaudeCalls
    <3>4. /\ ClaudeSession(x2') /\ x2'.active = x2.active
          /\ x2'.pending = x2.pending /\ x2'.rejected = x2.rejected
      BY <1>0, <3>2 DEF ClaudeSession, ClaudeFields
    <3>5. QED
      BY <1>1, <2>1, <3>1, <3>3, <3>4
  <2>5. QED
    BY <2>2, <2>3, <2>4
<1>4. ASSUME NEW t, x2.active = t, ClaudeCalls(x3'), x3'.send = x3.send, NEW failed \in BOOLEAN,
             x1' = Claude!EndsWith(x1, t, failed) \/ x1' = StopReturned(Claude!EndsWith(x1, t, failed)),
             ClaudeSession(x2'), x2'.active = NoTurn, Configures(x2') \subseteq Configures(x2)
      PROVE  ClaudeMoves
  BY <1>0, <1>4, ClaudeEnds
<1>5. /\ ClaudeSession(Claude!Settled(x2, x2.active)) /\ Claude!Settled(x2, x2.active).active = NoTurn
      /\ Claude!Settled(x2, x2.active).pending = x2.pending
      /\ Claude!Settled(x2, x2.active).rejected = x2.rejected
  BY <1>0, ClaudeSettled
<1>6. ASSUME NEW t \in Turns, Claude!StopKilled(t) PROVE ClaudeMoves
  <2>1. /\ x2' = Claude!Settled(x2, t) /\ x3' = [x3 EXCEPT !.stop = [@ EXCEPT ![t] = "done"]]
        /\ x1' = StopReturned(IF x2.active = t THEN HearCompleted(x1, t) ELSE x1)
    BY <1>6, ClaudeHost DEF Claude!StopKilled, Claude!NowStop
  <2>2. ClaudeCalls(x3') /\ x3'.send = x3.send
    BY <1>0, <2>1 DEF ClaudeCalls
  <2>3. CASE x2.active = t
    <3>1. /\ ClaudeSession(x2') /\ x2'.active = NoTurn /\ Configures(x2') \subseteq Configures(x2)
      BY <1>5, <2>1, <2>3 DEF Configures
    <3>2. x1' = StopReturned(Claude!EndsWith(x1, t, FALSE))
      BY <2>1, <2>3, ClaudeHost DEF Claude!EndsWith
    <3>3. QED
      BY <1>4, <2>2, <2>3, <3>1, <3>2
  <2>4. CASE x2.active # t
    <3>1. x2' = x2 /\ x1' = StopReturned(x1)
      BY <2>1, <2>4 DEF Claude!Settled
    <3>2. x1' \in Hosts /\ x1'.life = x1.life
      BY <1>0, <3>1, AfterOther
    <3>3. QED
      BY <1>0, <1>1, <2>2, <3>1, <3>2
  <2>5. QED
    BY <2>3, <2>4
<1>7. CASE Claude!TimerFires
  <2> DEFINE t == x2.timer
  <2>1. /\ x2' = [Claude!Settled(x2, t) EXCEPT !.timer = NoTurn] /\ x3' = x3 /\ t # NoTurn
        /\ x1' = IF x2.active = t THEN HearCompleted(x1, t) ELSE x1
    BY <1>7, ClaudeHost DEF Claude!TimerFires
  <2> HIDE DEF t
  <2>2. CASE x2.active = t
    <3>1. /\ ClaudeSession(x2') /\ x2'.active = NoTurn
          /\ x2'.pending = x2.pending /\ x2'.rejected = x2.rejected
      BY <1>5, <2>1, <2>2 DEF ClaudeSession, ClaudeFields
    <3>2. x1' = Claude!EndsWith(x1, t, FALSE)
      BY <2>1, <2>2, ClaudeHost DEF Claude!EndsWith
    <3>3. Configures(x2') \subseteq Configures(x2)
      BY <3>1 DEF Configures
    <3>4. QED
      BY <1>0, <1>4, <2>1, <2>2, <3>1, <3>2, <3>3
  <2>3. CASE x2.active # t
    <3>1. x2' = [x2 EXCEPT !.timer = NoTurn] /\ x1' = x1
      BY <2>1, <2>3 DEF Claude!Settled
    <3>2. /\ ClaudeSession(x2') /\ x2'.active = x2.active
          /\ x2'.pending = x2.pending /\ x2'.rejected = x2.rejected
      BY <1>0, <3>1 DEF ClaudeSession, ClaudeFields
    <3>3. QED
      BY <1>0, <1>1, <2>1, <3>1, <3>2
  <2>4. QED
    BY <2>2, <2>3
<1>8. CASE Claude!ControlRejected
  BY <1>2, <1>8 DEF Claude!ControlRejected
<1>9. CASE Switch!ControlTimesOut
  BY <1>2, <1>9, SameAdapter DEF Switch!ControlTimesOut
<1>10. ASSUME NEW p, Switch!ReadLine(p) PROVE ClaudeMoves
  <2> DEFINE m == Head(x4[p].out)  pr == [x4 EXCEPT ![p].out = Tail(@)]
  <2>1. CASE x1' = x1 /\ x2' = x2 /\ x3' = x3
    BY <1>0, <1>1, <2>1
  <2>2. CASE m \in x2.pending /\ \E acked \in {TRUE, ~SlowCli} :
               Switch!Gives([Switch!Here EXCEPT !.proc = pr], m, acked)
    <3>1. PICK acked \in BOOLEAN : Claude!Gives([Claude!Here EXCEPT !.proc = pr], m, acked)
      BY <2>2, SameAdapter
    <3> HIDE DEF m, pr
    <3>2. QED
      BY <2>2, <3>1, ClaudeGives
  <2>3. CASE /\ x2' = Switch!Settled(x2, x2.active) /\ x3' = x3
             /\ \E failed \in BOOLEAN : x1' = Switch!EndsWith(x1, x2.active, failed)
    <3>1. x2' = Claude!Settled(x2, x2.active)
      BY <2>3 DEF Switch!Settled, Claude!Settled
    <3>2. \E failed \in BOOLEAN : x1' = Claude!EndsWith(x1, x2.active, failed)
      BY <2>3 DEF Switch!EndsWith, Claude!EndsWith, Switch!HearError, Claude!HearError,
                  Switch!HearCompleted, Claude!HearCompleted
    <3>3. ClaudeSession(x2') /\ x2'.active = NoTurn /\ Configures(x2') \subseteq Configures(x2)
      BY <1>5, <3>1 DEF Configures
    <3>4. QED
      BY <1>0, <1>4, <2>3, <3>2, <3>3
  <2>4. QED
    BY <1>10, <2>1, <2>2, <2>3 DEF Switch!ReadLine
<1>11. ASSUME NEW p, Claude!ExitReported(p) PROVE ClaudeMoves
  <2> DEFINE s == Claude!Settled(x2, x2.active)
  <2>1. /\ x2' = [s EXCEPT !.cur = Claude!NoProc, !.applied = NoTurn, !.pending = {},
                           !.rejected = @ \cup x2.pending]
        /\ x3' = x3
        /\ \E failed \in BOOLEAN : x1' = Claude!EndsWith(x1, x2.active, failed)
    BY <1>11 DEF Claude!ExitReported
  <2>2. ClaudeSession(s) /\ s.active = NoTurn /\ s.pending = x2.pending /\ s.rejected = x2.rejected
    BY <1>5
  <2> HIDE DEF s
  <2>3. /\ x2'.pending = {} /\ x2'.rejected = x2.rejected \cup x2.pending /\ x2'.active = NoTurn
        /\ ClaudeFields \subseteq DOMAIN x2'
    BY <2>1, <2>2 DEF ClaudeSession, ClaudeFields
  <2>4. ClaudeSession(x2') /\ Configures(x2') \subseteq Configures(x2)
    BY <1>0, <2>3 DEF ClaudeSession, Configures, MaybeTurn
  <2>5. QED
    BY <1>0, <1>4, <2>1, <2>3, <2>4
<1>12. CASE Claude!StopSession
  <2>1. /\ x2' = [x2 EXCEPT !.registered = FALSE, !.cur = Claude!NoProc, !.timer = NoTurn]
        /\ x1' = HearExited(x1) /\ x3' = x3
    BY <1>12, ClaudeHost DEF Claude!StopSession
  <2>2. x1' \in Hosts /\ x1'.life = x1.life
    BY <1>0, <2>1, AfterOther
  <2>3. /\ ClaudeSession(x2') /\ x2'.active = x2.active
        /\ x2'.pending = x2.pending /\ x2'.rejected = x2.rejected
    BY <1>0, <2>1 DEF ClaudeSession, ClaudeFields
  <2>4. QED
    BY <1>0, <1>1, <2>1, <2>2, <2>3
<1>13. CASE x1' = x1 /\ x3' = x3 /\ \E mode : x2' = [x2 EXCEPT !.mode = mode]
  <2>1. /\ ClaudeSession(x2') /\ x2'.active = x2.active
        /\ x2'.pending = x2.pending /\ x2'.rejected = x2.rejected
    BY <1>0, <1>13 DEF ClaudeSession, ClaudeFields
  <2>2. QED
    BY <1>0, <1>1, <1>13, <2>1
<1>14. CASE x1' = x1 /\ x2' = x2 /\ x3' = x3
  BY <1>0, <1>1, <1>14
<1>15. QED
  BY <1>3, <1>6, <1>7, <1>8, <1>9, <1>10, <1>11, <1>12, <1>13, <1>14, ClaudeSends

LEMMA ClaudeStarts ==
  ASSUME Claude!Init \/ Switch!Init
  PROVE  ClaudeInv /\ x1 = FreshHost
<1>0. Switch!FreshHost = FreshHost /\ FreshHost \in Hosts
  BY DEF Switch!FreshHost, FreshHost, Hosts, Lives, MaybeTurn
<1>1. x1 = FreshHost /\ x1 \in Hosts
  BY <1>0, ClaudeHost DEF Claude!Init, Switch!Init
<1>2. /\ ClaudeFields \subseteq DOMAIN x2 /\ x2.active = NoTurn
      /\ x2.pending = {} /\ x2.rejected = {}
  BY DEF Claude!Init, Switch!Init, ClaudeFields
<1>3. ClaudeCalls(x3) /\ \A t \in Turns : x3.send[t] = "none"
  BY DEF Claude!Init, Switch!Init, ClaudeCalls, SendPhases
<1>4. QED
  BY <1>1, <1>2, <1>3 DEF ClaudeInv, ClaudeSession, Configured, Waits, Configures, MaybeTurn

LEMMA ClaudeKept ==
  ASSUME ClaudeInv, Claude!Next \/ Switch!Next
  PROVE  ClaudeMoves
<1>1. CASE Claude!Next
  <2>1. CASE Claude!Adapter
    BY <2>1, ClaudeStep, SameSteps DEF Claude!Adapter, Claude!WatchExit
  <2>2. CASE Claude!User
    BY <2>2, ClaudeStep DEF Claude!User, Claude!SetPermissionMode
  <2>3. CASE Claude!Cli \/ \E p \in Claude!Procs : Claude!CliAsks(p) \/ Claude!CliExits(p)
    BY <2>3, ClaudeStep DEF Claude!Cli, Claude!CliTakesTurn, Claude!CliControls, Claude!CliResult,
       Claude!CliAsks, Claude!CliExits
  <2>4. CASE Claude!ControlTimesOut
    BY <2>4 DEF Claude!ControlTimesOut
  <2>5. QED
    BY <1>1, <2>1, <2>2, <2>3, <2>4 DEF Claude!Next
<1>2. CASE Switch!Next
  <2>1. CASE Switch!Adapter
    BY <2>1, ClaudeStep, SameSteps DEF Switch!Adapter, Switch!WatchExit
  <2>2. CASE Switch!User
    BY <2>2, ClaudeStep, SameSteps DEF Switch!User, Switch!SetPermissionMode, Switch!StopSession
  <2>3. CASE Switch!Cli \/ \E p \in Switch!Procs : Switch!CliAsks(p) \/ Switch!CliExits(p)
    BY <2>3, ClaudeStep DEF Switch!Cli, Switch!CliTakesTurn, Switch!CliControls, Switch!CliResult,
       Switch!CliAsks, Switch!CliExits
  <2>4. CASE Switch!ControlTimesOut
    BY <2>4, ClaudeStep
  <2>5. QED
    BY <1>2, <2>1, <2>2, <2>3, <2>4 DEF Switch!Next
<1>3. QED
  BY <1>1, <1>2

-----------------------------------------------------------------------------
(* All adapters                                                             *)

(* What the promise sees of a turn.                                         *)
Shown == CASE Is("codex") -> Folded(x1) [] kind \in Adapters \ {"codex"} -> x1.life
           [] OTHER -> FreshHost.life

AdapterInv ==
  /\ Is("codex") => CodexInv
  /\ Is("claude") \/ Is("switch") => ClaudeInv
  /\ Is("acp") => AcpInv
  /\ Is("stream") => StreamInv
  /\ Is("openai") => OpenaiInv
  /\ Is("mock") => MockInv

LEMMA AdaptersStart ==
  ASSUME AdapterInit
  PROVE  AdapterInv /\ Shown = [t \in Turns |-> "fresh"]
<1> DEFINE Fresh == x1 \in {FreshHost, [FreshHost EXCEPT !.live = FALSE]}
<1>0. FreshHost.life = [t \in Turns |-> "fresh"] /\ (Fresh => x1.life = [t \in Turns |-> "fresh"])
  BY DEF FreshHost
<1>1. CASE Is("codex")
  <2>1. Codex!Init
    BY <1>1 DEF AdapterInit, Is
  <2>2. Fresh
    BY <2>1, CodexHost DEF Codex!Init
  <2>3. Folded(x1) = [t \in Turns |-> "fresh"]
    BY <1>0, <2>2 DEF Folded
  <2>4. QED
    BY <1>1, <2>1, <2>3, CodexStarts DEF AdapterInv, Shown, Is
<1>2. CASE Is("claude") \/ Is("switch")
  <2>1. Claude!Init \/ Switch!Init
    BY <1>2 DEF AdapterInit, Is
  <2>2. QED
    BY <1>0, <1>2, <2>1, ClaudeStarts DEF AdapterInv, Shown, Is, Adapters
<1>3. CASE Is("acp")
  <2>1. Acp!Init
    BY <1>3 DEF AdapterInit, Is
  <2>2. Fresh
    BY <2>1, AcpHost DEF Acp!Init
  <2>3. QED
    BY <1>0, <1>3, <2>1, <2>2, AcpStarts DEF AdapterInv, Shown, Is, Adapters
<1>4. CASE Is("stream")
  <2>1. Stream!Init
    BY <1>4 DEF AdapterInit, Is
  <2>2. Fresh
    BY <2>1, StreamHost DEF Stream!Init
  <2>3. QED
    BY <1>0, <1>4, <2>1, <2>2, StreamStarts DEF AdapterInv, Shown, Is, Adapters
<1>5. CASE Is("openai")
  <2>1. Openai!Init
    BY <1>5 DEF AdapterInit, Is
  <2>2. Fresh
    BY <2>1, OpenaiHost DEF Openai!Init
  <2>3. QED
    BY <1>0, <1>5, <2>1, <2>2, OpenaiStarts DEF AdapterInv, Shown, Is, Adapters
<1>6. CASE Is("mock")
  <2>1. Mock!Init
    BY <1>6 DEF AdapterInit, Is
  <2>2. Fresh
    BY <2>1, MockHost DEF Mock!Init
  <2>3. QED
    BY <1>0, <1>6, <2>1, <2>2, MockStarts DEF AdapterInv, Shown, Is, Adapters
<1>7. CASE kind \notin Adapters
  BY <1>0, <1>7 DEF AdapterInv, Shown, Is, Adapters
<1>8. QED
  BY <1>1, <1>2, <1>3, <1>4, <1>5, <1>6, <1>7 DEF Adapters, Is

LEMMA AdaptersStep ==
  ASSUME AdapterInv, [AdapterNext]_vars
  PROVE  AdapterInv' /\ (kind' = kind) /\ Forwards(Shown, Shown')
<1>0. kind' = kind
  BY DEF AdapterNext, Of, vars
<1>1. CASE UNCHANGED vars
  <2>1. x1' = x1 /\ x2' = x2 /\ x3' = x3
    BY <1>1 DEF vars
  <2>2. Shown' = Shown
    BY <1>0, <2>1 DEF Shown, Is
  <2>3. Is("codex") => CodexInv'
    BY <1>1, <2>1 DEF vars, AdapterInv, CodexInv, Codex!CallsAreGiven, Codex!Handed
  <2>4. Is("claude") \/ Is("switch") => ClaudeInv'
    BY <2>1, ClaudeStep DEF AdapterInv, ClaudeMoves
  <2>5. Is("acp") => AcpInv'
    BY <1>1, <2>1 DEF vars, AdapterInv, AcpInv, Acp!RunningIsGiven, Acp!PerTurn!RunningIsGiven,
       Acp!PerTurn!Killing
  <2>6. Is("stream") => StreamInv'
    BY <1>1, <2>1 DEF vars, AdapterInv, StreamInv, Stream!RunningIsGiven, Stream!Killing
  <2>7. Is("openai") => OpenaiInv'
    BY <1>1, <2>1 DEF vars, AdapterInv, OpenaiInv, Openai!RunningIsGiven, Openai!ConversationMakesSense
  <2>8. Is("mock") => MockInv'
    BY <1>1, <2>1 DEF vars, AdapterInv, MockInv, Mock!RunningIsGiven
  <2>9. QED
    BY <1>0, <2>2, <2>3, <2>4, <2>5, <2>6, <2>7, <2>8 DEF AdapterInv, Is, Forwards
<1>2. CASE Is("codex") /\ Codex!Next
  <2>1. CodexInv' /\ Forwards(Folded(x1), Folded(x1'))
    BY <1>2, CodexKept DEF AdapterInv
  <2>2. Shown = Folded(x1) /\ Shown' = Folded(x1')
    BY <1>0, <1>2 DEF Shown, Is, Folded
  <2>3. QED
    BY <1>0, <1>2, <2>1, <2>2 DEF AdapterInv, Is
<1>3. kind \in Adapters \ {"codex"} => Shown = x1.life /\ Shown' = x1'.life
  BY <1>0 DEF Shown, Is
<1>4. CASE (Is("claude") \/ Is("switch")) /\ (Claude!Next \/ Switch!Next)
  BY <1>0, <1>3, <1>4, ClaudeKept DEF AdapterInv, ClaudeMoves, Is, Adapters
<1>5. CASE Is("acp") /\ Acp!Next
  BY <1>0, <1>3, <1>5, AcpKept DEF AdapterInv, Is, Adapters
<1>6. CASE Is("stream") /\ Stream!Next
  BY <1>0, <1>3, <1>6, StreamKept DEF AdapterInv, Is, Adapters
<1>7. CASE Is("openai") /\ Openai!Next
  BY <1>0, <1>3, <1>7, OpenaiKept DEF AdapterInv, Is, Adapters
<1>8. CASE Is("mock") /\ Mock!Next
  BY <1>0, <1>3, <1>8, MockKept DEF AdapterInv, Is, Adapters
<1>9. CASE kind \notin Adapters
  BY <1>0, <1>9 DEF AdapterInv, Shown, Is, Adapters, FreshHost, Forwards
<1>10. QED
  BY <1>1, <1>2, <1>4, <1>5, <1>6, <1>7, <1>8, <1>9 DEF AdapterNext, Of, Is, Adapters

LEMMA ShownForward ==
  ASSUME Forwards(Shown, Shown'), DOMAIN Shown = Turns
  PROVE  Promise!Next \/ Shown' = Shown
BY DEF Forwards, Promise!Next, Shown

LEMMA ShownOfTurns ==
  ASSUME AdapterInv
  PROVE  DOMAIN Shown = Turns
BY DEF AdapterInv, Shown, Is, Adapters, CodexInv, ClaudeInv, AcpInv, StreamInv, OpenaiInv, MockInv,
       Hosts, Folded, FreshHost

(* Every adapter keeps the contract, for any number of turns and however    *)
(* its process, its timers, its callers and the user interleave: a refused  *)
(* turn never ends and a turn that was taken is reported over at most once  *)
(* (the codex adapter may say so twice).                                    *)
THEOREM AdaptersKeepPromise == AdapterSpec => KeepsPromise
<1>1. AdapterInit => AdapterInv /\ Promise!Init
  BY AdaptersStart DEF Promise!Init, Shown
<1>2. AdapterInv /\ [AdapterNext]_vars => AdapterInv'
  BY AdaptersStep
<1>3. AdapterInv /\ [AdapterNext]_vars => [Promise!Next]_Shown
  BY AdaptersStep, ShownForward, ShownOfTurns
<1>4. QED
  BY <1>1, <1>2, <1>3, PTL DEF AdapterSpec, KeepsPromise, Promise!Spec, Shown

(* The conversation the openai-compatible adapter sends with each request   *)
(* has each question once, and each answer right behind its question.       *)
THEOREM ConversationIsSensible == AdapterSpec => []ConversationMakesSense
<1>1. AdapterInit => AdapterInv
  BY AdaptersStart
<1>2. AdapterInv /\ [AdapterNext]_vars => AdapterInv'
  BY AdaptersStep
<1>3. AdapterInv => ConversationMakesSense
  BY DEF AdapterInv, OpenaiInv, ConversationMakesSense
<1>4. QED
  BY <1>1, <1>2, <1>3, PTL DEF AdapterSpec
-----------------------------------------------------------------------------
(* Processes of turns                                                       *)

Processes == [alive : BOOLEAN, pump : {"none", "reading", "done", "failed"},
              out : {<<>>, <<"error">>}]
ProcTyped == x4 \in [Turns -> Processes]

(* A process starts with its turn, and only then.                           *)
LEMMA ProcessMoves ==
  ASSUME ProcTyped, Stream!Next
  PROVE  /\ ProcTyped'
         /\ \A t \in Turns : x4'[t].alive => x4[t].alive \/ x2' = [x2 EXCEPT !.cur = t]
<1> USE DEF ProcTyped, Processes
<1> DEFINE Kept == /\ ProcTyped' /\ \A u \in Turns : x4'[u].alive =>
                      x4[u].alive \/ x2' = [x2 EXCEPT !.cur = u]
<1>1. ASSUME NEW t \in Turns, Stream!Send(t) PROVE Kept
  <2>1. CASE x4' = x4
    BY <2>1
  <2>2. CASE x4' # x4
    <3>1. /\ x2' = [x2 EXCEPT !.cur = t]
          /\ x4' = [x4 EXCEPT ![t] = [alive |-> TRUE, pump |-> "reading", out |-> <<>>]]
      BY <1>1, <2>2 DEF Stream!Send
    <3>2. [alive |-> TRUE, pump |-> "reading", out |-> <<>>] \in Processes
      OBVIOUS
    <3>3. \A u \in Turns : u # t => x4'[u] = x4[u]
      BY <3>1
    <3>4. ProcTyped'
      BY <3>1, <3>2
    <3>5. QED
      BY <1>1, <3>1, <3>3, <3>4
  <2>3. QED
    BY <2>1, <2>2
<1>2. ASSUME NEW t \in Turns, Stream!PumpLine(t) PROVE Kept
  <2>1. x4[t].out # <<>> /\ x4' = [x4 EXCEPT ![t].out = Tail(x4[t].out)]
    BY <1>2 DEF Stream!PumpLine
  <2>2. x4[t].out = <<"error">>
    BY <2>1
  <2>3. Tail(x4[t].out) = <<>>
    BY <2>2
  <2>4. x4' = [x4 EXCEPT ![t].out = <<>>]
    BY <2>1, <2>3
  <2>5. QED
    BY <2>4
<1>3. ASSUME NEW t \in Turns, Stream!PumpEnds(t) \/ Stream!PumpFails(t) PROVE Kept
  <2>1. x4' = [x4 EXCEPT ![t].pump = "done"] \/ x4' = [x4 EXCEPT ![t].pump = "failed"]
    BY <1>3 DEF Stream!PumpEnds, Stream!PumpFails
  <2>2. QED
    BY <2>1
<1>4. ASSUME NEW t \in Turns, Stream!StopKilled(t) \/ Stream!Stop(t) PROVE Kept
  BY <1>4 DEF Stream!StopKilled, Stream!Stop
<1>5. ASSUME NEW t \in Turns, Stream!CliExits(t) PROVE Kept
  <2>1. x4' = [x4 EXCEPT ![t].alive = FALSE]
    BY <1>5 DEF Stream!CliExits
  <2>2. QED
    BY <2>1
<1>6. ASSUME NEW t \in Turns, Stream!CliPrints(t) PROVE Kept
  <2>1. x4' = [x4 EXCEPT ![t].out = <<"error">>]
    BY <1>6 DEF Stream!CliPrints
  <2>2. QED
    BY <2>1
<1>7. CASE Stream!StopSession
  <2>1. x4' = [t \in Turns |-> IF x2.cur = t THEN [x4[t] EXCEPT !.alive = FALSE] ELSE x4[t]]
    BY <1>7 DEF Stream!StopSession
  <2>2. QED
    BY <2>1
<1>8. QED
  BY <1>1, <1>2, <1>3, <1>4, <1>5, <1>6, <1>7 DEF Stream!Next, Stream!Pump

StreamStray == ProcTyped /\ Stream!NoStrayProcess

LEMMA StrayStarts == Stream!Init => StreamStray
BY DEF Stream!Init, Stream!PrintInit, Stream!NoProcess, StreamStray, ProcTyped, Processes,
       Stream!NoStrayProcess

(* A process whose output could not be read, and whose turn is over.        *)
Orphaned(t) == x4[t].pump = "failed" /\ x1.life[t] = "over"
Held(t) == x2.cur = t \/ (\E s \in Turns : x3.stop[s] = t) \/ Orphaned(t)

(* An orphan stays one: its turn is never given again, nor reported again.  *)
LEMMA OrphansStay ==
  ASSUME StreamInv, StreamStray, Stream!Next, NEW t \in Turns, Orphaned(t)
  PROVE  Orphaned(t)'
<1>1. ProcTyped /\ Forwards(x1.life, x1'.life) /\ x1.life[t] = "over" /\ x4[t].pump = "failed"
  BY StreamKept DEF StreamStray, Orphaned
<1>2. x1.life \in [Turns -> Lives]
  BY DEF StreamInv, Hosts
<1>3. x1'.life[t] = "over"
  <2>1. CASE x1'.life = x1.life
    BY <1>1, <2>1
  <2>2. ASSUME NEW u \in Turns, NEW a \in Promise!Life, <<x1.life[u], a>> \in Promise!Forward,
               x1'.life = [x1.life EXCEPT ![u] = a]
        PROVE  x1'.life[t] = "over"
    <3>1. u # t
      BY <1>1, <2>2 DEF Promise!Forward
    <3>2. QED
      BY <1>1, <1>2, <2>2, <3>1
  <2>3. QED
    BY <1>1, <2>1, <2>2 DEF Forwards
<1>4. x4'[t].pump = "failed"
  <2>1. ASSUME NEW u \in Turns, Stream!Send(u) PROVE x4'[t].pump = "failed"
    <3>1. x1.life[u] = "fresh"
      BY <2>1, StreamHost DEF Stream!Send, MaySend
    <3>2. u # t
      BY <1>1, <3>1
    <3>3. QED
      BY <1>1, <2>1, <3>2 DEF Stream!Send, ProcTyped
  <2>2. ASSUME NEW u \in Turns, Stream!Stop(u) \/ Stream!StopKilled(u) PROVE x4'[t].pump = "failed"
    BY <1>1, <2>2 DEF Stream!Stop, Stream!StopKilled
  <2>3. ASSUME NEW u \in Turns, Stream!PumpLine(u) PROVE x4'[t].pump = "failed"
    BY <1>1, <2>3 DEF Stream!PumpLine, ProcTyped, Processes
  <2>4. ASSUME NEW u \in Turns, Stream!PumpEnds(u) \/ Stream!PumpFails(u) PROVE x4'[t].pump = "failed"
    BY <1>1, <2>4 DEF Stream!PumpEnds, Stream!PumpFails, ProcTyped, Processes
  <2>5. ASSUME NEW u \in Turns, Stream!CliExits(u) \/ Stream!CliPrints(u) PROVE x4'[t].pump = "failed"
    BY <1>1, <2>5 DEF Stream!CliExits, Stream!CliPrints, ProcTyped, Processes
  <2>6. CASE Stream!StopSession
    BY <1>1, <2>6 DEF Stream!StopSession, ProcTyped, Processes
  <2>7. QED
    BY <2>1, <2>2, <2>3, <2>4, <2>5, <2>6 DEF Stream!Next, Stream!Pump
<1>5. QED
  BY <1>3, <1>4 DEF Orphaned

(* What a session lets go of, a Stop has in hand until it is dead, unless   *)
(* reading it has failed.                                                   *)
LEMMA StrayKept ==
  ASSUME StreamInv, StreamStray, Stream!Next
  PROVE  StreamStray'
<1> USE NoTurnIsNoTurn
<1>0. /\ ProcTyped /\ ProcTyped' /\ {"registered", "cur"} \subseteq DOMAIN x2
      /\ x3 \in StopCalls /\ x2.cur \in Turns \cup {NoTurn}
      /\ \A t \in Turns : x4[t].alive => Held(t)
      /\ \A t \in Turns : Orphaned(t) => Orphaned(t)'
  BY ProcessMoves, OrphansStay
     DEF StreamStray, StreamInv, Stream!NoStrayProcess, Stream!BeingKilled, MaybeTurn, Held, Orphaned
<1>1. ASSUME \A t \in Turns : x4'[t].alive =>
               x2'.cur = t \/ (\E s \in Turns : x3'.stop[s] = t) \/ Orphaned(t)'
      PROVE  StreamStray'
  BY <1>0, <1>1 DEF StreamStray, Stream!NoStrayProcess, Stream!BeingKilled, Orphaned
<1>2. ASSUME x2'.cur = x2.cur, x3' = x3, \A t \in Turns : x4'[t].alive => x4[t].alive
      PROVE  StreamStray'
  BY <1>0, <1>1, <1>2 DEF Held
<1>3. ASSUME NEW t \in Turns, Stream!Send(t) PROVE StreamStray'
  <2>1. CASE x2' = x2 /\ x3' = x3 /\ x4' = x4
    BY <1>2, <2>1
  <2>2. CASE /\ x2.cur = NoTurn /\ x2' = [x2 EXCEPT !.cur = t] /\ x3' = x3
             /\ x4' = [x4 EXCEPT ![t] = [alive |-> TRUE, pump |-> "reading", out |-> <<>>]]
    <3>1. x2'.cur = t /\ \A u \in Turns \ {t} : x4'[u] = x4[u]
      BY <1>0, <2>2 DEF ProcTyped
    <3>2. QED
      BY <1>0, <1>1, <2>2, <3>1 DEF Held
  <2>3. QED
    BY <1>3, <2>1, <2>2 DEF Stream!Send
<1>4. ASSUME NEW t \in Turns, Stream!PumpLine(t) \/ Stream!CliExits(t) \/ Stream!CliPrints(t)
      PROVE  StreamStray'
  <2>1. x2' = x2 /\ x3' = x3
    BY <1>4 DEF Stream!PumpLine, Stream!CliExits, Stream!CliPrints
  <2>2. \A u \in Turns : x4'[u].alive => x4[u].alive
    BY <1>0, <1>4 DEF Stream!PumpLine, Stream!CliExits, Stream!CliPrints, ProcTyped, Processes
  <2>3. QED
    BY <1>2, <2>1, <2>2
<1>5. ASSUME NEW t \in Turns, Stream!PumpEnds(t) PROVE StreamStray'
  <2>1. x3' = x3 /\ ~x4[t].alive /\ x4' = [x4 EXCEPT ![t].pump = "done"]
        /\ (x2' = x2 \/ x2.cur = t)
    BY <1>5 DEF Stream!PumpEnds
  <2>2. ~x4'[t].alive /\ \A u \in Turns : x4'[u].alive => x4[u].alive
    BY <1>0, <2>1 DEF ProcTyped, Processes
  <2>3. QED
    BY <1>0, <1>1, <2>1, <2>2 DEF Held
<1>6. ASSUME NEW t \in Turns, Stream!PumpFails(t) PROVE StreamStray'
  <2>1. x3' = x3 /\ x4' = [x4 EXCEPT ![t].pump = "failed"]
    BY <1>6 DEF Stream!PumpFails
  <2>2. x4'[t].pump = "failed" /\ \A u \in Turns : x4'[u].alive => x4[u].alive
    BY <1>0, <2>1 DEF ProcTyped, Processes
  <2>3. CASE x2.cur = t
    <3>1. x1' = HearCompleted(HearError(x1), t)
      BY <1>6, <2>3, StreamHost DEF Stream!PumpFails
    <3>2. x1.life[t] = "given" /\ HearError(x1) \in Hosts /\ HearError(x1).life = x1.life
      BY <2>3, AfterOther DEF StreamInv, Stream!RunningIsGiven
    <3>3. x1'.life = [x1.life EXCEPT ![t] = "over"] /\ x1.life \in [Turns -> Lives]
      BY <3>1, <3>2, AfterCompleted DEF StreamInv, Hosts
    <3>4. Orphaned(t)'
      BY <2>2, <3>3 DEF Orphaned
    <3>5. QED
      BY <1>0, <1>1, <2>1, <2>2, <2>3, <3>4 DEF Held
  <2>4. CASE x2.cur # t
    <3>1. x2' = x2
      BY <1>6, <2>4 DEF Stream!PumpFails
    <3>2. QED
      BY <1>2, <2>1, <2>2, <3>1
  <2>5. QED
    BY <2>3, <2>4
<1>7. ASSUME NEW t \in Turns, Stream!StopKilled(t) PROVE StreamStray'
  <2>1. /\ x2' = x2 /\ x4' = x4 /\ x3.stop[t] \in Turns /\ ~x4[x3.stop[t]].alive
        /\ x3' = [x3 EXCEPT !.stop[t] = "done"]
    BY <1>7 DEF Stream!StopKilled, Stream!Killing, Stream!NowStop
  <2>2. \A s \in Turns \ {t} : x3'.stop[s] = x3.stop[s]
    BY <1>0, <2>1 DEF StopCalls
  <2>3. QED
    BY <1>0, <1>1, <2>1, <2>2 DEF Held
<1>8. ASSUME NEW t \in Turns, Stream!Stop(t) PROVE StreamStray'
  <2>1. /\ x4' = x4 /\ x3.stop[t] = "none"
        /\ \/ x2.cur = x2'.cur /\ \E w : x3' = [x3 EXCEPT !.stop[t] = w]
           \/ x3' = [x3 EXCEPT !.stop[t] = x2.cur]
    BY <1>8 DEF Stream!Stop, Stream!StopIs, Stream!NowStop
  <2>2. \A s \in Turns \ {t} : x3'.stop[s] = x3.stop[s]
    BY <1>0, <2>1 DEF StopCalls
  <2>3. "none" \notin Turns
    BY TurnsAreNoPhases
  <2>4. \A u \in Turns : (\E s \in Turns : x3.stop[s] = u) => \E s \in Turns : x3'.stop[s] = u
    BY <2>1, <2>2, <2>3
  <2>5. x2.cur = x2'.cur \/ x3'.stop[t] = x2.cur
    BY <1>0, <2>1 DEF StopCalls
  <2>6. QED
    BY <1>0, <1>1, <2>1, <2>4, <2>5 DEF Held
<1>9. CASE Stream!StopSession
  <2>1. /\ x2' = [x2 EXCEPT !.registered = FALSE] /\ x3' = x3
        /\ x4' = [t \in Turns |-> IF x2.cur = t THEN [x4[t] EXCEPT !.alive = FALSE] ELSE x4[t]]
    BY <1>9 DEF Stream!StopSession
  <2>2. x2'.cur = x2.cur
    BY <1>0, <2>1
  <2>3. \A u \in Turns : x4'[u].alive => x4[u].alive
    BY <1>0, <2>1 DEF ProcTyped, Processes
  <2>4. QED
    BY <1>2, <2>1, <2>2, <2>3
<1>10. QED
  BY <1>3, <1>4, <1>5, <1>6, <1>7, <1>8, <1>9 DEF Stream!Next, Stream!Pump

(* Print mode starts where the protocol has been given up.                  *)
AcpStray == ProcTyped /\ (x2.acp # "none" => \A t \in Turns : ~x4[t].alive)

LEMMA AcpStrayStarts == Acp!Init => AcpStray
BY DEF Acp!Init, Acp!PerTurn!NoProcess, AcpStray, ProcTyped, Processes

LEMMA AcpStrayKept ==
  ASSUME AcpInv, AcpStray, Acp!Next
  PROVE  AcpStray'
<1>0. AcpFields \subseteq DOMAIN x2 /\ (x2.acp \notin {"open", "none"} => ~x1.live)
  BY DEF AcpInv
<1>1. ASSUME Stream!Next, x2.acp = "none" PROVE AcpStray'
  <2>1. ProcTyped'
    BY <1>1, ProcessMoves DEF AcpStray
  <2>2. x2'.acp = "none"
    BY <1>0, <1>1, PrintLeaves
  <2>3. QED
    BY <2>1, <2>2 DEF AcpStray
<1>2. ASSUME x4' = x4, x2.acp # "none" \/ x2'.acp = "none" PROVE AcpStray'
  BY <1>2 DEF AcpStray, ProcTyped
<1>3. ASSUME x4' = x4, x2'.acp = x2.acp PROVE AcpStray'
  BY <1>3 DEF AcpStray, ProcTyped
<1>4. ASSUME NEW t \in Turns, Acp!Send(t) PROVE AcpStray'
  <2>1. CASE Acp!AcpSend(t)
    BY <1>2, <2>1 DEF Acp!AcpSend, Acp!OnAcp
  <2>2. CASE ~Acp!OnAcp /\ Stream!Send(t)
    <3>1. x2.acp = "none"
      BY <1>0, <2>2, StreamHost DEF Acp!OnAcp, Stream!Send, MaySend
    <3>2. QED
      BY <1>1, <2>2, <3>1 DEF Stream!Next
  <2>3. QED
    BY <1>4, <2>1, <2>2, PrintMode DEF Acp!Send
<1>5. ASSUME NEW t \in Turns, Acp!Stop(t) PROVE AcpStray'
  <2>1. CASE Acp!AcpStop(t)
    BY <1>2, <2>1 DEF Acp!AcpStop, Acp!OnAcp
  <2>2. CASE ~Acp!OnAcp /\ Stream!Stop(t)
    <3>1. x2.acp = "none"
      BY <1>0, <2>2, StreamHost DEF Acp!OnAcp, Stream!Stop, MayStop
    <3>2. QED
      BY <1>1, <2>2, <3>1 DEF Stream!Next
  <2>3. QED
    BY <1>5, <2>1, <2>2, PrintMode DEF Acp!Stop
<1>6. ASSUME NEW t \in Turns, Stream!Pump(t) \/ Stream!CliPrints(t) PROVE AcpStray'
  <2>1. CASE x2.acp = "none"
    BY <1>1, <1>6, <2>1 DEF Stream!Next
  <2>2. CASE x2.acp # "none"
    <3>1. \A u \in Turns : ~x4[u].alive
      BY <2>2 DEF AcpStray
    <3>2. x2.cur = NoTurn /\ \A u \in Turns : ~Stream!Killing(u)
      BY <2>2, PrintMode DEF AcpInv, Acp!RunningIsGiven
    <3>3. x2' = x2
      BY <1>6, <3>2, PrintIdles DEF AcpInv
    <3>4. \A u \in Turns : x2' # [x2 EXCEPT !.cur = u]
      BY <1>0, <3>2, <3>3, NoTurnIsNoTurn DEF AcpFields
    <3>5. Stream!Next
      BY <1>6 DEF Stream!Next
    <3>6. ProcTyped' /\ \A u \in Turns : x4'[u].alive => x4[u].alive \/ x2' = [x2 EXCEPT !.cur = u]
      BY <3>5, ProcessMoves DEF AcpStray
    <3>7. QED
      BY <3>1, <3>4, <3>6 DEF AcpStray
  <2>3. QED
    BY <2>1, <2>2
<1>7. CASE Acp!Open
  <2>1. x4' = x4 /\ x2.acp \in Acp!Opening
    BY <1>7 DEF Acp!Open
  <2>2. x2.acp # "none"
    BY <2>1, Zenon DEF Acp!Opening
  <2>3. QED
    BY <1>2, <2>1, <2>2
<1>8. CASE Acp!Inbound \/ Acp!Agent \/ \E n \in Turns : Acp!RespondToApproval(n)
  <2>1. x4' = x4 /\ (x2' = x2 \/ (\E P : x2' = [x2 EXCEPT !.pending = P])
                     \/ x2' = [x2 EXCEPT !.active = NoTurn, !.pending = {}])
    <3>1. CASE Acp!PromptAnswered
      BY <3>1, Zenon DEF Acp!PromptAnswered, Acp!SettleTurn, Acp!Settled
    <3>2. CASE Acp!PermissionRequest
      BY <3>2 DEF Acp!PermissionRequest
    <3>3. CASE Acp!Agent
      BY <3>3 DEF Acp!Agent
    <3>4. CASE \E n \in Turns : Acp!RespondToApproval(n)
      BY <3>4 DEF Acp!RespondToApproval
    <3>5. QED
      BY <1>8, <3>1, <3>2, <3>3, <3>4 DEF Acp!Inbound
  <2>2. x2'.acp = x2.acp
    BY <1>0, <2>1 DEF AcpFields
  <2>3. QED
    BY <1>3, <2>1, <2>2
<1>9. CASE Acp!AgentExits
  BY <1>2, <1>9 DEF Acp!AgentExits
<1>10. CASE Acp!StopSession
  <2>1. CASE Acp!OnAcp
    BY <1>2, <1>10, <2>1 DEF Acp!StopSession, Acp!OnAcp
  <2>2. CASE ~Acp!OnAcp
    <3>1. x2.acp = "none" /\ Stream!StopSession
      BY <1>10, <2>2, PrintMode DEF Acp!StopSession
    <3>2. QED
      BY <1>1, <3>1 DEF Stream!Next
  <2>3. QED
    BY <2>1, <2>2
<1>11. CASE Acp!Processes
  BY <1>6, <1>11, PrintMode DEF Acp!Processes
<1>12. ASSUME NEW t \in Turns, Acp!Cancel(t) PROVE AcpStray'
  BY <1>3, <1>12 DEF Acp!Cancel
<1>13. QED
  BY <1>4, <1>5, <1>7, <1>8, <1>9, <1>10, <1>11, <1>12 DEF Acp!Next

(* A process of a turn is the one its session shows, or one that a Stop is  *)
(* killing, or one that could not be read and whose turn was reported over; *)
(* on the protocol there is none.                                           *)
THEOREM NoStrayTurns == AdapterSpec => []NoStrayTurn
<1> DEFINE Inv == AdapterInv /\ (Is("stream") => StreamStray) /\ (Is("acp") => AcpStray)
<1>1. AdapterInit => Inv
  BY AdaptersStart, StrayStarts, AcpStrayStarts DEF AdapterInit, Is
<1>2. Inv /\ [AdapterNext]_vars => Inv'
  <2> SUFFICES ASSUME Inv, [AdapterNext]_vars PROVE Inv'
    OBVIOUS
  <2>1. AdapterInv' /\ kind' = kind
    BY AdaptersStep
  <2>2. Is("stream") => StreamStray'
    <3> SUFFICES ASSUME Is("stream") PROVE StreamStray'
      OBVIOUS
    <3>1. Stream!Next \/ UNCHANGED vars
      BY DEF AdapterNext, Of, Is, vars
    <3>2. CASE Stream!Next
      BY <3>2, StrayKept DEF AdapterInv
    <3>3. CASE UNCHANGED vars
      BY <3>3 DEF vars, StreamStray, ProcTyped, Stream!NoStrayProcess, Stream!BeingKilled
    <3>4. QED
      BY <3>1, <3>2, <3>3
  <2>3. Is("acp") => AcpStray'
    <3> SUFFICES ASSUME Is("acp") PROVE AcpStray'
      OBVIOUS
    <3>1. Acp!Next \/ UNCHANGED vars
      BY DEF AdapterNext, Of, Is, vars
    <3>2. CASE Acp!Next
      BY <3>2, AcpStrayKept DEF AdapterInv
    <3>3. CASE UNCHANGED vars
      BY <3>3 DEF vars, AcpStray, ProcTyped
    <3>4. QED
      BY <3>1, <3>2, <3>3
  <2>4. QED
    BY <2>1, <2>2, <2>3 DEF Is
<1>3. Inv => NoStrayTurn
  BY DEF AcpStray, StreamStray, Acp!OneTransport, Acp!OnAcp, NoStrayTurn, Is
<1>4. QED
  BY <1>1, <1>2, <1>3, PTL DEF AdapterSpec
=============================================================================
