----------------------------- MODULE AdapterLives -----------------------------
(***************************************************************************)
(* Every adapter goes on with what it is busy with, and answers its agent: *)
(* after some facts on pipes, the invariants that say where the message is *)
(* that a busy session, or an agent, waits for.  They stand on those of    *)
(* AdapterProofs.                                                          *)
(***************************************************************************)
EXTENDS AdapterProofs

-----------------------------------------------------------------------------
(* Pipes                                                                    *)

Holds(pipe, m) == \E i \in DOMAIN pipe : pipe[i] = m

(* Whenever there is an m, an n comes behind it.                            *)
Followed(pipe, m, n) ==
  \A i \in DOMAIN pipe : pipe[i] = m => \E j \in DOMAIN pipe : i < j /\ pipe[j] = n

LEMMA PipeGrows ==
  ASSUME NEW S, NEW q \in Seq(S), NEW r \in Seq(S)
  PROVE  /\ q \o r \in Seq(S)
         /\ \A m : Holds(q \o r, m) <=> Holds(q, m) \/ Holds(r, m)
         /\ \A m, n : ~Holds(r, m) /\ (Followed(q, m, n) \/ Holds(r, n)) => Followed(q \o r, m, n)
<1>1. /\ q \o r \in Seq(S) /\ Len(q \o r) = Len(q) + Len(r)
      /\ Len(q) \in Nat /\ Len(r) \in Nat /\ DOMAIN (q \o r) = 1..(Len(q) + Len(r))
      /\ DOMAIN q = 1..Len(q) /\ DOMAIN r = 1..Len(r)
      /\ \A i \in 1..Len(q) : (q \o r)[i] = q[i]
      /\ \A i \in 1..Len(r) : (q \o r)[Len(q) + i] = r[i]
  OBVIOUS
<1>k. PICK k \in Nat : k = Len(q)
  BY <1>1
<1>l. PICK l \in Nat : l = Len(r)
  BY <1>1
<1>p. PICK p : p = q \o r
  OBVIOUS
<1>2. /\ p = q \o r /\ k = Len(q) /\ l = Len(r)
      /\ DOMAIN p = 1..(k + l) /\ DOMAIN q = 1..k /\ DOMAIN r = 1..l
      /\ \A i \in 1..k : p[i] = q[i]
      /\ \A i \in 1..l : p[k + i] = r[i]
  BY <1>1, <1>k, <1>l, <1>p
<1>3. \A i \in 1..(k + l) : i \in 1..k \/ \E j \in 1..l : i = k + j
  <2> SUFFICES ASSUME NEW i \in 1..(k + l), i \notin 1..k PROVE \E j \in 1..l : i = k + j
    OBVIOUS
  <2>1. i - k \in 1..l /\ i = k + (i - k)
    BY <1>2
  <2>2. QED
    BY <2>1
<1>4. \A i \in 1..k : i \in 1..(k + l)
  BY <1>2
<1>5. \A i \in 1..l : k + i \in 1..(k + l)
  BY <1>2
<1> DEFINE In(d, f, m) == \E i \in 1..d : f[i] = m
<1>9. \A m : /\ Holds(p, m) <=> In(k + l, p, m)
             /\ Holds(q, m) <=> In(k, q, m)
             /\ Holds(r, m) <=> In(l, r, m)
  BY <1>2, Zenon DEF Holds
<1>10. \A m : In(k + l, p, m) <=> In(k, q, m) \/ In(l, r, m)
  <2>1. ASSUME NEW m, In(k + l, p, m) PROVE In(k, q, m) \/ In(l, r, m)
    <3>1. PICK i \in 1..(k + l) : p[i] = m
      BY <2>1
    <3>2. QED
      BY <1>2, <1>3, <3>1
  <2>2. ASSUME NEW m, In(k, q, m) PROVE In(k + l, p, m)
    <3>1. PICK i \in 1..k : q[i] = m
      BY <2>2
    <3>2. QED
      BY <1>2, <1>4, <3>1
  <2>3. ASSUME NEW m, In(l, r, m) PROVE In(k + l, p, m)
    <3>1. PICK i \in 1..l : r[i] = m
      BY <2>3
    <3>2. QED
      BY <1>2, <1>5, <3>1
  <2>4. QED
    BY <2>1, <2>2, <2>3
<1>6. \A m : Holds(p, m) <=> Holds(q, m) \/ Holds(r, m)
  <2> HIDE DEF In
  <2>1. QED
    BY <1>9, <1>10
<1>7. ASSUME NEW m, NEW n, ~Holds(r, m), Followed(q, m, n) \/ Holds(r, n) PROVE Followed(p, m, n)
  <2> SUFFICES ASSUME NEW i \in DOMAIN p, p[i] = m
               PROVE  \E j \in DOMAIN p : i < j /\ p[j] = n
    BY DEF Followed
  <2>1. i \in 1..k /\ q[i] = m
    <3>1. i \in 1..(k + l)
      BY <1>2
    <3>2. \A j \in 1..l : r[j] # m
      BY <1>7, <1>9
    <3>3. QED
      BY <1>2, <1>3, <3>1, <3>2
  <2>2. CASE Followed(q, m, n)
    <3>1. PICK j \in 1..k : i < j /\ q[j] = n
      BY <1>2, <2>1, <2>2 DEF Followed
    <3>2. QED
      BY <1>2, <1>4, <3>1
  <2>3. CASE Holds(r, n)
    <3>1. PICK j \in 1..l : r[j] = n
      BY <1>2, <2>3 DEF Holds
    <3>2. i < k + j
      BY <1>2, <2>1
    <3>3. QED
      BY <1>2, <1>5, <3>1, <3>2
  <2>4. QED
    BY <1>7, <2>2, <2>3
<1>8. QED
  BY <1>1, <1>2, <1>6, <1>7

LEMMA PipeRead ==
  ASSUME NEW S, NEW q \in Seq(S), q # <<>>
  PROVE  /\ Tail(q) \in Seq(S) /\ Head(q) \in S /\ Holds(q, Head(q))
         /\ \A m : Holds(q, m) <=> m = Head(q) \/ Holds(Tail(q), m)
         /\ \A m, n : Followed(q, m, n) => Followed(Tail(q), m, n)
         /\ \A n : Followed(q, Head(q), n) => Holds(Tail(q), n)
<1>1. /\ Tail(q) \in Seq(S) /\ Head(q) = q[1] /\ Head(q) \in S /\ Len(q) \in Nat \ {0}
      /\ DOMAIN q = 1..Len(q) /\ DOMAIN Tail(q) = 1..(Len(q) - 1)
      /\ \A i \in 1..(Len(q) - 1) : Tail(q)[i] = q[i + 1]
  OBVIOUS
<1>2. PICK k, p :
        /\ k \in Nat \ {0}
        /\ p = Tail(q) /\ k = Len(q) /\ Head(q) = q[1] /\ DOMAIN q = 1..k /\ DOMAIN p = 1..(k - 1)
        /\ \A i \in 1..(k - 1) : p[i] = q[i + 1]
  BY <1>1
<1>3. /\ \A i \in 1..k : i = 1 \/ (i - 1 \in 1..(k - 1) /\ p[i - 1] = q[i])
      /\ \A i \in 1..(k - 1) : i + 1 \in 1..k
      /\ 1 \in 1..k
  <2>1. \A i \in 1..k : i = 1 \/ (i - 1 \in 1..(k - 1) /\ (i - 1) + 1 = i)
    BY <1>2
  <2>2. QED
    BY <1>2, <2>1
<1>4. \A m : Holds(q, m) <=> m = q[1] \/ Holds(p, m)
  <2>1. \A m : /\ Holds(q, m) <=> \E i \in 1..k : q[i] = m
               /\ Holds(p, m) <=> \E i \in 1..(k - 1) : p[i] = m
    BY <1>2, Zenon DEF Holds
  <2>2. \A m : (\E i \in 1..k : q[i] = m) => m = q[1] \/ \E i \in 1..(k - 1) : p[i] = m
    BY <1>3
  <2>3. \A m : (\E i \in 1..(k - 1) : p[i] = m) => \E i \in 1..k : q[i] = m
    BY <1>2, <1>3
  <2>4. QED
    BY <1>3, <2>1, <2>2, <2>3
<1>5. \A m, n : Followed(q, m, n) => Followed(p, m, n)
  <2>0. \A m, n : Followed(p, m, n) <=>
          \A i \in 1..(k - 1) : p[i] = m => \E j \in 1..(k - 1) : i < j /\ p[j] = n
    BY <1>2, Zenon DEF Followed
  <2> SUFFICES ASSUME NEW m, NEW n, Followed(q, m, n), NEW i \in 1..(k - 1), p[i] = m
               PROVE  \E j \in 1..(k - 1) : i < j /\ p[j] = n
    BY <2>0
  <2>1. PICK j \in 1..k : i + 1 < j /\ q[j] = n
    BY <1>2, <1>3 DEF Followed
  <2>2. j # 1 /\ i < j - 1
    BY <1>2, <2>1
  <2>3. QED
    BY <1>3, <2>1, <2>2
<1>6. \A n : Followed(q, q[1], n) => Holds(p, n)
  <2> SUFFICES ASSUME NEW n, Followed(q, q[1], n) PROVE Holds(p, n)
    OBVIOUS
  <2>1. PICK j \in 1..k : 1 < j /\ q[j] = n
    BY <1>2, <1>3 DEF Followed
  <2>2. j # 1
    BY <1>2, <2>1
  <2>3. QED
    BY <1>2, <1>3, <2>1, <2>2 DEF Holds
<1>7. QED
  BY <1>1, <1>2, <1>4, <1>5, <1>6

LEMMA PipeTaken ==
  ASSUME NEW S, NEW q \in Seq(S), NEW i \in DOMAIN q
  PROVE  /\ Without(q, i) \in Seq(S) /\ q[i] \in S
         /\ \A m : Holds(q, m) => m = q[i] \/ Holds(Without(q, i), m)
         /\ \A m : Holds(Without(q, i), m) => Holds(q, m)
<1> DEFINE a == SubSeq(q, 1, i - 1)  b == SubSeq(q, i + 1, Len(q))
<1>1. Len(q) \in Nat /\ DOMAIN q = 1..Len(q) /\ i \in 1..Len(q) /\ q[i] \in S
  OBVIOUS
<1>2. PICK k \in Nat : k = Len(q) /\ i \in 1..k
  BY <1>1
<1>3. a \in Seq(S) /\ Len(a) = i - 1 /\ \A j \in 1..(i - 1) : a[j] = q[j]
  BY <1>1
<1>4. b \in Seq(S) /\ Len(b) = k - i /\ \A j \in 1..(k - i) : b[j] = q[i + j]
  BY <1>1, <1>2
<1>5. DOMAIN a = 1..(i - 1) /\ DOMAIN b = 1..(k - i)
  BY <1>2, <1>3, <1>4
<1>6. a \o b \in Seq(S) /\ \A m : Holds(a \o b, m) <=> Holds(a, m) \/ Holds(b, m)
  <2> HIDE DEF a, b
  <2>1. QED
    BY <1>3, <1>4, PipeGrows
<1>7. Without(q, i) = a \o b
  BY DEF Without
<1> HIDE DEF a, b
<1>8. \A j \in 1..k : j = i \/ j \in 1..(i - 1) \/ (j - i \in 1..(k - i) /\ i + (j - i) = j)
  BY <1>2
<1>9. /\ \A j \in 1..(i - 1) : j \in 1..k
      /\ \A j \in 1..(k - i) : i + j \in 1..k
  BY <1>2
<1>10. \A m : Holds(q, m) => m = q[i] \/ Holds(a, m) \/ Holds(b, m)
  <2> SUFFICES ASSUME NEW j \in 1..k, j # i PROVE Holds(a, q[j]) \/ Holds(b, q[j])
    BY <1>1, <1>2 DEF Holds
  <2>1. CASE j \in 1..(i - 1)
    BY <1>3, <1>5, <2>1 DEF Holds
  <2>2. CASE j - i \in 1..(k - i) /\ i + (j - i) = j
    <3>1. b[j - i] = q[j]
      BY <1>4, <2>2
    <3>2. QED
      BY <1>5, <2>2, <3>1 DEF Holds
  <2>3. QED
    BY <1>8, <2>1, <2>2
<1>11. \A m : Holds(a, m) \/ Holds(b, m) => Holds(q, m)
  BY <1>1, <1>2, <1>3, <1>4, <1>5, <1>9 DEF Holds
<1>12. QED
  BY <1>1, <1>6, <1>7, <1>10, <1>11

-----------------------------------------------------------------------------
(* The codex adapter: what it is busy with, and what codex waits for        *)

CodexKinds ==
  {"start", "interrupt", "answer"} \cup
  {"startOk", "startErr", "interruptOk", "started", "completed", "error", "approval"}
CodexMsgs == [kind : CodexKinds, turn : MaybeTurn]
CodexProcs ==
  [alive : BOOLEAN, inp : Seq(CodexMsgs), out : Seq(CodexMsgs), running : MaybeTurn,
   asking : MaybeTurn, said : SUBSET (CodexKinds \X MaybeTurn)]
CodexSessions ==
  [phase : {"initialize", "resume", "start", "ready", "failed"},
   registered : BOOLEAN, client : BOOLEAN,
   norm : [turn : MaybeTurn, native : MaybeTurn], map : [Turns -> MaybeTurn],
   interrupted : SUBSET Turns, approvals : SUBSET MaybeTurn]
CodexTyped == x2 \in CodexSessions /\ x3 \in CodexCalls /\ x4 \in CodexProcs

(* A turn codex has said it starts is running, or its end is behind that.   *)
StartsEnd ==
  \A t \in Turns :
    x4.running = t \/ Followed(x4.out, Codex!Msg("startOk", t), Codex!Msg("completed", t))
CodexFrees ==
  x2.norm.turn # NoTurn =>
    \/ x3.send[x2.norm.turn] = "starting"
    \/ x4.running = x2.norm.turn
    \/ Holds(x4.out, Codex!Msg("completed", x2.norm.turn))
CodexAsks ==
  x4.asking # NoTurn =>
    \/ Holds(x4.out, Codex!Msg("approval", x4.asking))
    \/ x4.asking \in x2.approvals
    \/ \E n \in {x4.asking, NoTurn} : Holds(x4.inp, Codex!Msg("answer", n))

CodexLives ==
  /\ CodexTyped /\ x2.registered = x2.client
  /\ x2.client => x4.alive /\ StartsEnd /\ CodexFrees /\ CodexAsks

LEMMA CodexMsg ==
  /\ \A k \in CodexKinds, t \in MaybeTurn : Codex!Msg(k, t) \in CodexMsgs
  /\ \A k, t : Codex!Msg(k, t).kind = k /\ Codex!Msg(k, t).turn = t
  /\ \A m \in CodexMsgs : m = Codex!Msg(m.kind, m.turn)
BY DEF Codex!Msg, CodexMsgs

LEMMA CodexLivesAtFirst == Codex!Init => CodexLives
<1> SUFFICES ASSUME Codex!Init PROVE CodexLives
  OBVIOUS
<1>1. /\ x2 = [phase |-> "initialize", registered |-> TRUE, client |-> TRUE,
               norm |-> [turn |-> NoTurn, native |-> NoTurn], map |-> [t \in Turns |-> NoTurn],
               interrupted |-> {}, approvals |-> {}]
      /\ x3 = [send |-> [t \in Turns |-> "none"], stop |-> [t \in Turns |-> "none"]]
      /\ x4 = [alive |-> TRUE, inp |-> <<>>, out |-> <<>>, running |-> NoTurn, asking |-> NoTurn,
               said |-> {}]
  BY DEF Codex!Init, Codex!Idle
<1>2. <<>> \in Seq(CodexMsgs)
  OBVIOUS
<1>3. x2 \in CodexSessions
  <2>0. NoTurn \in MaybeTurn
    BY DEF MaybeTurn
  <2>1. [turn |-> NoTurn, native |-> NoTurn] \in [turn : MaybeTurn, native : MaybeTurn]
    BY <2>0
  <2>2. [t \in Turns |-> NoTurn] \in [Turns -> MaybeTurn]
    BY <2>0
  <2>3. {} \in SUBSET Turns /\ {} \in SUBSET MaybeTurn
    OBVIOUS
  <2>4. QED
    BY <1>1, <2>1, <2>2, <2>3 DEF CodexSessions
<1>4. x3 \in CodexCalls /\ x4 \in CodexProcs
  BY <1>1, <1>2 DEF CodexCalls, Phases, CodexProcs, MaybeTurn
<1>5. StartsEnd
  BY <1>1 DEF StartsEnd, Followed
<1>6. CodexFrees /\ CodexAsks
  BY <1>1 DEF CodexFrees, CodexAsks
<1>7. QED
  BY <1>1, <1>3, <1>4, <1>5, <1>6 DEF CodexLives, CodexTyped

(* The adapter reads a message and writes some; codex goes on.              *)
CodexHearsOf ==
  /\ x4'.running = x4.running /\ x4'.asking = x4.asking /\ x4'.alive = x4.alive
  /\ x4'.out = x4.out \/ (x4.out # <<>> /\ x4'.out = Tail(x4.out))
  /\ x4'.inp = x4.inp \/ \E r \in Seq(CodexMsgs) : x4'.inp = x4.inp \o r

LEMMA CodexHears ==
  ASSUME CodexLives, CodexTyped', CodexHearsOf, x2'.registered = x2'.client,
         x2'.client => x2.client /\ CodexFrees' /\ CodexAsks'
  PROVE  CodexLives'
<1>1. ASSUME x2'.client PROVE x4'.alive /\ StartsEnd'
  <2>1. x4.alive /\ StartsEnd /\ x4.out \in Seq(CodexMsgs)
    BY <1>1 DEF CodexLives, CodexTyped, CodexProcs
  <2>2. \A t \in Turns : Followed(x4.out, Codex!Msg("startOk", t), Codex!Msg("completed", t))
                  => Followed(x4'.out, Codex!Msg("startOk", t), Codex!Msg("completed", t))
    BY <2>1, PipeRead DEF CodexHearsOf
  <2>3. QED
    BY <2>1, <2>2 DEF StartsEnd, CodexHearsOf
<1>2. QED
  BY <1>1 DEF CodexLives

(* What is not read stays, and what is written comes behind it.             *)
LEMMA CodexStays ==
  ASSUME CodexTyped, CodexHearsOf
  PROVE  /\ \A m : Holds(x4.out, m) => Holds(x4'.out, m) \/ (x4.out # <<>> /\ m = Head(x4.out))
         /\ \A m : Holds(x4.inp, m) => Holds(x4'.inp, m)
<1>1. x4.out \in Seq(CodexMsgs) /\ x4.inp \in Seq(CodexMsgs)
  BY DEF CodexTyped, CodexProcs
<1>2. \A m : Holds(x4.out, m) => Holds(x4'.out, m) \/ (x4.out # <<>> /\ m = Head(x4.out))
  <2>1. CASE x4'.out = x4.out
    BY <2>1
  <2>2. CASE x4.out # <<>> /\ x4'.out = Tail(x4.out)
    <3>1. \A m : Holds(x4.out, m) <=> m = Head(x4.out) \/ Holds(Tail(x4.out), m)
      BY <1>1, <2>2, PipeRead
    <3>2. QED
      BY <2>2, <3>1
  <2>3. QED
    BY <2>1, <2>2 DEF CodexHearsOf
<1>3. \A m : Holds(x4.inp, m) => Holds(x4'.inp, m)
  <2>1. CASE x4'.inp = x4.inp
    BY <2>1
  <2>2. ASSUME NEW r \in Seq(CodexMsgs), x4'.inp = x4.inp \o r
        PROVE  \A m : Holds(x4.inp, m) => Holds(x4'.inp, m)
    <3>1. \A m : Holds(x4.inp \o r, m) <=> Holds(x4.inp, m) \/ Holds(r, m)
      BY <1>1, <2>2, PipeGrows
    <3>2. QED
      BY <2>2, <3>1
  <2>3. QED
    BY <2>1, <2>2 DEF CodexHearsOf
<1>4. QED
  BY <1>2, <1>3

(* Nothing but the end of the turn frees the session, and nothing but an    *)
(* answer the agent.                                                        *)
LEMMA CodexStaysBusy ==
  ASSUME CodexTyped, CodexHearsOf, CodexFrees,
         \/ x2'.norm.turn = NoTurn
         \/ /\ x2'.norm.turn = x2.norm.turn
            /\ x4'.out = x4.out \/ Head(x4.out).kind # "completed"
            /\ x3.send[x2.norm.turn] = "starting" => x3'.send[x2.norm.turn] = "starting"
  PROVE  CodexFrees'
<1>1. CASE x2'.norm.turn = NoTurn
  BY <1>1 DEF CodexFrees
<1>2. CASE /\ x2'.norm.turn = x2.norm.turn
           /\ x4'.out = x4.out \/ Head(x4.out).kind # "completed"
           /\ x3.send[x2.norm.turn] = "starting" => x3'.send[x2.norm.turn] = "starting"
  <2>1. Codex!Msg("completed", x2.norm.turn).kind = "completed"
    BY CodexMsg
  <2>2. Holds(x4.out, Codex!Msg("completed", x2.norm.turn))
          => Holds(x4'.out, Codex!Msg("completed", x2.norm.turn))
    <3>1. CASE x4'.out = x4.out
      BY <3>1
    <3>2. CASE Head(x4.out).kind # "completed"
      BY <2>1, <3>2, CodexStays
    <3>3. QED
      BY <1>2, <3>1, <3>2
  <2>3. x4'.running = x4.running
    BY DEF CodexHearsOf
  <2>4. QED
    BY <1>2, <2>2, <2>3 DEF CodexFrees
<1>3. QED
  BY <1>1, <1>2

LEMMA CodexStillAsks ==
  ASSUME CodexTyped, CodexHearsOf, CodexAsks, x2.approvals \subseteq x2'.approvals,
         x4'.out = x4.out \/ Head(x4.out).kind # "approval"
  PROVE  CodexAsks'
<1>1. Codex!Msg("approval", x4.asking).kind = "approval"
  BY CodexMsg
<1>2. Holds(x4.out, Codex!Msg("approval", x4.asking)) => Holds(x4'.out, Codex!Msg("approval", x4.asking))
  <2>1. CASE x4'.out = x4.out
    BY <2>1
  <2>2. CASE Head(x4.out).kind # "approval"
    BY <1>1, <2>2, CodexStays
  <2>3. QED
    BY <2>1, <2>2
<1>3. \A n : Holds(x4.inp, Codex!Msg("answer", n)) => Holds(x4'.inp, Codex!Msg("answer", n))
  BY CodexStays
<1>4. x4'.asking = x4.asking
  BY DEF CodexHearsOf
<1>5. QED
  BY <1>2, <1>3, <1>4 DEF CodexAsks

(* What the adapter does with a pipe.                                       *)
LEMMA CodexWrites ==
  ASSUME x4 \in CodexProcs, NEW m \in CodexMsgs
  PROVE  LET w == Codex!Wrote(<<m>>) IN
           /\ w \in CodexProcs /\ w.out = x4.out /\ w.running = x4.running
           /\ w.asking = x4.asking /\ w.alive = x4.alive
           /\ w.inp = x4.inp \/ w.inp = x4.inp \o <<m>>
           /\ <<m>> \in Seq(CodexMsgs)
           /\ x4.alive => Holds(w.inp, m)
<1> DEFINE w == Codex!Wrote(<<m>>)
<1>1. <<m>> \in Seq(CodexMsgs) /\ x4.inp \in Seq(CodexMsgs) /\ Holds(<<m>>, m)
  <2>1. DOMAIN <<m>> = {1} /\ <<m>>[1] = m
    OBVIOUS
  <2>2. QED
    BY <2>1 DEF CodexProcs, Holds
<1>2. /\ x4.inp \o <<m>> \in Seq(CodexMsgs)
      /\ Holds(x4.inp \o <<m>>, m)
  BY <1>1, PipeGrows
<1>3. w = [x4 EXCEPT !.inp = IF x4.alive THEN x4.inp \o <<m>> ELSE x4.inp]
  BY DEF Codex!Wrote
<1>4. PICK p : p = x4.inp \o <<m>>
  OBVIOUS
<1>5. w = [x4 EXCEPT !.inp = IF x4.alive THEN p ELSE x4.inp]
  BY <1>3, <1>4
<1>6. /\ w \in CodexProcs /\ w.out = x4.out /\ w.running = x4.running
      /\ w.asking = x4.asking /\ w.alive = x4.alive
      /\ w.inp = IF x4.alive THEN p ELSE x4.inp
  BY <1>2, <1>4, <1>5 DEF CodexProcs
<1> HIDE DEF w
<1>7. QED
  BY <1>1, <1>2, <1>4, <1>6 DEF w

LEMMA CodexReads ==
  ASSUME x4 \in CodexProcs, x4.out # <<>>, NEW w \in CodexProcs, w.out = x4.out,
         w.running = x4.running, w.asking = x4.asking, w.alive = x4.alive
  PROVE  LET r == [w EXCEPT !.out = Tail(x4.out)] IN
           /\ r \in CodexProcs /\ r.out = Tail(x4.out) /\ r.running = x4.running
           /\ r.asking = x4.asking /\ r.alive = x4.alive /\ r.inp = w.inp
           /\ Head(x4.out) \in CodexMsgs
<1>1. Tail(x4.out) \in Seq(CodexMsgs) /\ Head(x4.out) \in CodexMsgs
  BY PipeRead DEF CodexProcs
<1>2. PICK q : q = Tail(x4.out)
  OBVIOUS
<1>3. [w EXCEPT !.out = q] \in CodexProcs
  BY <1>1, <1>2 DEF CodexProcs
<1>4. QED
  BY <1>1, <1>2, <1>3 DEF CodexProcs

LEMMA CodexSessionMoves ==
  ASSUME x2 \in CodexSessions, NEW t \in Turns, NEW n \in MaybeTurn
  PROVE  /\ Codex!SettledSession(x2, t) \in CodexSessions
         /\ Codex!SettledSession(x2, t).client = x2.client
         /\ Codex!SettledSession(x2, t).registered = x2.registered
         /\ Codex!SettledSession(x2, t).approvals = x2.approvals
         /\ Codex!SettledSession(x2, t).norm.turn \in {x2.norm.turn, NoTurn}
         /\ Codex!Closed(x2) \in CodexSessions /\ ~Codex!Closed(x2).client /\ ~Codex!Closed(x2).registered
<1>1. PICK o : o = [turn |-> NoTurn, native |-> NoTurn]
  OBVIOUS
<1>2. o \in [turn : MaybeTurn, native : MaybeTurn] /\ o.turn = NoTurn
  BY <1>1 DEF MaybeTurn
<1>3. PICK v \in [turn : MaybeTurn, native : MaybeTurn] :
        /\ v.turn \in {x2.norm.turn, NoTurn}
        /\ Codex!SettledSession(x2, t) = [x2 EXCEPT !.norm = v, !.map[t] = NoTurn]
  <2>1. PICK v : v = IF x2.norm.turn = t THEN o ELSE x2.norm
    OBVIOUS
  <2>2. Codex!SettledSession(x2, t) = [x2 EXCEPT !.norm = v, !.map[t] = NoTurn]
    BY <1>1, <2>1 DEF Codex!SettledSession, Codex!Idle
  <2>3. v \in [turn : MaybeTurn, native : MaybeTurn] /\ v.turn \in {x2.norm.turn, NoTurn}
    BY <1>2, <2>1 DEF CodexSessions
  <2>4. QED
    BY <2>2, <2>3
<1>4. PICK mp \in [Turns -> MaybeTurn] : mp = [x2.map EXCEPT ![t] = NoTurn]
  BY DEF CodexSessions, MaybeTurn
<1>5. Codex!SettledSession(x2, t) = [x2 EXCEPT !.norm = v, !.map = mp]
  BY <1>3, <1>4
<1>6. Codex!Closed(x2) = [x2 EXCEPT !.registered = FALSE, !.client = FALSE]
  BY DEF Codex!Closed
<1>7. QED
  BY <1>3, <1>5, <1>6 DEF CodexSessions

(* What the adapter does.                                                   *)
LEMMA CodexAdapterLives ==
  ASSUME CodexLives,
         \/ Codex!BootAnswered \/ Codex!Notification \/ Codex!ApprovalRequest \/ Codex!StrayAnswer
         \/ \E t \in Turns :
              \/ Codex!Send(t) \/ Codex!StartAnswered(t) \/ Codex!StartRefused(t) \/ Codex!Stop(t)
              \/ Codex!StopGoesOn(t) \/ Codex!InterruptAnswered(t) \/ Codex!InterruptRejected(t)
         \/ \E n \in Turns : Codex!RespondToApproval(n)
  PROVE  CodexLives'
<1>0. /\ x2 \in CodexSessions /\ x3 \in CodexCalls /\ x4 \in CodexProcs /\ x2.registered = x2.client
      /\ x2.client => x4.alive /\ StartsEnd /\ CodexFrees /\ CodexAsks
      /\ NoTurn \in MaybeTurn /\ Turns \subseteq MaybeTurn
  BY DEF CodexLives, CodexTyped, MaybeTurn
<1>1. ASSUME CodexTyped', x2'.registered = x2'.client, x2'.client = x2.client, CodexHearsOf,
             x2.client => CodexFrees' /\ CodexAsks'
      PROVE  CodexLives'
  BY <1>1, CodexHears
<1>2. ASSUME x4' = x4 PROVE CodexHearsOf /\ x4' \in CodexProcs
  BY <1>0, <1>2 DEF CodexHearsOf
<1>3. ASSUME NEW m \in CodexMsgs, x4' = Codex!Wrote(<<m>>)
      PROVE  CodexHearsOf /\ x4' \in CodexProcs /\ x4'.out = x4.out /\ (x4.alive => Holds(x4'.inp, m))
  BY <1>0, <1>3, CodexWrites DEF CodexHearsOf
<1>4. ASSUME x4.out # <<>>, x4' = Codex!Read
      PROVE  CodexHearsOf /\ x4' \in CodexProcs /\ x4'.out = Tail(x4.out) /\ Head(x4.out) \in CodexMsgs
  <2>1. x4' = [x4 EXCEPT !.out = Tail(x4.out)]
    BY <1>4 DEF Codex!Read
  <2>2. QED
    BY <1>0, <1>4, <2>1, CodexReads DEF CodexHearsOf
<1>5. ASSUME x4.out # <<>>, NEW m \in CodexMsgs, x4' = [Codex!Wrote(<<m>>) EXCEPT !.out = Tail(x4.out)]
      PROVE  /\ CodexHearsOf /\ x4' \in CodexProcs /\ x4'.out = Tail(x4.out)
             /\ Head(x4.out) \in CodexMsgs /\ (x4.alive => Holds(x4'.inp, m))
  <2>1. PICK w : w = Codex!Wrote(<<m>>)
    OBVIOUS
  <2>2. /\ w \in CodexProcs /\ w.out = x4.out /\ w.running = x4.running
        /\ w.asking = x4.asking /\ w.alive = x4.alive
        /\ w.inp = x4.inp \/ w.inp = x4.inp \o <<m>>
        /\ <<m>> \in Seq(CodexMsgs)
        /\ x4.alive => Holds(w.inp, m)
    BY <1>0, <2>1, CodexWrites
  <2>3. x4' = [w EXCEPT !.out = Tail(x4.out)]
    BY <1>5, <2>1
  <2>4. /\ x4' \in CodexProcs /\ x4'.out = Tail(x4.out) /\ x4'.running = x4.running
        /\ x4'.asking = x4.asking /\ x4'.alive = x4.alive /\ x4'.inp = w.inp
        /\ Head(x4.out) \in CodexMsgs
    BY <1>0, <1>5, <2>2, <2>3, CodexReads
  <2>5. QED
    BY <1>5, <2>2, <2>4 DEF CodexHearsOf
<1>6. CASE Codex!BootAnswered
  <2>1. /\ x3' = x3 /\ x4' = x4
        /\ \E p \in {"resume", "start", "ready"} : x2' = [x2 EXCEPT !.phase = p]
    BY <1>6 DEF Codex!BootAnswered
  <2>2. /\ x2' \in CodexSessions /\ x2'.client = x2.client /\ x2'.registered = x2.registered
        /\ x2'.norm = x2.norm /\ x2'.approvals = x2.approvals
    BY <1>0, <2>1 DEF CodexSessions
  <2>3. CodexTyped' /\ CodexHearsOf
    BY <1>0, <1>2, <2>1, <2>2 DEF CodexTyped
  <2>4. QED
    BY <1>0, <1>1, <2>1, <2>2, <2>3, CodexStaysBusy, CodexStillAsks DEF CodexLives
<1>7. ASSUME NEW t \in Turns, Codex!Send(t) PROVE CodexLives'
  <2>1. CASE ~x2.client \/ x2.norm.turn # NoTurn
    <3>1. x2' = x2 /\ x3' = x3 /\ x4' = x4
      BY <1>7, <2>1 DEF Codex!Send
    <3>2. CodexTyped' /\ CodexHearsOf
      BY <1>0, <1>2, <3>1 DEF CodexTyped
    <3>3. QED
      BY <1>0, <1>1, <3>1, <3>2, CodexStaysBusy, CodexStillAsks DEF CodexLives
  <2>2. CASE x2.client /\ x2.norm.turn = NoTurn
    <3>1. PICK v : v = [turn |-> t, native |-> NoTurn]
      OBVIOUS
    <3>2. /\ x2' = [x2 EXCEPT !.norm = v] /\ x3' = Codex!NowSend(t, "starting")
          /\ x4' = Codex!Wrote(<<Codex!Msg("start", t)>>)
      BY <1>7, <2>2, <3>1 DEF Codex!Send
    <3>3. v \in [turn : MaybeTurn, native : MaybeTurn] /\ v.turn = t
      BY <1>0, <3>1
    <3>4. /\ x2' \in CodexSessions /\ x2'.client = x2.client /\ x2'.registered = x2.registered
          /\ x2'.norm.turn = t /\ x2'.approvals = x2.approvals
      BY <1>0, <3>2, <3>3 DEF CodexSessions
    <3>5. x3' \in CodexCalls /\ x3'.send[t] = "starting"
      BY <1>0, <3>2 DEF CodexCalls, Phases, Codex!NowSend
    <3>6. Codex!Msg("start", t) \in CodexMsgs
      BY <1>0, CodexMsg DEF CodexKinds
    <3>7. CodexTyped' /\ CodexHearsOf /\ x4'.out = x4.out
      BY <1>3, <3>2, <3>4, <3>5, <3>6 DEF CodexTyped
    <3>8. CodexFrees'
      BY <3>4, <3>5 DEF CodexFrees
    <3>9. CodexAsks'
      BY <1>0, <2>2, <3>4, <3>7, CodexStillAsks DEF CodexLives
    <3>10. QED
      BY <1>0, <1>1, <3>4, <3>7, <3>8, <3>9
  <2>3. QED
    BY <2>1, <2>2
<1>8. ASSUME NEW t \in Turns, Codex!StartAnswered(t) PROVE CodexLives'
  <2>0. /\ x3.send[t] = "starting" /\ x4.out # <<>> /\ Head(x4.out) = Codex!Msg("startOk", t)
    BY <1>8 DEF Codex!StartAnswered, Codex!SendIs, Codex!Answered
  <2>1. PICK v, mp, ns : /\ v = [x2.norm EXCEPT !.native = t] /\ mp = [x2.map EXCEPT ![t] = t]
                         /\ ns = x2.interrupted \ {t}
    OBVIOUS
  <2>2. x2' = [x2 EXCEPT !.norm = v, !.map = mp, !.interrupted = ns]
    <3>1. x2' = [x2 EXCEPT !.norm.native = t, !.map[t] = t, !.interrupted = @ \ {t}]
      BY <1>8 DEF Codex!StartAnswered
    <3>2. QED
      BY <2>1, <3>1
  <2>3. /\ v \in [turn : MaybeTurn, native : MaybeTurn] /\ v.turn = x2.norm.turn
        /\ mp \in [Turns -> MaybeTurn] /\ ns \in SUBSET Turns
    BY <1>0, <2>1 DEF CodexSessions
  <2>4. /\ x2' \in CodexSessions /\ x2'.client = x2.client /\ x2'.registered = x2.registered
        /\ x2'.norm.turn = x2.norm.turn /\ x2'.approvals = x2.approvals
    BY <1>0, <2>2, <2>3 DEF CodexSessions
  <2>5. /\ x3' \in CodexCalls
        /\ \A u \in Turns : u # t => x3'.send[u] = x3.send[u]
    <3>1. \E p \in {"stopping", "done"} : x3' = Codex!NowSend(t, p)
      BY <1>8 DEF Codex!StartAnswered
    <3>2. QED
      BY <1>0, <3>1, CodexCallsMove DEF Phases
  <2>6. CodexHearsOf /\ x4' \in CodexProcs /\ x4'.out = Tail(x4.out)
    <3>1. Codex!Msg("interrupt", t) \in CodexMsgs
      BY <1>0, CodexMsg DEF CodexKinds
    <3>2. \/ x4' = Codex!Read
          \/ x4' = [Codex!Wrote(<<Codex!Msg("interrupt", t)>>) EXCEPT !.out = Tail(x4.out)]
      BY <1>8 DEF Codex!StartAnswered, Codex!Wrote
    <3>3. QED
      BY <1>4, <1>5, <2>0, <3>1, <3>2
  <2>7. CodexTyped'
    BY <2>4, <2>5, <2>6 DEF CodexTyped
  <2>8. Head(x4.out).kind = "startOk"
    BY <2>0, CodexMsg
  <2>9. ASSUME x2.client PROVE CodexFrees'
    <3>1. CASE x2.norm.turn # t
      <4>1. x2'.norm.turn = NoTurn \/ (x2.norm.turn \in Turns /\ x3'.send[x2.norm.turn] = x3.send[x2.norm.turn])
        BY <1>0, <2>4, <2>5, <3>1 DEF CodexSessions, MaybeTurn
      <4>2. QED
        BY <1>0, <2>4, <2>6, <2>8, <2>9, <4>1, CodexStaysBusy DEF CodexLives
    <3>2. CASE x2.norm.turn = t
      <4>1. x4.running = t \/ Followed(x4.out, Head(x4.out), Codex!Msg("completed", t))
        BY <1>0, <2>0, <2>9 DEF StartsEnd
      <4>2. x4.out \in Seq(CodexMsgs)
        BY <1>0 DEF CodexProcs
      <4>3. x4.running = t \/ Holds(Tail(x4.out), Codex!Msg("completed", t))
        BY <2>0, <4>1, <4>2, PipeRead
      <4>4. x4'.running = x4.running
        BY <2>6 DEF CodexHearsOf
      <4>5. QED
        BY <2>4, <2>6, <3>2, <4>3, <4>4 DEF CodexFrees
    <3>3. QED
      BY <3>1, <3>2
  <2>10. ASSUME x2.client PROVE CodexAsks'
    BY <1>0, <2>4, <2>6, <2>8, <2>10, CodexStillAsks DEF CodexLives
  <2>11. QED
    BY <1>0, <1>1, <2>4, <2>6, <2>7, <2>9, <2>10
<1>9. ASSUME NEW t \in Turns, Codex!StartRefused(t) PROVE CodexLives'
  <2>1. PICK v : v = [turn |-> NoTurn, native |-> NoTurn]
    OBVIOUS
  <2>2. /\ x2' = [x2 EXCEPT !.norm = v] /\ x3' = Codex!NowSend(t, "done")
        /\ \/ x4.out # <<>> /\ Head(x4.out) = Codex!Msg("startErr", t) /\ x4' = Codex!Read
           \/ x4' = x4
    BY <1>9, <2>1 DEF Codex!StartRefused, Codex!Idle, Codex!Answered
  <2>3. /\ x2' \in CodexSessions /\ x2'.client = x2.client /\ x2'.registered = x2.registered
        /\ x2'.norm.turn = NoTurn /\ x2'.approvals = x2.approvals
    BY <1>0, <2>1, <2>2 DEF CodexSessions
  <2>4. x3' \in CodexCalls
    BY <1>0, <2>2, CodexCallsMove DEF Phases
  <2>5. CodexHearsOf /\ x4' \in CodexProcs
    BY <1>2, <1>4, <2>2
  <2>6. Codex!Msg("startErr", t).kind = "startErr"
    BY CodexMsg
  <2>7. CodexTyped'
    BY <2>3, <2>4, <2>5 DEF CodexTyped
  <2>8. CodexFrees'
    BY <2>3 DEF CodexFrees
  <2>9. ASSUME x2.client PROVE CodexAsks'
    BY <1>0, <2>2, <2>3, <2>5, <2>6, <2>9, CodexStillAsks DEF CodexLives
  <2>10. QED
    BY <1>0, <1>1, <2>3, <2>5, <2>7, <2>8, <2>9
<1>10. ASSUME NEW t \in Turns, Codex!Stop(t) PROVE CodexLives'
  <2>1. \E p \in {"done", "cancelling"} : x3' = Codex!NowStop(t, p)
    BY <1>10 DEF Codex!Stop
  <2>2. x3' \in CodexCalls /\ x3'.send = x3.send
    BY <1>0, <2>1, CodexCallsMove DEF Phases
  <2>3. CASE ~x2.client
    <3>1. x2' = x2 /\ x4' = x4
      BY <1>10, <2>3 DEF Codex!Stop
    <3>2. CodexTyped' /\ CodexHearsOf
      BY <1>0, <1>2, <2>2, <3>1 DEF CodexTyped
    <3>3. QED
      BY <1>0, <1>1, <2>3, <3>1, <3>2
  <2>4. CASE x2.client
    <3>1. /\ x2' = [x2 EXCEPT !.approvals = {}]
          /\ x4' = IF x2.approvals = {} THEN x4 ELSE Codex!Wrote(<<Codex!Msg("answer", NoTurn)>>)
      BY <1>10, <2>4 DEF Codex!Stop
    <3>2. /\ x2' \in CodexSessions /\ x2'.client = x2.client /\ x2'.registered = x2.registered
          /\ x2'.norm.turn = x2.norm.turn /\ x2'.approvals = {}
      BY <1>0, <3>1 DEF CodexSessions
    <3>3. Codex!Msg("answer", NoTurn) \in CodexMsgs
      BY <1>0, CodexMsg DEF CodexKinds
    <3>4. CodexHearsOf /\ x4' \in CodexProcs /\ x4'.out = x4.out
      BY <1>2, <1>3, <3>1, <3>3
    <3>5. x2.approvals # {} => Holds(x4'.inp, Codex!Msg("answer", NoTurn))
      BY <1>0, <1>3, <2>4, <3>1, <3>3
    <3>6. CodexTyped'
      BY <2>2, <3>2, <3>4 DEF CodexTyped
    <3>7. CodexFrees'
      BY <1>0, <2>2, <2>4, <3>2, <3>4, CodexStaysBusy DEF CodexLives
    <3>8. CodexAsks'
      <4>1. CASE x2.approvals = {}
        BY <1>0, <2>4, <3>2, <3>4, <4>1, CodexStillAsks DEF CodexLives
      <4>2. CASE x2.approvals # {}
        BY <3>5, <4>2 DEF CodexAsks
      <4>3. QED
        BY <4>1, <4>2
    <3>9. QED
      BY <1>0, <1>1, <3>2, <3>4, <3>6, <3>7, <3>8
  <2>5. QED
    BY <2>3, <2>4
<1>11. ASSUME NEW t \in Turns, Codex!StopGoesOn(t) PROVE CodexLives'
  <2>1. CASE Codex!NativeOf(t) = NoTurn
    <3>1. PICK z, ns : /\ z = Codex!SettledSession(x2, t)
                       /\ ns = IF x2.norm.turn = t THEN z.interrupted \cup {t} ELSE z.interrupted
      OBVIOUS
    <3>2. x2' = [z EXCEPT !.interrupted = ns] /\ x3' = Codex!NowStop(t, "done") /\ x4' = x4
      BY <1>11, <2>1, <3>1 DEF Codex!StopGoesOn
    <3>3. /\ z \in CodexSessions /\ z.client = x2.client /\ z.registered = x2.registered
          /\ z.approvals = x2.approvals /\ z.norm.turn \in {x2.norm.turn, NoTurn}
      BY <1>0, <3>1, CodexSessionMoves
    <3>4. ns \in SUBSET Turns
      BY <3>1, <3>3 DEF CodexSessions
    <3>5. /\ x2' \in CodexSessions /\ x2'.client = x2.client /\ x2'.registered = x2.registered
          /\ x2'.approvals = x2.approvals /\ x2'.norm.turn \in {x2.norm.turn, NoTurn}
      BY <3>2, <3>3, <3>4 DEF CodexSessions
    <3>6. x3' \in CodexCalls /\ x3'.send = x3.send
      BY <1>0, <3>2, CodexCallsMove DEF Phases
    <3>7. CodexTyped' /\ CodexHearsOf
      BY <1>0, <1>2, <3>2, <3>5, <3>6 DEF CodexTyped
    <3>8. QED
      BY <1>0, <1>1, <3>2, <3>5, <3>6, <3>7, CodexStaysBusy, CodexStillAsks DEF CodexLives
  <2>2. CASE Codex!NativeOf(t) # NoTurn
    <3>1. /\ x2' = x2 /\ x4' = Codex!Wrote(<<Codex!Msg("interrupt", Codex!NativeOf(t))>>)
          /\ \E p \in {"interrupting", "rejected"} : x3' = Codex!NowStop(t, p)
      BY <1>11, <2>2 DEF Codex!StopGoesOn
    <3>2. Codex!NativeOf(t) \in MaybeTurn
      BY <1>0 DEF Codex!NativeOf, CodexSessions
    <3>3. Codex!Msg("interrupt", Codex!NativeOf(t)) \in CodexMsgs
      BY <3>2, CodexMsg DEF CodexKinds
    <3>4. x3' \in CodexCalls /\ x3'.send = x3.send
      BY <1>0, <3>1, CodexCallsMove DEF Phases
    <3>5. CodexTyped' /\ CodexHearsOf /\ x4'.out = x4.out
      BY <1>0, <1>3, <3>1, <3>3, <3>4 DEF CodexTyped
    <3>6. QED
      BY <1>0, <1>1, <3>1, <3>4, <3>5, CodexStaysBusy, CodexStillAsks DEF CodexLives
  <2>3. QED
    BY <2>1, <2>2
<1>12. ASSUME NEW t \in Turns, Codex!InterruptAnswered(t) \/ Codex!InterruptRejected(t) PROVE CodexLives'
  <2>1. /\ x2' = Codex!SettledSession(x2, t)
        /\ \/ x3' = Codex!NowSend(t, "done") /\ x3.send[t] # "starting"
           \/ x3' = Codex!NowStop(t, "done")
        /\ \/ x4' = x4
           \/ x4.out # <<>> /\ (\E n : Head(x4.out) = Codex!Msg("interruptOk", n)) /\ x4' = Codex!Read
    BY <1>12 DEF Codex!InterruptAnswered, Codex!InterruptRejected, Codex!SettleTurn, Codex!Answered,
                 Codex!SendIs
  <2>2. /\ x2' \in CodexSessions /\ x2'.client = x2.client /\ x2'.registered = x2.registered
        /\ x2'.approvals = x2.approvals /\ x2'.norm.turn \in {x2.norm.turn, NoTurn}
    BY <1>0, <2>1, CodexSessionMoves
  <2>3. x3' \in CodexCalls /\ \A u \in Turns : x3.send[u] = "starting" => x3'.send[u] = "starting"
    BY <1>0, <2>1, CodexCallsMove DEF Phases
  <2>4. CodexHearsOf /\ x4' \in CodexProcs
    BY <1>2, <1>4, <2>1
  <2>5. x4'.out = x4.out \/ Head(x4.out).kind = "interruptOk"
    BY <2>1, CodexMsg
  <2>6. CodexTyped'
    BY <2>2, <2>3, <2>4 DEF CodexTyped
  <2>7. ASSUME x2.client PROVE CodexFrees'
    <3>1. x2.norm.turn = NoTurn \/ x2.norm.turn \in Turns
      BY <1>0 DEF CodexSessions, MaybeTurn
    <3>2. QED
      BY <1>0, <2>2, <2>3, <2>4, <2>5, <2>7, <3>1, CodexStaysBusy DEF CodexLives
  <2>8. ASSUME x2.client PROVE CodexAsks'
    BY <1>0, <2>2, <2>4, <2>5, <2>8, CodexStillAsks DEF CodexLives
  <2>9. QED
    BY <1>0, <1>1, <2>2, <2>4, <2>6, <2>7, <2>8
<1>13. CASE Codex!Notification
  <2>1. PICK m, running : m = Head(x4.out) /\ running = x2.norm.turn
    OBVIOUS
  <2>2. /\ x3' = x3 /\ x4.out # <<>> /\ x4' = Codex!Read /\ m.kind # "approval"
        /\ \/ /\ m.kind # "completed"
              /\ x2' = [x2 EXCEPT !.norm.native = m.turn,
                         !.map = IF running = NoTurn THEN @ ELSE [@ EXCEPT ![running] = m.turn]]
           \/ (m.kind # "completed" \/ running = NoTurn) /\ x2' = x2
           \/ /\ running # NoTurn
              /\ x2' = [x2 EXCEPT !.norm = Codex!Idle, !.map[running] = NoTurn,
                                  !.interrupted = @ \ {running}]
    BY <1>13, <2>1 DEF Codex!Notification
  <2>3. CodexHearsOf /\ x4' \in CodexProcs /\ m \in CodexMsgs
    BY <1>4, <2>1, <2>2
  <2>4. running \in MaybeTurn /\ m.turn \in MaybeTurn
    BY <1>0, <2>1, <2>3 DEF CodexSessions, CodexMsgs
  <2>5. ASSUME x2' \in CodexSessions, x2'.client = x2.client, x2'.registered = x2.registered,
               x2'.approvals = x2.approvals,
               x2'.norm.turn = NoTurn \/ (x2'.norm.turn = running /\ m.kind # "completed")
        PROVE  CodexLives'
    <3>1. CodexTyped'
      BY <1>0, <2>2, <2>3, <2>5 DEF CodexTyped
    <3>2. QED
      BY <1>0, <1>1, <2>1, <2>2, <2>3, <2>5, <3>1, CodexStaysBusy, CodexStillAsks DEF CodexLives
  <2>6. CASE /\ m.kind # "completed"
             /\ x2' = [x2 EXCEPT !.norm.native = m.turn,
                         !.map = IF running = NoTurn THEN @ ELSE [@ EXCEPT ![running] = m.turn]]
    <3>1. PICK v, mp : /\ v = [x2.norm EXCEPT !.native = m.turn]
                       /\ mp = IF running = NoTurn THEN x2.map ELSE [x2.map EXCEPT ![running] = m.turn]
      OBVIOUS
    <3>2. x2' = [x2 EXCEPT !.norm = v, !.map = mp]
      BY <2>6, <3>1
    <3>3. /\ v \in [turn : MaybeTurn, native : MaybeTurn] /\ v.turn = running
          /\ mp \in [Turns -> MaybeTurn]
      BY <1>0, <2>1, <2>4, <3>1 DEF CodexSessions
    <3>4. QED
      BY <1>0, <2>5, <2>6, <3>2, <3>3 DEF CodexSessions
  <2>7. CASE (m.kind # "completed" \/ running = NoTurn) /\ x2' = x2
    BY <1>0, <2>1, <2>5, <2>7
  <2>8. CASE /\ running # NoTurn
             /\ x2' = [x2 EXCEPT !.norm = Codex!Idle, !.map[running] = NoTurn,
                                 !.interrupted = @ \ {running}]
    <3>1. PICK v, mp, ns : /\ v = [turn |-> NoTurn, native |-> NoTurn] /\ ns = x2.interrupted \ {running}
                           /\ mp = [x2.map EXCEPT ![running] = NoTurn]
      OBVIOUS
    <3>2. x2' = [x2 EXCEPT !.norm = v, !.map = mp, !.interrupted = ns]
      BY <2>8, <3>1 DEF Codex!Idle
    <3>3. /\ v \in [turn : MaybeTurn, native : MaybeTurn] /\ v.turn = NoTurn
          /\ mp \in [Turns -> MaybeTurn] /\ ns \in SUBSET Turns
      BY <1>0, <2>4, <3>1 DEF CodexSessions
    <3>4. QED
      BY <1>0, <2>5, <3>2, <3>3 DEF CodexSessions
  <2>9. QED
    BY <2>2, <2>6, <2>7, <2>8
<1>14. CASE Codex!ApprovalRequest
  <2>1. PICK n : n = Head(x4.out).turn
    OBVIOUS
  <2>2. /\ x3' = x3 /\ x4.out # <<>> /\ Head(x4.out).kind = "approval"
        /\ IF x2.norm.turn # NoTurn
           THEN x2' = [x2 EXCEPT !.approvals = @ \cup {n}] /\ x4' = Codex!Read
           ELSE /\ x2' = x2
                /\ x4' = IF x2.client THEN [Codex!Wrote(<<Codex!Msg("answer", n)>>) EXCEPT !.out = Tail(x4.out)]
                         ELSE Codex!Read
    BY <1>14, <2>1 DEF Codex!ApprovalRequest, Codex!Wrote
  <2>3. Head(x4.out) \in CodexMsgs /\ n \in MaybeTurn /\ Head(x4.out) = Codex!Msg("approval", n)
    <3>1. Head(x4.out) \in CodexMsgs
      BY <1>0, <2>2, PipeRead DEF CodexProcs
    <3>2. QED
      BY <2>1, <2>2, <3>1, CodexMsg DEF CodexMsgs
  <2>4. Codex!Msg("answer", n) \in CodexMsgs
    BY <2>3, CodexMsg DEF CodexKinds
  <2>5. /\ CodexHearsOf /\ x4' \in CodexProcs
        /\ x2.client /\ x2.norm.turn = NoTurn => Holds(x4'.inp, Codex!Msg("answer", n))
    BY <1>0, <1>4, <1>5, <2>2, <2>4
  <2>6. /\ x2' \in CodexSessions /\ x2'.client = x2.client /\ x2'.registered = x2.registered
        /\ x2'.norm.turn = x2.norm.turn /\ x2.approvals \subseteq x2'.approvals
        /\ x2.norm.turn # NoTurn => n \in x2'.approvals
    BY <1>0, <2>2, <2>3 DEF CodexSessions
  <2>7. CodexTyped'
    BY <1>0, <2>2, <2>5, <2>6 DEF CodexTyped
  <2>8. ASSUME x2.client PROVE CodexFrees'
    BY <1>0, <2>2, <2>5, <2>6, <2>8, CodexStaysBusy DEF CodexLives
  <2>9. ASSUME x2.client PROVE CodexAsks'
    <3>1. x4'.asking = x4.asking
      BY <2>5 DEF CodexHearsOf
    <3>2. CASE x4.asking = n
      BY <2>5, <2>6, <2>9, <3>1, <3>2 DEF CodexAsks
    <3>3. CASE x4.asking # n
      <4>1. Codex!Msg("approval", x4.asking) # Head(x4.out)
        BY <2>3, <3>3, CodexMsg
      <4>2. /\ Holds(x4.out, Codex!Msg("approval", x4.asking)) => Holds(x4'.out, Codex!Msg("approval", x4.asking))
            /\ \A u : Holds(x4.inp, Codex!Msg("answer", u)) => Holds(x4'.inp, Codex!Msg("answer", u))
        BY <2>5, <4>1, CodexStays DEF CodexLives
      <4>3. CodexAsks
        BY <1>0, <2>9
      <4>4. QED
        BY <2>6, <3>1, <4>2, <4>3 DEF CodexAsks
    <3>4. QED
      BY <3>2, <3>3
  <2>10. QED
    BY <1>0, <1>1, <2>5, <2>6, <2>7, <2>8, <2>9
<1>15. CASE Codex!StrayAnswer
  <2>1. /\ x2' = x2 /\ x3' = x3 /\ x4.out # <<>> /\ x4' = Codex!Read
        /\ Head(x4.out).kind # "completed" /\ Head(x4.out).kind # "approval"
    BY <1>15 DEF Codex!StrayAnswer
  <2>2. CodexTyped' /\ CodexHearsOf
    BY <1>0, <1>4, <2>1 DEF CodexTyped
  <2>3. QED
    BY <1>0, <1>1, <2>1, <2>2, CodexStaysBusy, CodexStillAsks DEF CodexLives
<1>16. ASSUME NEW n \in Turns, Codex!RespondToApproval(n) PROVE CodexLives'
  <2>1. /\ x2.client /\ x2' = [x2 EXCEPT !.approvals = @ \ {n}] /\ x3' = x3
        /\ x4' = Codex!Wrote(<<Codex!Msg("answer", n)>>)
    BY <1>16 DEF Codex!RespondToApproval
  <2>2. /\ x2' \in CodexSessions /\ x2'.client = x2.client /\ x2'.registered = x2.registered
        /\ x2'.norm.turn = x2.norm.turn /\ x2'.approvals = x2.approvals \ {n}
    BY <1>0, <2>1 DEF CodexSessions
  <2>3. Codex!Msg("answer", n) \in CodexMsgs
    BY <1>0, CodexMsg DEF CodexKinds
  <2>4. /\ CodexHearsOf /\ x4' \in CodexProcs /\ x4'.out = x4.out
        /\ Holds(x4'.inp, Codex!Msg("answer", n))
    BY <1>0, <1>3, <2>1, <2>3
  <2>5. CodexTyped'
    BY <1>0, <2>1, <2>2, <2>4 DEF CodexTyped
  <2>6. CodexFrees'
    BY <1>0, <2>1, <2>2, <2>4, CodexStaysBusy DEF CodexLives
  <2>7. CodexAsks'
    <3>1. x4'.asking = x4.asking /\ \A u : Holds(x4.inp, Codex!Msg("answer", u)) => Holds(x4'.inp, Codex!Msg("answer", u))
      BY <1>0, <2>4, CodexStays DEF CodexHearsOf, CodexLives
    <3>2. CodexAsks
      BY <1>0, <2>1
    <3>3. QED
      BY <2>2, <2>4, <3>1, <3>2 DEF CodexAsks
  <2>8. QED
    BY <1>0, <1>1, <2>2, <2>4, <2>5, <2>6, <2>7
<1>17. QED
  BY <1>6, <1>7, <1>8, <1>9, <1>10, <1>11, <1>12, <1>13, <1>14, <1>15, <1>16

LEMMA ShortPipes ==
  ASSUME NEW S, NEW a \in S, NEW b \in S
  PROVE  /\ <<a>> \in Seq(S) /\ <<a, b>> \in Seq(S) /\ <<>> \in Seq(S)
         /\ \A m : Holds(<<a>>, m) <=> m = a
         /\ \A m : Holds(<<a, b>>, m) <=> m = a \/ m = b
         /\ \A m : ~Holds(<<>>, m)
         /\ \A q \in Seq(S) : q \o <<>> = q
<1>1. DOMAIN <<a>> = {1} /\ <<a>>[1] = a
  OBVIOUS
<1>2. DOMAIN <<a, b>> = {1, 2} /\ <<a, b>>[1] = a /\ <<a, b>>[2] = b
  OBVIOUS
<1>3. DOMAIN <<>> = {}
  OBVIOUS
<1>4. <<a>> \in Seq(S) /\ <<a, b>> \in Seq(S) /\ <<>> \in Seq(S)
  OBVIOUS
<1>5. \A m : Holds(<<a>>, m) <=> m = a
  BY <1>1 DEF Holds
<1>6. \A m : Holds(<<a, b>>, m) <=> m = a \/ m = b
  BY <1>2 DEF Holds
<1>7. \A m : ~Holds(<<>>, m)
  BY <1>3 DEF Holds
<1>8. \A q \in Seq(S) : q \o <<>> = q
  OBVIOUS
<1>9. QED
  BY <1>4, <1>5, <1>6, <1>7, <1>8

(* Codex goes on and says r.                                                *)
LEMMA CodexGoesOn ==
  ASSUME CodexLives, x2' = x2, x3' = x3, x4' \in CodexProcs, x4'.alive = x4.alive,
         NEW r \in Seq(CodexMsgs), x4'.out = x4.out \o r,
         \A u \in Turns : x4'.running = u \/ ~Holds(r, Codex!Msg("startOk", u)),
         \A u \in Turns : x4.running = u => x4'.running = u \/ Holds(r, Codex!Msg("completed", u)),
         \/ x4'.asking = NoTurn
         \/ Holds(r, Codex!Msg("approval", x4'.asking))
         \/ /\ x4'.asking = x4.asking
            /\ \A n \in {x4.asking, NoTurn} :
                 Holds(x4.inp, Codex!Msg("answer", n)) => Holds(x4'.inp, Codex!Msg("answer", n))
  PROVE  CodexLives'
<1>1. CodexTyped' /\ x2'.registered = x2'.client /\ (x2'.client => x4'.alive)
  BY DEF CodexLives, CodexTyped
<1>2. /\ \A m : Holds(x4'.out, m) <=> Holds(x4.out, m) \/ Holds(r, m)
      /\ \A m, n : ~Holds(r, m) /\ (Followed(x4.out, m, n) \/ Holds(r, n)) => Followed(x4'.out, m, n)
  <2>1. x4.out \in Seq(CodexMsgs)
    BY DEF CodexLives, CodexTyped, CodexProcs
  <2>2. PICK p : p = x4.out \o r
    OBVIOUS
  <2>3. /\ \A m : Holds(p, m) <=> Holds(x4.out, m) \/ Holds(r, m)
        /\ \A m, n : ~Holds(r, m) /\ (Followed(x4.out, m, n) \/ Holds(r, n)) => Followed(p, m, n)
    BY <2>1, <2>2, PipeGrows
  <2>4. x4'.out = p
    BY <2>2
  <2>5. QED
    BY <2>3, <2>4, Zenon
<1>3. ASSUME x2.client PROVE StartsEnd'
  <2> SUFFICES ASSUME NEW u \in Turns, x4'.running # u
               PROVE  Followed(x4'.out, Codex!Msg("startOk", u), Codex!Msg("completed", u))
    BY DEF StartsEnd
  <2>1. x4.running = u \/ Followed(x4.out, Codex!Msg("startOk", u), Codex!Msg("completed", u))
    BY <1>3 DEF CodexLives, StartsEnd
  <2>2. QED
    BY <1>2, <2>1
<1>4. ASSUME x2.client PROVE CodexFrees'
  <2>1. x2.norm.turn = NoTurn \/ x2.norm.turn \in Turns
    BY DEF CodexLives, CodexTyped, CodexSessions, MaybeTurn
  <2>2. CodexFrees
    BY <1>4 DEF CodexLives
  <2>3. QED
    BY <1>2, <2>1, <2>2 DEF CodexFrees
<1>5. ASSUME x2.client PROVE CodexAsks'
  BY <1>2, <1>5 DEF CodexLives, CodexAsks
<1>6. QED
  BY <1>1, <1>3, <1>4, <1>5 DEF CodexLives

(* What codex does.                                                         *)
LEMMA CodexCliLives ==
  ASSUME CodexLives,
         Codex!Cli \/ Codex!CliSays("error", ErrorTurns) \/ Codex!CliSays("approval", AskTurns)
  PROVE  CodexLives'
<1>0. /\ x4 \in CodexProcs /\ x2' = x2 /\ x3' = x3
      /\ x4.out \in Seq(CodexMsgs) /\ x4.inp \in Seq(CodexMsgs)
      /\ x4.running \in MaybeTurn /\ x4.asking \in MaybeTurn
      /\ NoTurn \in MaybeTurn /\ Turns \subseteq MaybeTurn /\ NoTurn \notin Turns
  <2>1. x2' = x2 /\ x3' = x3
    BY DEF Codex!Cli, Codex!CliSays, Codex!CliStarts, Codex!CliInterrupts, Codex!CliGetsAnswer,
           Codex!CliCompletes
  <2>2. QED
    BY <2>1, NoTurnIsNoTurn DEF CodexLives, CodexTyped, CodexProcs, MaybeTurn
<1>1. ASSUME NEW i \in DOMAIN x4.inp, NEW w, w = Without(x4.inp, i)
      PROVE  /\ w \in Seq(CodexMsgs) /\ x4.inp[i] \in CodexMsgs
             /\ \A m : Holds(x4.inp, m) => m = x4.inp[i] \/ Holds(w, m)
  BY <1>0, <1>1, PipeTaken
<1>2. ASSUME NEW r \in Seq(CodexMsgs) PROVE x4.out \o r \in Seq(CodexMsgs)
  BY <1>0, <1>2, PipeGrows
<1>9. /\ <<>> \in Seq(CodexMsgs) /\ x4.out \o <<>> = x4.out
      /\ \A m : ~Holds(<<>>, m)
      /\ \A a \in CodexMsgs : <<a>> \in Seq(CodexMsgs)
      /\ \A a, m : Holds(<<a>>, m) <=> m = a
      /\ \A a \in CodexMsgs, b \in CodexMsgs : <<a, b>> \in Seq(CodexMsgs)
      /\ \A a, b, m : Holds(<<a, b>>, m) <=> m = a \/ m = b
  <2>1. \A a, m : Holds(<<a>>, m) <=> m = a
    BY ShortPipes
  <2>2. \A a, b, m : Holds(<<a, b>>, m) <=> m = a \/ m = b
    <3> SUFFICES ASSUME NEW a, NEW b PROVE \A m : Holds(<<a, b>>, m) <=> m = a \/ m = b
      OBVIOUS
    <3>1. a \in {a, b} /\ b \in {a, b}
      OBVIOUS
    <3>2. QED
      BY <3>1, ShortPipes
  <2>3. <<>> \in Seq(CodexMsgs) /\ x4.out \o <<>> = x4.out
    BY <1>0
  <2>4. DOMAIN <<>> = {}
    OBVIOUS
  <2>5. \A m : ~Holds(<<>>, m)
    BY <2>4 DEF Holds
  <2>6. \A a \in CodexMsgs : <<a>> \in Seq(CodexMsgs)
    OBVIOUS
  <2>7. \A a \in CodexMsgs, b \in CodexMsgs : <<a, b>> \in Seq(CodexMsgs)
    OBVIOUS
  <2>8. QED
    BY <2>1, <2>2, <2>3, <2>5, <2>6, <2>7
<1>3. CASE Codex!CliStarts
  <2>1. PICK t, w : t = x4.inp[1].turn /\ w = Without(x4.inp, 1)
    OBVIOUS
  <2>2. 1 \in DOMAIN x4.inp /\ x4.inp[1].kind = "start"
    BY <1>3 DEF Codex!CliStarts, Codex!Takes
  <2>3. w \in Seq(CodexMsgs) /\ x4.inp[1] \in CodexMsgs /\ t \in MaybeTurn
    BY <1>1, <2>1, <2>2 DEF CodexMsgs
  <2>4. \A n : Holds(x4.inp, Codex!Msg("answer", n)) => Holds(w, Codex!Msg("answer", n))
    <3>1. \A n : Codex!Msg("answer", n) # x4.inp[1]
      BY <2>2, CodexMsg
    <3>2. QED
      BY <1>1, <2>1, <2>2, <3>1
  <2>5. CASE x4' = Codex!Says(Codex!Taken(1), <<Codex!Msg("startErr", t)>>)
    <3>1. PICK m : m = Codex!Msg("startErr", t)
      OBVIOUS
    <3>2. m \in CodexMsgs /\ m.kind = "startErr"
      BY <2>3, <3>1, CodexMsg DEF CodexKinds
    <3>3. PICK r, o : r = <<m>> /\ o = x4.out \o r
      OBVIOUS
    <3>4. r \in Seq(CodexMsgs) /\ o \in Seq(CodexMsgs) /\ \A n : Holds(r, n) <=> n = m
      BY <1>2, <1>9, <3>2, <3>3
    <3>5. x4' = [x4 EXCEPT !.inp = w, !.out = o]
      BY <1>0, <2>1, <2>5, <3>1, <3>3 DEF Codex!Says, Codex!Taken, Codex!Without, Without, CodexProcs
    <3>6. /\ x4' \in CodexProcs /\ x4'.alive = x4.alive /\ x4'.out = o /\ x4'.inp = w
          /\ x4'.running = x4.running /\ x4'.asking = x4.asking
      BY <1>0, <2>3, <3>4, <3>5 DEF CodexProcs
    <3>7. \A u : Codex!Msg("startOk", u) # m
      BY <3>2, CodexMsg
    <3>8. QED
      BY <1>0, <2>4, <3>3, <3>4, <3>6, <3>7, CodexGoesOn
  <2>6. CASE /\ x4.running = NoTurn
             /\ \E msgs \in { <<Codex!Msg("startOk", t), Codex!Msg("started", t)>>,
                              <<Codex!Msg("started", t), Codex!Msg("startOk", t)>> } :
                  x4' = Codex!Says([Codex!Taken(1) EXCEPT !.running = t], msgs)
    <3>1. PICK m, n : m = Codex!Msg("startOk", t) /\ n = Codex!Msg("started", t)
      OBVIOUS
    <3>2. m \in CodexMsgs /\ n \in CodexMsgs /\ n.kind = "started"
      BY <2>3, <3>1, CodexMsg DEF CodexKinds
    <3>3. PICK r, o : r \in {<<m, n>>, <<n, m>>} /\ o = x4.out \o r
                      /\ x4' = Codex!Says([Codex!Taken(1) EXCEPT !.running = t], r)
      BY <2>6, <3>1
    <3>4. /\ r \in Seq(CodexMsgs) /\ o \in Seq(CodexMsgs)
          /\ \A v : Holds(r, v) <=> v = m \/ v = n
      <4>1. r \in Seq(CodexMsgs)
        <5>1. <<m, n>> \in Seq(CodexMsgs) /\ <<n, m>> \in Seq(CodexMsgs)
          BY <1>9, <3>2
        <5>2. QED
          BY <3>3, <5>1, Zenon
      <4>2. \A v : Holds(r, v) <=> v = m \/ v = n
        <5>1. CASE r = <<m, n>>
          BY <1>9, <5>1, Zenon
        <5>2. CASE r = <<n, m>>
          BY <1>9, <5>2, Zenon
        <5>3. QED
          BY <3>3, <5>1, <5>2
      <4>3. QED
        BY <1>2, <3>3, <4>1, <4>2
    <3>5. x4' = [x4 EXCEPT !.inp = w, !.running = t, !.out = o]
      BY <1>0, <2>1, <3>3 DEF Codex!Says, Codex!Taken, Codex!Without, Without, CodexProcs
    <3>6. /\ x4' \in CodexProcs /\ x4'.alive = x4.alive /\ x4'.out = o /\ x4'.inp = w
          /\ x4'.running = t /\ x4'.asking = x4.asking
      BY <1>0, <2>3, <3>4, <3>5 DEF CodexProcs
    <3>7. \A u : Codex!Msg("startOk", u) \in {m, n} => u = t
      BY <3>1, CodexMsg
    <3>8. \A u \in Turns : x4'.running = u \/ ~Holds(r, Codex!Msg("startOk", u))
      BY <3>4, <3>6, <3>7
    <3>9. \A u \in Turns : x4.running # u
      BY <1>0, <2>6
    <3>10. QED
      BY <1>0, <2>4, <3>3, <3>4, <3>6, <3>8, <3>9, CodexGoesOn
  <2>7. QED
    BY <1>3, <2>1, <2>5, <2>6 DEF Codex!CliStarts
<1>4. CASE Codex!CliInterrupts
  <2>1. PICK i, n, w, ok :
          /\ i \in DOMAIN x4.inp
          /\ x4.inp[i].kind = "interrupt" /\ n = x4.inp[i].turn /\ w = Without(x4.inp, i)
          /\ ok = Codex!Msg("interruptOk", n)
          /\ IF x4.running = n
             THEN \E msgs \in { <<ok, Codex!Msg("completed", n)>>, <<Codex!Msg("completed", n), ok>> } :
                    x4' = Codex!Says([Codex!Taken(i) EXCEPT !.running = NoTurn, !.asking = NoTurn], msgs)
             ELSE x4' = Codex!Says(Codex!Taken(i), <<ok>>)
    BY <1>4 DEF Codex!CliInterrupts
  <2>2. w \in Seq(CodexMsgs) /\ x4.inp[i] \in CodexMsgs /\ n \in MaybeTurn
    BY <1>1, <2>1 DEF CodexMsgs
  <2>3. \A u : Holds(x4.inp, Codex!Msg("answer", u)) => Holds(w, Codex!Msg("answer", u))
    <3>1. \A u : Codex!Msg("answer", u) # x4.inp[i]
      BY <2>1, CodexMsg
    <3>2. QED
      BY <1>1, <2>1, <3>1
  <2>4. ok \in CodexMsgs /\ ok.kind = "interruptOk"
    BY <2>1, <2>2, CodexMsg DEF CodexKinds
  <2>5. CASE x4.running # n
    <3>1. PICK r, o : r = <<ok>> /\ o = x4.out \o r
      OBVIOUS
    <3>2. r \in Seq(CodexMsgs) /\ o \in Seq(CodexMsgs) /\ \A v : Holds(r, v) <=> v = ok
      BY <1>2, <1>9, <2>4, <3>1
    <3>3. x4' = [x4 EXCEPT !.inp = w, !.out = o]
      BY <1>0, <2>1, <2>5, <3>1 DEF Codex!Says, Codex!Taken, Codex!Without, Without, CodexProcs
    <3>4. /\ x4' \in CodexProcs /\ x4'.alive = x4.alive /\ x4'.out = o /\ x4'.inp = w
          /\ x4'.running = x4.running /\ x4'.asking = x4.asking
      BY <1>0, <2>2, <3>2, <3>3 DEF CodexProcs
    <3>5. \A u : Codex!Msg("startOk", u) # ok
      BY <2>4, CodexMsg
    <3>6. QED
      BY <1>0, <2>3, <3>1, <3>2, <3>4, <3>5, CodexGoesOn
  <2>6. CASE x4.running = n
    <3>1. PICK m : m = Codex!Msg("completed", n)
      OBVIOUS
    <3>2. m \in CodexMsgs /\ m.kind = "completed"
      BY <2>2, <3>1, CodexMsg DEF CodexKinds
    <3>3. PICK r, o : r \in {<<ok, m>>, <<m, ok>>} /\ o = x4.out \o r
                      /\ x4' = Codex!Says([Codex!Taken(i) EXCEPT !.running = NoTurn, !.asking = NoTurn], r)
      BY <2>1, <2>6, <3>1
    <3>4. /\ r \in Seq(CodexMsgs) /\ o \in Seq(CodexMsgs)
          /\ \A v : Holds(r, v) <=> v = m \/ v = ok
      <4>1. r \in Seq(CodexMsgs)
        <5>1. <<ok, m>> \in Seq(CodexMsgs) /\ <<m, ok>> \in Seq(CodexMsgs)
          BY <1>9, <2>4, <3>2
        <5>2. QED
          BY <3>3, <5>1, Zenon
      <4>2. \A v : Holds(r, v) <=> v = m \/ v = ok
        <5>1. CASE r = <<ok, m>>
          BY <1>9, <5>1, Zenon
        <5>2. CASE r = <<m, ok>>
          BY <1>9, <5>2, Zenon
        <5>3. QED
          BY <3>3, <5>1, <5>2
      <4>3. QED
        BY <1>2, <3>3, <4>1, <4>2
    <3>5. x4' = [x4 EXCEPT !.inp = w, !.running = NoTurn, !.asking = NoTurn, !.out = o]
      BY <1>0, <2>1, <3>3 DEF Codex!Says, Codex!Taken, Codex!Without, Without, CodexProcs
    <3>6. /\ x4' \in CodexProcs /\ x4'.alive = x4.alive /\ x4'.out = o /\ x4'.inp = w
          /\ x4'.running = NoTurn /\ x4'.asking = NoTurn
      BY <1>0, <2>2, <3>4, <3>5 DEF CodexProcs
    <3>7. \A u : Codex!Msg("startOk", u) \notin {m, ok}
      BY <2>4, <3>2, CodexMsg
    <3>8. \A u \in Turns : ~Holds(r, Codex!Msg("startOk", u))
      BY <3>4, <3>7
    <3>9. \A u \in Turns : x4.running = u => Holds(r, Codex!Msg("completed", u))
      BY <2>6, <3>1, <3>4
    <3>10. QED
      BY <1>0, <3>3, <3>4, <3>6, <3>8, <3>9, CodexGoesOn
  <2>7. QED
    BY <2>5, <2>6
<1>5. CASE Codex!CliGetsAnswer
  <2>1. PICK i, n, w, a :
          /\ i \in DOMAIN x4.inp
          /\ x4.inp[i].kind = "answer" /\ n = x4.inp[i].turn /\ w = Without(x4.inp, i)
          /\ a = IF n \in {x4.asking, NoTurn} THEN NoTurn ELSE x4.asking
          /\ x4' = [Codex!Taken(i) EXCEPT !.asking = IF n \in {x4.asking, NoTurn} THEN NoTurn ELSE @]
    BY <1>5 DEF Codex!CliGetsAnswer
  <2>2. w \in Seq(CodexMsgs) /\ x4.inp[i] \in CodexMsgs /\ x4.inp[i] = Codex!Msg("answer", n)
    <3>1. w \in Seq(CodexMsgs) /\ x4.inp[i] \in CodexMsgs
      BY <1>1, <2>1
    <3>2. QED
      BY <2>1, <3>1, CodexMsg
  <2>3. x4' = [x4 EXCEPT !.inp = w, !.asking = a]
    BY <1>0, <2>1 DEF Codex!Taken, Codex!Without, Without, CodexProcs
  <2>4. /\ x4' \in CodexProcs /\ x4'.alive = x4.alive /\ x4'.out = x4.out /\ x4'.inp = w
        /\ x4'.running = x4.running /\ x4'.asking = a
    BY <1>0, <2>1, <2>2, <2>3 DEF CodexProcs
  <2>5. \/ a = NoTurn
        \/ /\ a = x4.asking
           /\ \A u \in {x4.asking, NoTurn} :
                Holds(x4.inp, Codex!Msg("answer", u)) => Holds(w, Codex!Msg("answer", u))
    <3>1. CASE n \notin {x4.asking, NoTurn}
      <4>1. \A u \in {x4.asking, NoTurn} : Codex!Msg("answer", u) # x4.inp[i]
        BY <2>2, <3>1, CodexMsg
      <4>2. QED
        BY <1>1, <2>1, <3>1, <4>1
    <3>2. QED
      BY <2>1, <3>1
  <2>6. PICK r \in Seq(CodexMsgs) : x4.out \o r = x4.out /\ \A m : ~Holds(r, m)
    BY <1>9
  <2>7. QED
    BY <1>0, <2>4, <2>5, <2>6, CodexGoesOn
<1>6. CASE Codex!CliCompletes
  <2>1. PICK m, r, o : m = Codex!Msg("completed", x4.running) /\ r = <<m>> /\ o = x4.out \o r
    OBVIOUS
  <2>2. m \in CodexMsgs /\ m.kind = "completed"
    BY <1>0, <2>1, CodexMsg DEF CodexKinds
  <2>3. r \in Seq(CodexMsgs) /\ o \in Seq(CodexMsgs) /\ \A v : Holds(r, v) <=> v = m
    <3>1. r \in Seq(CodexMsgs) /\ \A v : Holds(r, v) <=> v = m
      BY <1>9, <2>1, <2>2
    <3>2. QED
      BY <1>2, <2>1, <3>1
  <2>4. x4.asking = NoTurn /\ x4' = [x4 EXCEPT !.running = NoTurn, !.out = o]
    BY <1>0, <1>6, <2>1 DEF Codex!CliCompletes, Codex!Says, CodexProcs
  <2>5. /\ x4' \in CodexProcs /\ x4'.alive = x4.alive /\ x4'.out = o /\ x4'.inp = x4.inp
        /\ x4'.running = NoTurn /\ x4'.asking = x4.asking
    BY <1>0, <2>3, <2>4 DEF CodexProcs
  <2>6. \A u : Codex!Msg("startOk", u) # m
    BY <2>2, CodexMsg
  <2>7. QED
    BY <1>0, <2>1, <2>3, <2>5, <2>6, CodexGoesOn
<1>7. ASSUME NEW k \in {"error", "approval"}, NEW chosen, Codex!CliSays(k, chosen) PROVE CodexLives'
  <2>1. PICK m, r, o, sd, a :
          /\ m = Codex!Msg(k, x4.running) /\ r = <<m>> /\ o = x4.out \o r
          /\ sd = x4.said \cup {<<k, x4.running>>}
          /\ a = IF k = "approval" THEN x4.running ELSE x4.asking
    OBVIOUS
  <2>2. m \in CodexMsgs /\ m.kind = k
    BY <1>0, <2>1, CodexMsg DEF CodexKinds
  <2>3. r \in Seq(CodexMsgs) /\ o \in Seq(CodexMsgs) /\ \A v : Holds(r, v) <=> v = m
    <3>1. r \in Seq(CodexMsgs) /\ \A v : Holds(r, v) <=> v = m
      BY <1>9, <2>1, <2>2
    <3>2. QED
      BY <1>2, <2>1, <3>1
  <2>4. x4' = [x4 EXCEPT !.out = o, !.said = sd, !.asking = a]
    BY <1>0, <1>7, <2>1 DEF Codex!CliSays, Codex!Says, CodexProcs
  <2>5. sd \in SUBSET (CodexKinds \X MaybeTurn)
    BY <1>0, <2>1 DEF CodexProcs, CodexKinds
  <2>6. /\ x4' \in CodexProcs /\ x4'.alive = x4.alive /\ x4'.out = o /\ x4'.inp = x4.inp
        /\ x4'.running = x4.running /\ x4'.asking = a
    BY <1>0, <2>1, <2>3, <2>4, <2>5 DEF CodexProcs
  <2>7. \A u : Codex!Msg("startOk", u) # m
    BY <2>2, CodexMsg
  <2>8. k = "approval" => Holds(r, Codex!Msg("approval", a))
    BY <2>1, <2>3
  <2>9. k # "approval" => a = x4.asking
    BY <2>1
  <2>10. QED
    BY <1>0, <2>1, <2>3, <2>6, <2>7, <2>8, <2>9, CodexGoesOn
<1>8. QED
  BY <1>3, <1>4, <1>5, <1>6, <1>7 DEF Codex!Cli

(* The end of the session, and of codex.                                    *)
LEMMA CodexEndLives ==
  ASSUME CodexLives, Codex!BootRefused \/ Codex!Exit \/ Codex!StopSession
  PROVE  CodexLives'
<1>0. x2 \in CodexSessions /\ x3 \in CodexCalls /\ x4 \in CodexProcs /\ x2.registered = x2.client
  BY DEF CodexLives, CodexTyped
<1>1. ASSUME x2' \in CodexSessions, x3' \in CodexCalls, x4' \in CodexProcs,
             x2'.registered = x2'.client, ~x2'.client
      PROVE  CodexLives'
  BY <1>1 DEF CodexLives, CodexTyped
<1>2. [x4 EXCEPT !.alive = FALSE] \in CodexProcs
  BY <1>0 DEF CodexProcs
<1>3. Codex!Gone(x4) \in CodexProcs
  <2>1. <<>> \in Seq(CodexMsgs) /\ NoTurn \in MaybeTurn
    BY DEF MaybeTurn
  <2>2. QED
    BY <1>0, <2>1 DEF Codex!Gone, CodexProcs
<1>4. Codex!Rejected(x3) \in CodexCalls
  BY <1>0, CodexCallsReject
<1>5. PICK z : z = Codex!Closed(x2)
  OBVIOUS
<1>6. z = [x2 EXCEPT !.registered = FALSE, !.client = FALSE]
  BY <1>5 DEF Codex!Closed
<1>7. z \in CodexSessions /\ z.client = FALSE /\ z.registered = FALSE
  BY <1>0, <1>6 DEF CodexSessions
<1>8. CASE Codex!BootRefused
  <2>1. CASE x2.phase = "resume" /\ x4.alive
    <3>1. x2' = [x2 EXCEPT !.phase = "start"] /\ x3' = x3 /\ x4' = x4
      BY <1>8, <2>1 DEF Codex!BootRefused
    <3>2. /\ x2' \in CodexSessions /\ x2'.client = x2.client /\ x2'.registered = x2.registered
          /\ x2'.norm = x2.norm /\ x2'.approvals = x2.approvals
      BY <1>0, <3>1 DEF CodexSessions
    <3>3. CodexTyped' /\ CodexHearsOf
      BY <1>0, <3>1, <3>2 DEF CodexTyped, CodexHearsOf
    <3>4. QED
      BY <1>0, <3>1, <3>2, <3>3, CodexHears, CodexStaysBusy, CodexStillAsks DEF CodexLives
  <2>2. CASE ~(x2.phase = "resume" /\ x4.alive)
    <3>1. x2' = [z EXCEPT !.phase = "failed"] /\ x3' = x3 /\ x4' = [x4 EXCEPT !.alive = FALSE]
      BY <1>5, <1>8, <2>2 DEF Codex!BootRefused
    <3>2. x2' \in CodexSessions /\ x2'.client = z.client /\ x2'.registered = z.registered
      BY <1>7, <3>1 DEF CodexSessions
    <3>3. x3' \in CodexCalls /\ x4' \in CodexProcs
      BY <1>0, <1>2, <3>1
    <3>4. QED
      BY <1>1, <1>7, <3>2, <3>3
  <2>3. QED
    BY <2>1, <2>2
<1>9. CASE Codex!Exit
  <2>1. x3' = Codex!Rejected(x3) /\ x4' = Codex!Gone(x4)
    BY <1>9 DEF Codex!Exit
  <2>2. CASE x2.registered
    <3>1. x2' = z
      BY <1>5, <1>9, <2>2 DEF Codex!Exit
    <3>2. QED
      BY <1>1, <1>3, <1>4, <1>7, <2>1, <3>1
  <2>3. CASE ~x2.registered
    <3>1. x2' = x2 /\ ~x2.client
      BY <1>0, <1>9, <2>3 DEF Codex!Exit
    <3>2. QED
      BY <1>0, <1>1, <1>3, <1>4, <2>1, <3>1
  <2>4. QED
    BY <2>2, <2>3
<1>10. CASE Codex!StopSession
  <2>1. x2' = [z EXCEPT !.approvals = {}] /\ x3' = Codex!Rejected(x3) /\ x4' = Codex!Gone(x4)
    BY <1>5, <1>10 DEF Codex!StopSession
  <2>2. x2' \in CodexSessions /\ x2'.client = z.client /\ x2'.registered = z.registered
    BY <1>7, <2>1 DEF CodexSessions
  <2>3. x3' \in CodexCalls /\ x4' \in CodexProcs
    BY <1>3, <1>4, <2>1
  <2>4. QED
    BY <1>1, <1>7, <2>2, <2>3
<1>11. QED
  BY <1>8, <1>9, <1>10

LEMMA CodexLivesOn ==
  ASSUME CodexLives, Codex!Next
  PROVE  CodexLives'
BY CodexAdapterLives, CodexCliLives, CodexEndLives DEF Codex!Next, Codex!Adapter, Codex!User

LEMMA CodexLivesWell ==
  ASSUME CodexLives
  PROVE  Codex!BusyWillFree /\ Codex!AskedCanBeAnswered
<1>1. Codex!BusyWillFree
  <2>1. ASSUME Holds(x4.out, Codex!Msg("completed", x2.norm.turn))
        PROVE  Codex!InFlight({"completed"}, x2.norm.turn)
    BY <2>1, CodexMsg DEF Holds, Codex!InFlight
  <2>2. QED
    BY <2>1 DEF CodexLives, CodexFrees, Codex!BusyWillFree, Codex!SendIs
<1>2. Codex!AskedCanBeAnswered
  <2>1. ASSUME Holds(x4.out, Codex!Msg("approval", x4.asking))
        PROVE  Codex!InFlight({"approval"}, x4.asking)
    BY <2>1, CodexMsg DEF Holds, Codex!InFlight
  <2>2. ASSUME NEW n \in {x4.asking, NoTurn}, Holds(x4.inp, Codex!Msg("answer", n))
        PROVE  \E i \in DOMAIN x4.inp :
                 x4.inp[i].kind = "answer" /\ x4.inp[i].turn \in {x4.asking, NoTurn}
    BY <2>2, CodexMsg DEF Holds
  <2>3. QED
    BY <2>1, <2>2 DEF CodexLives, CodexAsks, Codex!AskedCanBeAnswered
<1>3. QED
  BY <1>1, <1>2

-----------------------------------------------------------------------------
(* The mock adapter: a script that asks is the one of the active turn, and  *)
(* the session knows it                                                     *)

MockAsks ==
  /\ x2 \in MockSessions /\ x4 \in [Turns -> Mock!Scripts]
  /\ \A t \in Turns : x4[t] = "asks" /\ x2.registered =>
                        x2.waiter = t /\ x2.active = t /\ x2.timer # t

LEMMA MockAsksAtFirst == Mock!Init => MockAsks
BY DEF Mock!Init, MockAsks, MockSessions, Mock!Scripts, MaybeTurn

LEMMA MockStillAsks ==
  ASSUME MockAsks, MockInv, Mock!Next
  PROVE  MockAsks'
<1> USE NoTurnIsNoTurn
<1>0. /\ x2 \in MockSessions /\ x4 \in [Turns -> Mock!Scripts] /\ x2' \in MockSessions
      /\ x2.waiter \in MaybeTurn /\ NoTurn \notin Turns
  BY MockKept DEF MockAsks, MockSessions, MockInv
<1>1. ASSUME x4' \in [Turns -> Mock!Scripts],
             \A t \in Turns : x4'[t] = "asks" /\ x2'.registered =>
                                x2'.waiter = t /\ x2'.active = t /\ x2'.timer # t
      PROVE  MockAsks'
  BY <1>0, <1>1 DEF MockAsks
<1>2. ASSUME NEW t \in Turns, Mock!Send(t) PROVE MockAsks'
  <2>1. x4' = x4
    BY <1>2 DEF Mock!Send
  <2>2. CASE x2' = x2 \/ x2' = [x2 EXCEPT !.sent = @ + 1]
    <3>1. /\ x2'.registered = x2.registered /\ x2'.waiter = x2.waiter
          /\ x2'.active = x2.active /\ x2'.timer = x2.timer
      BY <1>0, <2>2 DEF MockSessions
    <3>2. QED
      BY <1>1, <2>1, <3>1 DEF MockAsks
  <2>3. CASE x2.registered /\ x2.active = NoTurn
    <3>1. \A u \in Turns : x4[u] # "asks"
      BY <2>3 DEF MockAsks
    <3>2. QED
      BY <1>0, <1>1, <2>1, <3>1
  <2>4. QED
    BY <1>2, <2>2, <2>3 DEF Mock!Send
<1>3. ASSUME NEW t \in Turns, Mock!RunScript(t) PROVE MockAsks'
  <2>1. x4[t] # "asks" \/ ~x2.registered
    BY <1>3 DEF Mock!RunScript, MockAsks
  <2>2. CASE Mock!GivesUp(t)
    <3>1. x4' = [x4 EXCEPT ![t] = "done"]
      BY <2>2 DEF Mock!GivesUp
    <3>2. x4' \in [Turns -> Mock!Scripts] /\ \A u \in Turns : x4'[u] = "asks" => x4[u] = "asks"
      BY <1>0, <3>1 DEF Mock!Scripts
    <3>3. /\ x2'.registered = x2.registered /\ x2'.waiter = x2.waiter
          /\ x2'.active = x2.active /\ x2'.timer \in {x2.timer, NoTurn}
      BY <1>0, <2>2 DEF Mock!GivesUp, MockSessions
    <3>4. QED
      BY <1>0, <1>1, <3>2, <3>3 DEF MockAsks
  <2>3. CASE Mock!AsksApproval(t)
    <3>1. x4' = [x4 EXCEPT ![t] = "asks"] /\ x2.active = t
      BY <2>3 DEF Mock!AsksApproval, Mock!Current
    <3>2. /\ x4' \in [Turns -> Mock!Scripts]
          /\ \A u \in Turns : x4'[u] = "asks" => u = t \/ x4[u] = "asks"
      BY <1>0, <3>1 DEF Mock!Scripts
    <3>3. /\ x2'.registered = x2.registered /\ x2'.waiter = t
          /\ x2'.active = x2.active /\ x2'.timer = NoTurn
      BY <1>0, <2>3 DEF Mock!AsksApproval, MockSessions
    <3>4. \A u \in Turns : x4[u] = "asks" /\ x2.registered => u = t
      BY <3>1 DEF MockAsks
    <3>5. QED
      BY <1>0, <1>1, <3>1, <3>2, <3>3, <3>4
  <2>4. CASE Mock!Completes(t)
    <3>1. x4' = [x4 EXCEPT ![t] = "done"] /\ x2.active = t
      BY <2>4 DEF Mock!Completes, Mock!Current
    <3>2. /\ x4' \in [Turns -> Mock!Scripts] /\ x4'[t] # "asks"
          /\ \A u \in Turns : x4'[u] = "asks" => x4[u] = "asks"
      BY <1>0, <3>1 DEF Mock!Scripts
    <3>3. x2'.registered = x2.registered
      BY <1>0, <2>4 DEF Mock!Completes, MockSessions
    <3>4. \A u \in Turns : x4[u] = "asks" /\ x2.registered => u = t
      BY <3>1 DEF MockAsks
    <3>5. QED
      BY <1>1, <3>2, <3>3, <3>4
  <2>5. QED
    BY <1>3, <2>2, <2>3, <2>4 DEF Mock!RunScript
<1>4. CASE Mock!RespondToApproval
  <2>1. x4' = [x4 EXCEPT ![x2.waiter] = "decided"] /\ x2.waiter \in Turns
    BY <1>0, <1>4 DEF Mock!RespondToApproval, MaybeTurn
  <2>2. /\ x4' \in [Turns -> Mock!Scripts] /\ x4'[x2.waiter] # "asks"
        /\ \A u \in Turns : x4'[u] = "asks" => x4[u] = "asks"
    BY <1>0, <2>1 DEF Mock!Scripts
  <2>3. x2.registered
    BY <1>4 DEF Mock!RespondToApproval
  <2>4. \A u \in Turns : x4[u] = "asks" => u = x2.waiter
    BY <2>3 DEF MockAsks
  <2>5. QED
    BY <1>1, <2>2, <2>4
<1>5. ASSUME NEW t \in Turns, Mock!Stop(t) PROVE MockAsks'
  <2>1. CASE x2.registered /\ x2.active = t
    <3>1. x4' = [u \in Turns |-> IF u = x2.waiter THEN "decided" ELSE x4[u]]
      BY <1>5, <2>1 DEF Mock!Stop
    <3>2. x4' \in [Turns -> Mock!Scripts] /\ \A u \in Turns : x4'[u] # "asks"
      BY <1>0, <2>1, <3>1 DEF Mock!Scripts, MockAsks
    <3>3. QED
      BY <1>1, <3>2
  <2>2. CASE ~(x2.registered /\ x2.active = t)
    BY <1>5, <2>2 DEF Mock!Stop, MockAsks
  <2>3. QED
    BY <2>1, <2>2
<1>6. CASE Mock!StopSession
  <2>1. x4' = x4 /\ ~x2'.registered
    BY <1>0, <1>6 DEF Mock!StopSession, MockSessions
  <2>2. QED
    BY <1>0, <1>1, <2>1
<1>7. QED
  BY <1>2, <1>3, <1>4, <1>5, <1>6 DEF Mock!Next, Mock!Adapter

LEMMA MockAsksWell == MockAsks => Mock!AskedCanBeAnswered
BY DEF MockAsks, Mock!AskedCanBeAnswered

-----------------------------------------------------------------------------
(* What kinds of message a pipe holds                                       *)

Never(pipe, k) == \A i \in DOMAIN pipe : pipe[i].kind # k

(* It holds m, and nothing else of its kind.                                *)
Sole(pipe, m) ==
  \E i \in DOMAIN pipe :
    pipe[i] = m /\ \A j \in DOMAIN pipe : pipe[j].kind = m.kind => j = i

LEMMA PipeKinds ==
  ASSUME NEW S, NEW q \in Seq(S), NEW r \in Seq(S)
  PROVE  /\ \A k : Never(q, k) /\ Never(r, k) => Never(q \o r, k)
         /\ \A m : Sole(q, m) /\ Never(r, m.kind) => Sole(q \o r, m)
         /\ \A m : Never(q, m.kind) /\ Sole(r, m) => Sole(q \o r, m)
<1>1. /\ Len(q) \in Nat /\ Len(r) \in Nat /\ DOMAIN (q \o r) = 1..(Len(q) + Len(r))
      /\ DOMAIN q = 1..Len(q) /\ DOMAIN r = 1..Len(r)
      /\ \A i \in 1..Len(q) : (q \o r)[i] = q[i]
      /\ \A i \in 1..Len(r) : (q \o r)[Len(q) + i] = r[i]
  OBVIOUS
<1>k. PICK k \in Nat : k = Len(q)
  BY <1>1
<1>l. PICK l \in Nat : l = Len(r)
  BY <1>1
<1>p. PICK p : p = q \o r
  OBVIOUS
<1>2. /\ p = q \o r /\ k = Len(q) /\ l = Len(r)
      /\ DOMAIN p = 1..(k + l) /\ DOMAIN q = 1..k /\ DOMAIN r = 1..l
      /\ \A i \in 1..k : p[i] = q[i]
      /\ \A i \in 1..l : p[k + i] = r[i]
  BY <1>1, <1>k, <1>l, <1>p
<1>3. \A i \in 1..(k + l) : i \in 1..k \/ \E j \in 1..l : i = k + j
  <2> SUFFICES ASSUME NEW i \in 1..(k + l), i \notin 1..k PROVE \E j \in 1..l : i = k + j
    OBVIOUS
  <2>1. i - k \in 1..l /\ i = k + (i - k)
    BY <1>2
  <2>2. QED
    BY <2>1
<1>4. \A i \in 1..k : i \in 1..(k + l)
  BY <1>2
<1>5. \A i \in 1..l : k + i \in 1..(k + l)
  BY <1>2
<1>6. ASSUME NEW n, Never(q, n), Never(r, n) PROVE Never(p, n)
  <2> SUFFICES ASSUME NEW i \in 1..(k + l) PROVE p[i].kind # n
    BY <1>2 DEF Never
  <2>1. CASE i \in 1..k
    BY <1>2, <1>6, <2>1 DEF Never
  <2>2. CASE i \notin 1..k
    <3>1. PICK j \in 1..l : i = k + j
      BY <1>3, <2>2
    <3>2. QED
      BY <1>2, <1>6, <3>1 DEF Never
  <2>3. QED
    BY <2>1, <2>2
<1>7. ASSUME NEW m, Sole(q, m), Never(r, m.kind) PROVE Sole(p, m)
  <2>0. Sole(q, m) /\ DOMAIN q = 1..k
    BY <1>2, <1>7
  <2>1. PICK i \in 1..k : q[i] = m /\ \A j \in 1..k : q[j].kind = m.kind => j = i
    BY <2>0 DEF Sole
  <2>2. i \in 1..(k + l) /\ p[i] = m
    BY <1>2, <1>4, <2>1
  <2>3. ASSUME NEW j \in 1..(k + l), p[j].kind = m.kind PROVE j = i
    <3>1. CASE j \in 1..k
      BY <1>2, <2>1, <2>3, <3>1
    <3>2. CASE j \notin 1..k
      <4>1. PICK n \in 1..l : j = k + n
        BY <1>3, <3>2
      <4>2. QED
        BY <1>2, <1>7, <2>3, <4>1 DEF Never
    <3>3. QED
      BY <3>1, <3>2
  <2>4. QED
    BY <1>2, <2>2, <2>3 DEF Sole
<1>8. ASSUME NEW m, Never(q, m.kind), Sole(r, m) PROVE Sole(p, m)
  <2>1. PICK i \in 1..l : r[i] = m /\ \A j \in 1..l : r[j].kind = m.kind => j = i
    BY <1>2, <1>8 DEF Sole
  <2>2. k + i \in 1..(k + l) /\ p[k + i] = m
    BY <1>2, <1>5, <2>1
  <2>3. ASSUME NEW j \in 1..(k + l), p[j].kind = m.kind PROVE j = k + i
    <3>1. j \notin 1..k
      BY <1>2, <1>8, <2>3 DEF Never
    <3>2. PICK n \in 1..l : j = k + n
      BY <1>3, <3>1
    <3>3. QED
      BY <1>2, <2>1, <2>3, <3>2
  <2>4. QED
    BY <1>2, <2>2, <2>3 DEF Sole
<1>9. QED
  BY <1>2, <1>6, <1>7, <1>8

LEMMA PipeKindsRead ==
  ASSUME NEW S, NEW q \in Seq(S), q # <<>>
  PROVE  /\ \A k : Never(q, k) => Never(Tail(q), k) /\ Head(q).kind # k
         /\ \A m : Sole(q, m) /\ Head(q).kind # m.kind => Sole(Tail(q), m)
         /\ \A m : Sole(q, m) /\ Head(q).kind = m.kind => Head(q) = m /\ Never(Tail(q), m.kind)
<1>1. /\ Tail(q) \in Seq(S) /\ Head(q) = q[1] /\ Head(q) \in S /\ Len(q) \in Nat \ {0}
      /\ DOMAIN q = 1..Len(q) /\ DOMAIN Tail(q) = 1..(Len(q) - 1)
      /\ \A i \in 1..(Len(q) - 1) : Tail(q)[i] = q[i + 1]
  OBVIOUS
<1>2. PICK k, p, h :
        /\ k \in Nat \ {0}
        /\ p = Tail(q) /\ k = Len(q) /\ h = Head(q) /\ h = q[1] /\ DOMAIN q = 1..k
        /\ DOMAIN p = 1..(k - 1) /\ \A i \in 1..(k - 1) : p[i] = q[i + 1]
  BY <1>1
<1>3. /\ \A i \in 1..(k - 1) : i + 1 \in 1..k /\ i + 1 # 1
      /\ \A i \in 1..(k - 1), j \in 1..(k - 1) : i + 1 = j + 1 => i = j
      /\ 1 \in 1..k
  BY <1>2
<1>4. \A i \in 1..k : i = 1 \/ \E j \in 1..(k - 1) : i = j + 1
  <2> SUFFICES ASSUME NEW i \in 1..k, i # 1 PROVE \E j \in 1..(k - 1) : i = j + 1
    OBVIOUS
  <2>1. i - 1 \in 1..(k - 1) /\ i = (i - 1) + 1
    BY <1>2
  <2>2. QED
    BY <2>1
<1>5. ASSUME NEW n, Never(q, n) PROVE Never(p, n) /\ h.kind # n
  BY <1>2, <1>3, <1>5 DEF Never
<1>6. ASSUME NEW m, Sole(q, m), h.kind # m.kind PROVE Sole(p, m)
  <2>1. PICK i \in 1..k : q[i] = m /\ \A j \in 1..k : q[j].kind = m.kind => j = i
    BY <1>2, <1>6 DEF Sole
  <2>2. i # 1
    BY <1>2, <1>6, <2>1
  <2>3. PICK j \in 1..(k - 1) : i = j + 1
    BY <1>4, <2>2
  <2>4. p[j] = m
    BY <1>2, <2>1, <2>3
  <2>5. ASSUME NEW n \in 1..(k - 1), p[n].kind = m.kind PROVE n = j
    <3>1. q[n + 1].kind = m.kind /\ n + 1 \in 1..k
      BY <1>2, <1>3, <2>5
    <3>2. n + 1 = j + 1
      BY <2>1, <2>3, <3>1
    <3>3. QED
      BY <1>3, <3>2
  <2>6. j \in DOMAIN p /\ DOMAIN p = 1..(k - 1)
    BY <1>2
  <2>7. QED
    BY <2>4, <2>5, <2>6 DEF Sole
<1>7. ASSUME NEW m, Sole(q, m), h.kind = m.kind PROVE h = m /\ Never(p, m.kind)
  <2>0. Sole(q, m) /\ DOMAIN q = 1..k
    BY <1>2, <1>7
  <2>1. PICK i \in 1..k : q[i] = m /\ \A j \in 1..k : q[j].kind = m.kind => j = i
    BY <2>0 DEF Sole
  <2>2. i = 1
    BY <1>2, <1>3, <1>7, <2>1
  <2>3. ASSUME NEW n \in 1..(k - 1) PROVE p[n].kind # m.kind
    <3>1. n + 1 \in 1..k /\ n + 1 # 1 /\ p[n] = q[n + 1]
      BY <1>2, <1>3
    <3>2. QED
      BY <2>1, <2>2, <3>1
  <2>4. QED
    BY <1>2, <2>1, <2>2, <2>3 DEF Never
<1>8. QED
  BY <1>2, <1>5, <1>6, <1>7

(* A pipe of one message, and of none.                                      *)
LEMMA PipeOfOne ==
  /\ \A m : Holds(<<m>>, m) /\ Sole(<<m>>, m)
  /\ \A m, n : Holds(<<m>>, n) => n = m
  /\ \A m, k : m.kind # k => Never(<<m>>, k)
  /\ \A S, m : m \in S => <<m>> \in Seq(S)
  /\ \A k : Never(<<>>, k)
  /\ \A S : <<>> \in Seq(S)
<1>1. \A m : DOMAIN <<m>> = {1} /\ <<m>>[1] = m
  OBVIOUS
<1>2. DOMAIN <<>> = {}
  OBVIOUS
<1>3. /\ \A m : Holds(<<m>>, m) /\ Sole(<<m>>, m)
      /\ \A m, n : Holds(<<m>>, n) => n = m
      /\ \A m, k : m.kind # k => Never(<<m>>, k)
  BY <1>1 DEF Holds, Sole, Never
<1>4. \A k : Never(<<>>, k)
  BY <1>2 DEF Never
<1>5. /\ \A S, m : m \in S => <<m>> \in Seq(S)
      /\ \A S : <<>> \in Seq(S)
  OBVIOUS
<1>6. QED
  BY <1>3, <1>4, <1>5

(* The members of a finite set, in some order.                              *)
LEMMA PipeOfSet ==
  ASSUME NEW S, IsFiniteSet(S)
  PROVE  Acp!SetToSeq(S) \in Seq(S) /\ \A m : Holds(Acp!SetToSeq(S), m) <=> m \in S
<1>1. PICK k, f : k \in Nat /\ k = Cardinality(S) /\ f \in Bijection(1..k, S)
  BY FS_CardinalityType DEF ExistsBijection
<1>2. Acp!Cardinality(S) = Cardinality(S)
  BY DEF Acp!Cardinality, Cardinality
<1>3. f \in [1..k -> S] /\ Acp!IsInjective(f)
  BY <1>1 DEF Bijection, Injection, Surjection, IsInjective, Acp!IsInjective
<1>4. PICK g : g = Acp!SetToSeq(S)
  OBVIOUS
<1>5. g \in [1..k -> S] /\ Acp!IsInjective(g)
  BY <1>1, <1>2, <1>3, <1>4 DEF Acp!SetToSeq
<1>6. IsFiniteSet(1..k) /\ Cardinality(1..k) = k
  <2>1. 1 \in Int /\ k \in Int
    BY <1>1
  <2>2. IsFiniteSet(1..k) /\ Cardinality(1..k) = IF 1 > k THEN 0 ELSE k - 1 + 1
    BY <2>1, FS_Interval, Zenon
  <2>3. QED
    BY <1>1, <2>2
<1>7. g \in Injection(1..k, S)
  BY <1>5 DEF Injection, IsInjective, Acp!IsInjective
<1>8. g \in Surjection(1..k, S)
  BY <1>1, <1>6, <1>7, FS_Injection
<1>9. \A m \in S : \E i \in 1..k : g[i] = m
  BY <1>8 DEF Surjection
<1>10. g \in Seq(S) /\ DOMAIN g = 1..k
  BY <1>1, <1>5
<1>11. \A m : Holds(g, m) <=> m \in S
  BY <1>5, <1>9, <1>10 DEF Holds
<1>12. QED
  BY <1>4, <1>10, <1>11

-----------------------------------------------------------------------------
(* The acp adapters: the one prompt that is out, and what the agent waits   *)
(* for                                                                      *)

AcpKinds == {"prompt", "decline", "cancel", "prompt done", "ask"}
AcpMsgs == [kind : AcpKinds, turn : MaybeTurn]
Agents ==
  [alive : BOOLEAN, inp : Seq(AcpMsgs), out : Seq(AcpMsgs),
   running : MaybeTurn, asking : MaybeTurn, asked : SUBSET MaybeTurn]

AcpTyped ==
  /\ AcpFields \subseteq DOMAIN x2 /\ x2.active \in MaybeTurn
  /\ x2.pending \subseteq MaybeTurn /\ IsFiniteSet(x2.pending)
  /\ x5 \in Agents

(* The prompt of the active turn is on its way, being worked on or answered. *)
PromptIs(s, a) ==
  \/ /\ s.active = NoTurn /\ a.running = NoTurn
     /\ Never(a.inp, "prompt") /\ Never(a.out, "prompt done")
  \/ /\ s.active \in Turns /\ a.running = NoTurn
     /\ Sole(a.inp, Acp!Msg("prompt", s.active)) /\ Never(a.out, "prompt done")
  \/ /\ s.active \in Turns /\ a.running = s.active
     /\ Never(a.inp, "prompt") /\ Never(a.out, "prompt done")
  \/ /\ s.active \in Turns /\ a.running = NoTurn
     /\ Never(a.inp, "prompt") /\ Sole(a.out, Acp!Msg("prompt done", s.active))

(* A permission the agent waits for is on its way to the user, with the     *)
(* user, or on its way back.                                                *)
AskIs(s, a) ==
  a.asking # NoTurn =>
    /\ a.asking = a.running
    /\ \/ Holds(a.out, Acp!Msg("ask", a.asking))
       \/ a.asking \in s.pending
       \/ Holds(a.inp, Acp!Msg("decline", a.asking))
       \/ Holds(a.inp, Acp!Msg("cancel", a.asking))

AcpLives ==
  /\ AcpTyped /\ AskIs(x2, x5)
  /\ x5.alive <=> x2.acp # "none"
  /\ x2.acp # "none" => PromptIs(x2, x5)
  /\ x2.acp # "open" => x2.active = NoTurn /\ x5.running = NoTurn

LEMMA AcpMsg ==
  /\ \A k, t : Acp!Msg(k, t).kind = k /\ Acp!Msg(k, t).turn = t
  /\ \A k \in AcpKinds, t \in MaybeTurn : Acp!Msg(k, t) \in AcpMsgs
  /\ \A m \in AcpMsgs : m = Acp!Msg(m.kind, m.turn)
  /\ {"prompt", "decline", "cancel", "prompt done", "ask"} \subseteq AcpKinds
<1>1. /\ \A k, t : Acp!Msg(k, t).kind = k /\ Acp!Msg(k, t).turn = t
      /\ \A k \in AcpKinds, t \in MaybeTurn : Acp!Msg(k, t) \in AcpMsgs
      /\ \A m \in AcpMsgs : m = Acp!Msg(m.kind, m.turn)
  BY DEF Acp!Msg, AcpMsgs
<1>2. {"prompt", "decline", "cancel", "prompt done", "ask"} \subseteq AcpKinds
  BY DEF AcpKinds
<1>3. QED
  BY <1>1, <1>2

LEMMA AcpLivesAtFirst == Acp!Init => AcpLives
<1> SUFFICES ASSUME Acp!Init PROVE AcpLives
  OBVIOUS
<1>1. /\ AcpFields \subseteq DOMAIN x2 /\ x2.active = NoTurn /\ x2.pending = {}
      /\ x2.acp = "initialize"
  BY DEF Acp!Init, AcpFields
<1>2. /\ x5 \in Agents /\ x5.alive /\ x5.inp = <<>> /\ x5.out = <<>> /\ x5.running = NoTurn
      /\ x5.asking = NoTurn
  <2>1. <<>> \in Seq(AcpMsgs)
    OBVIOUS
  <2>2. QED
    BY <2>1 DEF Acp!Init, Agents, MaybeTurn
<1>3. IsFiniteSet({}) /\ Never(<<>>, "prompt") /\ Never(<<>>, "prompt done")
  BY FS_EmptySet, PipeOfOne
<1>4. PromptIs(x2, x5) /\ AskIs(x2, x5)
  BY <1>1, <1>2, <1>3 DEF PromptIs, AskIs
<1>5. QED
  BY <1>1, <1>2, <1>3, <1>4 DEF AcpLives, AcpTyped, MaybeTurn

(* What the adapter writes is no prompt unless it says so, and what was on  *)
(* its way stays on its way.                                                *)
LEMMA AcpWrites ==
  ASSUME AcpTyped, x5.alive, NEW r \in Seq(AcpMsgs), NEW a, a = Acp!Wrote(r)
  PROVE  /\ a \in Agents /\ a = [x5 EXCEPT !.inp = a.inp] /\ a.inp = x5.inp \o r
         /\ a.alive = x5.alive /\ a.out = x5.out /\ a.running = x5.running /\ a.asking = x5.asking
         /\ \A m : Holds(a.inp, m) <=> Holds(x5.inp, m) \/ Holds(r, m)
         /\ Never(x5.inp, "prompt") /\ Never(r, "prompt") => Never(a.inp, "prompt")
         /\ \A t : Sole(x5.inp, Acp!Msg("prompt", t)) /\ Never(r, "prompt")
                     => Sole(a.inp, Acp!Msg("prompt", t))
         /\ \A t : Never(x5.inp, "prompt") /\ Sole(r, Acp!Msg("prompt", t))
                     => Sole(a.inp, Acp!Msg("prompt", t))
<1>1. x5 \in Agents /\ x5.inp \in Seq(AcpMsgs)
  BY DEF AcpTyped, Agents
<1>2. PICK p : p = x5.inp \o r
  OBVIOUS
<1>3. p \in Seq(AcpMsgs) /\ \A m : Holds(p, m) <=> Holds(x5.inp, m) \/ Holds(r, m)
  BY <1>1, <1>2, PipeGrows
<1>4. /\ \A k : Never(x5.inp, k) /\ Never(r, k) => Never(p, k)
      /\ \A m : Sole(x5.inp, m) /\ Never(r, m.kind) => Sole(p, m)
      /\ \A m : Never(x5.inp, m.kind) /\ Sole(r, m) => Sole(p, m)
  BY <1>1, <1>2, PipeKinds
<1>5. a = [x5 EXCEPT !.inp = p]
  BY <1>2 DEF Acp!Wrote
<1>6. /\ a \in Agents /\ a = [x5 EXCEPT !.inp = a.inp] /\ a.inp = p
      /\ a.alive = x5.alive /\ a.out = x5.out /\ a.running = x5.running /\ a.asking = x5.asking
  BY <1>1, <1>3, <1>5 DEF Agents
<1>7. \A t : Acp!Msg("prompt", t).kind = "prompt"
  BY AcpMsg
<1>8. /\ \A t : Sole(x5.inp, Acp!Msg("prompt", t)) /\ Never(r, "prompt")
                  => Sole(p, Acp!Msg("prompt", t))
      /\ \A t : Never(x5.inp, "prompt") /\ Sole(r, Acp!Msg("prompt", t))
                  => Sole(p, Acp!Msg("prompt", t))
  BY <1>4, <1>7
<1>9. Never(x5.inp, "prompt") /\ Never(r, "prompt") => Never(p, "prompt")
  BY <1>4
<1>10. QED
  BY <1>2, <1>3, <1>6, <1>8, <1>9

(* What reading a message leaves.                                           *)
LEMMA AcpReads ==
  ASSUME AcpTyped, x5.out # <<>>, NEW a, a = Acp!Read, NEW h, h = Head(x5.out)
  PROVE  /\ a \in Agents /\ a = [x5 EXCEPT !.out = Tail(x5.out)] /\ a.out = Tail(x5.out)
         /\ a.alive = x5.alive /\ a.inp = x5.inp /\ a.running = x5.running /\ a.asking = x5.asking
         /\ h \in AcpMsgs /\ h.turn \in MaybeTurn /\ h = Acp!Msg(h.kind, h.turn)
         /\ Tail(x5.out) \in Seq(AcpMsgs)
         /\ \A m : Holds(x5.out, m) => m = h \/ Holds(a.out, m)
         /\ Never(x5.out, "prompt done") => Never(a.out, "prompt done") /\ h.kind # "prompt done"
         /\ \A t : Sole(x5.out, Acp!Msg("prompt done", t)) =>
              IF h.kind = "prompt done"
              THEN h.turn = t /\ Never(a.out, "prompt done")
              ELSE Sole(a.out, Acp!Msg("prompt done", t))
<1>1. x5 \in Agents /\ x5.out \in Seq(AcpMsgs)
  BY DEF AcpTyped, Agents
<1>2. PICK p : p = Tail(x5.out)
  OBVIOUS
<1>3. p \in Seq(AcpMsgs) /\ h \in AcpMsgs /\ \A m : Holds(x5.out, m) <=> m = h \/ Holds(p, m)
  BY <1>1, <1>2, PipeRead
<1>4. /\ \A k : Never(x5.out, k) => Never(p, k) /\ h.kind # k
      /\ \A m : Sole(x5.out, m) /\ h.kind # m.kind => Sole(p, m)
      /\ \A m : Sole(x5.out, m) /\ h.kind = m.kind => h = m /\ Never(p, m.kind)
  BY <1>1, <1>2, PipeKindsRead
<1>5. a = [x5 EXCEPT !.out = p]
  BY <1>2 DEF Acp!Read
<1>6. /\ a \in Agents /\ a.out = p
      /\ a.alive = x5.alive /\ a.inp = x5.inp /\ a.running = x5.running /\ a.asking = x5.asking
  BY <1>1, <1>3, <1>5 DEF Agents
<1>7. h.turn \in MaybeTurn /\ h = Acp!Msg(h.kind, h.turn)
  BY <1>3, AcpMsg DEF AcpMsgs
<1>8. \A t : Acp!Msg("prompt done", t).kind = "prompt done" /\ Acp!Msg("prompt done", t).turn = t
  BY AcpMsg
<1>9. ASSUME NEW t, Sole(x5.out, Acp!Msg("prompt done", t))
      PROVE  IF h.kind = "prompt done"
             THEN h.turn = t /\ Never(a.out, "prompt done")
             ELSE Sole(a.out, Acp!Msg("prompt done", t))
  BY <1>4, <1>6, <1>8, <1>9
<1>10. QED
  BY <1>2, <1>3, <1>4, <1>5, <1>6, <1>7, <1>9

(* What the agent takes.                                                    *)
LEMMA AgentReads ==
  ASSUME AcpTyped, x5.inp # <<>>, NEW a, a = Acp!Took, NEW h, h = Head(x5.inp)
  PROVE  /\ a \in Agents /\ a.inp = Tail(x5.inp) /\ a = [x5 EXCEPT !.inp = Tail(x5.inp)]
         /\ a.alive = x5.alive /\ a.out = x5.out /\ a.running = x5.running /\ a.asking = x5.asking
         /\ h \in AcpMsgs /\ h.turn \in MaybeTurn /\ h = Acp!Msg(h.kind, h.turn)
         /\ \A m : Holds(x5.inp, m) => m = h \/ Holds(a.inp, m)
         /\ Never(x5.inp, "prompt") => Never(a.inp, "prompt") /\ h.kind # "prompt"
         /\ \A t : Sole(x5.inp, Acp!Msg("prompt", t)) =>
              IF h.kind = "prompt"
              THEN h.turn = t /\ Never(a.inp, "prompt")
              ELSE Sole(a.inp, Acp!Msg("prompt", t))
<1>1. x5 \in Agents /\ x5.inp \in Seq(AcpMsgs)
  BY DEF AcpTyped, Agents
<1>2. PICK p : p = Tail(x5.inp)
  OBVIOUS
<1>3. p \in Seq(AcpMsgs) /\ h \in AcpMsgs /\ \A m : Holds(x5.inp, m) <=> m = h \/ Holds(p, m)
  BY <1>1, <1>2, PipeRead
<1>4. /\ \A k : Never(x5.inp, k) => Never(p, k) /\ h.kind # k
      /\ \A m : Sole(x5.inp, m) /\ h.kind # m.kind => Sole(p, m)
      /\ \A m : Sole(x5.inp, m) /\ h.kind = m.kind => h = m /\ Never(p, m.kind)
  BY <1>1, <1>2, PipeKindsRead
<1>5. a = [x5 EXCEPT !.inp = p]
  BY <1>2 DEF Acp!Took
<1>6. /\ a \in Agents /\ a.inp = p
      /\ a.alive = x5.alive /\ a.out = x5.out /\ a.running = x5.running /\ a.asking = x5.asking
  BY <1>1, <1>3, <1>5 DEF Agents
<1>7. h.turn \in MaybeTurn /\ h = Acp!Msg(h.kind, h.turn)
  BY <1>3, AcpMsg DEF AcpMsgs
<1>8. \A t : Acp!Msg("prompt", t).kind = "prompt" /\ Acp!Msg("prompt", t).turn = t
  BY AcpMsg
<1>9. ASSUME NEW t, Sole(x5.inp, Acp!Msg("prompt", t))
      PROVE  IF h.kind = "prompt"
             THEN h.turn = t /\ Never(a.inp, "prompt")
             ELSE Sole(a.inp, Acp!Msg("prompt", t))
  BY <1>4, <1>6, <1>8, <1>9
<1>10. QED
  BY <1>2, <1>3, <1>4, <1>5, <1>6, <1>7, <1>9

(* What the agent says comes behind what it has said.                       *)
LEMMA AgentSays ==
  ASSUME AcpTyped, NEW m \in AcpMsgs, NEW p, p = Append(x5.out, m)
  PROVE  /\ p \in Seq(AcpMsgs) /\ Holds(p, m)
         /\ \A n : Holds(x5.out, n) => Holds(p, n)
         /\ m.kind # "prompt done" /\ Never(x5.out, "prompt done") => Never(p, "prompt done")
         /\ \A n : Sole(x5.out, n) /\ n.kind # m.kind => Sole(p, n)
         /\ Never(x5.out, m.kind) => Sole(p, m)
<1>1. x5.out \in Seq(AcpMsgs)
  BY DEF AcpTyped, Agents
<1>2. PICK r : r = <<m>>
  OBVIOUS
<1>3. /\ r \in Seq(AcpMsgs) /\ Holds(r, m) /\ Sole(r, m)
      /\ \A k : m.kind # k => Never(r, k)
  <2>1. r \in Seq(AcpMsgs)
    BY <1>2
  <2>2. QED
    BY <1>2, <2>1, PipeOfOne
<1>4. p = x5.out \o r
  BY <1>1, <1>2
<1>5. p \in Seq(AcpMsgs) /\ \A n : Holds(p, n) <=> Holds(x5.out, n) \/ Holds(r, n)
  BY <1>1, <1>3, <1>4, PipeGrows
<1>6. /\ \A k : Never(x5.out, k) /\ Never(r, k) => Never(p, k)
      /\ \A n : Sole(x5.out, n) /\ Never(r, n.kind) => Sole(p, n)
      /\ \A n : Never(x5.out, n.kind) /\ Sole(r, n) => Sole(p, n)
  BY <1>1, <1>3, <1>4, PipeKinds
<1>7. QED
  BY <1>3, <1>5, <1>6

(* The agent works, and what it takes is no prompt.                         *)
LEMMA PromptStays ==
  ASSUME AcpTyped, PromptIs(x2, x5), NEW a,
         a.running = x5.running, a.out = x5.out,
         Never(x5.inp, "prompt") => Never(a.inp, "prompt"),
         \A t : Sole(x5.inp, Acp!Msg("prompt", t)) => Sole(a.inp, Acp!Msg("prompt", t))
  PROVE  PromptIs(x2, a)
BY DEF PromptIs

(* What the agent does.                                                     *)
LEMMA AgentLives ==
  ASSUME AcpLives, Acp!Agent
  PROVE  AcpLives'
<1> USE NoTurnIsNoTurn
<1>0. /\ x2' = x2 /\ AcpTyped /\ x5 \in Agents /\ AskIs(x2, x5)
      /\ x5.running \in MaybeTurn /\ x5.asking \in MaybeTurn /\ x5.out \in Seq(AcpMsgs)
      /\ NoTurn \in MaybeTurn /\ Turns \subseteq MaybeTurn
      /\ (x2.acp # "open" => x2.active = NoTurn /\ x5.running = NoTurn)
      /\ (x2.acp # "none" => PromptIs(x2, x5)) /\ (x5.alive <=> x2.acp # "none")
  BY DEF AcpLives, AcpTyped, Acp!Agent, Agents, MaybeTurn
<1>1. ASSUME x5' \in Agents, x5'.alive = x5.alive,
             x2.acp # "open" => x5'.running = NoTurn,
             x2.acp # "none" => PromptIs(x2, x5'),
             AskIs(x2, x5')
      PROVE  AcpLives'
  <2>1. AcpTyped'
    BY <1>0, <1>1 DEF AcpTyped
  <2>2. PromptIs(x2, x5)' <=> PromptIs(x2, x5')
    BY <1>0 DEF PromptIs
  <2>3. AskIs(x2, x5)' <=> AskIs(x2, x5')
    BY <1>0 DEF AskIs
  <2>4. QED
    BY <1>0, <1>1, <2>1, <2>2, <2>3 DEF AcpLives
<1>2. PICK a, h : a = Acp!Took /\ h = Head(x5.inp)
  OBVIOUS
<1>3. ASSUME x5.inp # <<>>
      PROVE  /\ a \in Agents /\ a = [x5 EXCEPT !.inp = a.inp]
             /\ a.alive = x5.alive /\ a.out = x5.out /\ a.running = x5.running /\ a.asking = x5.asking
             /\ h \in AcpMsgs /\ h.turn \in MaybeTurn /\ h = Acp!Msg(h.kind, h.turn)
             /\ \A m : Holds(x5.inp, m) => m = h \/ Holds(a.inp, m)
             /\ Never(x5.inp, "prompt") => Never(a.inp, "prompt") /\ h.kind # "prompt"
             /\ \A t : Sole(x5.inp, Acp!Msg("prompt", t)) =>
                  IF h.kind = "prompt"
                  THEN h.turn = t /\ Never(a.inp, "prompt")
                  ELSE Sole(a.inp, Acp!Msg("prompt", t))
  BY <1>0, <1>2, <1>3, AgentReads
<1>4. ASSUME x5.inp # <<>>, h.kind # "prompt", x5.alive PROVE PromptIs(x2, a)
  BY <1>0, <1>3, <1>4, PromptStays
<1>5. CASE Acp!AgentPrompted
  <2>1. /\ x5.inp # <<>> /\ h.kind = "prompt" /\ x5.running = NoTurn /\ x5.asking = NoTurn
        /\ x2.acp # "none"
        /\ x5' = [a EXCEPT !.running = h.turn]
    BY <1>0, <1>2, <1>5 DEF Acp!AgentPrompted, Acp!AgentTakes, AskIs
  <2>2. /\ x5' \in Agents /\ x5'.alive = x5.alive /\ x5'.running = h.turn /\ x5'.out = x5.out
        /\ x5'.inp = a.inp /\ x5'.asking = NoTurn
    BY <1>3, <2>1 DEF Agents
  <2>3. /\ x2.active \in Turns /\ Sole(x5.inp, Acp!Msg("prompt", x2.active))
        /\ Never(x5.out, "prompt done")
    BY <1>0, <1>3, <2>1 DEF PromptIs
  <2>4. h.turn = x2.active /\ Never(a.inp, "prompt")
    BY <1>3, <2>1, <2>3
  <2>5. PromptIs(x2, x5')
    BY <2>2, <2>3, <2>4 DEF PromptIs
  <2>6. AskIs(x2, x5')
    BY <2>2 DEF AskIs
  <2>7. QED
    BY <1>0, <1>1, <2>2, <2>3, <2>5, <2>6
<1>6. ASSUME x5.running # NoTurn, NEW b \in Agents, b.running = x5.running, b.out = x5.out,
             b.alive = x5.alive, Never(x5.inp, "prompt") => Never(b.inp, "prompt"),
             x5' = Acp!Done(b)
      PROVE  AcpLives'
  <2>1. PICK m, p : m = Acp!Msg("prompt done", x5.running) /\ p = Append(x5.out, m)
    OBVIOUS
  <2>2. m \in AcpMsgs /\ m.kind = "prompt done"
    BY <1>0, <2>1, AcpMsg
  <2>3. p \in Seq(AcpMsgs) /\ (Never(x5.out, "prompt done") => Sole(p, m))
    BY <1>0, <2>1, <2>2, AgentSays
  <2>4. x5' = [b EXCEPT !.running = NoTurn, !.asking = NoTurn, !.out = p]
    BY <1>6, <2>1 DEF Acp!Done
  <2>5. /\ x5' \in Agents /\ x5'.alive = x5.alive /\ x5'.running = NoTurn /\ x5'.asking = NoTurn
        /\ x5'.out = p /\ x5'.inp = b.inp
    BY <1>0, <1>6, <2>3, <2>4 DEF Agents
  <2>6. x2.acp = "open"
    BY <1>0, <1>6
  <2>7. /\ x2.active \in Turns /\ x5.running = x2.active
        /\ Never(x5.inp, "prompt") /\ Never(x5.out, "prompt done")
    BY <1>0, <1>6, <2>6 DEF PromptIs
  <2>8. PromptIs(x2, x5')
    BY <1>6, <2>1, <2>3, <2>5, <2>7 DEF PromptIs
  <2>9. AskIs(x2, x5')
    BY <2>5 DEF AskIs
  <2>10. QED
    BY <1>1, <2>5, <2>6, <2>8, <2>9
<1>7. CASE Acp!AgentCancelled
  <2>1. x5.inp # <<>> /\ h.kind = "cancel" /\ x5.alive
    BY <1>2, <1>7 DEF Acp!AgentCancelled, Acp!AgentTakes
  <2>2. CASE x5.running = NoTurn
    <3>1. x5' = a
      BY <1>2, <1>7, <2>2 DEF Acp!AgentCancelled
    <3>2. AskIs(x2, a)
      BY <1>0, <1>3, <2>1, <2>2 DEF AskIs
    <3>3. QED
      BY <1>1, <1>3, <1>4, <2>1, <2>2, <3>1, <3>2
  <2>3. CASE x5.running # NoTurn
    <3>1. x5' = Acp!Done(a)
      BY <1>2, <1>7, <2>3 DEF Acp!AgentCancelled
    <3>2. QED
      BY <1>3, <1>6, <2>1, <2>3, <3>1
  <2>4. QED
    BY <2>2, <2>3
<1>8. CASE Acp!AgentAnswered
  <2>1. PICK n : n = IF x5.asking = h.turn THEN NoTurn ELSE x5.asking
    OBVIOUS
  <2>2. x5.inp # <<>> /\ h.kind = "decline" /\ x5.alive /\ x5' = [a EXCEPT !.asking = n]
    <3>1. x5.inp # <<>> /\ h.kind = "decline" /\ x5.alive
      BY <1>2, <1>8 DEF Acp!AgentAnswered, Acp!AgentTakes
    <3>2. x5' = [a EXCEPT !.asking = IF @ = h.turn THEN NoTurn ELSE @]
      BY <1>2, <1>8 DEF Acp!AgentAnswered
    <3>3. QED
      BY <1>3, <2>1, <3>1, <3>2 DEF Agents
  <2>3. /\ x5' \in Agents /\ x5'.alive = x5.alive /\ x5'.running = x5.running /\ x5'.out = x5.out
        /\ x5'.inp = a.inp /\ x5'.asking = n
    BY <1>0, <1>3, <2>1, <2>2 DEF Agents
  <2>4. PromptIs(x2, x5')
    BY <1>0, <1>3, <2>2, <2>3, PromptStays
  <2>5. AskIs(x2, x5')
    <3> SUFFICES ASSUME n # NoTurn
                 PROVE  /\ n = x5.running
                        /\ \/ Holds(x5.out, Acp!Msg("ask", n))
                           \/ n \in x2.pending
                           \/ Holds(a.inp, Acp!Msg("decline", n))
                           \/ Holds(a.inp, Acp!Msg("cancel", n))
      BY <2>3 DEF AskIs
    <3>1. n = x5.asking /\ n # h.turn
      BY <2>1
    <3>2. Acp!Msg("decline", n) # h /\ Acp!Msg("cancel", n) # h
      <4>1. Acp!Msg("decline", n).turn = n /\ Acp!Msg("cancel", n).turn = n
        BY AcpMsg
      <4>2. QED
        BY <3>1, <4>1
    <3>3. QED
      BY <1>0, <1>3, <2>2, <3>1, <3>2 DEF AskIs
  <2>6. QED
    BY <1>0, <1>1, <1>3, <2>2, <2>3, <2>4, <2>5
<1>9. CASE Acp!AgentFinishes
  BY <1>0, <1>6, <1>9 DEF Acp!AgentFinishes
<1>10. CASE Acp!AgentAsks
  <2>1. PICK m, p, q : /\ m = Acp!Msg("ask", x5.running) /\ p = Append(x5.out, m)
                       /\ q = x5.asked \cup {x5.running}
    OBVIOUS
  <2>2. m \in AcpMsgs /\ m.kind = "ask"
    BY <1>0, <2>1, AcpMsg
  <2>3. /\ p \in Seq(AcpMsgs) /\ Holds(p, m)
        /\ Never(x5.out, "prompt done") => Never(p, "prompt done")
        /\ \A n : Sole(x5.out, n) /\ n.kind # "ask" => Sole(p, n)
    BY <1>0, <2>1, <2>2, AgentSays
  <2>4. x5' = [x5 EXCEPT !.asking = x5.running, !.asked = q, !.out = p]
    BY <1>10, <2>1 DEF Acp!AgentAsks
  <2>5. q \in SUBSET MaybeTurn
    BY <1>0, <2>1 DEF Agents
  <2>6. /\ x5' \in Agents /\ x5'.alive = x5.alive /\ x5'.running = x5.running
        /\ x5'.asking = x5.running /\ x5'.out = p /\ x5'.inp = x5.inp
    BY <1>0, <2>3, <2>4, <2>5 DEF Agents
  <2>7. \A t : Acp!Msg("prompt done", t).kind # "ask"
    <3>1. \A t : Acp!Msg("prompt done", t).kind = "prompt done"
      BY AcpMsg
    <3>2. QED
      BY <3>1
  <2>8. ASSUME x2.acp # "none" PROVE PromptIs(x2, x5')
    BY <1>0, <2>3, <2>6, <2>7, <2>8 DEF PromptIs
  <2>9. AskIs(x2, x5')
    BY <2>1, <2>3, <2>6 DEF AskIs
  <2>10. QED
    BY <1>0, <1>1, <2>6, <2>8, <2>9
<1>11. QED
  BY <1>5, <1>7, <1>8, <1>9, <1>10 DEF Acp!Agent, Acp!AgentWorks

(* A step that leaves the agent and its prompt alone.                       *)
LEMMA AcpRests ==
  ASSUME AcpLives, x5' = x5, AcpFields \subseteq DOMAIN x2',
         x2'.acp = x2.acp, x2'.active = x2.active, x2'.pending = x2.pending
  PROVE  AcpLives'
<1>1. PromptIs(x2, x5)' <=> PromptIs(x2, x5)
  BY DEF PromptIs
<1>2. AskIs(x2, x5)' <=> AskIs(x2, x5)
  BY DEF AskIs
<1>3. AcpTyped'
  BY DEF AcpLives, AcpTyped
<1>4. QED
  BY <1>1, <1>2, <1>3 DEF AcpLives

(* A step on the open protocol, after which it is open still.               *)
LEMMA AcpStaysOpen ==
  ASSUME AcpLives, x2.acp = "open", x2'.acp = "open", AcpFields \subseteq DOMAIN x2',
         x2'.active \in MaybeTurn, x2'.pending \subseteq MaybeTurn, IsFiniteSet(x2'.pending),
         x5' \in Agents, x5'.alive, PromptIs(x2', x5'), AskIs(x2', x5')
  PROVE  AcpLives'
BY DEF AcpLives, AcpTyped, PromptIs, AskIs

(* The adapter takes a turn, stops one, or answers a permission request.    *)
LEMMA AcpCallsLive ==
  ASSUME AcpLives, NEW t \in Turns, Acp!AcpSend(t) \/ Acp!AcpStop(t) \/ Acp!RespondToApproval(t)
  PROVE  AcpLives'
<1> USE NoTurnIsNoTurn
<1>0. /\ AcpTyped /\ x2.acp = "open" /\ x5.alive /\ x5 \in Agents /\ AskIs(x2, x5)
      /\ AcpFields \subseteq DOMAIN x2 /\ x2.active \in MaybeTurn
      /\ x2.pending \subseteq MaybeTurn /\ IsFiniteSet(x2.pending)
      /\ PromptIs(x2, x5) /\ NoTurn \in MaybeTurn /\ Turns \subseteq MaybeTurn
  BY DEF AcpLives, AcpTyped, Acp!AcpSend, Acp!AcpStop, Acp!RespondToApproval, Acp!OnAcp, MaybeTurn
<1>1. ASSUME NEW r \in Seq(AcpMsgs), x5' = Acp!Wrote(r)
      PROVE  /\ x5' \in Agents /\ x5'.alive = x5.alive /\ x5'.out = x5.out
             /\ x5'.running = x5.running /\ x5'.asking = x5.asking
             /\ \A m : Holds(x5'.inp, m) <=> Holds(x5.inp, m) \/ Holds(r, m)
             /\ Never(x5.inp, "prompt") /\ Never(r, "prompt") => Never(x5'.inp, "prompt")
             /\ \A u : Sole(x5.inp, Acp!Msg("prompt", u)) /\ Never(r, "prompt")
                         => Sole(x5'.inp, Acp!Msg("prompt", u))
             /\ \A u : Never(x5.inp, "prompt") /\ Sole(r, Acp!Msg("prompt", u))
                         => Sole(x5'.inp, Acp!Msg("prompt", u))
  BY <1>0, <1>1, AcpWrites
<1>2. ASSUME x2' = x2, x5' = x5 PROVE AcpLives'
  BY <1>0, <1>2, AcpRests
<1>3. CASE Acp!AcpSend(t)
  <2>1. CASE x2.active # NoTurn
    BY <1>2, <1>3, <2>1 DEF Acp!AcpSend
  <2>2. CASE x2.active = NoTurn
    <3>1. PICK m, r : m = Acp!Msg("prompt", t) /\ r = <<m>>
      OBVIOUS
    <3>2. m \in AcpMsgs
      BY <1>0, <3>1, AcpMsg
    <3>3. r \in Seq(AcpMsgs)
      BY <3>1, <3>2
    <3>4. Sole(r, m)
      BY <3>1, PipeOfOne
    <3>5. x2' = [x2 EXCEPT !.active = t] /\ x5' = Acp!Wrote(r)
      BY <1>3, <2>2, <3>1 DEF Acp!AcpSend
    <3>6. /\ AcpFields \subseteq DOMAIN x2' /\ x2'.acp = "open" /\ x2'.active = t
          /\ x2'.pending = x2.pending
      BY <1>0, <3>5 DEF AcpFields
    <3>7. x5.running = NoTurn /\ Never(x5.inp, "prompt") /\ Never(x5.out, "prompt done")
      BY <1>0, <2>2 DEF PromptIs
    <3>8. PromptIs(x2', x5')
      BY <1>1, <3>1, <3>3, <3>4, <3>5, <3>6, <3>7 DEF PromptIs
    <3>9. x5'.asking = NoTurn
      BY <1>0, <1>1, <3>3, <3>5, <3>7 DEF AskIs
    <3>10. AskIs(x2', x5')
      BY <3>9 DEF AskIs
    <3>11. QED
      BY <1>0, <1>1, <3>3, <3>5, <3>6, <3>8, <3>10, AcpStaysOpen
  <2>3. QED
    BY <2>1, <2>2
(* Neither of the others writes a prompt.                                   *)
<1>4. ASSUME NEW r \in Seq(AcpMsgs), x5' = Acp!Wrote(r), Never(r, "prompt"), x2'.active = x2.active
      PROVE  PromptIs(x2', x5')
  <2>1. /\ Never(x5.inp, "prompt") => Never(x5'.inp, "prompt")
        /\ \A u : Sole(x5.inp, Acp!Msg("prompt", u)) => Sole(x5'.inp, Acp!Msg("prompt", u))
        /\ x5'.running = x5.running /\ x5'.out = x5.out
    BY <1>1, <1>4
  <2>2. QED
    BY <1>0, <1>4, <2>1 DEF PromptIs
<1>5. CASE Acp!AcpStop(t)
  <2>1. CASE x2.active # t
    BY <1>2, <1>5, <2>1 DEF Acp!AcpStop
  <2>2. CASE x2.active = t
    <3>1. PICK D, r : D = {Acp!Msg("decline", n) : n \in x2.pending} /\ r = Acp!SetToSeq(D)
      OBVIOUS
    <3>2. IsFiniteSet(D) /\ D \subseteq AcpMsgs
      <4>1. PICK f : f = [n \in x2.pending |-> Acp!Msg("decline", n)]
        OBVIOUS
      <4>2. f \in Surjection(x2.pending, D)
        BY <3>1, <4>1 DEF Surjection
      <4>3. \A n \in MaybeTurn : Acp!Msg("decline", n) \in AcpMsgs
        BY AcpMsg
      <4>4. QED
        BY <1>0, <3>1, <4>2, <4>3, FS_Surjection
    <3>3. r \in Seq(D) /\ \A m : Holds(r, m) <=> m \in D
      BY <3>1, <3>2, PipeOfSet
    <3>4. r \in Seq(AcpMsgs)
      BY <3>2, <3>3
    <3>5. Never(r, "prompt")
      <4>1. \A m \in D : m.kind = "decline"
        BY <3>1, AcpMsg
      <4>2. \A i \in DOMAIN r : r[i] \in D
        BY <3>3
      <4>3. QED
        BY <4>1, <4>2 DEF Never
    <3>6. x2' = [x2 EXCEPT !.pending = {}] /\ x5' = Acp!Wrote(r)
      BY <1>5, <2>2, <3>1 DEF Acp!AcpStop
    <3>7. /\ AcpFields \subseteq DOMAIN x2' /\ x2'.acp = "open" /\ x2'.active = x2.active
          /\ x2'.pending = {}
      BY <1>0, <3>6 DEF AcpFields
    <3>8. AskIs(x2', x5')
      <4>1. \A n \in x2.pending : Holds(r, Acp!Msg("decline", n))
        BY <3>1, <3>3
      <4>2. QED
        BY <1>0, <1>1, <3>4, <3>6, <4>1 DEF AskIs
    <3>9. IsFiniteSet({})
      BY FS_EmptySet
    <3>10. QED
      BY <1>0, <1>1, <1>4, <3>4, <3>5, <3>6, <3>7, <3>8, <3>9, AcpStaysOpen
  <2>3. QED
    BY <2>1, <2>2
<1>6. CASE Acp!RespondToApproval(t)
  <2>1. PICK m, r, q : m = Acp!Msg("decline", t) /\ r = <<m>> /\ q = x2.pending \ {t}
    OBVIOUS
  <2>2. m \in AcpMsgs /\ m.kind = "decline"
    BY <1>0, <2>1, AcpMsg
  <2>3. r \in Seq(AcpMsgs)
    BY <2>1, <2>2
  <2>4. Holds(r, m) /\ Never(r, "prompt")
    BY <2>1, <2>2, PipeOfOne
  <2>5. IsFiniteSet(q) /\ q \subseteq MaybeTurn
    BY <1>0, <2>1, FS_RemoveElement
  <2>6. x2' = [x2 EXCEPT !.pending = q] /\ x5' = Acp!Wrote(r)
    BY <1>6, <2>1 DEF Acp!RespondToApproval
  <2>7. /\ AcpFields \subseteq DOMAIN x2' /\ x2'.acp = "open" /\ x2'.active = x2.active
        /\ x2'.pending = q
    BY <1>0, <2>6 DEF AcpFields
  <2>8. AskIs(x2', x5')
    BY <1>0, <1>1, <2>1, <2>3, <2>4, <2>6, <2>7 DEF AskIs
  <2>9. QED
    BY <1>0, <1>1, <1>4, <2>3, <2>4, <2>5, <2>6, <2>7, <2>8, AcpStaysOpen
<1>7. QED
  BY <1>3, <1>5, <1>6

(* The second half of a Stop, whatever became of the agent meanwhile.       *)
LEMMA AcpCancelLives ==
  ASSUME AcpLives, NEW t \in Turns, Acp!Cancel(t)
  PROVE  AcpLives'
<1>0. /\ AcpTyped /\ x5 \in Agents /\ AskIs(x2, x5) /\ AcpFields \subseteq DOMAIN x2
      /\ t \in MaybeTurn /\ x2' = x2 /\ x5' = Acp!Wrote(<<Acp!Msg("cancel", t)>>)
  BY DEF AcpLives, AcpTyped, Acp!Cancel, MaybeTurn
<1>1. CASE ~x5.alive
  <2>1. x5' = x5
    BY <1>0, <1>1 DEF Acp!Wrote, Agents
  <2>2. QED
    BY <1>0, <2>1, AcpRests
<1>2. CASE x5.alive
  <2>1. PICK m, r : m = Acp!Msg("cancel", t) /\ r = <<m>>
    OBVIOUS
  <2>2. m \in AcpMsgs /\ m.kind = "cancel"
    BY <1>0, <2>1, AcpMsg
  <2>3. r \in Seq(AcpMsgs) /\ Never(r, "prompt")
    <3>1. r \in Seq(AcpMsgs)
      BY <2>1, <2>2
    <3>2. QED
      BY <2>1, <2>2, <3>1, PipeOfOne
  <2>4. /\ x5' \in Agents /\ x5'.alive = x5.alive /\ x5'.out = x5.out
        /\ x5'.running = x5.running /\ x5'.asking = x5.asking
        /\ \A n : Holds(x5'.inp, n) <=> Holds(x5.inp, n) \/ Holds(r, n)
        /\ Never(x5.inp, "prompt") => Never(x5'.inp, "prompt")
        /\ \A u : Sole(x5.inp, Acp!Msg("prompt", u)) => Sole(x5'.inp, Acp!Msg("prompt", u))
    BY <1>0, <1>2, <2>1, <2>3, AcpWrites
  <2>5. PromptIs(x2', x5')
    <3>1. PromptIs(x2, x5)
      BY <1>2 DEF AcpLives
    <3>2. QED
      BY <1>0, <2>4, <3>1 DEF PromptIs
  <2>6. AskIs(x2', x5')
    BY <1>0, <2>4 DEF AskIs
  <2>7. AcpTyped'
    BY <1>0, <2>4 DEF AcpTyped
  <2>8. /\ x5'.alive /\ x2'.acp # "none"
        /\ x2'.acp # "open" => x2'.active = NoTurn /\ x5'.running = NoTurn
    BY <1>0, <1>2, <2>4 DEF AcpLives
  <2>9. PromptIs(x2, x5)' /\ AskIs(x2, x5)'
    BY <2>5, <2>6 DEF PromptIs, AskIs
  <2>10. QED
    BY <2>7, <2>8, <2>9 DEF AcpLives
<1>3. QED
  BY <1>1, <1>2

(* The adapter reads what the agent has said.                               *)
LEMMA AcpInboundLives ==
  ASSUME AcpLives, Acp!Inbound
  PROVE  AcpLives'
<1> USE NoTurnIsNoTurn
<1>0. /\ AcpTyped /\ x5 \in Agents /\ AskIs(x2, x5) /\ x5.running \in MaybeTurn
      /\ AcpFields \subseteq DOMAIN x2 /\ x2.active \in MaybeTurn /\ x5.inp \in Seq(AcpMsgs)
      /\ x2.pending \subseteq MaybeTurn /\ IsFiniteSet(x2.pending) /\ NoTurn \in MaybeTurn
      /\ (x2.acp # "none" => PromptIs(x2, x5)) /\ (x5.alive <=> x2.acp # "none")
      /\ (x2.acp # "open" => x2.active = NoTurn /\ x5.running = NoTurn)
  BY DEF AcpLives, AcpTyped, MaybeTurn, Agents
<1>1. PICK a, h : a = Acp!Read /\ h = Head(x5.out)
  OBVIOUS
<1>2. x5.out # <<>>
  BY DEF Acp!Inbound, Acp!PromptAnswered, Acp!PermissionRequest, Acp!Reads
<1>3. /\ a \in Agents /\ a.alive = x5.alive /\ a.inp = x5.inp /\ a.running = x5.running
      /\ a.asking = x5.asking /\ a = [x5 EXCEPT !.out = Tail(x5.out)]
      /\ h \in AcpMsgs /\ h.turn \in MaybeTurn /\ h = Acp!Msg(h.kind, h.turn)
      /\ \A m : Holds(x5.out, m) => m = h \/ Holds(a.out, m)
      /\ Never(x5.out, "prompt done") => Never(a.out, "prompt done") /\ h.kind # "prompt done"
      /\ \A t : Sole(x5.out, Acp!Msg("prompt done", t)) =>
           IF h.kind = "prompt done"
           THEN h.turn = t /\ Never(a.out, "prompt done")
           ELSE Sole(a.out, Acp!Msg("prompt done", t))
  BY <1>0, <1>1, <1>2, AcpReads
<1>4. ASSUME AcpFields \subseteq DOMAIN x2', x2'.acp = x2.acp, x2'.active \in {x2.active, NoTurn},
             x2'.pending \subseteq MaybeTurn, IsFiniteSet(x2'.pending),
             x5' \in Agents, x5'.alive = x5.alive, x5'.running = x5.running,
             x2.acp # "none" => PromptIs(x2', x5'), AskIs(x2', x5')
      PROVE  AcpLives'
  <2>1. AcpTyped'
    BY <1>0, <1>4 DEF AcpTyped
  <2>2. (PromptIs(x2, x5)' <=> PromptIs(x2', x5')) /\ (AskIs(x2, x5)' <=> AskIs(x2', x5'))
    BY DEF PromptIs, AskIs
  <2>3. QED
    BY <1>0, <1>4, <2>1, <2>2 DEF AcpLives
<1>5. CASE Acp!PromptAnswered
  <2>1. h.kind = "prompt done" /\ x2' = Acp!Settled(x2, h.turn) /\ x5' = a
    BY <1>1, <1>5 DEF Acp!PromptAnswered, Acp!Reads, Acp!SettleTurn
  <2>2. CASE x2.acp = "none"
    <3>1. /\ AcpFields \subseteq DOMAIN x2' /\ x2'.acp = x2.acp /\ x2'.active = NoTurn
          /\ x2'.pending \subseteq x2.pending
      BY <1>0, <2>1, <2>2 DEF Acp!Settled, AcpFields
    <3>2. IsFiniteSet(x2'.pending)
      BY <1>0, <3>1, FS_Subset
    <3>3. x5.asking = NoTurn
      BY <1>0, <2>2 DEF AskIs
    <3>4. AskIs(x2', x5')
      BY <1>3, <2>1, <3>3 DEF AskIs
    <3>5. QED
      BY <1>0, <1>3, <1>4, <2>1, <2>2, <3>1, <3>2, <3>4
  <2>3. CASE x2.acp # "none"
    <3>1. /\ x2.active \in Turns /\ x5.running = NoTurn /\ Never(x5.inp, "prompt")
          /\ Sole(x5.out, Acp!Msg("prompt done", x2.active))
      BY <1>0, <1>3, <2>1, <2>3 DEF PromptIs
    <3>2. h.turn = x2.active /\ Never(a.out, "prompt done")
      BY <1>3, <2>1, <3>1
    <3>3. x2' = [x2 EXCEPT !.active = NoTurn, !.pending = {}]
      BY <2>1, <3>2 DEF Acp!Settled
    <3>4. /\ AcpFields \subseteq DOMAIN x2' /\ x2'.acp = x2.acp /\ x2'.active = NoTurn
          /\ x2'.pending = {}
      BY <1>0, <3>3 DEF AcpFields
    <3>5. PromptIs(x2', x5')
      BY <1>3, <2>1, <3>1, <3>2, <3>4 DEF PromptIs
    <3>6. x5.asking = NoTurn
      BY <1>0, <3>1 DEF AskIs
    <3>7. AskIs(x2', x5') /\ IsFiniteSet({})
      BY <1>3, <2>1, <3>6, FS_EmptySet DEF AskIs
    <3>8. QED
      BY <1>0, <1>3, <1>4, <2>1, <3>4, <3>5, <3>7
  <2>4. QED
    BY <2>2, <2>3
<1>6. CASE Acp!PermissionRequest
  <2>1. /\ h.kind = "ask"
        /\ \/ /\ x2.active # NoTurn /\ x2' = [x2 EXCEPT !.pending = @ \cup {h.turn}]
              /\ x5' = a
           \/ /\ x5' = [Acp!Wrote(<<Acp!Msg("decline", h.turn)>>) EXCEPT !.out = Tail(x5.out)]
              /\ x2' = x2
    <3>1. h.kind = "ask"
      BY <1>1, <1>6 DEF Acp!PermissionRequest, Acp!Reads
    <3>2. \/ /\ x2.active # NoTurn /\ x2' = [x2 EXCEPT !.pending = @ \cup {h.turn}]
             /\ x5' = a
          \/ /\ x5' = [Acp!Wrote(<<Acp!Msg("decline", h.turn)>>) EXCEPT !.out = Tail(@)]
             /\ x2' = x2
      BY <1>1, <1>6, Zenon DEF Acp!PermissionRequest
    <3>3. PICK m, w : m = <<Acp!Msg("decline", h.turn)>> /\ w = Acp!Wrote(m)
      OBVIOUS
    <3>4. w = [x5 EXCEPT !.inp = w.inp]
      BY <1>0, <3>3 DEF Acp!Wrote, Agents
    <3>5. w.out = x5.out
      BY <1>0, <3>4 DEF Agents
    <3>6. [w EXCEPT !.out = Tail(@)] = [w EXCEPT !.out = Tail(x5.out)]
      BY <3>5
    <3>7. QED
      BY <3>1, <3>2, <3>3, <3>6
  <2>2. ASSUME NEW s, NEW b, s.active = x2.active, x2.acp # "none", b.running = x5.running,
               b.out = a.out, Never(x5.inp, "prompt") => Never(b.inp, "prompt"),
               \A t : Sole(x5.inp, Acp!Msg("prompt", t)) => Sole(b.inp, Acp!Msg("prompt", t))
        PROVE  PromptIs(s, b)
    <3>1. h.kind # "prompt done"
      BY <2>1
    <3>2. /\ Never(x5.out, "prompt done") => Never(b.out, "prompt done")
          /\ \A t : Sole(x5.out, Acp!Msg("prompt done", t)) => Sole(b.out, Acp!Msg("prompt done", t))
      BY <1>3, <2>2, <3>1
    <3>3. QED
      BY <1>0, <2>2, <3>2 DEF PromptIs
  <2>3. ASSUME NEW n PROVE Holds(x5.out, Acp!Msg("ask", n)) => n = h.turn \/ Holds(a.out, Acp!Msg("ask", n))
    <3>1. Acp!Msg("ask", n).turn = n
      BY AcpMsg
    <3>2. QED
      BY <1>3, <3>1
  <2>4. CASE x2' = [x2 EXCEPT !.pending = @ \cup {h.turn}] /\ x5' = a
    <3>1. PICK q : q = x2.pending \cup {h.turn}
      OBVIOUS
    <3>2. /\ AcpFields \subseteq DOMAIN x2' /\ x2'.acp = x2.acp /\ x2'.active = x2.active
          /\ x2'.pending = q
      BY <1>0, <2>4, <3>1 DEF AcpFields
    <3>3. IsFiniteSet(q) /\ q \subseteq MaybeTurn
      BY <1>0, <1>3, <3>1, FS_AddElement
    <3>4. x2.acp # "none" => PromptIs(x2', x5')
      BY <1>3, <2>2, <2>4, <3>2
    <3>5. AskIs(x2', x5')
      BY <1>0, <1>3, <2>3, <2>4, <3>1, <3>2 DEF AskIs
    <3>6. QED
      BY <1>3, <1>4, <2>4, <3>2, <3>3, <3>4, <3>5
  <2>5. CASE /\ x5' = [Acp!Wrote(<<Acp!Msg("decline", h.turn)>>) EXCEPT !.out = Tail(x5.out)]
             /\ x2' = x2
    <3>1. PICK m, r, b : m = Acp!Msg("decline", h.turn) /\ r = <<m>> /\ b = Acp!Wrote(r)
      OBVIOUS
    <3>2. CASE ~x5.alive
      <4>1. b = [x5 EXCEPT !.inp = x5.inp]
        BY <3>1, <3>2 DEF Acp!Wrote
      <4>2. x5' = a
        BY <1>0, <1>3, <2>5, <3>1, <4>1 DEF Agents
      <4>3. x5.asking = NoTurn
        BY <1>0, <3>2 DEF AskIs
      <4>4. AskIs(x2', x5')
        BY <1>3, <4>2, <4>3 DEF AskIs
      <4>5. QED
        BY <1>0, <1>3, <1>4, <2>5, <3>2, <4>2, <4>4
    <3>3. CASE x5.alive
      <4>1. m \in AcpMsgs /\ m.kind = "decline"
        BY <1>3, <3>1, AcpMsg
      <4>2. r \in Seq(AcpMsgs)
        BY <3>1, <4>1
      <4>3. Holds(r, m) /\ Never(r, "prompt")
        BY <3>1, <4>1, PipeOfOne
      <4>4. /\ b \in Agents /\ b.inp = x5.inp \o r
            /\ b.alive = x5.alive /\ b.out = x5.out /\ b.running = x5.running /\ b.asking = x5.asking
            /\ \A n : Holds(b.inp, n) <=> Holds(x5.inp, n) \/ Holds(r, n)
            /\ Never(x5.inp, "prompt") /\ Never(r, "prompt") => Never(b.inp, "prompt")
            /\ \A t : Sole(x5.inp, Acp!Msg("prompt", t)) /\ Never(r, "prompt")
                        => Sole(b.inp, Acp!Msg("prompt", t))
        BY <1>0, <3>1, <3>3, <4>2, AcpWrites
      <4>5. x5' = [b EXCEPT !.out = a.out]
        BY <1>0, <1>3, <2>5, <3>1 DEF Agents
      <4>6. /\ x5' \in Agents /\ x5'.inp = b.inp /\ x5'.alive = x5.alive /\ x5'.out = a.out
            /\ x5'.running = x5.running /\ x5'.asking = x5.asking
        BY <1>3, <4>4, <4>5 DEF Agents
      <4>7. PromptIs(x2', x5')
        BY <1>0, <2>2, <2>5, <3>3, <4>3, <4>4, <4>6
      <4>8. AskIs(x2', x5')
        BY <1>0, <2>3, <2>5, <3>1, <4>3, <4>4, <4>6 DEF AskIs
      <4>9. QED
        BY <1>0, <1>4, <2>5, <4>6, <4>7, <4>8
    <3>4. QED
      BY <3>2, <3>3
  <2>6. QED
    BY <2>1, <2>4, <2>5
<1>7. QED
  BY <1>5, <1>6 DEF Acp!Inbound

(* The agent is gone, or its session.                                       *)
LEMMA AcpEndLives ==
  ASSUME AcpLives, Acp!AgentExits \/ (Acp!OnAcp /\ Acp!StopSession) \/ Acp!Open
  PROVE  AcpLives'
<1> USE NoTurnIsNoTurn
<1>0. /\ AcpTyped /\ x5 \in Agents /\ AskIs(x2, x5) /\ x5.inp \in Seq(AcpMsgs)
      /\ AcpFields \subseteq DOMAIN x2 /\ x2.active \in MaybeTurn
      /\ x2.pending \subseteq MaybeTurn /\ IsFiniteSet(x2.pending) /\ NoTurn \in MaybeTurn
      /\ (x2.acp # "none" => PromptIs(x2, x5))
      /\ (x2.acp # "open" => x2.active = NoTurn /\ x5.running = NoTurn)
  BY DEF AcpLives, AcpTyped, MaybeTurn, Agents
<1>1. IsFiniteSet({}) /\ <<>> \in Seq(AcpMsgs)
  BY FS_EmptySet
<1>2. ASSUME AcpFields \subseteq DOMAIN x2', x2'.acp = "none", x2'.active = NoTurn, x2'.pending = {},
             x5' = [x5 EXCEPT !.alive = FALSE, !.inp = <<>>, !.running = NoTurn, !.asking = NoTurn]
      PROVE  AcpLives'
  <2>1. /\ x5' \in Agents /\ x5'.alive = FALSE /\ x5'.running = NoTurn /\ x5'.asking = NoTurn
    BY <1>0, <1>1, <1>2 DEF Agents
  <2>2. AskIs(x2, x5)'
    BY <2>1 DEF AskIs
  <2>3. AcpTyped'
    BY <1>0, <1>1, <1>2, <2>1 DEF AcpTyped
  <2>4. QED
    BY <1>2, <2>1, <2>2, <2>3 DEF AcpLives
<1>3. CASE Acp!AgentExits
  <2>1. PICK s : s = Acp!Settled(x2, x2.active)
    OBVIOUS
  <2>2. s = [x2 EXCEPT !.active = NoTurn, !.pending = {}]
    BY <2>1 DEF Acp!Settled
  <2>3. x2' = [s EXCEPT !.acp = "none"]
    BY <1>3, <2>1 DEF Acp!AgentExits
  <2>4. AcpFields \subseteq DOMAIN s /\ s.active = NoTurn /\ s.pending = {}
    BY <1>0, <2>2 DEF AcpFields
  <2>5. /\ AcpFields \subseteq DOMAIN x2' /\ x2'.acp = "none" /\ x2'.active = NoTurn
        /\ x2'.pending = {}
    BY <2>3, <2>4 DEF AcpFields
  <2>6. QED
    BY <1>2, <1>3, <2>5 DEF Acp!AgentExits
<1>4. CASE Acp!OnAcp /\ Acp!StopSession
  <2>1. /\ x2' = [x2 EXCEPT !.registered = FALSE, !.acp = "none", !.active = NoTurn, !.pending = {}]
        /\ x5' = [x5 EXCEPT !.alive = FALSE, !.inp = <<>>, !.running = NoTurn, !.asking = NoTurn]
    BY <1>4 DEF Acp!StopSession
  <2>2. /\ AcpFields \subseteq DOMAIN x2' /\ x2'.acp = "none" /\ x2'.active = NoTurn
        /\ x2'.pending = {}
    BY <1>0, <2>1 DEF AcpFields
  <2>3. QED
    BY <1>2, <2>1, <2>2
<1>5. CASE Acp!Open
  <2>1. PICK next, alive : /\ alive = (next # "none") /\ x2' = [x2 EXCEPT !.acp = next]
                           /\ x5' = [x5 EXCEPT !.alive = alive]
    BY <1>5 DEF Acp!Open, Acp!Opened
  <2>2. x2.acp # "none" /\ x2.acp # "open"
    BY <1>5 DEF Acp!Open, Acp!Opening
  <2>3. /\ AcpFields \subseteq DOMAIN x2' /\ x2'.acp = next /\ x2'.active = x2.active
        /\ x2'.pending = x2.pending
    BY <1>0, <2>1 DEF AcpFields
  <2>4. alive \in BOOLEAN
    BY <2>1
  <2>5. /\ x5' \in Agents /\ x5'.alive = alive /\ x5'.inp = x5.inp /\ x5'.out = x5.out
        /\ x5'.running = x5.running /\ x5'.asking = x5.asking
    BY <1>0, <2>1, <2>4 DEF Agents
  <2>6. PromptIs(x2, x5)'
    BY <1>0, <2>2, <2>3, <2>5 DEF PromptIs
  <2>7. AskIs(x2, x5)'
    BY <1>0, <2>3, <2>5 DEF AskIs
  <2>8. AcpTyped'
    BY <1>0, <2>3, <2>5 DEF AcpTyped
  <2>9. x5'.alive <=> x2'.acp # "none"
    BY <2>1, <2>3, <2>5
  <2>10. QED
    BY <1>0, <2>2, <2>3, <2>5, <2>6, <2>7, <2>8, <2>9 DEF AcpLives
<1>6. QED
  BY <1>3, <1>4, <1>5

LEMMA AcpLivesOn ==
  ASSUME AcpLives, AcpInv, Acp!Next
  PROVE  AcpLives'
<1>0. AcpFields \subseteq DOMAIN x2
  BY DEF AcpInv
<1>1. ASSUME Stream!Next, x5' = x5 PROVE AcpLives'
  BY <1>0, <1>1, AcpRests, PrintLeaves
<1>2. ASSUME NEW t \in Turns, Acp!Send(t) PROVE AcpLives'
  BY <1>1, <1>2, AcpCallsLive, PrintMode DEF Acp!Send, Stream!Next
<1>3. ASSUME NEW t \in Turns, Acp!Stop(t) PROVE AcpLives'
  BY <1>1, <1>3, AcpCallsLive, PrintMode DEF Acp!Stop, Stream!Next
<1>4. ASSUME NEW t \in Turns, Acp!RespondToApproval(t) PROVE AcpLives'
  BY <1>4, AcpCallsLive
<1>5. CASE Acp!Processes
  BY <1>1, <1>5, PrintMode DEF Acp!Processes, Stream!Next
<1>6. CASE Acp!StopSession
  <2>1. CASE Acp!OnAcp
    BY <1>6, <2>1, AcpEndLives
  <2>2. CASE ~Acp!OnAcp
    BY <1>1, <1>6, <2>2, PrintMode DEF Acp!StopSession, Stream!Next
  <2>3. QED
    BY <2>1, <2>2
<1>7. QED
  BY <1>2, <1>3, <1>4, <1>5, <1>6, AcpCancelLives, AgentLives, AcpInboundLives, AcpEndLives DEF Acp!Next

LEMMA AcpLivesWell ==
  ASSUME AcpLives
  PROVE  Acp!BusyWillFree /\ Acp!AskedCanBeAnswered
<1>1. \A q : \A m : Holds(q, m) => m \in Acp!Range(q)
  BY DEF Holds, Acp!Range
<1>2. Acp!BusyWillFree
  <2> SUFFICES ASSUME x2.active # NoTurn
               PROVE  \/ x5.running = x2.active
                      \/ Acp!Msg("prompt", x2.active) \in Acp!Range(x5.inp)
                      \/ Acp!Msg("prompt done", x2.active) \in Acp!Range(x5.out)
    BY DEF Acp!BusyWillFree
  <2>1. x2.acp # "none"
    BY DEF AcpLives
  <2>2. \A q : \A m : Sole(q, m) => Holds(q, m)
    BY DEF Sole, Holds
  <2>3. QED
    BY <1>1, <2>1, <2>2 DEF AcpLives, PromptIs
<1>3. Acp!AskedCanBeAnswered
  BY <1>1 DEF AcpLives, AskIs, Acp!AskedCanBeAnswered
<1>4. QED
  BY <1>2, <1>3

-----------------------------------------------------------------------------
(* The claude session has a turn only while its process has work            *)

(* A pipe of whatever messages, written to, read and taken from.            *)
Piped(q) == \E S : q \in Seq(S)

LEMMA PipeMore ==
  ASSUME NEW q, Piped(q), NEW m
  PROVE  /\ Piped(Append(q, m))
         /\ \A n : Holds(Append(q, m), n) <=> Holds(q, n) \/ n = m
<1>1. PICK S : q \in Seq(S)
  BY DEF Piped
<1>2. PICK T : T = S \cup {m}
  OBVIOUS
<1>3. q \in Seq(T) /\ <<m>> \in Seq(T) /\ Append(q, m) = q \o <<m>>
  BY <1>1, <1>2
<1>4. Holds(<<m>>, m) /\ \A n : Holds(<<m>>, n) => n = m
  BY PipeOfOne
<1>5. q \o <<m>> \in Seq(T) /\ \A n : Holds(q \o <<m>>, n) <=> Holds(q, n) \/ Holds(<<m>>, n)
  BY <1>3, PipeGrows
<1>6. QED
  BY <1>3, <1>4, <1>5 DEF Piped

LEMMA PipeTwoMore ==
  ASSUME NEW q, Piped(q), NEW m, NEW o
  PROVE  /\ Piped(q \o <<m, o>>)
         /\ \A n : Holds(q \o <<m, o>>, n) <=> Holds(q, n) \/ n = m \/ n = o
<1>1. PICK S : q \in Seq(S)
  BY DEF Piped
<1>2. PICK T : T = S \cup {m, o}
  OBVIOUS
<1>3. PICK r : r = <<m, o>>
  OBVIOUS
<1>4. q \in Seq(T) /\ r \in Seq(T)
  BY <1>1, <1>2, <1>3
<1>5. DOMAIN r = 1..2 /\ r[1] = m /\ r[2] = o
  BY <1>3
<1>6. \A n : Holds(r, n) <=> n = m \/ n = o
  <2>1. 1 \in DOMAIN r /\ 2 \in DOMAIN r /\ \A i \in DOMAIN r : i = 1 \/ i = 2
    BY <1>5
  <2>2. QED
    BY <1>5, <2>1 DEF Holds
<1>7. q \o r \in Seq(T) /\ \A n : Holds(q \o r, n) <=> Holds(q, n) \/ Holds(r, n)
  BY <1>4, PipeGrows
<1>8. QED
  BY <1>3, <1>6, <1>7 DEF Piped

LEMMA PipeLess ==
  ASSUME NEW q, Piped(q), q # <<>>
  PROVE  /\ Piped(Tail(q)) /\ Holds(q, Head(q))
         /\ \A n : Holds(q, n) <=> n = Head(q) \/ Holds(Tail(q), n)
<1>1. PICK S : q \in Seq(S)
  BY DEF Piped
<1>2. /\ Tail(q) \in Seq(S) /\ Holds(q, Head(q))
      /\ \A n : Holds(q, n) <=> n = Head(q) \/ Holds(Tail(q), n)
  BY <1>1, PipeRead
<1>3. QED
  BY <1>2 DEF Piped

LEMMA PipeWithout ==
  ASSUME NEW q, Piped(q), NEW i \in DOMAIN q
  PROVE  /\ Piped(Without(q, i)) /\ Holds(q, q[i])
         /\ \A n : Holds(q, n) <=> n = q[i] \/ Holds(Without(q, i), n)
<1>1. Holds(q, q[i])
  BY DEF Holds
<1>2. PICK S : q \in Seq(S)
  BY DEF Piped
<1>3. /\ Without(q, i) \in Seq(S)
      /\ \A n : Holds(q, n) => n = q[i] \/ Holds(Without(q, i), n)
      /\ \A n : Holds(Without(q, i), n) => Holds(q, n)
  BY <1>2, PipeTaken
<1>4. QED
  BY <1>1, <1>3 DEF Piped

(* A process of claude, and what it has to do before it rests: a turn it    *)
(* runs or will be given, a result or its exit that nobody has seen yet.    *)
Controls == {"setMode", "setModel", "interrupt", "unsupported"}
Told(m) == m.kind \in Controls \/ (m.kind = "user" /\ m.turn # NoTurn)
IsProc(r) ==
  /\ {"alive", "seen", "inp", "out", "running"} \subseteq DOMAIN r
  /\ r.alive \in BOOLEAN /\ Piped(r.inp) /\ Piped(r.out)
  /\ \A m : Holds(r.inp, m) => Told(m)
Works(r) ==
  \/ r.running # NoTurn
  \/ \E m : Holds(r.inp, m) /\ m.kind = "user"
  \/ \E m : Holds(r.out, m) /\ m.kind = "result"
  \/ r.alive = FALSE /\ r.seen # "done"

(* The current process has not been given up, and works while the session   *)
(* has an active turn.                                                      *)
Lively(s, pr) ==
  /\ DOMAIN pr = 1..MaxSpawns /\ \A p \in 1..MaxSpawns : IsProc(pr[p])
  /\ s.cur \in 1..MaxSpawns \cup {0}
  /\ s.cur # 0 => pr[s.cur].seen = "no" \/ pr[s.cur].seen = "reading"
  /\ s.cur # 0 /\ s.active # NoTurn => Works(pr[s.cur])
ClaudeLives == Lively(x2, x4)

LEMMA NoProcIsNone == Claude!NoProc = 0 /\ Claude!Procs = 1..MaxSpawns /\ 0 \notin 1..MaxSpawns
BY ProcessBounds DEF Claude!NoProc, Claude!Procs

(* One process goes on.                                                     *)
LEMMA ProcGoesOn ==
  ASSUME NEW s, NEW pr, Lively(s, pr), NEW p \in 1..MaxSpawns, NEW r, IsProc(r),
         s.cur = p => r.seen = pr[p].seen \/ r.seen = "reading",
         s.cur = p /\ s.active # NoTurn /\ Works(pr[p]) => Works(r)
  PROVE  Lively(s, [pr EXCEPT ![p] = r])
<1>1. PICK w : w = [pr EXCEPT ![p] = r]
  OBVIOUS
<1>2. DOMAIN w = 1..MaxSpawns /\ w[p] = r /\ \A q \in 1..MaxSpawns : q # p => w[q] = pr[q]
  BY <1>1 DEF Lively
<1>3. \A q \in 1..MaxSpawns : IsProc(w[q])
  BY <1>2 DEF Lively
<1>4. CASE s.cur = p
  BY <1>2, <1>3, <1>4 DEF Lively
<1>5. CASE s.cur # p
  BY <1>2, <1>3, <1>5 DEF Lively
<1>6. QED
  BY <1>1, <1>4, <1>5

LEMMA ProcHears ==
  ASSUME NEW r, IsProc(r), NEW m, Told(m)
  PROVE  LET w == [r EXCEPT !.inp = Append(@, m)] IN
           /\ IsProc(w) /\ w.seen = r.seen
           /\ Works(r) \/ m.kind = "user" => Works(w)
<1>1. PICK w, q : w = [r EXCEPT !.inp = Append(@, m)] /\ q = Append(r.inp, m)
  OBVIOUS
<1>2. Piped(q) /\ \A n : Holds(q, n) <=> Holds(r.inp, n) \/ n = m
  BY <1>1, PipeMore DEF IsProc
<1>3. /\ DOMAIN w = DOMAIN r /\ w.inp = q /\ w.out = r.out /\ w.alive = r.alive
      /\ w.seen = r.seen /\ w.running = r.running
  BY <1>1 DEF IsProc
<1>4. IsProc(w)
  BY <1>2, <1>3 DEF IsProc
<1>5. Works(r) \/ m.kind = "user" => Works(w)
  BY <1>2, <1>3 DEF Works
<1>6. QED
  BY <1>1, <1>3, <1>4, <1>5

(* Something is written to the current process.                             *)
LEMMA ClaudeWrote ==
  ASSUME NEW s, NEW pr, Lively(s, pr), NEW m, Told(m)
  PROVE  LET w == Claude!Wrote(pr, s.cur, m) IN
           /\ Lively(s, w)
           /\ m.kind = "user" /\ s.cur # 0 => Works(w[s.cur])
<1>1. PICK w, c : w = Claude!Wrote(pr, s.cur, m) /\ c = s.cur
  OBVIOUS
<1>2. CASE c # 0 /\ pr[c].alive
  <2>1. /\ w = [pr EXCEPT ![c] = [pr[c] EXCEPT !.inp = Append(@, m)]]
        /\ c \in 1..MaxSpawns
    BY <1>1, <1>2, NoProcIsNone DEF Claude!Wrote, Lively
  <2>2. PICK r : r = [pr[c] EXCEPT !.inp = Append(@, m)]
    OBVIOUS
  <2>3. IsProc(r) /\ r.seen = pr[c].seen /\ (Works(pr[c]) \/ m.kind = "user" => Works(r))
    BY <2>1, <2>2, ProcHears DEF Lively
  <2>4. w = [pr EXCEPT ![c] = r]
    BY <2>1, <2>2, Zenon
  <2>5. Lively(s, w)
    <3>1. s.cur = c => r.seen = pr[c].seen \/ r.seen = "reading"
      BY <2>3
    <3>2. s.cur = c /\ s.active # NoTurn /\ Works(pr[c]) => Works(r)
      BY <2>3
    <3>3. IsProc(r) /\ c \in 1..MaxSpawns
      BY <2>1, <2>3
    <3>4. Lively(s, [pr EXCEPT ![c] = r])
      BY <3>1, <3>2, <3>3, ProcGoesOn
    <3>5. QED
      BY <2>4, <3>4
  <2>6. w[c] = r
    BY <2>1, <2>4 DEF Lively
  <2>7. QED
    BY <1>1, <2>3, <2>5, <2>6
<1>3. CASE c = 0 \/ pr[c].alive = FALSE
  <2>1. w = pr
    BY <1>1, <1>3, NoProcIsNone DEF Claude!Wrote
  <2>2. c # 0 => Works(pr[c])
    <3> SUFFICES ASSUME c # 0 PROVE Works(pr[c])
      OBVIOUS
    <3>1. pr[c].alive = FALSE /\ (pr[c].seen = "no" \/ pr[c].seen = "reading")
      BY <1>1, <1>3 DEF Lively
    <3>2. pr[c].seen # "done"
      BY <3>1
    <3>3. QED
      BY <3>1, <3>2 DEF Works
  <2>3. QED
    BY <1>1, <2>1, <2>2
<1>4. c # 0 => pr[c].alive \in BOOLEAN
  BY <1>1 DEF Lively, IsProc
<1>5. QED
  BY <1>2, <1>3, <1>4

(* The session and its processes, as a call of the adapter leaves them.     *)
LiveState(st) ==
  /\ DOMAIN st = {"session", "calls", "proc"} /\ ClaudeFields \subseteq DOMAIN st.session
  /\ Lively(st.session, st.proc)

LEMMA LiveBecomes ==
  ASSUME NEW st, LiveState(st), Claude!Becomes(st)
  PROVE  ClaudeLives'
<1>1. x2' = st.session /\ x4' = st.proc
  BY DEF Claude!Becomes
<1>2. Lively(x2', x4')
  BY <1>1 DEF LiveState
<1>3. QED
  BY <1>2 DEF ClaudeLives, Lively, IsProc, Works, Piped, Holds

LEMMA LiveDelivered ==
  ASSUME NEW st, LiveState(st), NEW t \in Turns
  PROVE  LiveState(Claude!Delivered(st, t))
<1>1. PICK d, m, w : /\ d = Claude!Delivered(st, t) /\ m = Claude!Msg("user", t)
                     /\ w = Claude!Wrote(st.proc, st.session.cur, m)
  OBVIOUS
<1>2. m.kind = "user" /\ m.turn = t /\ Told(m)
  BY <1>1, NoTurnIsNoTurn DEF Claude!Msg, Told
<1>3. /\ DOMAIN d = {"session", "calls", "proc"} /\ d.proc = w
      /\ d.session = [st.session EXCEPT !.active = t]
  BY <1>1 DEF Claude!Delivered
<1>4. DOMAIN d.session = DOMAIN st.session /\ d.session.cur = st.session.cur
  BY <1>3 DEF LiveState, ClaudeFields
<1>5. Lively(st.session, w) /\ (st.session.cur # 0 => Works(w[st.session.cur]))
  BY <1>1, <1>2, ClaudeWrote, NoTurnIsNoTurn DEF LiveState
<1>6. Lively(d.session, d.proc)
  BY <1>3, <1>4, <1>5 DEF Lively
<1>7. QED
  BY <1>1, <1>3, <1>4, <1>6 DEF LiveState

LEMMA LiveAsking ==
  ASSUME NEW st, LiveState(st), NEW m, m.kind \in Controls, NEW p
  PROVE  LiveState(Claude!Asking(st, m, p))
<1>1. PICK d, w : d = Claude!Asking(st, m, p) /\ w = Claude!Wrote(st.proc, st.session.cur, m)
  OBVIOUS
<1>2. /\ DOMAIN d = {"session", "calls", "proc"} /\ d.proc = w
      /\ d.session = [st.session EXCEPT !.pending = @ \cup {m}]
  BY <1>1 DEF Claude!Asking
<1>3. /\ DOMAIN d.session = DOMAIN st.session /\ d.session.cur = st.session.cur
      /\ d.session.active = st.session.active
  BY <1>2 DEF LiveState, ClaudeFields
<1>4. Lively(st.session, w)
  BY <1>1, ClaudeWrote DEF LiveState, Told
<1>5. Lively(d.session, d.proc)
  BY <1>2, <1>3, <1>4 DEF Lively
<1>6. QED
  BY <1>1, <1>2, <1>3, <1>5 DEF LiveState

LEMMA LiveModeDone ==
  ASSUME NEW st, LiveState(st), NEW t \in Turns
  PROVE  LiveState(Claude!ModeDone(st, t))
<1>1. PICK m : m = Claude!Set("setModel", t, st.calls.model[t])
  OBVIOUS
<1>2. m.kind = "setModel"
  BY <1>1 DEF Claude!Set
<1>3. m.kind \in Controls
  BY <1>2 DEF Controls
<1>4. \/ Claude!ModeDone(st, t) = Claude!Delivered(st, t)
      \/ Claude!ModeDone(st, t) = Claude!Asking(st, m, "model")
  BY <1>1 DEF Claude!ModeDone
<1>5. QED
  BY <1>3, <1>4, LiveDelivered, LiveAsking

(* A process is ended, by the session or by itself.                         *)
LEMMA ProcDies ==
  ASSUME NEW s, NEW pr, Lively(s, pr), NEW p \in 1..MaxSpawns \cup {0}
  PROVE  LET w == Claude!Dead(pr, p) IN
           /\ DOMAIN w = 1..MaxSpawns /\ \A q \in 1..MaxSpawns : IsProc(w[q])
           /\ Lively(s, w)
<1>1. PICK w : w = Claude!Dead(pr, p)
  OBVIOUS
<1>2. CASE p = 0
  BY <1>1, <1>2, NoProcIsNone DEF Claude!Dead, Lively
<1>3. CASE p \in 1..MaxSpawns
  <2>1. PICK r : r = [pr[p] EXCEPT !.alive = FALSE, !.inp = <<>>, !.running = NoTurn]
    OBVIOUS
  <2>2. w = [pr EXCEPT ![p] = r]
    BY <1>1, <1>3, <2>1, NoProcIsNone DEF Claude!Dead
  <2>3. /\ DOMAIN r = DOMAIN pr[p] /\ r.alive = FALSE /\ r.inp = <<>> /\ r.running = NoTurn
        /\ r.out = pr[p].out /\ r.seen = pr[p].seen
    BY <1>3, <2>1 DEF Lively, IsProc
  <2>4. Piped(r.inp) /\ \A m : ~Holds(r.inp, m)
    <3>1. r.inp \in Seq({}) /\ DOMAIN r.inp = {}
      BY <2>3
    <3>2. QED
      BY <3>1 DEF Piped, Holds
  <2>5. IsProc(r)
    BY <1>3, <2>3, <2>4 DEF Lively, IsProc
  <2>6. s.cur = p => Works(r)
    <3> SUFFICES ASSUME s.cur = p PROVE Works(r)
      OBVIOUS
    <3>1. r.seen = "no" \/ r.seen = "reading"
      BY <1>3, <2>3, NoProcIsNone DEF Lively
    <3>2. r.seen # "done"
      BY <3>1
    <3>3. QED
      BY <2>3, <3>2 DEF Works
  <2>7. Lively(s, [pr EXCEPT ![p] = r])
    <3>1. s.cur = p => r.seen = pr[p].seen \/ r.seen = "reading"
      BY <2>3
    <3>2. s.cur = p /\ s.active # NoTurn /\ Works(pr[p]) => Works(r)
      BY <2>6
    <3>3. QED
      BY <1>3, <2>5, <3>1, <3>2, ProcGoesOn
  <2>8. QED
    BY <1>1, <2>2, <2>7 DEF Lively
<1>4. QED
  BY <1>2, <1>3

(* A control request's answer, refusal or timeout is acted upon.            *)
LEMMA LiveResolved ==
  ASSUME NEW st, LiveState(st), NEW m, m.turn \in Turns, NEW acked \in BOOLEAN,
         m.kind \in {"setMode", "setModel", "interrupt"}
  PROVE  LiveState(Claude!Resolved(st, m, acked))
<1>1. ASSUME NEW sa, DOMAIN sa = {"session", "calls", "proc"}, sa.proc = st.proc,
             DOMAIN sa.session = DOMAIN st.session, sa.session.cur = st.session.cur,
             sa.session.active = st.session.active
      PROVE  LiveState(sa)
  BY <1>1 DEF LiveState, Lively
<1>2. CASE m.kind = "setMode"
  <2>1. PICK sa : sa = IF acked THEN [st EXCEPT !.session.applied = st.session.mode] ELSE st
    OBVIOUS
  <2>2. LiveState(sa)
    BY <1>1, <2>1 DEF LiveState, ClaudeFields
  <2>3. Claude!Resolved(st, m, acked) = Claude!ModeDone(sa, m.turn)
    BY <1>2, <2>1 DEF Claude!Resolved
  <2>4. QED
    BY <2>2, <2>3, LiveModeDone
<1>3. CASE m.kind = "setModel"
  <2>1. PICK sa : sa = IF acked THEN [st EXCEPT !.session.model = m.want] ELSE st
    OBVIOUS
  <2>2. LiveState(sa)
    BY <1>1, <2>1 DEF LiveState, ClaudeFields
  <2>3. Claude!Resolved(st, m, acked) = Claude!Delivered(sa, m.turn)
    BY <1>3, <2>1 DEF Claude!Resolved
  <2>4. QED
    BY <2>2, <2>3, LiveDelivered
<1>4. CASE m.kind = "interrupt" /\ acked
  <2>1. PICK timer : Claude!Resolved(st, m, acked)
                       = [st EXCEPT !.calls.stop[m.turn] = "done", !.session.timer = timer]
    BY <1>4 DEF Claude!Resolved
  <2>2. PICK sa : sa = [st EXCEPT !.calls.stop[m.turn] = "done", !.session.timer = timer]
    OBVIOUS
  <2>3. /\ DOMAIN sa = {"session", "calls", "proc"} /\ sa.proc = st.proc
        /\ sa.session = [st.session EXCEPT !.timer = timer]
    BY <2>2 DEF LiveState
  <2>4. LiveState(sa)
    BY <1>1, <2>3 DEF LiveState, ClaudeFields
  <2>5. QED
    BY <2>1, <2>2, <2>4
<1>5. CASE m.kind = "interrupt" /\ acked = FALSE
  <2>1. PICK d, c : d = Claude!Killing(st, m.turn) /\ c = st.session.cur
    OBVIOUS
  <2>2. /\ DOMAIN d = {"session", "calls", "proc"} /\ d.proc = Claude!Dead(st.proc, c)
        /\ d.session = [st.session EXCEPT !.cur = 0, !.applied = NoTurn]
    BY <2>1, NoProcIsNone DEF Claude!Killing
  <2>3. DOMAIN d.session = DOMAIN st.session /\ d.session.cur = 0
    BY <2>2 DEF LiveState, ClaudeFields
  <2>4. DOMAIN d.proc = 1..MaxSpawns /\ \A p \in 1..MaxSpawns : IsProc(d.proc[p])
    BY <2>1, <2>2, ProcDies DEF LiveState, Lively
  <2>5. LiveState(d)
    BY <2>2, <2>3, <2>4 DEF LiveState, Lively
  <2>6. QED
    BY <1>5, <2>1, <2>5 DEF Claude!Resolved
<1>6. QED
  BY <1>2, <1>3, <1>4, <1>5

LEMMA LiveGives ==
  ASSUME ClaudeInv, NEW m \in x2.pending \cup x2.rejected, NEW acked \in BOOLEAN, NEW pr,
         Lively(x2, pr), Claude!Gives([Claude!Here EXCEPT !.proc = pr], m, acked)
  PROVE  ClaudeLives'
<1>1. m.kind \in {"setMode", "setModel", "interrupt"} /\ m.turn \in Turns
  BY DEF ClaudeInv, ClaudeSession
<1>2. PICK st : st = AnsweredState(m, pr)
  OBVIOUS
<1>3. /\ DOMAIN st = {"session", "calls", "proc"} /\ st.proc = pr
      /\ st.session = [x2 EXCEPT !.pending = @ \ {m}, !.rejected = @ \ {m}]
  BY <1>2 DEF AnsweredState
<1>4. /\ ClaudeFields \subseteq DOMAIN st.session /\ st.session.cur = x2.cur
      /\ st.session.active = x2.active
  BY <1>3 DEF ClaudeInv, ClaudeSession, ClaudeFields
<1>5. LiveState(st)
  BY <1>3, <1>4 DEF LiveState, Lively
<1>6. LiveState(Claude!Resolved(st, m, acked)) /\ Claude!Becomes(Claude!Resolved(st, m, acked))
  BY <1>1, <1>2, <1>5, LiveResolved, GivesResolves
<1>7. QED
  BY <1>6, LiveBecomes

LEMMA LiveSends ==
  ASSUME ClaudeLives, ClaudeInv, NEW t \in Turns, Claude!Send(t)
  PROVE  ClaudeLives'
<1>1. CASE UNCHANGED <<x2, x3, x4>>
  BY <1>1 DEF ClaudeLives, Lively, IsProc, Works, Piped, Holds
<1>2. ASSUME NEW m \in Models, x2.active = NoTurn, Claude!IsAlive \/ Claude!Unused # {},
             LET st == [Claude!Here EXCEPT !.calls.model[t] = m]
                 spawned == [st EXCEPT
                   !.session.cur = Claude!NextProc, !.session.applied = x2.mode, !.session.model = m,
                   !.proc[Claude!NextProc] = Claude!Born(x2.mode, x2.model)]
             IN  Claude!Becomes(IF ~Claude!IsAlive THEN Claude!Delivered(spawned, t)
                                ELSE IF x2.applied # x2.mode
                                THEN Claude!Asking(st, Claude!Set("setMode", t, x2.mode), "mode")
                                ELSE Claude!ModeDone(st, t))
      PROVE  ClaudeLives'
  <2> DEFINE st == [Claude!Here EXCEPT !.calls.model[t] = m]
             n == Claude!NextProc
             r == Claude!Born(x2.mode, x2.model)
             spawned == [st EXCEPT
               !.session.cur = n, !.session.applied = x2.mode, !.session.model = m, !.proc[n] = r]
             c == [x3 EXCEPT !.model = [x3.model EXCEPT ![t] = m]]
  <2>1. st = [session |-> x2, calls |-> c, proc |-> x4]
    BY DEF Claude!Here
  <2>2. /\ DOMAIN spawned = {"session", "calls", "proc"}
        /\ spawned.session = [x2 EXCEPT !.cur = n, !.applied = x2.mode, !.model = m]
        /\ spawned.proc = [x4 EXCEPT ![n] = r]
    <3> HIDE DEF st, n, r
    <3>1. QED
      BY <2>1
  <2>3. ClaudeFields \subseteq DOMAIN x2
    BY DEF ClaudeInv, ClaudeSession
  <2>4. CASE ~Claude!IsAlive
    <3>1. Claude!Becomes(Claude!Delivered(spawned, t))
      BY <1>2, <2>4
    <3>2. n \in 1..MaxSpawns
      BY <1>2, <2>4, NoProcIsNone DEF Claude!NextProc, Claude!Unused
    <3>3. IsProc(r) /\ r.seen = "no"
      <4>1. /\ DOMAIN r = {"alive", "seen", "inp", "out", "running", "asking", "asked", "mode", "model"}
            /\ r.alive = TRUE /\ r.seen = "no" /\ r.inp = <<>> /\ r.out = <<>>
        BY DEF Claude!Born, Claude!Unborn
      <4>2. Piped(<<>>) /\ \A k : ~Holds(<<>>, k)
        <5>1. <<>> \in Seq({}) /\ DOMAIN <<>> = {}
          OBVIOUS
        <5>2. QED
          BY <5>1 DEF Piped, Holds
      <4>3. QED
        BY <4>1, <4>2 DEF IsProc
    <3> HIDE DEF st, n, r, spawned, c
    <3>4. PICK w : w = [x4 EXCEPT ![n] = r]
      OBVIOUS
    <3>5. DOMAIN w = 1..MaxSpawns /\ w[n] = r /\ \A q \in 1..MaxSpawns : IsProc(w[q])
      BY <3>2, <3>3, <3>4 DEF ClaudeLives, Lively
    <3>6. /\ ClaudeFields \subseteq DOMAIN spawned.session /\ spawned.session.cur = n
          /\ spawned.session.active = NoTurn
      BY <1>2, <2>2, <2>3 DEF ClaudeFields
    <3>7. LiveState(spawned)
      BY <2>2, <3>2, <3>3, <3>4, <3>5, <3>6 DEF LiveState, Lively
    <3>8. QED
      BY <3>1, <3>7, LiveDelivered, LiveBecomes
  <2>5. CASE Claude!IsAlive
    <3> DEFINE q == Claude!Set("setMode", t, x2.mode)
    <3>1. q.kind = "setMode"
      BY DEF Claude!Set
    <3>2. q.kind \in Controls
      BY <3>1 DEF Controls
    <3>3. Claude!Becomes(Claude!Asking(st, q, "mode")) \/ Claude!Becomes(Claude!ModeDone(st, t))
      BY <1>2, <2>5
    <3>4. LiveState(st)
      BY <2>1, <2>3 DEF LiveState, ClaudeLives
    <3> HIDE DEF st, q
    <3>5. QED
      BY <3>2, <3>3, <3>4, LiveAsking, LiveModeDone, LiveBecomes
  <2>6. QED
    BY <2>4, <2>5
<1>3. QED
  BY <1>1, <1>2 DEF Claude!Send

(* A step lets go of the process, or of the turn, or of neither.            *)
LEMMA LiveMoves ==
  ASSUME Lively(x2, x4'), x2'.cur = x2.cur \/ x2'.cur = 0,
         x2'.active = x2.active \/ x2'.active = NoTurn
  PROVE  ClaudeLives'
<1>1. Lively(x2', x4')
  BY DEF Lively
<1>2. QED
  BY <1>1 DEF ClaudeLives, Lively, IsProc, Works, Piped, Holds

LEMMA LiveProc ==
  ASSUME ClaudeLives, NEW p \in 1..MaxSpawns, NEW r, IsProc(r),
         r.seen = x4[p].seen \/ x2.cur # p \/ r.seen = "reading", Works(x4[p]) => Works(r),
         x4' = [x4 EXCEPT ![p] = r], x2' = x2
  PROVE  ClaudeLives'
<1>1. x2.cur = p => r.seen = x4[p].seen \/ r.seen = "reading"
  OBVIOUS
<1>2. x2.cur = p /\ x2.active # NoTurn /\ Works(x4[p]) => Works(r)
  OBVIOUS
<1>3. Lively(x2, x4)
  BY DEF ClaudeLives
<1>4. Lively(x2, [x4 EXCEPT ![p] = r])
  BY <1>1, <1>2, <1>3, ProcGoesOn
<1>5. QED
  BY <1>4, LiveMoves

LEMMA SameCli ==
  /\ \A p : Switch!CliTakesTurn(p) <=> Claude!CliTakesTurn(p)
  /\ \A p : Switch!CliControls(p) <=> Claude!CliControls(p)
  /\ \A p : Switch!CliResult(p) <=> Claude!CliResult(p)
  /\ \A p : Switch!WatchExit(p) <=> Claude!WatchExit(p)
<1>1. \A p, i : Switch!Takes(p, i) <=> Claude!Takes(p, i)
  BY DEF Switch!Takes, Claude!Takes
<1>2. \A p, i : Switch!Taken(p, i) = Claude!Taken(p, i)
  BY DEF Switch!Taken, Claude!Taken, Switch!Without, Claude!Without
<1>3. \A k, t : Switch!Msg(k, t) = Claude!Msg(k, t)
  BY DEF Switch!Msg, Claude!Msg
<1>4. \A p : Switch!CliTakesTurn(p) <=> Claude!CliTakesTurn(p)
  BY <1>1, <1>2 DEF Switch!CliTakesTurn, Claude!CliTakesTurn
<1>5. \A p : Switch!CliControls(p) <=> Claude!CliControls(p)
  BY ZenonT(60) DEF Switch!CliControls, Claude!CliControls, Switch!Takes, Claude!Takes,
     Switch!Taken, Claude!Taken, Switch!Without, Claude!Without, Switch!Msg, Claude!Msg
<1>6. \A p : Switch!CliResult(p) <=> Claude!CliResult(p)
  BY <1>3 DEF Switch!CliResult, Claude!CliResult
<1>7. \A p : Switch!WatchExit(p) <=> Claude!WatchExit(p)
  BY DEF Switch!WatchExit, Claude!WatchExit, Switch!Current, Claude!Current, Switch!NoProc, Claude!NoProc
<1>8. QED
  BY <1>4, <1>5, <1>6, <1>7

(* Claude reads, works and answers.                                         *)
LEMMA CliLives ==
  ASSUME ClaudeLives, NEW p \in 1..MaxSpawns,
         \/ Claude!CliTakesTurn(p) \/ Claude!CliControls(p) \/ Claude!CliResult(p)
         \/ Claude!CliAsks(p) \/ Switch!CliAsks(p)
  PROVE  ClaudeLives'
<1>0. /\ IsProc(x4[p]) /\ Piped(x4[p].inp) /\ Piped(x4[p].out) /\ DOMAIN x4 = 1..MaxSpawns
      /\ {"alive", "seen", "inp", "out", "running"} \subseteq DOMAIN x4[p] /\ x4[p].alive \in BOOLEAN
  BY DEF ClaudeLives, Lively, IsProc
<1>1. ASSUME NEW i \in DOMAIN x4[p].inp, NEW a, a = Claude!Taken(p, i)
      PROVE  /\ DOMAIN a = DOMAIN x4[p] /\ a.inp = Without(x4[p].inp, i) /\ a.alive = x4[p].alive
             /\ a.seen = x4[p].seen /\ a.out = x4[p].out /\ a.running = x4[p].running
  <2>1. Claude!Without(x4[p].inp, i) = Without(x4[p].inp, i)
    BY DEF Claude!Without, Without
  <2>2. a = [x4[p] EXCEPT !.inp = Without(x4[p].inp, i)]
    BY <1>1, <2>1 DEF Claude!Taken
  <2>3. QED
    BY <1>0, <2>2
<1>2. ASSUME NEW i \in DOMAIN x4[p].inp
      PROVE  /\ Piped(Without(x4[p].inp, i)) /\ Holds(x4[p].inp, x4[p].inp[i])
             /\ \A n : Holds(x4[p].inp, n) <=> n = x4[p].inp[i] \/ Holds(Without(x4[p].inp, i), n)
  BY <1>0, PipeWithout
(* One message was taken, and what was said, if anything, does no harm.     *)
<1>3. ASSUME NEW r, NEW i \in DOMAIN x4[p].inp, x4[p].inp[i].kind # "user",
             {"alive", "seen", "inp", "out", "running"} \subseteq DOMAIN r,
             r.inp = Without(x4[p].inp, i), r.alive = x4[p].alive, r.seen = x4[p].seen,
             Piped(r.out), \A n : Holds(x4[p].out, n) => Holds(r.out, n),
             r.running = x4[p].running \/ \E n : Holds(r.out, n) /\ n.kind = "result",
             x4' = [x4 EXCEPT ![p] = r], x2' = x2
      PROVE  ClaudeLives'
  <2>1. IsProc(r)
    BY <1>0, <1>2, <1>3 DEF IsProc
  <2>2. Works(x4[p]) => Works(r)
    <3>1. \A n : Holds(x4[p].inp, n) /\ n.kind = "user" => Holds(r.inp, n)
      BY <1>2, <1>3
    <3>2. QED
      BY <1>3, <3>1 DEF Works
  <2>3. QED
    BY <1>3, <2>1, <2>2, LiveProc
<1>4. CASE Claude!CliTakesTurn(p)
  <2>1. /\ 1 \in DOMAIN x4[p].inp /\ x4[p].inp[1].kind = "user" /\ x2' = x2
        /\ x4' = [x4 EXCEPT ![p] = [Claude!Taken(p, 1) EXCEPT !.running = x4[p].inp[1].turn]]
    BY <1>4 DEF Claude!CliTakesTurn, Claude!Takes
  <2>2. PICK a, r : a = Claude!Taken(p, 1) /\ r = [a EXCEPT !.running = x4[p].inp[1].turn]
    OBVIOUS
  <2>3. /\ DOMAIN r = DOMAIN x4[p] /\ r.inp = Without(x4[p].inp, 1) /\ r.alive = x4[p].alive
        /\ r.seen = x4[p].seen /\ r.out = x4[p].out /\ r.running = x4[p].inp[1].turn
    BY <1>0, <1>1, <2>1, <2>2
  <2>4. IsProc(r)
    BY <1>0, <1>2, <2>1, <2>3 DEF IsProc
  <2>5. r.running # NoTurn
    <3>1. Told(x4[p].inp[1])
      BY <1>0, <1>2, <2>1 DEF IsProc
    <3>2. x4[p].inp[1].kind \notin Controls
      BY <2>1 DEF Controls
    <3>3. QED
      BY <2>3, <3>1, <3>2 DEF Told
  <2>6. Works(r)
    BY <2>5 DEF Works
  <2>7. QED
    BY <2>1, <2>2, <2>3, <2>4, <2>6, LiveProc
<1>5. CASE Claude!CliControls(p)
  <2>1. PICK i \in DOMAIN x4[p].inp : LET m == x4[p].inp[i] IN
          /\ m.kind # "user"
          /\ x4' = [x4 EXCEPT ![p] =
               CASE m.kind = "setMode"  -> [Claude!Taken(p, i) EXCEPT !.mode = m.want, !.out = Append(@, m)]
                 [] m.kind = "setModel" -> [Claude!Taken(p, i) EXCEPT !.model = m.want, !.out = Append(@, m)]
                 [] m.kind = "interrupt" ->
                      [Claude!Taken(p, i) EXCEPT !.running = NoTurn, !.asking = FALSE,
                         !.out = IF x4[p].running = NoTurn THEN Append(@, m)
                                 ELSE @ \o <<m, Claude!Msg("result", x4[p].running)>>]
                 [] m.kind = "unsupported" -> [Claude!Taken(p, i) EXCEPT !.asking = FALSE]]
    BY <1>5 DEF Claude!CliControls
  <2>2. x2' = x2
    BY <1>5 DEF Claude!CliControls
  <2>3. PICK a, m : a = Claude!Taken(p, i) /\ m = x4[p].inp[i]
    OBVIOUS
  <2>4. /\ DOMAIN a = DOMAIN x4[p] /\ a.inp = Without(x4[p].inp, i) /\ a.alive = x4[p].alive
        /\ a.seen = x4[p].seen /\ a.out = x4[p].out /\ a.running = x4[p].running
    BY <1>1, <2>3
  <2>5. PICK q : q = Append(x4[p].out, m)
    OBVIOUS
  <2>6. Piped(q) /\ \A n : Holds(q, n) <=> Holds(x4[p].out, n) \/ n = m
    BY <1>0, <2>5, PipeMore
  <2>7. m.kind \in Controls
    <3>1. Told(m) /\ m.kind # "user"
      BY <1>0, <1>2, <2>1, <2>3 DEF IsProc
    <3>2. QED
      BY <3>1 DEF Told
  <2>8. ASSUME NEW r, {"alive", "seen", "inp", "out", "running"} \subseteq DOMAIN r,
               r.inp = a.inp, r.alive = a.alive, r.seen = a.seen,
               Piped(r.out), \A n : Holds(x4[p].out, n) => Holds(r.out, n),
               r.running = a.running \/ \E n : Holds(r.out, n) /\ n.kind = "result",
               x4' = [x4 EXCEPT ![p] = r]
        PROVE  ClaudeLives'
    BY <1>3, <2>1, <2>2, <2>4, <2>8
  <2>9. CASE m.kind = "setMode"
    <3>1. PICK r : r = [a EXCEPT !.mode = m.want, !.out = q]
      OBVIOUS
    <3>2. x4' = [x4 EXCEPT ![p] = r]
      BY <2>1, <2>3, <2>4, <2>5, <2>9, <3>1
    <3>3. DOMAIN r = DOMAIN a /\ r.inp = a.inp /\ r.alive = a.alive /\ r.seen = a.seen /\ r.out = q
          /\ r.running = a.running
      BY <1>0, <2>4, <3>1
    <3>4. QED
      BY <1>0, <2>4, <2>6, <2>8, <3>2, <3>3
  <2>10. CASE m.kind = "setModel"
    <3>1. PICK r : r = [a EXCEPT !.model = m.want, !.out = q]
      OBVIOUS
    <3>2. x4' = [x4 EXCEPT ![p] = r]
      BY <2>1, <2>3, <2>4, <2>5, <2>10, <3>1
    <3>3. DOMAIN r = DOMAIN a /\ r.inp = a.inp /\ r.alive = a.alive /\ r.seen = a.seen /\ r.out = q
          /\ r.running = a.running
      BY <1>0, <2>4, <3>1
    <3>4. QED
      BY <1>0, <2>4, <2>6, <2>8, <3>2, <3>3
  <2>11. CASE m.kind = "unsupported"
    <3>1. PICK r : r = [a EXCEPT !.asking = FALSE]
      OBVIOUS
    <3>2. x4' = [x4 EXCEPT ![p] = r]
      BY <2>1, <2>3, <2>11, <3>1
    <3>3. DOMAIN r = DOMAIN a /\ r.inp = a.inp /\ r.alive = a.alive /\ r.seen = a.seen
          /\ r.out = x4[p].out /\ r.running = a.running
      BY <1>0, <2>4, <3>1
    <3>4. QED
      BY <1>0, <2>4, <2>8, <3>2, <3>3
  <2>12. CASE m.kind = "interrupt"
    <3>1. PICK o, e : /\ e = Claude!Msg("result", x4[p].running)
                      /\ o = IF x4[p].running = NoTurn THEN q ELSE x4[p].out \o <<m, e>>
      OBVIOUS
    <3>2. PICK r : r = [a EXCEPT !.running = NoTurn, !.asking = FALSE, !.out = o]
      OBVIOUS
    <3>3. x4' = [x4 EXCEPT ![p] = r]
      BY <2>1, <2>3, <2>4, <2>5, <2>12, <3>1, <3>2
    <3>4. /\ DOMAIN r = DOMAIN a /\ r.inp = a.inp /\ r.alive = a.alive /\ r.seen = a.seen
          /\ r.out = o /\ r.running = NoTurn
      BY <1>0, <2>4, <3>2
    <3>5. CASE x4[p].running = NoTurn
      BY <1>0, <2>4, <2>6, <2>8, <3>1, <3>3, <3>4, <3>5
    <3>6. CASE x4[p].running # NoTurn
      <4>1. Piped(o) /\ \A n : Holds(o, n) <=> Holds(x4[p].out, n) \/ n = m \/ n = e
        BY <1>0, <3>1, <3>6, PipeTwoMore
      <4>2. e.kind = "result"
        BY <3>1 DEF Claude!Msg
      <4>3. QED
        BY <1>0, <2>4, <2>8, <3>3, <3>4, <4>1, <4>2
    <3>7. QED
      BY <3>5, <3>6
  <2>13. QED
    BY <2>7, <2>9, <2>10, <2>11, <2>12 DEF Controls
(* Something is said, and perhaps a turn ended.                             *)
<1>6. ASSUME NEW r, NEW m, DOMAIN r = DOMAIN x4[p], r.inp = x4[p].inp, r.alive = x4[p].alive,
             r.seen = x4[p].seen, r.out = Append(x4[p].out, m),
             r.running = x4[p].running \/ m.kind = "result",
             x4' = [x4 EXCEPT ![p] = r], x2' = x2
      PROVE  ClaudeLives'
  <2>1. Piped(r.out) /\ \A n : Holds(r.out, n) <=> Holds(x4[p].out, n) \/ n = m
    BY <1>0, <1>6, PipeMore
  <2>2. IsProc(r)
    BY <1>0, <1>6, <2>1 DEF IsProc
  <2>3. Works(x4[p]) => Works(r)
    BY <1>6, <2>1 DEF Works
  <2>4. QED
    BY <1>6, <2>2, <2>3, LiveProc
<1>7. CASE Claude!CliResult(p)
  <2>1. PICK m, r : /\ m = Claude!Msg("result", x4[p].running)
                    /\ r = [x4[p] EXCEPT !.running = NoTurn, !.out = Append(@, m)]
    OBVIOUS
  <2>2. m.kind = "result"
    BY <2>1 DEF Claude!Msg
  <2>3. x4' = [x4 EXCEPT ![p] = r] /\ x2' = x2
    BY <1>7, <2>1 DEF Claude!CliResult
  <2>4. /\ DOMAIN r = DOMAIN x4[p] /\ r.inp = x4[p].inp /\ r.alive = x4[p].alive
        /\ r.seen = x4[p].seen /\ r.out = Append(x4[p].out, m)
    BY <1>0, <2>1
  <2>5. QED
    BY <1>6, <2>2, <2>3, <2>4
<1>8. CASE Claude!CliAsks(p) \/ Switch!CliAsks(p)
  <2>1. PICK m, r : /\ m = Claude!Msg("ask", NoTurn)
                    /\ r = [x4[p] EXCEPT !.asking = TRUE, !.asked = @ \cup {x4[p].running},
                                         !.out = Append(@, m)]
    OBVIOUS
  <2>2. x4' = [x4 EXCEPT ![p] = r] /\ x2' = x2
    BY <1>8, <2>1 DEF Claude!CliAsks, Switch!CliAsks, Claude!Msg, Switch!Msg
  <2>3. /\ DOMAIN r = DOMAIN x4[p] /\ r.inp = x4[p].inp /\ r.alive = x4[p].alive
        /\ r.seen = x4[p].seen /\ r.out = Append(x4[p].out, m) /\ r.running = x4[p].running
    BY <1>0, <2>1
  <2>4. QED
    BY <1>6, <2>2, <2>3
<1>9. QED
  BY <1>4, <1>5, <1>7, <1>8

(* A line of claude is read.                                                *)
LEMMA LineLives ==
  ASSUME ClaudeLives, ClaudeInv, NEW p \in 1..MaxSpawns, Switch!ReadLine(p)
  PROVE  ClaudeLives'
<1>0. /\ IsProc(x4[p]) /\ Piped(x4[p].out) /\ DOMAIN x4 = 1..MaxSpawns /\ x4[p].out # <<>>
      /\ {"alive", "seen", "inp", "out", "running"} \subseteq DOMAIN x4[p]
      /\ Lively(x2, x4)
  BY DEF ClaudeLives, Lively, IsProc, Switch!ReadLine
<1>1. PICK m, pr : m = Head(x4[p].out) /\ pr = [x4 EXCEPT ![p].out = Tail(@)]
  OBVIOUS
<1>2. PICK r : r = [x4[p] EXCEPT !.out = Tail(@)]
  OBVIOUS
<1>3. pr = [x4 EXCEPT ![p] = r]
  BY <1>1, <1>2
<1>4. /\ DOMAIN r = DOMAIN x4[p] /\ r.inp = x4[p].inp /\ r.alive = x4[p].alive
      /\ r.seen = x4[p].seen /\ r.out = Tail(x4[p].out) /\ r.running = x4[p].running
  BY <1>0, <1>2
<1>5. Piped(r.out) /\ \A n : Holds(x4[p].out, n) <=> n = m \/ Holds(r.out, n)
  BY <1>0, <1>1, <1>4, PipeLess
<1>6. IsProc(r)
  BY <1>0, <1>4, <1>5 DEF IsProc
<1>7. ASSUME NEW s, Lively(s, x4), s.cur # p \/ m.kind # "result" \/ s.active = NoTurn
      PROVE  Lively(s, pr)
  <2>1. s.cur = p => r.seen = x4[p].seen \/ r.seen = "reading"
    BY <1>4
  <2>2. s.cur = p /\ s.active # NoTurn /\ Works(x4[p]) => Works(r)
    BY <1>4, <1>5, <1>7 DEF Works
  <2>3. QED
    BY <1>3, <1>6, <1>7, <2>1, <2>2, ProcGoesOn
<1>8. CASE /\ ~Switch!Current(p)
           /\ x4' = pr /\ UNCHANGED <<x1, x2, x3>>
  <2>1. x2.cur # p
    BY <1>8, NoProcIsNone DEF Switch!Current, Switch!NoProc, Claude!NoProc
  <2>2. QED
    BY <1>0, <1>7, <1>8, <2>1, LiveMoves
<1>9. CASE /\ m.kind \in {"setMode", "setModel", "interrupt"}
           /\ IF m \in x2.pending
              THEN \E acked \in {TRUE, ~SlowCli} :
                     Switch!Gives([Switch!Here EXCEPT !.proc = pr], m, acked)
              ELSE x4' = pr /\ UNCHANGED <<x1, x2, x3>>
  <2>1. m.kind # "result"
    BY <1>9
  <2>2. Lively(x2, pr)
    BY <1>0, <1>7, <2>1
  <2>3. CASE m \in x2.pending
    <3>1. PICK acked \in BOOLEAN : Claude!Gives([Claude!Here EXCEPT !.proc = pr], m, acked)
      BY <1>9, <2>3, SameAdapter
    <3>2. QED
      BY <2>2, <2>3, <3>1, LiveGives
  <2>4. CASE x4' = pr /\ x2' = x2
    BY <2>2, <2>4, LiveMoves
  <2>5. QED
    BY <1>9, <2>3, <2>4
<1>10. CASE /\ Switch!Current(p) /\ m.kind = "ask"
            /\ x4' = Switch!Wrote(pr, p, Switch!Msg("unsupported", NoTurn))
            /\ UNCHANGED <<x1, x2, x3>>
  <2>1. m.kind # "result" /\ x2.cur = p
    BY <1>10 DEF Switch!Current
  <2>2. Lively(x2, pr)
    BY <1>0, <1>7, <2>1
  <2>3. PICK n : n = Claude!Msg("unsupported", NoTurn)
    OBVIOUS
  <2>4. n.kind = "unsupported"
    BY <2>3 DEF Claude!Msg
  <2>5. Told(n)
    BY <2>4 DEF Told, Controls
  <2>6. x4' = Claude!Wrote(pr, x2.cur, n)
    BY <1>10, <2>1, <2>3 DEF Claude!Msg, Switch!Msg, Claude!Wrote, Switch!Wrote, Claude!NoProc, Switch!NoProc
  <2>7. Lively(x2, x4')
    BY <2>2, <2>5, <2>6, ClaudeWrote
  <2>8. QED
    BY <1>10, <2>7, LiveMoves
<1>11. CASE x4' = pr /\ x2' = Switch!Settled(x2, x2.active)
  <2>1. /\ DOMAIN x2' = DOMAIN x2 /\ x2'.cur = x2.cur /\ x2'.active = NoTurn
    BY <1>11 DEF Switch!Settled, ClaudeInv, ClaudeSession, ClaudeFields
  <2>2. Lively(x2', x4)
    BY <1>0, <2>1 DEF Lively
  <2>3. Lively(x2', pr)
    BY <1>7, <2>1, <2>2
  <2>4. QED
    BY <1>11, <2>3 DEF ClaudeLives, Lively, IsProc, Works, Piped, Holds
<1>12. QED
  BY <1>1, <1>8, <1>9, <1>10, <1>11 DEF Switch!ReadLine

(* Processes exit, and are seen to.                                         *)
LEMMA ExitsLive ==
  ASSUME ClaudeLives, ClaudeInv, NEW p \in 1..MaxSpawns,
         Claude!WatchExit(p) \/ Claude!ExitReported(p) \/ Claude!CliExits(p)
  PROVE  ClaudeLives'
<1>0. /\ IsProc(x4[p]) /\ DOMAIN x4 = 1..MaxSpawns /\ Lively(x2, x4)
      /\ {"alive", "seen", "inp", "out", "running"} \subseteq DOMAIN x4[p]
      /\ ClaudeFields \subseteq DOMAIN x2
  BY DEF ClaudeLives, Lively, IsProc, ClaudeInv, ClaudeSession
<1>1. ASSUME NEW seen, NEW r, r = [x4[p] EXCEPT !.seen = seen]
      PROVE  /\ r.seen = seen /\ r.alive = x4[p].alive /\ r.inp = x4[p].inp
             /\ r.out = x4[p].out /\ r.running = x4[p].running /\ IsProc(r)
  <2>1. /\ DOMAIN r = DOMAIN x4[p] /\ r.seen = seen /\ r.alive = x4[p].alive
        /\ r.inp = x4[p].inp /\ r.out = x4[p].out /\ r.running = x4[p].running
    BY <1>0, <1>1
  <2>2. QED
    BY <1>0, <2>1 DEF IsProc
<1>2. CASE Claude!WatchExit(p)
  <2>1. PICK seen, r : /\ seen = IF Claude!Current(p) THEN "reading" ELSE "done"
                       /\ r = [x4[p] EXCEPT !.seen = seen]
    OBVIOUS
  <2>2. x4' = [x4 EXCEPT ![p] = r] /\ x2' = x2 /\ x4[p].alive = FALSE
    BY <1>0, <1>2, <2>1 DEF Claude!WatchExit, IsProc
  <2>3. /\ r.seen = seen /\ r.alive = x4[p].alive /\ r.inp = x4[p].inp
        /\ r.out = x4[p].out /\ r.running = x4[p].running /\ IsProc(r)
    BY <1>1, <2>1
  <2>4. CASE x2.cur = p
    <3>1. seen = "reading"
      BY <2>1, <2>4, NoProcIsNone DEF Claude!Current
    <3>2. r.seen # "done"
      BY <2>3, <3>1
    <3>3. Works(r)
      BY <2>2, <2>3, <3>2 DEF Works
    <3>4. QED
      BY <2>2, <2>3, <3>1, <3>3, LiveProc
  <2>5. CASE x2.cur # p
    <3>1. Lively(x2, [x4 EXCEPT ![p] = r])
      BY <1>0, <2>3, <2>5, ProcGoesOn
    <3>2. QED
      BY <2>2, <3>1, LiveMoves
  <2>6. QED
    BY <2>4, <2>5
<1>3. CASE Claude!ExitReported(p)
  <2>1. PICK r : r = [x4[p] EXCEPT !.seen = "done"]
    OBVIOUS
  <2>2. x4' = [x4 EXCEPT ![p] = r]
    BY <1>3, <2>1 DEF Claude!ExitReported
  <2>3. IsProc(r)
    BY <1>1, <2>1
  <2>4. DOMAIN x4' = 1..MaxSpawns /\ \A q \in 1..MaxSpawns : IsProc(x4'[q])
    BY <1>0, <2>2, <2>3 DEF Lively
  <2>5. x2'.cur = 0
    <3>1. PICK s : s = Claude!Settled(x2, x2.active)
      OBVIOUS
    <3>2. ClaudeFields \subseteq DOMAIN s
      BY <1>0, <3>1 DEF Claude!Settled
    <3>3. x2' = [s EXCEPT !.cur = 0, !.applied = NoTurn, !.pending = {}, !.rejected = @ \cup x2.pending]
      BY <1>3, <3>1, NoProcIsNone DEF Claude!ExitReported
    <3>4. QED
      BY <3>2, <3>3 DEF ClaudeFields
  <2>6. Lively(x2', x4')
    BY <2>4, <2>5 DEF Lively
  <2>7. QED
    BY <2>6 DEF ClaudeLives, Lively, IsProc, Works, Piped, Holds
<1>4. CASE Claude!CliExits(p)
  <2>1. x4' = Claude!Dead(x4, p) /\ x2' = x2
    BY <1>4 DEF Claude!CliExits
  <2>2. Lively(x2, x4')
    BY <1>0, <2>1, ProcDies
  <2>3. QED
    BY <2>1, <2>2, LiveMoves
<1>5. QED
  BY <1>2, <1>3, <1>4

(* The user, the timers and the callers.                                    *)
LEMMA SessionLives ==
  ASSUME ClaudeLives, ClaudeInv,
         \/ \E t \in Turns : Claude!Send(t) \/ Claude!Stop(t) \/ Claude!StopKilled(t)
         \/ Claude!TimerFires \/ Claude!ControlRejected \/ Switch!ControlTimesOut
         \/ Claude!StopSession
         \/ x4' = x4 /\ \E mode : x2' = [x2 EXCEPT !.mode = mode]
  PROVE  ClaudeLives'
<1>0. Lively(x2, x4) /\ ClaudeFields \subseteq DOMAIN x2 /\ x2.cur \in 1..MaxSpawns \cup {0}
  BY DEF ClaudeLives, Lively, ClaudeInv, ClaudeSession
<1>1. ASSUME NEW m \in x2.pending \cup x2.rejected, NEW acked \in BOOLEAN,
             Claude!Gives(Claude!Here, m, acked)
      PROVE  ClaudeLives'
  <2>1. Claude!Here = [Claude!Here EXCEPT !.proc = x4]
    BY DEF Claude!Here
  <2>2. Claude!Gives([Claude!Here EXCEPT !.proc = x4], m, acked)
    BY <1>1, <2>1
  <2>3. QED
    BY <1>0, <1>1, <2>2, LiveGives
<1>2. PICK st : st = Claude!Here
  OBVIOUS
<1>3. LiveState(st) /\ st.session = x2 /\ st.proc = x4
  BY <1>0, <1>2 DEF Claude!Here, LiveState
<1>4. ASSUME NEW t \in Turns, Claude!Stop(t) PROVE ClaudeLives'
  <2>1. CASE x2' = x2 /\ x4' = x4
    BY <1>0, <2>1, LiveMoves
  <2>2. CASE Claude!Becomes(Claude!Asking(st, Claude!Msg("interrupt", t), "asking"))
    <3>1. PICK m : m = Claude!Msg("interrupt", t)
      OBVIOUS
    <3>2. m.kind = "interrupt"
      BY <3>1 DEF Claude!Msg
    <3>3. m.kind \in Controls
      BY <3>2 DEF Controls
    <3>4. QED
      BY <1>3, <2>2, <3>1, <3>3, LiveAsking, LiveBecomes
  <2>3. CASE Claude!Becomes(Claude!Killing(st, t))
    <3>1. /\ x2' = [x2 EXCEPT !.cur = 0, !.applied = NoTurn] /\ x4' = Claude!Dead(x4, x2.cur)
      BY <1>3, <2>3, NoProcIsNone DEF Claude!Becomes, Claude!Killing
    <3>2. Lively(x2, x4')
      BY <1>0, <3>1, ProcDies
    <3>3. x2'.cur = 0 /\ x2'.active = x2.active
      BY <1>0, <3>1 DEF ClaudeFields
    <3>4. QED
      BY <3>2, <3>3, LiveMoves
  <2>4. QED
    BY <1>2, <1>4, <2>1, <2>2, <2>3 DEF Claude!Stop
<1>5. ASSUME NEW t, NEW s, s = Claude!Settled(x2, t)
      PROVE  /\ DOMAIN s = DOMAIN x2 /\ s.cur = x2.cur /\ (s.active = x2.active \/ s.active = NoTurn)
  BY <1>0, <1>5 DEF Claude!Settled, ClaudeFields
<1>6. ASSUME NEW t \in Turns, Claude!StopKilled(t) PROVE ClaudeLives'
  <2>1. x2' = Claude!Settled(x2, t) /\ x4' = x4
    BY <1>6 DEF Claude!StopKilled
  <2>2. QED
    BY <1>0, <1>5, <2>1, LiveMoves
<1>7. CASE Claude!TimerFires
  <2>1. PICK s : s = Claude!Settled(x2, x2.timer)
    OBVIOUS
  <2>2. x2' = [s EXCEPT !.timer = NoTurn] /\ x4' = x4
    BY <1>7, <2>1 DEF Claude!TimerFires
  <2>3. DOMAIN s = DOMAIN x2 /\ s.cur = x2.cur /\ (s.active = x2.active \/ s.active = NoTurn)
    BY <1>5, <2>1
  <2>4. x2'.cur = x2.cur /\ (x2'.active = x2.active \/ x2'.active = NoTurn)
    BY <1>0, <2>2, <2>3 DEF ClaudeFields
  <2>5. QED
    BY <1>0, <2>2, <2>4, LiveMoves
<1>8. CASE Claude!ControlRejected
  BY <1>1, <1>8 DEF Claude!ControlRejected
<1>9. CASE Switch!ControlTimesOut
  BY <1>1, <1>9, SameAdapter DEF Switch!ControlTimesOut
<1>10. CASE Claude!StopSession
  <2>1. /\ x2' = [x2 EXCEPT !.registered = FALSE, !.cur = 0, !.timer = NoTurn]
        /\ x4' = Claude!Dead(x4, x2.cur)
    BY <1>10, NoProcIsNone DEF Claude!StopSession
  <2>2. Lively(x2, x4')
    BY <1>0, <2>1, ProcDies
  <2>3. x2'.cur = 0 /\ x2'.active = x2.active
    BY <1>0, <2>1 DEF ClaudeFields
  <2>4. QED
    BY <2>2, <2>3, LiveMoves
<1>11. CASE x4' = x4 /\ \E mode : x2' = [x2 EXCEPT !.mode = mode]
  <2>1. x2'.cur = x2.cur /\ x2'.active = x2.active
    BY <1>0, <1>11 DEF ClaudeFields
  <2>2. QED
    BY <1>0, <1>11, <2>1, LiveMoves
<1>12. QED
  BY <1>4, <1>6, <1>7, <1>8, <1>9, <1>10, <1>11, LiveSends

LEMMA ClaudeLivesAtFirst ==
  ASSUME Claude!Init \/ Switch!Init
  PROVE  ClaudeLives
<1>1. PICK ok, mode :
        /\ x2.active = NoTurn /\ x2.cur = IF ok THEN 1 ELSE 0
        /\ x4 = [p \in 1..MaxSpawns |->
                   IF ok /\ p = 1 THEN Claude!Born(mode, NoTurn) ELSE Claude!Unborn]
  <2>1. /\ Switch!NoProc = 0 /\ Switch!Procs = 1..MaxSpawns /\ Switch!Unborn = Claude!Unborn
        /\ \A mode : Switch!Born(mode, NoTurn) = Claude!Born(mode, NoTurn)
    BY DEF Switch!NoProc, Switch!Procs, Switch!Born, Claude!Born, Switch!Unborn, Claude!Unborn
  <2>2. CASE Claude!Init
    <3>1. PICK mode \in Modes, ok \in {TRUE, ~MayExit} :
            /\ x2 = [registered |-> TRUE, active |-> NoTurn, timer |-> NoTurn,
                     cur |-> IF ok THEN 1 ELSE 0, mode |-> mode,
                     applied |-> IF ok THEN mode ELSE NoTurn,
                     model |-> NoTurn, pending |-> {}, rejected |-> {}]
            /\ x4 = [p \in 1..MaxSpawns |->
                       IF ok /\ p = 1 THEN Claude!Born(mode, NoTurn) ELSE Claude!Unborn]
      BY <2>2 DEF Claude!Init, Claude!NoProc, Claude!Procs
    <3>2. QED
      BY <3>1
  <2>3. CASE Switch!Init
    <3>1. PICK mode, ok :
            /\ x2 = [registered |-> TRUE, active |-> NoTurn, timer |-> NoTurn,
                     cur |-> IF ok THEN 1 ELSE 0, mode |-> mode,
                     applied |-> IF ok THEN mode ELSE NoTurn,
                     model |-> NoTurn, pending |-> {}, rejected |-> {}]
            /\ x4 = [p \in 1..MaxSpawns |->
                       IF ok /\ p = 1 THEN Switch!Born(mode, NoTurn) ELSE Switch!Unborn]
      BY <2>3, Zenon DEF Switch!Init, Switch!NoProc, Switch!Procs
    <3>2. QED
      BY <2>1, <3>1
  <2>4. QED
    BY <2>2, <2>3
<1>2. Piped(<<>>) /\ \A m : ~Holds(<<>>, m)
  <2>1. <<>> \in Seq({}) /\ DOMAIN <<>> = {}
    OBVIOUS
  <2>2. QED
    BY <2>1 DEF Piped, Holds
<1>3. IsProc(Claude!Unborn)
  <2>1. PICK r : r = Claude!Unborn
    OBVIOUS
  <2>2. /\ {"alive", "seen", "inp", "out", "running"} \subseteq DOMAIN r
        /\ r.alive = FALSE /\ r.inp = <<>> /\ r.out = <<>>
    BY <2>1 DEF Claude!Unborn
  <2>3. QED
    BY <1>2, <2>1, <2>2 DEF IsProc
<1>4. IsProc(Claude!Born(mode, NoTurn)) /\ Claude!Born(mode, NoTurn).seen = "no"
  <2>1. PICK r : r = Claude!Born(mode, NoTurn)
    OBVIOUS
  <2>2. /\ {"alive", "seen", "inp", "out", "running"} \subseteq DOMAIN r
        /\ r.alive = TRUE /\ r.inp = <<>> /\ r.out = <<>> /\ r.seen = "no"
    BY <2>1 DEF Claude!Born, Claude!Unborn
  <2>3. QED
    BY <1>2, <2>1, <2>2 DEF IsProc
<1>5. DOMAIN x4 = 1..MaxSpawns /\ \A p \in 1..MaxSpawns : IsProc(x4[p])
  BY <1>1, <1>3, <1>4
<1>6. 1 \in 1..MaxSpawns
  BY ProcessBounds
<1>7. x2.cur \in 1..MaxSpawns \cup {0} /\ (x2.cur # 0 => x4[x2.cur].seen = "no")
  BY <1>1, <1>4, <1>6
<1>8. QED
  BY <1>1, <1>5, <1>7 DEF ClaudeLives, Lively

LEMMA ClaudeLivesOn ==
  ASSUME ClaudeLives, ClaudeInv, Claude!Next \/ Switch!Next
  PROVE  ClaudeLives'
<1>1. CASE Claude!Next
  <2>1. CASE Claude!Adapter
    BY <2>1, SessionLives, LineLives, ExitsLive, NoProcIsNone, SameSteps DEF Claude!Adapter
  <2>2. CASE Claude!User
    BY <2>2, SessionLives DEF Claude!User, Claude!SetPermissionMode
  <2>3. CASE Claude!Cli \/ \E p \in Claude!Procs : Claude!CliAsks(p) \/ Claude!CliExits(p)
    BY <2>3, CliLives, ExitsLive, NoProcIsNone DEF Claude!Cli
  <2>4. CASE Claude!ControlTimesOut
    BY <2>4 DEF Claude!ControlTimesOut
  <2>5. QED
    BY <1>1, <2>1, <2>2, <2>3, <2>4 DEF Claude!Next
<1>2. CASE Switch!Next
  <2>0. Switch!Procs = 1..MaxSpawns
    BY DEF Switch!Procs
  <2>1. CASE Switch!Adapter
    BY <2>0, <2>1, SessionLives, LineLives, ExitsLive, SameSteps, SameCli DEF Switch!Adapter
  <2>2. CASE Switch!User
    BY <2>2, SessionLives, SameSteps DEF Switch!User, Switch!SetPermissionMode, Switch!StopSession
  <2>3. CASE Switch!Cli \/ \E p \in Switch!Procs : Switch!CliAsks(p) \/ Switch!CliExits(p)
    BY <2>0, <2>3, CliLives, SameCli DEF Switch!Cli, Switch!CliExits
  <2>4. CASE Switch!ControlTimesOut
    BY <2>4, SessionLives
  <2>5. QED
    BY <1>2, <2>1, <2>2, <2>3, <2>4 DEF Switch!Next
<1>3. QED
  BY <1>1, <1>2

LEMMA ClaudeLivesWell ==
  ASSUME ClaudeLives
  PROVE  Claude!ActiveWillSettle /\ Switch!ActiveWillSettle
<1>1. ASSUME NEW p \in 1..MaxSpawns, Works(x4[p]) PROVE Claude!Working(p) /\ Switch!Working(p)
  BY <1>1 DEF ClaudeLives, Lively, IsProc, Works, Holds, Claude!Working, Switch!Working
<1>2. QED
  BY <1>1, NoProcIsNone DEF ClaudeLives, Lively, Claude!ActiveWillSettle, Switch!ActiveWillSettle,
     Switch!NoProc, Claude!NoProc

(* All adapters                                                             *)
AdaptersLive ==
  /\ AdapterInv
  /\ Is("codex") => CodexLives
  /\ Is("claude") \/ Is("switch") => ClaudeLives
  /\ Is("acp") => AcpLives
  /\ Is("mock") => MockAsks

LEMMA AdaptersLiveOn ==
  /\ AdapterInit => AdaptersLive
  /\ AdaptersLive /\ [AdapterNext]_vars => AdaptersLive'
<1>1. AdapterInit => AdaptersLive
  BY AdaptersStart, CodexLivesAtFirst, ClaudeLivesAtFirst, AcpLivesAtFirst, MockAsksAtFirst
     DEF AdapterInit, AdaptersLive, Is
<1>2. ASSUME AdaptersLive, [AdapterNext]_vars PROVE AdaptersLive'
  <2>1. AdapterInv' /\ kind' = kind /\ AdapterInv
    BY <1>2, AdaptersStep DEF AdaptersLive
  <2>2. Is("codex") => CodexLives'
    <3> SUFFICES ASSUME Is("codex") PROVE CodexLives'
      OBVIOUS
    <3>1. Codex!Next \/ UNCHANGED vars
      BY <1>2 DEF AdapterNext, Of, Is, vars
    <3>2. CASE Codex!Next
      BY <1>2, <3>2, CodexLivesOn DEF AdaptersLive
    <3>3. CASE UNCHANGED vars
      BY <1>2, <3>3 DEF vars, AdaptersLive, CodexLives, CodexTyped, CodexFrees, CodexAsks, Followed, Holds,
         StartsEnd
    <3>4. QED
      BY <3>1, <3>2, <3>3
  <2>3. Is("claude") \/ Is("switch") => ClaudeLives'
    <3> SUFFICES ASSUME Is("claude") \/ Is("switch") PROVE ClaudeLives'
      OBVIOUS
    <3>1. Claude!Next \/ Switch!Next \/ UNCHANGED vars
      BY <1>2 DEF AdapterNext, Of, Is, vars
    <3>2. CASE Claude!Next \/ Switch!Next
      BY <1>2, <2>1, <3>2, ClaudeLivesOn DEF AdaptersLive, AdapterInv
    <3>3. CASE UNCHANGED vars
      BY <1>2, <3>3, LiveMoves DEF vars, AdaptersLive, ClaudeLives
    <3>4. QED
      BY <3>1, <3>2, <3>3
  <2>4. Is("acp") => AcpLives'
    <3> SUFFICES ASSUME Is("acp") PROVE AcpLives'
      OBVIOUS
    <3>1. Acp!Next \/ UNCHANGED vars
      BY <1>2 DEF AdapterNext, Of, Is, vars
    <3>2. CASE Acp!Next
      BY <1>2, <2>1, <3>2, AcpLivesOn DEF AdaptersLive, AdapterInv
    <3>3. CASE UNCHANGED vars
      <4>1. x2' = x2 /\ x5' = x5 /\ AcpLives
        BY <1>2, <3>3 DEF vars, AdaptersLive
      <4>2. QED
        <5>1. /\ AcpFields \subseteq DOMAIN x2' /\ x2'.acp = x2.acp
              /\ x2'.active = x2.active /\ x2'.pending = x2.pending
          BY <4>1 DEF AcpLives, AcpTyped
        <5>2. QED
          BY <4>1, <5>1, AcpRests
    <3>4. QED
      BY <3>1, <3>2, <3>3
  <2>5. Is("mock") => MockAsks'
    <3> SUFFICES ASSUME Is("mock") PROVE MockAsks'
      OBVIOUS
    <3>1. Mock!Next \/ UNCHANGED vars
      BY <1>2 DEF AdapterNext, Of, Is, vars
    <3>2. CASE Mock!Next
      BY <1>2, <2>1, <3>2, MockStillAsks DEF AdaptersLive, AdapterInv
    <3>3. CASE UNCHANGED vars
      BY <1>2, <3>3 DEF vars, AdaptersLive, MockAsks
    <3>4. QED
      BY <3>1, <3>2, <3>3
  <2>6. QED
    BY <2>1, <2>2, <2>3, <2>4, <2>5 DEF AdaptersLive, Is
<1>3. QED
  BY <1>1, <1>2

(* No session stays busy for good, whatever its process does: what it       *)
(* believes is running was given to it and has not ended, and as long as it *)
(* believes so something is on its way that will end it, a message to or    *)
(* from the process, its work, or the news that it is gone.                 *)
THEOREM SessionsWillFree == AdapterSpec => []BusyWillFree
<1>1. AdaptersLive => BusyWillFree
  <2> SUFFICES ASSUME AdaptersLive PROVE BusyWillFree
    OBVIOUS
  <2>1. Is("codex") => Codex!BusyWillFree /\ Codex!CallsAreGiven
    BY CodexLivesWell DEF AdaptersLive, AdapterInv, CodexInv
  <2>2. Is("claude") => Claude!ActiveWillSettle /\ Claude!RunningIsGiven
    BY ClaudeLivesWell DEF AdaptersLive, AdapterInv, ClaudeInv, Configured, Waits, Configures,
       Claude!RunningIsGiven, Claude!InFlight
  <2>3. Is("switch") => Switch!ActiveWillSettle /\ Switch!RunningIsGiven
    BY ClaudeLivesWell DEF AdaptersLive, AdapterInv, ClaudeInv, Configured, Waits, Configures,
       Switch!RunningIsGiven, Switch!InFlight
  <2>4. Is("acp") => Acp!BusyWillFree /\ Acp!RunningIsGiven
    BY AcpLivesWell DEF AdaptersLive, AdapterInv, AcpInv
  <2>5. /\ Is("stream") => Stream!RunningIsGiven
        /\ Is("openai") => Openai!RunningIsGiven
        /\ Is("mock") => Mock!RunningIsGiven
    BY DEF AdaptersLive, AdapterInv, StreamInv, OpenaiInv, MockInv
  <2>6. QED
    BY <2>1, <2>2, <2>3, <2>4, <2>5 DEF BusyWillFree, Is
<1>2. QED
  BY <1>1, AdaptersLiveOn, PTL DEF AdapterSpec

(* No agent is kept waiting: a permission that codex, an acp agent or the   *)
(* mock asks for and has no answer to is still shown, or the answer is on   *)
(* its way, however Stops, ends and restarts come in between.               *)
THEOREM AgentsGetAnswers == AdapterSpec => []AgentsAnswered
<1>1. AdaptersLive => AgentsAnswered
  BY CodexLivesWell, AcpLivesWell, MockAsksWell DEF AdaptersLive, AgentsAnswered, Is
<1>2. QED
  BY <1>1, AdaptersLiveOn, PTL DEF AdapterSpec

=============================================================================
