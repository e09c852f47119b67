----------------------------- MODULE FeedProofs -----------------------------
(***************************************************************************)
(* What the event feed guarantees for every set of threads, every replay   *)
(* window and any number of events, drops and clicks.                      *)
(***************************************************************************)
EXTENDS Feed, FiniteSetTheorems, TLAPS

-----------------------------------------------------------------------------
(* Sequences                                                               *)

(* The tail of a nonempty sequence is the sequence without its first place. *)
LEMMA TailFacts ==
  ASSUME NEW S, NEW s \in Seq(S), s # <<>>
  PROVE  /\ Tail(s) \in Seq(S) /\ Len(Tail(s)) = Len(s) - 1 /\ Len(s) >= 1
         /\ \A i \in 1..(Len(s) - 1) : Tail(s)[i] = s[i + 1]
         /\ Head(s) = s[1] /\ Head(s) \in S
  OBVIOUS

(* Concatenation puts one sequence behind the other. *)
LEMMA ConcatFacts ==
  ASSUME NEW S, NEW s \in Seq(S), NEW t \in Seq(S)
  PROVE  /\ s \o t \in Seq(S) /\ Len(s \o t) = Len(s) + Len(t)
         /\ \A i \in 1..Len(s) : (s \o t)[i] = s[i]
         /\ \A i \in 1..Len(t) : (s \o t)[Len(s) + i] = t[i]
  OBVIOUS

(* A sequence over a set is one over every larger set. *)
LEMMA SeqMonotone ==
  ASSUME NEW S, NEW T, S \subseteq T, NEW s \in Seq(S)
  PROVE  s \in Seq(T)
  OBVIOUS

(* Each place of a sequence over a set holds an element of the set. *)
LEMMA ElementsOf ==
  ASSUME NEW S, NEW s \in Seq(S)
  PROVE  Len(s) \in Nat /\ DOMAIN s = 1..Len(s) /\ \A i \in 1..Len(s) : s[i] \in S
  OBVIOUS

(* A function on 1..n with values in S is a sequence over S. *)
LEMMA FunctionIsSeq ==
  ASSUME NEW S, NEW n \in Nat, NEW f, f = [i \in 1..n |-> f[i]], \A i \in 1..n : f[i] \in S
  PROVE  f \in Seq(S) /\ Len(f) = n /\ DOMAIN f = 1..n
  OBVIOUS

-----------------------------------------------------------------------------
(* Types                                                                   *)

(* Each kind of frame the daemon sends is a frame. *)
LEMMA ServerFrames ==
  ASSUME Len(log) \in Nat
  PROVE  /\ \A n \in 0..Len(log) : Ready(n) \in ServerFrame
         /\ \A n \in 1..Len(log) : Evt(n) \in ServerFrame
         /\ \A u \in Threads, n \in 0..Len(log) : Snapshot(u, n) \in ServerFrame
         /\ \A p \in [thread: Threads, upto: Nat] : Delta(p) \in ServerFrame
         /\ Replayed \in ServerFrame /\ SnapshotNeeded \in ServerFrame
BY DEF ServerFrame, Ready, Evt, Snapshot, Delta, Replayed, SnapshotNeeded

(* Each kind of frame the client sends is a frame. *)
LEMMA ClientFrames ==
  ASSUME Len(log) \in Nat
  PROVE  /\ \A S \in SUBSET Threads : Sub(S) \in ClientFrame
         /\ \A u \in Threads : GetThread(u) \in ClientFrame
         /\ \A n \in 1..Len(log), S \in SUBSET Threads : Resume(n, S) \in ClientFrame
BY DEF ClientFrame, Sub, GetThread, Resume

(* What a frame with a given mark carries. *)
LEMMA FrameFields ==
  /\ \A f \in ServerFrame :
       /\ f.t \in {"ready", "evt", "delta", "res", "snap"}
       /\ f.t = "ready" => f.seq \in 0..Len(log)
       /\ f.t = "evt" => f.seq \in 1..Len(log)
       /\ f.t = "snap" => f.thread \in Threads /\ f.seq \in 0..Len(log)
  /\ \A f \in ClientFrame :
       /\ f.t \in {"sub", "get", "resume"}
       /\ f.t = "sub" => f.threads \subseteq Threads
       /\ f.t = "get" => f.thread \in Threads
       /\ f.t = "resume" => f.threads \subseteq Threads /\ f.since \in 1..Len(log)
BY DEF ServerFrame, ClientFrame

(* The flushed deltas are frames, one for each pending thread. *)
LEMMA FlushedFacts ==
  ASSUME TypeOK
  PROVE  /\ Flushed \in Seq(ServerFrame) /\ Len(Flushed) = Len(pending)
         /\ \A i \in 1..Len(pending) : Flushed[i] = Delta(pending[i])
<1>1. Len(log) \in Nat /\ Len(pending) \in Nat /\ DOMAIN pending = 1..Len(pending)
  BY DEF TypeOK
<1>a. \A i \in 1..Len(pending) : pending[i] \in [thread: Threads, upto: Nat]
  <2>1. pending \in Seq([thread: Threads, upto: Nat])
    BY DEF TypeOK
  <2>2. QED
    BY <2>1, ElementsOf
<1>2. \A i \in 1..Len(pending) : Delta(pending[i]) \in ServerFrame
  BY <1>1, <1>a, ServerFrames
<1>3. Flushed = [i \in 1..Len(pending) |-> Delta(pending[i])]
  BY <1>1 DEF Flushed
<1>4. \A i \in 1..Len(pending) : Flushed[i] = Delta(pending[i])
  BY <1>3
<1>5. QED
  BY <1>1, <1>2, <1>3, <1>4, FunctionIsSeq

(* Whoever appends an event only adds frames. *)
LEMMA FramesGrow ==
  ASSUME Len(log) \in Nat, Len(log)' \in Nat, Len(log)' >= Len(log)
  PROVE  ServerFrame \subseteq ServerFrame' /\ ClientFrame \subseteq ClientFrame'
<1>1. 0..Len(log) \subseteq 0..Len(log)' /\ 1..Len(log) \subseteq 1..Len(log)'
  OBVIOUS
<1>2. QED
  BY <1>1 DEF ServerFrame, ClientFrame

(* The first state is well typed: the log holds the creation of each thread. *)
LEMMA TypeInit == Init => TypeOK
<1> SUFFICES ASSUME Init PROVE TypeOK
  OBVIOUS
<1>1. PICK order \in SetToSeqs(Threads) :
        log = [i \in DOMAIN order |-> [thread |-> order[i], text |-> 0]]
  BY DEF Init
<1>2. Cardinality(Threads) \in Nat
  BY ThreadsAssumption, FS_CardinalityType
<1>3. order \in [1..Cardinality(Threads) -> Threads]
  BY DEF SetToSeqs
<1>4. DOMAIN order = 1..Cardinality(Threads)
  BY <1>3
<1>5. \A i \in 1..Cardinality(Threads) :
        log[i] = [thread |-> order[i], text |-> 0] /\ log[i] \in [thread: Threads \cup {Env}, text: Nat]
  BY <1>1, <1>3, <1>4
<1>6. log \in Seq([thread: Threads \cup {Env}, text: Nat]) /\ Len(log) \in Nat
  <2> DEFINE Entry == [thread: Threads \cup {Env}, text: Nat]
             n == Cardinality(Threads)
  <2>1. log = [i \in 1..n |-> log[i]]
    BY <1>1, <1>4
  <2>2. \A i \in 1..n : log[i] \in Entry
    BY <1>5
  <2>3. n \in Nat
    BY <1>2
  <2> HIDE DEF Entry, n
  <2>4. log \in Seq(Entry) /\ Len(log) = n
    BY <2>1, <2>2, <2>3, FunctionIsSeq
  <2>5. QED
    BY <2>3, <2>4 DEF Entry
<1>7. chunks \in [Threads -> Nat] /\ last \in [Threads \cup {Env} -> 0..Len(log)]
  BY <1>6 DEF Init
<1>8. /\ pending \in Seq([thread: Threads, upto: Nat])
      /\ toClient \in Seq(ServerFrame) /\ toServer \in Seq(ClientFrame)
  <2>1. pending = <<>> /\ toClient = <<>> /\ toServer = <<>>
    BY DEF Init
  <2>2. QED
    BY <2>1
<1>9. /\ up \in BOOLEAN /\ resuming \in BOOLEAN /\ effect \in BOOLEAN /\ loaded \in BOOLEAN
      /\ subscribed \subseteq Threads /\ threads \subseteq Threads
      /\ seq \in 0..Len(log) /\ active \in Threads \cup {NoThread} /\ view \subseteq 1..Len(log)
  <2>1. /\ up = FALSE /\ resuming = FALSE /\ effect = FALSE /\ loaded = FALSE
        /\ subscribed = {} /\ threads = {} /\ view = {} /\ seq = 0 /\ active = NoThread
    BY DEF Init
  <2>2. Len(log) \in Nat
    BY <1>6
  <2>3. up \in BOOLEAN /\ resuming \in BOOLEAN /\ effect \in BOOLEAN /\ loaded \in BOOLEAN
    BY <2>1, Zenon
  <2>4. /\ subscribed \subseteq Threads /\ threads \subseteq Threads
        /\ seq \in 0..Len(log) /\ active \in Threads \cup {NoThread} /\ view \subseteq 1..Len(log)
    BY <2>1, <2>2
  <2>5. QED
    BY <2>3, <2>4
<1>10. QED
  BY <1>6, <1>7, <1>8, <1>9 DEF TypeOK

(* The client's frame being served is a frame, and the rest stay frames. *)
LEMMA ReceivedFacts ==
  ASSUME TypeOK, NEW t, Received(t)
  PROVE  /\ toServer \in Seq(ClientFrame) /\ toServer # <<>> /\ toServer' = Tail(toServer)
         /\ toServer' \in Seq(ClientFrame) /\ Len(toServer) \in Nat /\ Len(toServer) >= 1
         /\ Len(toServer') = Len(toServer) - 1
         /\ \A i \in 1..(Len(toServer) - 1) : toServer'[i] = toServer[i + 1]
         /\ Head(toServer) = toServer[1] /\ Head(toServer) \in ClientFrame /\ Head(toServer).t = t
<1>1. toServer \in Seq(ClientFrame) /\ toServer # <<>> /\ toServer' = Tail(toServer) /\ Head(toServer).t = t
  BY DEF TypeOK, Received
<1>2. QED
  BY <1>1, TailFacts, ElementsOf

(* So is the daemon's frame being handled. *)
LEMMA DeliveredFacts ==
  ASSUME TypeOK, NEW t, Delivered(t)
  PROVE  /\ toClient \in Seq(ServerFrame) /\ toClient # <<>> /\ toClient' = Tail(toClient)
         /\ toClient' \in Seq(ServerFrame) /\ Len(toClient) \in Nat /\ Len(toClient) >= 1
         /\ Len(toClient') = Len(toClient) - 1
         /\ \A i \in 1..(Len(toClient) - 1) : toClient'[i] = toClient[i + 1]
         /\ Head(toClient) = toClient[1] /\ Head(toClient) \in ServerFrame /\ Head(toClient).t = t
<1>1. toClient \in Seq(ServerFrame) /\ toClient # <<>> /\ toClient' = Tail(toClient) /\ Head(toClient).t = t
  BY DEF TypeOK, Delivered
<1>2. QED
  BY <1>1, TailFacts, ElementsOf

(* While the log stands still, frames stay frames. *)
LEMMA SameLog ==
  ASSUME log' = log
  PROVE  ServerFrame' = ServerFrame /\ ClientFrame' = ClientFrame /\ Len(log') = Len(log)
BY DEF ServerFrame, ClientFrame

(* What is appended to a channel of frames leaves it one. *)
LEMMA AppendFacts ==
  ASSUME NEW S, NEW s \in Seq(S), NEW x \in S
  PROVE  /\ Append(s, x) \in Seq(S) /\ Len(Append(s, x)) = Len(s) + 1
         /\ \A i \in 1..Len(s) : Append(s, x)[i] = s[i]
         /\ Append(s, x)[Len(s) + 1] = x
  OBVIOUS

(* The gap of a resume, in ascending order, is a sequence of event numbers. *)
LEMMA GapFacts ==
  ASSUME Len(log) \in Nat, NEW since, NEW S, NEW order \in SetToSeqs(Gap(since, S))
  PROVE  /\ Len(Events(order)) \in Nat /\ DOMAIN order = 1..Len(Events(order))
         /\ Events(order) \in Seq(ServerFrame)
         /\ \A i \in 1..Len(Events(order)) :
              Events(order)[i] = Evt(order[i]) /\ order[i] \in Gap(since, S) /\ order[i] \in 1..Len(log)
<1> DEFINE G == Gap(since, S)
           n == Cardinality(G)
<1>1. G \subseteq 1..Len(log)
  BY DEF Gap, head
<1>2. IsFiniteSet(G)
  BY <1>1, FS_Interval, FS_Subset, 1 \in Int, Len(log) \in Int
<1>3. n \in Nat
  BY <1>2, FS_CardinalityType
<1>4. order \in [1..n -> G]
  BY DEF SetToSeqs
<1>5. DOMAIN order = 1..n /\ \A i \in 1..n : order[i] \in G
  BY <1>4
<1>6. Events(order) = [i \in 1..n |-> Evt(order[i])]
  BY <1>5 DEF Events
<1> HIDE DEF n, G
<1>7. \A i \in 1..n : Events(order)[i] = Evt(order[i]) /\ Events(order)[i] \in ServerFrame
  BY <1>1, <1>5, <1>6, ServerFrames
<1>8. Events(order) = [i \in 1..n |-> Events(order)[i]]
  BY <1>6
<1>9. Events(order) \in Seq(ServerFrame) /\ Len(Events(order)) = n
  BY <1>3, <1>7, <1>8, FunctionIsSeq
<1>10. QED
  BY <1>1, <1>3, <1>5, <1>7, <1>9 DEF G

(* Committing an event keeps the types: everything that was in range of the  *)
(* log stays in range of the longer one.                                     *)
LEMMA CommitType == ASSUME TypeOK, NEW u \in Threads \cup {Env}, Commit(u) PROVE TypeOK'
<1> DEFINE Entry == [thread: Threads \cup {Env}, text: Nat]
           e == [thread |-> u, text |-> IF u = Env THEN 0 ELSE chunks[u]]
<1>1. log \in Seq(Entry) /\ Len(log) \in Nat /\ log' = Append(log, e)
  BY DEF TypeOK, Commit
<1>2. e \in Entry
  <2>1. u # Env => chunks[u] \in Nat
    BY DEF TypeOK
  <2>2. QED
    BY <2>1
<1>3. log' \in Seq(Entry) /\ Len(log') = Len(log) + 1
  <2> HIDE DEF Entry, e
  <2>1. QED
    BY <1>1, <1>2, AppendFacts
<1>4. ServerFrame \subseteq ServerFrame' /\ ClientFrame \subseteq ClientFrame'
  BY <1>1, <1>3, FramesGrow
<1>5. toServer' \in Seq(ClientFrame')
  <2>1. toServer \in Seq(ClientFrame) /\ toServer' = toServer
    BY DEF TypeOK, Commit
  <2>2. QED
    BY <2>1, <1>4, SeqMonotone
<1>6. toClient \in Seq(ServerFrame') /\ Flushed \in Seq(ServerFrame')
  <2>1. toClient \in Seq(ServerFrame) /\ Flushed \in Seq(ServerFrame)
    BY FlushedFacts DEF TypeOK
  <2>2. QED
    BY <2>1, <1>4, SeqMonotone
<1>7. Evt(Len(log) + 1) \in ServerFrame'
  BY <1>1, <1>3 DEF ServerFrame, Evt
<1>8. toClient' \in Seq(ServerFrame')
  <2>1. CASE up /\ Relevant(u)
    <3>1. toClient' = toClient \o Flushed \o <<Evt(Len(log) + 1)>>
      BY <2>1 DEF Commit
    <3>2. <<Evt(Len(log) + 1)>> \in Seq(ServerFrame')
      BY <1>7
    <3>3. toClient \o Flushed \in Seq(ServerFrame')
      BY <1>6, ConcatFacts
    <3>4. QED
      BY <3>1, <3>2, <3>3, ConcatFacts
  <2>2. CASE ~(up /\ Relevant(u))
    BY <2>2, <1>6 DEF Commit
  <2>3. QED
    BY <2>1, <2>2
<1>9. pending' \in Seq([thread: Threads, upto: Nat])
  <2>1. pending' = pending \/ pending' = <<>>
    BY DEF Commit
  <2>2. pending \in Seq([thread: Threads, upto: Nat])
    BY DEF TypeOK
  <2>3. <<>> \in Seq([thread: Threads, upto: Nat])
    OBVIOUS
  <2>4. QED
    BY <2>1, <2>2, <2>3
<1>10. /\ chunks' = chunks /\ up' = up /\ resuming' = resuming /\ effect' = effect /\ loaded' = loaded
       /\ subscribed' = subscribed /\ threads' = threads /\ seq' = seq /\ active' = active
       /\ view' = view /\ last' = last
  BY DEF Commit, client, bounds
<1>11. seq' \in 0..Len(log)' /\ view' \subseteq 1..Len(log)'
  <2>1. seq \in 0..Len(log) /\ view \subseteq 1..Len(log)
    BY DEF TypeOK
  <2>2. QED
    BY <2>1, <1>1, <1>3, <1>10
<1>12. last' \in [Threads \cup {Env} -> 0..Len(log)']
  <2>1. last \in [Threads \cup {Env} -> 0..Len(log)]
    BY DEF TypeOK
  <2>2. 0..Len(log) \subseteq 0..Len(log)'
    BY <1>1, <1>3
  <2>3. QED
    BY <2>1, <2>2, <1>10
<1>13. chunks' \in [Threads -> Nat] /\ subscribed' \subseteq Threads /\ threads' \subseteq Threads
  BY <1>10 DEF TypeOK
<1>14. up' \in BOOLEAN /\ resuming' \in BOOLEAN /\ effect' \in BOOLEAN /\ loaded' \in BOOLEAN
  <2>1. up \in BOOLEAN /\ resuming \in BOOLEAN /\ effect \in BOOLEAN /\ loaded \in BOOLEAN
    BY DEF TypeOK
  <2>2. QED
    BY <2>1, <1>10, Zenon
<1>15. active' \in Threads \cup {NoThread}
  BY <1>10 DEF TypeOK
<1>16. log' \in Seq([thread: Threads \cup {Env}, text: Nat])
  BY <1>3
<1>17. QED
  BY <1>5, <1>8, <1>9, <1>11, <1>12, <1>13, <1>14, <1>15, <1>16 DEF TypeOK

(* While the log stands still, what an action leaves alone keeps its type;   *)
(* this is the rest.                                                         *)
LEMMA TypeKept ==
  ASSUME TypeOK, log' = log, chunks' \in [Threads -> Nat],
         up' \in BOOLEAN, resuming' \in BOOLEAN, effect' \in BOOLEAN, loaded' \in BOOLEAN,
         subscribed' \subseteq Threads, threads' \subseteq Threads,
         pending' \in Seq([thread: Threads, upto: Nat]),
         toClient' \in Seq(ServerFrame), toServer' \in Seq(ClientFrame),
         seq' \in 0..Len(log), active' \in Threads \cup {NoThread}, view' \subseteq 1..Len(log),
         last' \in [Threads \cup {Env} -> 0..Len(log)]
  PROVE  TypeOK'
<1>1. log \in Seq([thread: Threads \cup {Env}, text: Nat])
  BY DEF TypeOK
<1>2. ServerFrame' = ServerFrame /\ ClientFrame' = ClientFrame /\ Len(log') = Len(log)
  BY SameLog
<1>3. QED
  BY <1>1, <1>2 DEF TypeOK

(* Streaming a chunk keeps the types. *)
LEMMA StreamType == ASSUME TypeOK, NEW u \in Threads, Stream(u) PROVE TypeOK'
<1> DEFINE P == [thread: Threads, upto: Nat]
           merged == [i \in DOMAIN pending |->
                        IF pending[i].thread = u THEN [pending[i] EXCEPT !.upto = chunks[u] + 1] ELSE pending[i]]
<1>1. chunks' \in [Threads -> Nat] /\ chunks[u] \in Nat
  BY DEF TypeOK, Stream
<1>2. pending \in Seq(P) /\ Len(pending) \in Nat /\ DOMAIN pending = 1..Len(pending)
  BY DEF TypeOK
<1>3. \A i \in 1..Len(pending) : pending[i] \in P
  BY <1>2, ElementsOf
<1>4. merged \in Seq(P)
  <2>1. \A i \in 1..Len(pending) : merged[i] \in P
    BY <1>1, <1>2, <1>3
  <2>2. merged = [i \in 1..Len(pending) |-> merged[i]]
    BY <1>2
  <2> HIDE DEF merged, P
  <2>3. QED
    BY <1>2, <2>1, <2>2, FunctionIsSeq
<1>5. Append(pending, [thread |-> u, upto |-> chunks[u] + 1]) \in Seq(P)
  BY <1>1, <1>2
<1>6. pending' \in Seq(P)
  <2>1. pending' \in {pending, merged, Append(pending, [thread |-> u, upto |-> chunks[u] + 1])}
    BY DEF Stream
  <2> HIDE DEF merged, P
  <2>2. QED
    BY <1>2, <1>4, <1>5, <2>1
<1>7. UNCHANGED <<log, subscribed, client, up, toClient, toServer>>
  BY DEF Stream
<1>8. QED
  BY <1>1, <1>6, <1>7, TypeKept DEF TypeOK, client

(* Flushing keeps the types. *)
LEMMA TickType == ASSUME TypeOK, Tick PROVE TypeOK'
<1>1. toClient' \in Seq(ServerFrame)
  <2>1. toClient \in Seq(ServerFrame) /\ Flushed \in Seq(ServerFrame)
    BY FlushedFacts DEF TypeOK
  <2>2. QED
    BY <2>1, ConcatFacts DEF Tick
<1>2. pending' \in Seq([thread: Threads, upto: Nat])
  BY DEF Tick
<1>3. UNCHANGED <<log, chunks, subscribed, client, up, toServer>>
  BY DEF Tick
<1>4. QED
  BY <1>1, <1>2, <1>3, TypeKept DEF TypeOK, client

(* Serving a frame keeps the types. *)
LEMMA ServeType == ASSUME TypeOK, Serve PROVE TypeOK'
<1>1. Len(log) \in Nat /\ toClient \in Seq(ServerFrame)
  BY DEF TypeOK
<1>2. CASE OnSub
  <2>1. Received("sub")
    BY <1>2 DEF OnSub
  <2>2. toServer' \in Seq(ClientFrame) /\ Head(toServer) \in ClientFrame /\ Head(toServer).t = "sub"
    BY <2>1, ReceivedFacts
  <2>3. subscribed' \subseteq Threads
    BY <1>2, <2>2, FrameFields DEF OnSub
  <2>4. UNCHANGED <<log, chunks, pending, client, up, toClient>>
    BY <1>2 DEF OnSub
  <2>5. QED
    BY <2>2, <2>3, <2>4, TypeKept DEF TypeOK, client
<1>3. CASE OnResume
  <2>1. Received("resume")
    BY <1>3 DEF OnResume
  <2>2. toServer' \in Seq(ClientFrame) /\ Head(toServer) \in ClientFrame /\ Head(toServer).t = "resume"
    BY <2>1, ReceivedFacts
  <2>3. subscribed' \subseteq Threads
    BY <1>3, <2>2, FrameFields DEF OnResume
  <2>4. UNCHANGED <<log, chunks, pending, client, up>>
    BY <1>3 DEF OnResume
  <2>5. Append(toClient, SnapshotNeeded) \in Seq(ServerFrame) /\ Append(toClient, Replayed) \in Seq(ServerFrame)
    BY <1>1, ServerFrames, AppendFacts
  <2>6. toClient' \in Seq(ServerFrame)
    <3>1. CASE toClient' = Append(toClient, SnapshotNeeded)
      BY <3>1, <2>5
    <3>2. ASSUME NEW order \in SetToSeqs(Gap(Head(toServer).since, Head(toServer).threads)),
                 toClient' = Append(toClient, Replayed) \o Events(order)
          PROVE  toClient' \in Seq(ServerFrame)
      <4>1. Events(order) \in Seq(ServerFrame)
        BY <1>1, GapFacts
      <4>2. QED
        BY <2>5, <3>2, <4>1, ConcatFacts
    <3>3. QED
      BY <1>3, <3>1, <3>2 DEF OnResume
  <2>7. QED
    BY <2>2, <2>3, <2>4, <2>6, TypeKept DEF TypeOK, client
<1>4. CASE OnGetThread
  <2>1. Received("get")
    BY <1>4 DEF OnGetThread
  <2>2. toServer' \in Seq(ClientFrame) /\ Head(toServer) \in ClientFrame /\ Head(toServer).t = "get"
    BY <2>1, ReceivedFacts
  <2>3. Snapshot(Head(toServer).thread, head) \in ServerFrame
    BY <1>1, <2>2, FrameFields, ServerFrames DEF head
  <2>4. toClient' \in Seq(ServerFrame)
    BY <1>1, <1>4, <2>3, AppendFacts DEF OnGetThread
  <2>5. UNCHANGED <<server, client, up>>
    BY <1>4 DEF OnGetThread
  <2>6. QED
    BY <2>2, <2>4, <2>5, TypeKept DEF TypeOK, server, client
<1>5. QED
  BY <1>2, <1>3, <1>4 DEF Serve

(* Opening and losing the socket keep the types. *)
LEMMA SocketType == ASSUME TypeOK, Connect \/ Drop PROVE TypeOK'
<1>1. Len(log) \in Nat
  BY DEF TypeOK
<1>2. toClient' = <<>> \/ toClient' = <<Ready(Len(log))>>
  BY DEF Connect, Drop, head
<1>3. toClient' \in Seq(ServerFrame)
  <2>1. Ready(Len(log)) \in ServerFrame
    BY <1>1, ServerFrames
  <2>2. <<>> \in Seq(ServerFrame)
    OBVIOUS
  <2>3. <<Ready(Len(log))>> \in Seq(ServerFrame)
    BY <2>1
  <2>4. QED
    BY <1>2, <2>2, <2>3
<1>4. toServer' = <<>> /\ pending' = <<>> /\ subscribed' = {}
  BY DEF Connect, Drop
<1>5. toServer' \in Seq(ClientFrame) /\ pending' \in Seq([thread: Threads, upto: Nat])
  BY <1>4
<1>6. UNCHANGED <<log, chunks, seq, threads, active, view, loaded, last>>
  BY DEF Connect, Drop
<1>7. up' \in BOOLEAN /\ resuming' \in BOOLEAN /\ effect' \in BOOLEAN
  BY Zenon DEF Connect, Drop, TypeOK
<1>8. QED
  BY <1>3, <1>4, <1>5, <1>6, <1>7, TypeKept DEF TypeOK

(* Fetching the open thread again keeps the channel well typed. *)
LEMMA RefetchType == ASSUME TypeOK PROVE Refetch \in Seq(ClientFrame)
<1>1. toServer \in Seq(ClientFrame) /\ Len(log) \in Nat /\ active \in Threads \cup {NoThread}
  BY DEF TypeOK
<1>2. active # NoThread => GetThread(active) \in ClientFrame
  BY <1>1, ClientFrames
<1>3. QED
  BY <1>1, <1>2, AppendFacts DEF Refetch

(* Handling a frame keeps the types. *)
LEMMA HandleType == ASSUME TypeOK, Handle PROVE TypeOK'
<1>1. /\ Len(log) \in Nat /\ toServer \in Seq(ClientFrame) /\ threads \subseteq Threads
      /\ seq \in 0..Len(log) /\ view \subseteq 1..Len(log) /\ last \in [Threads \cup {Env} -> 0..Len(log)]
      /\ \A n \in 1..Len(log) : log[n].thread \in Threads \cup {Env}
  <2>1. log \in Seq([thread: Threads \cup {Env}, text: Nat])
    BY DEF TypeOK
  <2>2. \A n \in 1..Len(log) : log[n].thread \in Threads \cup {Env}
    <3>1. \A n \in 1..Len(log) : log[n] \in [thread: Threads \cup {Env}, text: Nat]
      BY <2>1, ElementsOf
    <3>2. QED
      BY <3>1
  <2>3. QED
    BY <2>1, <2>2 DEF TypeOK
<1>2. CASE OnReady
  <2>1. Delivered("ready")
    BY <1>2 DEF OnReady
  <2>2. toClient' \in Seq(ServerFrame) /\ Head(toClient) \in ServerFrame /\ Head(toClient).t = "ready"
    BY <2>1, DeliveredFacts
  <2>3. Sub(threads) \in ClientFrame /\ (seq # 0 => Resume(seq, threads) \in ClientFrame)
    BY <1>1, ClientFrames
  <2>4. seq' \in 0..Len(log)
    BY <1>1, <1>2, <2>2, FrameFields DEF OnReady
  <2>5. toServer' \in Seq(ClientFrame)
    <3>1. CASE seq = 0
      BY <1>1, <1>2, <2>3, <3>1, AppendFacts DEF OnReady
    <3>2. CASE seq # 0
      <4>1. <<Resume(seq, threads), Sub(threads)>> \in Seq(ClientFrame)
        BY <2>3, <3>2
      <4>2. QED
        BY <1>1, <1>2, <3>2, <4>1, ConcatFacts DEF OnReady
    <3>3. QED
      BY <3>1, <3>2
  <2>6. UNCHANGED <<server, threads, effect, active, view, loaded, last, up>>
    BY <1>2 DEF OnReady
  <2>7. resuming' \in BOOLEAN
    BY <1>2, Zenon DEF OnReady, TypeOK
  <2>8. QED
    BY <2>2, <2>4, <2>5, <2>6, <2>7, TypeKept DEF TypeOK, server
<1>3. CASE OnEvent
  <2> DEFINE n == Head(toClient).seq
  <2>1. Delivered("evt")
    BY <1>3 DEF OnEvent
  <2>2. toClient' \in Seq(ServerFrame) /\ Head(toClient) \in ServerFrame /\ Head(toClient).t = "evt"
    BY <2>1, DeliveredFacts
  <2>3. n \in 1..Len(log)
    BY <2>2, FrameFields
  <2>4. seq' \in 0..Len(log)
    BY <1>1, <1>3, <2>3 DEF OnEvent, Larger
  <2>5. view' \subseteq 1..Len(log)
    BY <1>1, <1>3, <2>3 DEF OnEvent
  <2>6. last' \in [Threads \cup {Env} -> 0..Len(log)]
    <3>1. last' = [last EXCEPT ![log[n].thread] = Larger(@, n)]
      BY <1>3 DEF OnEvent
    <3>2. Larger(last[log[n].thread], n) \in 0..Len(log)
      BY <1>1, <2>3 DEF Larger
    <3> HIDE DEF n
    <3>3. QED
      BY <1>1, <3>1, <3>2
  <2>7. UNCHANGED <<server, threads, resuming, effect, active, loaded, up, toServer>>
    BY <1>3 DEF OnEvent
  <2> HIDE DEF n
  <2>8. QED
    BY <2>2, <2>4, <2>5, <2>6, <2>7, TypeKept DEF TypeOK, server
<1>4. CASE OnDelta
  <2>1. toClient' \in Seq(ServerFrame)
    BY <1>4, DeliveredFacts DEF OnDelta
  <2>2. UNCHANGED <<server, client, up, toServer>>
    BY <1>4 DEF OnDelta
  <2>3. QED
    BY <2>1, <2>2, TypeKept DEF TypeOK, server, client
<1>5. CASE OnResumed
  <2>1. toClient' \in Seq(ServerFrame)
    BY <1>5, DeliveredFacts DEF OnResumed
  <2>2. seq' \in 0..Len(log) /\ toServer' \in Seq(ClientFrame)
    BY <1>1, <1>5, RefetchType DEF OnResumed
  <2>3. resuming' \in BOOLEAN
    BY <1>5, Zenon DEF OnResumed
  <2>4. UNCHANGED <<server, threads, effect, active, view, loaded, last, up>>
    BY <1>5 DEF OnResumed
  <2>5. QED
    BY <2>1, <2>2, <2>3, <2>4, TypeKept DEF TypeOK, server
<1>6. CASE OnSnapshot
  <2>1. Delivered("snap")
    BY <1>6 DEF OnSnapshot
  <2>2. toClient' \in Seq(ServerFrame) /\ Head(toClient) \in ServerFrame /\ Head(toClient).t = "snap"
    BY <2>1, DeliveredFacts
  <2>3. Head(toClient).seq \in 0..Len(log)
    BY <2>2, FrameFields
  <2>4. view' \subseteq 1..Len(log)
    <3>1. EventsOf(active, Head(toClient).seq) \subseteq 1..Len(log)
      BY <1>1, <2>3 DEF EventsOf
    <3>2. view' = EventsOf(active, Head(toClient).seq) \/ view' = view
      BY <1>6 DEF OnSnapshot
    <3>3. QED
      BY <1>1, <3>1, <3>2
  <2>5. loaded' \in BOOLEAN
    BY <1>6, Zenon DEF OnSnapshot, TypeOK
  <2>6. UNCHANGED <<server, seq, threads, resuming, effect, active, last, up, toServer>>
    BY <1>6 DEF OnSnapshot
  <2>7. QED
    BY <2>2, <2>4, <2>5, <2>6, TypeKept DEF TypeOK, server
<1>7. QED
  BY <1>2, <1>3, <1>4, <1>5, <1>6 DEF Handle

(* What the client does on its own keeps the types. *)
LEMMA ClientType ==
  ASSUME TypeOK, ResumeTimesOut \/ Subscribe \/ (\E u \in Threads : OpenThread(u))
  PROVE  TypeOK'
<1>1. Len(log) \in Nat /\ toServer \in Seq(ClientFrame) /\ active \in Threads \cup {NoThread}
  BY DEF TypeOK
<1>2. CASE ResumeTimesOut
  <2>1. toServer' \in Seq(ClientFrame)
    BY <1>2, RefetchType DEF ResumeTimesOut
  <2>2. resuming' \in BOOLEAN
    BY <1>2, Zenon DEF ResumeTimesOut
  <2>3. UNCHANGED <<server, seq, threads, effect, active, view, loaded, last, up, toClient>>
    BY <1>2 DEF ResumeTimesOut
  <2>4. QED
    BY <2>1, <2>2, <2>3, TypeKept DEF TypeOK, server
<1>3. ASSUME NEW u \in Threads, OpenThread(u) PROVE TypeOK'
  <2>1. toServer' \in Seq(ClientFrame)
    <3>1. GetThread(u) \in ClientFrame
      BY <1>1, ClientFrames
    <3>2. Append(toServer, GetThread(u)) \in Seq(ClientFrame)
      BY <1>1, <3>1, AppendFacts
    <3>3. QED
      BY <1>1, <1>3, <3>2 DEF OpenThread
  <2>2. loaded' \in BOOLEAN /\ effect' \in BOOLEAN
    BY <1>3, Zenon DEF OpenThread, TypeOK
  <2>3. view' \subseteq 1..Len(log) /\ active' \in Threads \cup {NoThread}
    BY <1>3 DEF OpenThread, TypeOK
  <2>4. UNCHANGED <<server, seq, threads, resuming, last, up, toClient>>
    BY <1>3 DEF OpenThread
  <2>5. QED
    BY <2>1, <2>2, <2>3, <2>4, TypeKept DEF TypeOK, server
<1>4. CASE Subscribe
  <2> DEFINE wanted == Known \cup ({active} \ {NoThread})
  <2>1. wanted \subseteq Threads
    BY <1>1, ThreadsAssumption
  <2>2. Sub(wanted) \in ClientFrame
    BY <1>1, <2>1, ClientFrames
  <2>3. threads' = wanted /\ toServer' = Append(toServer, Sub(wanted))
    BY <1>4 DEF Subscribe
  <2> HIDE DEF wanted
  <2>4. toServer' \in Seq(ClientFrame)
    BY <1>1, <2>2, <2>3, AppendFacts
  <2>5. effect' \in BOOLEAN
    BY <1>4, Zenon DEF Subscribe
  <2>6. UNCHANGED <<server, seq, resuming, active, view, loaded, last, up, toClient>>
    BY <1>4 DEF Subscribe
  <2>7. QED
    BY <2>1, <2>3, <2>4, <2>5, <2>6, TypeKept DEF TypeOK, server
<1>5. QED
  BY <1>2, <1>3, <1>4

(* Every step keeps the types. *)
LEMMA TypeStep == TypeOK /\ [Next]_vars => TypeOK'
<1> SUFFICES ASSUME TypeOK, [Next]_vars PROVE TypeOK'
  OBVIOUS
<1>1. CASE UNCHANGED vars
  BY <1>1 DEF TypeOK, vars, server, client, ServerFrame, ClientFrame
<1>2. CASE Next
  BY <1>2, CommitType, StreamType, TickType, ServeType, HandleType, SocketType, ClientType DEF Next
<1>3. QED
  BY <1>1, <1>2

(* The state stays well typed. *)
THEOREM FeedType == Spec => []TypeOK
<1>1. QED
  BY TypeInit, TypeStep, PTL DEF Spec

-----------------------------------------------------------------------------
(* Order                                                                   *)

(* What each kind of frame carries. *)
LEMMA Kinds ==
  /\ \A n : Ready(n).t = "ready" /\ Ready(n).seq = n
  /\ \A n : Evt(n).t = "evt" /\ Evt(n).seq = n
  /\ \A p : Delta(p).t = "delta" /\ Delta(p).thread = p.thread /\ Delta(p).upto = p.upto
  /\ \A u, n : Snapshot(u, n).t = "snap"
  /\ Replayed.t = "res" /\ SnapshotNeeded.t = "res"
  /\ \A S : Sub(S).t = "sub"
  /\ \A u : GetThread(u).t = "get"
  /\ \A n, S : Resume(n, S).t = "resume" /\ Resume(n, S).since = n
BY DEF Ready, Evt, Delta, Snapshot, Replayed, SnapshotNeeded, Sub, GetThread, Resume

(* A frame of a concatenation is a frame of one of its parts. *)
LEMMA FramesConcat ==
  ASSUME NEW S, NEW s \in Seq(S), NEW d \in Seq(S), NEW t, NEW i \in Frames(s \o d, t)
  PROVE  \/ i \in Frames(s, t) /\ i \in 1..Len(s) /\ (s \o d)[i] = s[i]
         \/ \E k \in Frames(d, t) : k \in 1..Len(d) /\ i = Len(s) + k /\ (s \o d)[i] = d[k]
<1>1. /\ Len(s) \in Nat /\ Len(d) \in Nat /\ DOMAIN s = 1..Len(s) /\ DOMAIN d = 1..Len(d)
      /\ DOMAIN (s \o d) = 1..Len(s \o d) /\ Len(s \o d) = Len(s) + Len(d)
      /\ \A k \in 1..Len(s) : (s \o d)[k] = s[k]
      /\ \A k \in 1..Len(d) : (s \o d)[Len(s) + k] = d[k]
  BY ConcatFacts, ElementsOf
<1>2. i \in 1..(Len(s) + Len(d)) /\ (s \o d)[i].t = t
  BY <1>1 DEF Frames
<1>3. CASE i <= Len(s)
  BY <1>1, <1>2, <1>3 DEF Frames
<1>4. CASE i > Len(s)
  <2>1. i - Len(s) \in 1..Len(d) /\ i = Len(s) + (i - Len(s))
    BY <1>1, <1>2, <1>4
  <2>2. (s \o d)[i] = d[i - Len(s)]
    BY <1>1, <2>1
  <2>3. i - Len(s) \in Frames(d, t)
    BY <1>1, <1>2, <2>1, <2>2 DEF Frames
  <2>4. QED
    BY <2>1, <2>2, <2>3
<1>5. QED
  BY <1>1, <1>2, <1>3, <1>4

(* A frame of an extended channel is one of the old ones or the new one. *)
LEMMA FramesAppend ==
  ASSUME NEW S, NEW s \in Seq(S), NEW x \in S, NEW t, NEW i \in Frames(Append(s, x), t)
  PROVE  \/ i \in Frames(s, t) /\ i \in 1..Len(s) /\ Append(s, x)[i] = s[i]
         \/ i = Len(s) + 1 /\ Append(s, x)[i] = x /\ x.t = t
<1>1. /\ Len(s) \in Nat /\ DOMAIN s = 1..Len(s)
      /\ DOMAIN Append(s, x) = 1..(Len(s) + 1)
      /\ \A k \in 1..Len(s) : Append(s, x)[k] = s[k]
      /\ Append(s, x)[Len(s) + 1] = x
  BY AppendFacts, ElementsOf
<1>2. i \in 1..(Len(s) + 1) /\ Append(s, x)[i].t = t
  BY <1>1 DEF Frames
<1>3. QED
  BY <1>1, <1>2 DEF Frames

(* A frame of the tail was one place further back. *)
LEMMA FramesTail ==
  ASSUME NEW S, NEW s \in Seq(S), s # <<>>, NEW t, NEW i \in Frames(Tail(s), t)
  PROVE  i + 1 \in Frames(s, t) /\ i \in 1..(Len(s) - 1) /\ Tail(s)[i] = s[i + 1]
<1>1. /\ Len(s) \in Nat /\ DOMAIN s = 1..Len(s) /\ DOMAIN Tail(s) = 1..(Len(s) - 1)
      /\ \A k \in 1..(Len(s) - 1) : Tail(s)[k] = s[k + 1]
  BY TailFacts, ElementsOf
<1>2. i \in 1..(Len(s) - 1) /\ Tail(s)[i].t = t
  BY <1>1 DEF Frames
<1>3. i + 1 \in 1..Len(s)
  BY <1>1, <1>2
<1>4. QED
  BY <1>1, <1>2, <1>3 DEF Frames

(* The types the proofs below use. *)
LEMMA ChannelTypes ==
  ASSUME TypeOK
  PROVE  /\ Len(log) \in Nat /\ DOMAIN log = 1..Len(log)
         /\ toClient \in Seq(ServerFrame) /\ Len(toClient) \in Nat /\ DOMAIN toClient = 1..Len(toClient)
         /\ toServer \in Seq(ClientFrame) /\ Len(toServer) \in Nat /\ DOMAIN toServer = 1..Len(toServer)
         /\ Len(pending) \in Nat /\ DOMAIN pending = 1..Len(pending)
         /\ \A i \in Frames(toClient, "evt") : i \in 1..Len(toClient) /\ toClient[i].seq \in 1..Len(log)
         /\ \A i \in Frames(toClient, "ready") : i \in 1..Len(toClient) /\ toClient[i].seq \in 0..Len(log)
         /\ \A i \in Frames(toServer, "resume") : i \in 1..Len(toServer) /\ toServer[i].since \in 1..Len(log)
         /\ \A u \in Threads : last[u] \in 0..Len(log) /\ chunks[u] \in Nat
         /\ \A i \in 1..Len(pending) : pending[i].thread \in Threads /\ pending[i].upto \in Nat
         /\ seq \in 0..Len(log)
         /\ \A n \in 1..Len(log) : log[n].text \in Nat
<1>1. /\ log \in Seq([thread: Threads \cup {Env}, text: Nat]) /\ toClient \in Seq(ServerFrame)
      /\ toServer \in Seq(ClientFrame) /\ pending \in Seq([thread: Threads, upto: Nat])
      /\ last \in [Threads \cup {Env} -> 0..Len(log)] /\ chunks \in [Threads -> Nat]
      /\ seq \in 0..Len(log)
  BY DEF TypeOK
<1>2. /\ Len(log) \in Nat /\ DOMAIN log = 1..Len(log)
      /\ Len(toClient) \in Nat /\ DOMAIN toClient = 1..Len(toClient)
      /\ Len(toServer) \in Nat /\ DOMAIN toServer = 1..Len(toServer)
      /\ Len(pending) \in Nat /\ DOMAIN pending = 1..Len(pending)
  BY <1>1
<1>3. /\ \A i \in 1..Len(toClient) : toClient[i] \in ServerFrame
      /\ \A i \in 1..Len(toServer) : toServer[i] \in ClientFrame
      /\ \A i \in 1..Len(pending) : pending[i] \in [thread: Threads, upto: Nat]
      /\ \A n \in 1..Len(log) : log[n] \in [thread: Threads \cup {Env}, text: Nat]
  BY <1>1, ElementsOf
<1>4. /\ \A i \in Frames(toClient, "evt") : i \in 1..Len(toClient) /\ toClient[i].seq \in 1..Len(log)
      /\ \A i \in Frames(toClient, "ready") : i \in 1..Len(toClient) /\ toClient[i].seq \in 0..Len(log)
      /\ \A i \in Frames(toServer, "resume") : i \in 1..Len(toServer) /\ toServer[i].since \in 1..Len(log)
  BY <1>2, <1>3, FrameFields DEF Frames
<1>5. /\ \A i \in 1..Len(pending) : pending[i].thread \in Threads /\ pending[i].upto \in Nat
      /\ \A n \in 1..Len(log) : log[n].text \in Nat
  BY <1>3
<1>6. \A u \in Threads : last[u] \in 0..Len(log) /\ chunks[u] \in Nat
  BY <1>1
<1>7. QED
  BY <1>1, <1>2, <1>4, <1>5, <1>6

(* What is subscribed or pending has no resume in front of it. *)
LEMMA SubscribedIsSynced ==
  ASSUME OrderInv, subscribed # {} \/ pending # <<>>
  PROVE  Frames(toClient, "ready") = {} /\ Frames(toServer, "resume") = {} /\ up
BY DEF OrderInv, NothingBeforeResume, Unsynced

(* Once a resume is served, only the socket's state matters. *)
LEMMA SyncedIsEnough ==
  ASSUME Frames(toClient, "ready") = {}, Frames(toServer, "resume") = {}, up
  PROVE  NothingBeforeResume
BY DEF NothingBeforeResume, Unsynced

(* The flushed text joins the channel behind everything, and is newer than   *)
(* every event in it.                                                        *)
LEMMA FlushFacts ==
  ASSUME OrderInv, NEW c, c = toClient \o Flushed
  PROVE  /\ c \in Seq(ServerFrame) /\ Len(c) \in Nat /\ DOMAIN c = 1..Len(c)
         /\ \A i \in Frames(c, "evt") : i \in Frames(toClient, "evt") /\ c[i] = toClient[i]
         /\ \A i \in Frames(c, "ready") : i \in Frames(toClient, "ready")
         /\ \A i \in Frames(c, "evt") : \A j \in i..Len(c) :
              c[j].t = "delta" /\ c[j].thread = log[c[i].seq].thread => c[j].upto > log[c[i].seq].text
<1>1. TypeOK /\ NoLateText
  BY DEF OrderInv
<1>2. /\ toClient \in Seq(ServerFrame) /\ Len(toClient) \in Nat /\ Len(pending) \in Nat
      /\ DOMAIN toClient = 1..Len(toClient) /\ DOMAIN pending = 1..Len(pending)
  BY <1>1, ChannelTypes
<1>3. /\ Flushed \in Seq(ServerFrame) /\ Len(Flushed) = Len(pending)
      /\ \A i \in 1..Len(pending) : Flushed[i] = Delta(pending[i])
  BY <1>1, FlushedFacts
<1>4. /\ c \in Seq(ServerFrame) /\ Len(c) = Len(toClient) + Len(pending)
      /\ \A i \in 1..Len(toClient) : c[i] = toClient[i]
      /\ \A i \in 1..Len(pending) : c[Len(toClient) + i] = Delta(pending[i])
  <2>1. toClient \in Seq(ServerFrame) /\ Flushed \in Seq(ServerFrame)
    BY <1>2, <1>3
  <2>2. /\ c \in Seq(ServerFrame) /\ Len(c) = Len(toClient) + Len(Flushed)
        /\ \A i \in 1..Len(toClient) : c[i] = toClient[i]
        /\ \A i \in 1..Len(Flushed) : c[Len(toClient) + i] = Flushed[i]
    BY ONLY <2>1, ConcatFacts, c = toClient \o Flushed
  <2>3. QED
    BY <1>3, <2>2
<1>5. Len(c) \in Nat /\ DOMAIN c = 1..Len(c)
  BY <1>4, ElementsOf
<1>6. \A k \in 1..Len(Flushed) : Flushed[k].t = "delta"
  BY <1>3, Kinds
<1>7. ASSUME NEW t, t # "delta", NEW i \in Frames(c, t)
      PROVE  i \in Frames(toClient, t) /\ i \in 1..Len(toClient) /\ c[i] = toClient[i]
  <2>1. ~(\E k \in Frames(Flushed, t) : k \in 1..Len(Flushed))
    BY <1>6, <1>7 DEF Frames
  <2>2. QED
    BY <1>2, <1>3, <1>7, <2>1, FramesConcat
<1>8. /\ \A i \in Frames(c, "evt") : i \in Frames(toClient, "evt") /\ i \in 1..Len(toClient) /\ c[i] = toClient[i]
      /\ \A i \in Frames(c, "ready") : i \in Frames(toClient, "ready")
  BY <1>7
<1>9. ASSUME NEW i \in Frames(c, "evt"), NEW j \in i..Len(c),
             c[j].t = "delta", c[j].thread = log[c[i].seq].thread
      PROVE  c[j].upto > log[c[i].seq].text
  <2>1. i \in 1..Len(toClient) /\ i \in DOMAIN toClient /\ toClient[i].t = "evt" /\ c[i] = toClient[i]
    BY <1>2, <1>8 DEF Frames
  <2>2. CASE j <= Len(toClient)
    <3>1. j \in i..Len(toClient) /\ c[j] = toClient[j]
      BY <1>2, <1>4, <2>1, <2>2
    <3>2. QED
      BY <1>1, <1>9, <2>1, <3>1 DEF NoLateText
  <2>3. CASE j > Len(toClient)
    <3>1. j - Len(toClient) \in 1..Len(pending) /\ j = Len(toClient) + (j - Len(toClient))
      BY <1>2, <1>4, <2>1, <2>3
    <3>2. c[j] = Delta(pending[j - Len(toClient)])
      BY <1>4, <3>1
    <3>3. /\ c[j].thread = pending[j - Len(toClient)].thread
          /\ c[j].upto = pending[j - Len(toClient)].upto
      BY <3>2, Kinds
    <3>4. QED
      BY <1>1, <1>2, <1>9, <2>1, <3>1, <3>3 DEF NoLateText
  <2>4. QED
    BY <1>2, <2>1, <2>2, <2>3
<1>10. QED
  BY <1>4, <1>5, <1>8, <1>9

(* Flushing keeps the order. *)
LEMMA TickOrder == ASSUME OrderInv, Tick PROVE OrderInv'
<1>1. TypeOK /\ TypeOK'
  BY TickType DEF OrderInv
<1>2. UNCHANGED <<log, chunks, subscribed, client, up, toServer>> /\ pending' = <<>> /\ pending # <<>>
  BY DEF Tick
<1>3. Frames(toClient, "ready") = {} /\ Frames(toServer, "resume") = {} /\ up
  BY <1>2, SubscribedIsSynced
<1>4. /\ \A i \in Frames(toClient', "evt") : i \in Frames(toClient, "evt") /\ toClient'[i] = toClient[i]
      /\ Frames(toClient', "ready") = {} /\ DOMAIN toClient' = 1..Len(toClient')
      /\ \A i \in Frames(toClient', "evt") : \A j \in i..Len(toClient') :
           toClient'[j].t = "delta" /\ toClient'[j].thread = log[toClient'[i].seq].thread
             => toClient'[j].upto > log[toClient'[i].seq].text
  <2>1. toClient' = toClient \o Flushed
    BY DEF Tick
  <2>2. QED
    BY <1>3, <2>1, FlushFacts
<1>5. NothingBeforeResume'
  <2>1. Frames(toClient, "ready")' = {} /\ Frames(toServer, "resume")' = {} /\ up'
    BY <1>2, <1>3, <1>4 DEF Frames
  <2>2. QED
    BY <2>1 DEF NothingBeforeResume, Unsynced
<1>6. CursorCovers'
  <2>1. \A u \in Threads : seq # 0 => last[u] <= seq
    BY DEF OrderInv, CursorCovers
  <2>2. Frames(toServer', "resume") = {} /\ seq' = seq /\ last' = last
    BY <1>2, <1>3 DEF client
  <2>3. QED
    BY <1>4, <2>1, <2>2 DEF CursorCovers
<1>7. ChannelAscends'
  <2>1. ChannelAscends /\ last' = last
    BY <1>2 DEF OrderInv, client
  <2>2. QED
    BY <1>4, <2>1 DEF ChannelAscends
<1>8. Stamped'
  <2>1. Stamped
    BY DEF OrderInv
  <2>2. QED
    BY <1>2, <2>1 DEF Stamped
<1>9. NoLateText'
  BY <1>2, <1>4 DEF NoLateText, Frames
<1>10. QED
  BY <1>1, <1>5, <1>6, <1>7, <1>8, <1>9 DEF OrderInv

(* Committing an event of a thread keeps the order: it is the newest event,  *)
(* behind the text streamed before it.                                       *)
LEMMA CommitOrder == ASSUME OrderInv, NEW u \in Threads, Commit(u) PROVE OrderInv'
<1> DEFINE n == Len(log) + 1
<1>1. TypeOK /\ TypeOK' /\ u # Env
  BY CommitType, ThreadsAssumption DEF OrderInv
<1>2. /\ Len(log) \in Nat /\ DOMAIN log = 1..Len(log) /\ DOMAIN log' = 1..n
      /\ \A i \in 1..Len(log) : log'[i] = log[i]
      /\ log'[n] = [thread |-> u, text |-> chunks[u]]
  <2> DEFINE e == [thread |-> u, text |-> chunks[u]]
             Entry == [thread: Threads \cup {Env}, text: Nat]
  <2>1. log \in Seq(Entry) /\ log' = Append(log, e)
    BY <1>1 DEF Commit, TypeOK
  <2>2. e \in Entry
    BY <1>1, ChannelTypes
  <2> HIDE DEF e, Entry
  <2>3. /\ log' \in Seq(Entry) /\ Len(log') = Len(log) + 1
        /\ \A i \in 1..Len(log) : log'[i] = log[i]
        /\ log'[Len(log) + 1] = e
    BY <2>1, <2>2, AppendFacts
  <2>4. Len(log) \in Nat /\ DOMAIN log = 1..Len(log) /\ DOMAIN log' = 1..Len(log')
    BY <2>1, <2>3, ElementsOf
  <2>5. QED
    BY <2>3, <2>4 DEF e
<1>3. UNCHANGED <<chunks, subscribed, client, bounds, up, toServer>>
  BY DEF Commit
<1>4. Stamped'
  <2>1. Stamped
    BY DEF OrderInv
  <2>2. \A i \in DOMAIN pending' : pending'[i].upto <= chunks[pending'[i].thread]
    BY <2>1 DEF Commit, Stamped
  <2>3. chunks[u] <= chunks[u]
    BY <1>1, ChannelTypes
  <2>4. \A i \in 1..n : log'[i].thread \in Threads /\ log'[i].text <= chunks[log'[i].thread]
    BY <1>2, <2>1, <2>3 DEF Stamped
  <2>5. QED
    BY <1>2, <1>3, <2>2, <2>4 DEF Stamped
<1>5. /\ \A i \in Frames(toClient, "evt") : toClient[i].seq \in 1..Len(log) /\ toClient[i].seq < n
      /\ \A v \in Threads : last[v] < n
      /\ \A i \in Frames(toClient, "evt") :
           log'[toClient[i].seq] = log[toClient[i].seq]
  BY <1>1, <1>2, ChannelTypes
<1>6. CASE up /\ Relevant(u)
  <2> DEFINE c == toClient \o Flushed
  <2>1. subscribed # {}
    BY <1>1, <1>6 DEF Relevant
  <2>2. Frames(toClient, "ready") = {} /\ Frames(toServer, "resume") = {} /\ up
    BY <2>1, SubscribedIsSynced
  <2>3. /\ c \in Seq(ServerFrame) /\ Len(c) \in Nat /\ DOMAIN c = 1..Len(c)
        /\ \A i \in Frames(c, "evt") : i \in Frames(toClient, "evt") /\ c[i] = toClient[i]
        /\ \A i \in Frames(c, "ready") : i \in Frames(toClient, "ready")
        /\ \A i \in Frames(c, "evt") : \A j \in i..Len(c) :
             c[j].t = "delta" /\ c[j].thread = log[c[i].seq].thread => c[j].upto > log[c[i].seq].text
    BY FlushFacts
  <2>4. toClient' = c \o <<Evt(n)>> /\ pending' = <<>>
    BY <1>6 DEF Commit
  <2> HIDE DEF c, n
  <2>5. /\ Len(toClient') = Len(c) + 1 /\ DOMAIN toClient' = 1..(Len(c) + 1)
        /\ \A i \in 1..Len(c) : toClient'[i] = c[i]
        /\ toClient'[Len(c) + 1] = Evt(n)
    BY <2>3, <2>4
  <2>6. ASSUME NEW t, NEW i \in Frames(toClient', t)
        PROVE  \/ i \in Frames(c, t) /\ i \in 1..Len(c) /\ toClient'[i] = c[i]
               \/ t = "evt" /\ i = Len(c) + 1
    <3>1. i \in 1..(Len(c) + 1) /\ toClient'[i].t = t
      BY <2>5 DEF Frames
    <3>2. QED
      BY <2>3, <2>5, <3>1, Kinds DEF Frames
  <2>7. Frames(toClient', "ready") = {}
    BY <2>2, <2>3, <2>6
  <2>8. NothingBeforeResume'
    <3>1. Frames(toClient, "ready")' = {} /\ Frames(toServer, "resume")' = {} /\ up'
      BY <1>3, <2>2, <2>7 DEF Frames
    <3>2. QED
      BY <3>1 DEF NothingBeforeResume, Unsynced
  <2>9. CursorCovers'
    <3>1. \A v \in Threads : seq # 0 => last[v] <= seq
      BY DEF OrderInv, CursorCovers
    <3>2. Frames(toServer', "resume") = {} /\ seq' = seq /\ last' = last
      BY <1>3, <2>2 DEF client
    <3>3. QED
      BY <2>7, <3>1, <3>2 DEF CursorCovers
  <2>10. ChannelAscends'
    <3>1. ChannelAscends /\ last' = last
      BY <1>3 DEF OrderInv, client
    <3>2. ASSUME NEW i \in Frames(toClient', "evt")
          PROVE  /\ \A v \in Threads : last[v] < toClient'[i].seq
                 /\ \A j \in Frames(toClient', "evt") : i < j => toClient'[i].seq < toClient'[j].seq
      <4>1. CASE i \in Frames(c, "evt") /\ i \in 1..Len(c) /\ toClient'[i] = c[i]
        <5>1. i \in Frames(toClient, "evt") /\ toClient'[i] = toClient[i]
          BY <2>3, <4>1
        <5>2. ASSUME NEW j \in Frames(toClient', "evt"), i < j
              PROVE  toClient'[i].seq < toClient'[j].seq
          <6>1. CASE j = Len(c) + 1
            <7>1. toClient'[j] = Evt(n) /\ Evt(n).seq = n
              BY <2>5, <6>1, Kinds
            <7>2. toClient[i].seq < n
              BY <1>5, <5>1
            <7>3. QED
              BY <5>1, <7>1, <7>2
          <6>2. CASE j \in Frames(c, "evt") /\ j \in 1..Len(c) /\ toClient'[j] = c[j]
            <7>1. j \in Frames(toClient, "evt") /\ toClient'[j] = toClient[j]
              BY <2>3, <6>2
            <7>2. toClient[i].seq < toClient[j].seq
              BY <3>1, <5>1, <5>2, <7>1 DEF ChannelAscends
            <7>3. QED
              BY <5>1, <7>1, <7>2
          <6>3. QED
            BY <2>6, <6>1, <6>2
        <5>3. QED
          BY <3>1, <5>1, <5>2 DEF ChannelAscends
      <4>2. CASE i = Len(c) + 1
        <5>1. toClient'[i].seq = n
          BY <2>5, <4>2, Kinds
        <5>2. ~(\E j \in Frames(toClient', "evt") : i < j)
          BY <2>3, <2>5, <4>2 DEF Frames
        <5>3. QED
          BY <1>5, <5>1, <5>2
      <4>3. QED
        BY <2>6, <4>1, <4>2
    <3>3. QED
      BY <3>1, <3>2 DEF ChannelAscends
  <2>11. NoLateText'
    <3>1. ASSUME NEW i \in DOMAIN toClient', toClient'[i].t = "evt",
                 NEW j \in i..Len(toClient'), toClient'[j].t = "delta",
                 toClient'[j].thread = log'[toClient'[i].seq].thread
          PROVE  toClient'[j].upto > log'[toClient'[i].seq].text
      <4>1. i \in 1..(Len(c) + 1) /\ j \in i..(Len(c) + 1)
        BY <2>5, <3>1
      <4>2. j # Len(c) + 1
        BY <2>5, <3>1, Kinds
      <4>3. i \in 1..Len(c) /\ j \in i..Len(c) /\ j \in 1..Len(c)
        BY <2>3, <4>1, <4>2
      <4>4. toClient'[i] = c[i] /\ toClient'[j] = c[j] /\ i \in Frames(c, "evt")
        BY <2>3, <2>5, <3>1, <4>3 DEF Frames
      <4>5. log'[c[i].seq] = log[c[i].seq]
        BY <1>5, <2>3, <4>4
      <4>6. QED
        BY <2>3, <3>1, <4>3, <4>4, <4>5
    <3>2. DOMAIN pending' = {}
      BY <2>4
    <3>3. QED
      BY <3>1, <3>2 DEF NoLateText
  <2>12. QED
    BY <1>1, <1>4, <2>8, <2>9, <2>10, <2>11 DEF OrderInv
<1>7. CASE ~(up /\ Relevant(u))
  <2>1. toClient' = toClient /\ pending' = pending
    BY <1>7 DEF Commit
  <2>2. NothingBeforeResume' /\ CursorCovers' /\ ChannelAscends'
    <3>1. NothingBeforeResume /\ CursorCovers /\ ChannelAscends
      BY DEF OrderInv
    <3>2. QED
      BY <1>3, <2>1, <3>1 DEF NothingBeforeResume, Unsynced, CursorCovers, ChannelAscends, Frames, client
  <2>3. NoLateText'
    <3>1. NoLateText
      BY DEF OrderInv
    <3>2. \A i \in DOMAIN toClient : toClient[i].t = "evt" => log'[toClient[i].seq] = log[toClient[i].seq]
      BY <1>5 DEF Frames
    <3>3. QED
      BY <2>1, <3>1, <3>2 DEF NoLateText
  <2>4. QED
    BY <1>1, <1>4, <2>2, <2>3 DEF OrderInv
<1>8. QED
  BY <1>6, <1>7

(* Streaming a chunk keeps the order: the text that becomes pending is newer *)
(* than every event there is.                                                *)
LEMMA StreamOrder == ASSUME OrderInv, NEW u \in Threads, Stream(u) PROVE OrderInv'
<1>1. TypeOK /\ TypeOK' /\ Stamped /\ NoLateText
  BY StreamType DEF OrderInv
<1>2. UNCHANGED <<log, subscribed, client, bounds, up, toClient, toServer>>
  BY DEF Stream
<1>3. chunks' = [chunks EXCEPT ![u] = @ + 1] /\ chunks \in [Threads -> Nat] /\ chunks[u] \in Nat
  BY <1>1 DEF Stream, TypeOK
<1>4. \A v \in Threads : chunks[v] \in Nat /\ chunks'[v] \in Nat /\ chunks[v] <= chunks'[v]
  BY <1>3
<1>5. \A k \in DOMAIN pending' :
        \/ k \in DOMAIN pending /\ pending'[k] = pending[k]
        \/ pending'[k].thread = u /\ pending'[k].upto = chunks[u] + 1
  <2> DEFINE x == [thread |-> u, upto |-> chunks[u] + 1]
             P == [thread: Threads, upto: Nat]
             merged == [i \in DOMAIN pending |->
                          IF pending[i].thread = u THEN [pending[i] EXCEPT !.upto = chunks[u] + 1] ELSE pending[i]]
  <2>1. pending \in Seq(P) /\ x \in P
    BY <1>1, <1>3 DEF TypeOK
  <2>2. \A k \in DOMAIN pending : pending[k] \in P
    <3> HIDE DEF P
    <3>1. QED
      BY <2>1, ElementsOf
  <2>3. pending' \in {pending, merged, Append(pending, x)}
    BY DEF Stream
  <2>4. CASE pending' = pending
    BY <2>4
  <2>5. CASE pending' = merged
    BY <2>2, <2>5
  <2>6. CASE pending' = Append(pending, x)
    <3> HIDE DEF P, x
    <3>1. \A k \in DOMAIN pending' : pending'[k] = x \/ (k \in DOMAIN pending /\ pending'[k] = pending[k])
      BY <2>1, <2>6
    <3>2. QED
      BY <3>1 DEF x
  <2>7. QED
    BY <2>3, <2>4, <2>5, <2>6
<1>6. NothingBeforeResume'
  <2>1. NothingBeforeResume
    BY DEF OrderInv
  <2>2. CASE pending' = pending
    BY <1>2, <2>1, <2>2 DEF NothingBeforeResume, Unsynced, Frames, client
  <2>3. CASE pending' # pending
    <3>1. up /\ subscribed # {}
      BY <2>3 DEF Stream
    <3>2. Frames(toClient, "ready") = {} /\ Frames(toServer, "resume") = {}
      BY <3>1, SubscribedIsSynced
    <3>3. Frames(toClient, "ready")' = {} /\ Frames(toServer, "resume")' = {} /\ up'
      BY <1>2, <3>1, <3>2
    <3>4. QED
      BY <3>3 DEF NothingBeforeResume, Unsynced
  <2>4. QED
    BY <2>2, <2>3
<1>7. CursorCovers' /\ ChannelAscends'
  <2>1. CursorCovers /\ ChannelAscends
    BY DEF OrderInv
  <2>2. QED
    BY <1>2, <2>1 DEF CursorCovers, ChannelAscends, Frames, client
<1>8. Stamped'
  <2>1. \A n \in DOMAIN log : log[n].thread \in Threads /\ log[n].text <= chunks'[log[n].thread]
    <3>1. ASSUME NEW n \in DOMAIN log PROVE log[n].thread \in Threads /\ log[n].text <= chunks'[log[n].thread]
      <4>1. log[n].text \in Nat /\ log[n].thread \in Threads /\ log[n].text <= chunks[log[n].thread]
        BY <1>1, ChannelTypes DEF Stamped
      <4>2. QED
        BY <1>4, <4>1
    <3>2. QED
      BY <3>1
  <2>2. ASSUME NEW k \in DOMAIN pending' PROVE pending'[k].upto <= chunks'[pending'[k].thread]
    <3>1. CASE k \in DOMAIN pending /\ pending'[k] = pending[k]
      <4>1. pending[k].upto \in Nat /\ pending[k].thread \in Threads /\ pending[k].upto <= chunks[pending[k].thread]
        BY <1>1, <3>1, ChannelTypes DEF Stamped
      <4>2. QED
        BY <1>4, <3>1, <4>1
    <3>2. CASE pending'[k].thread = u /\ pending'[k].upto = chunks[u] + 1
      BY <1>3, <3>2
    <3>3. QED
      BY <1>5, <3>1, <3>2
  <2>3. QED
    BY <1>2, <2>1, <2>2 DEF Stamped
<1>9. NoLateText'
  <2>1. ASSUME NEW i \in DOMAIN toClient, toClient[i].t = "evt",
               NEW k \in DOMAIN pending', pending'[k].thread = log[toClient[i].seq].thread
        PROVE  pending'[k].upto > log[toClient[i].seq].text
    <3>1. CASE k \in DOMAIN pending /\ pending'[k] = pending[k]
      BY <1>1, <2>1, <3>1 DEF NoLateText
    <3>2. CASE pending'[k].thread = u /\ pending'[k].upto = chunks[u] + 1
      <4>1. toClient[i].seq \in 1..Len(log)
        BY <1>1, <2>1, ChannelTypes DEF Frames
      <4>2. log[toClient[i].seq].text <= chunks[u] /\ log[toClient[i].seq].text \in Nat
        BY <1>1, <2>1, <3>2, <4>1, ChannelTypes DEF Stamped
      <4>3. QED
        BY <1>3, <3>2, <4>2
    <3>3. QED
      BY <1>5, <3>1, <3>2
  <2>2. QED
    BY <1>1, <1>2, <2>1 DEF NoLateText
<1>10. QED
  BY <1>1, <1>6, <1>7, <1>8, <1>9 DEF OrderInv

(* Handling a frame of the daemon: the channel moves up by one, and there is *)
(* no greeting left in it.                                                   *)
LEMMA TakeFacts ==
  ASSUME OrderInv, NEW t, Delivered(t), UNCHANGED <<log, chunks, pending>>
  PROVE  /\ Frames(toClient', "ready") = {} /\ up
         /\ \A i \in Frames(toClient', "evt") : i + 1 \in Frames(toClient, "evt") /\ toClient'[i] = toClient[i + 1]
         /\ \A i \in DOMAIN toClient' : i \in Nat /\ i + 1 \in DOMAIN toClient /\ toClient'[i] = toClient[i + 1]
         /\ Stamped' /\ NoLateText'
<1>1. TypeOK /\ Stamped /\ NoLateText /\ NothingBeforeResume
  BY DEF OrderInv
<1>2. /\ toClient \in Seq(ServerFrame) /\ toClient # <<>> /\ toClient' = Tail(toClient)
      /\ Len(toClient) \in Nat /\ Len(toClient) >= 1 /\ DOMAIN toClient = 1..Len(toClient)
      /\ DOMAIN toClient' = 1..(Len(toClient) - 1) /\ Len(toClient') = Len(toClient) - 1
      /\ \A i \in 1..(Len(toClient) - 1) : toClient'[i] = toClient[i + 1]
  BY <1>1, DeliveredFacts, ElementsOf
<1>3. \A i \in DOMAIN toClient' : i \in Nat /\ i + 1 \in DOMAIN toClient /\ toClient'[i] = toClient[i + 1]
  BY <1>2
<1>4. \A i \in Frames(toClient', "evt") : i + 1 \in Frames(toClient, "evt") /\ toClient'[i] = toClient[i + 1]
  BY <1>3 DEF Frames
<1>5. Frames(toClient', "ready") = {}
  <2>1. \A i \in Frames(toClient', "ready") : i \in Nat /\ i >= 1 /\ i + 1 \in Frames(toClient, "ready")
    BY <1>2, <1>3 DEF Frames
  <2>2. \A i \in Frames(toClient, "ready") : i = 1
    BY <1>1 DEF NothingBeforeResume
  <2>3. QED
    BY <2>1, <2>2
<1>6. up
  BY <1>1, <1>2 DEF NothingBeforeResume
<1>7. Stamped'
  BY <1>1 DEF Stamped
<1>8. NoLateText'
  <2>1. ASSUME NEW i \in DOMAIN toClient', toClient'[i].t = "evt"
        PROVE  /\ \A j \in i..Len(toClient') :
                    toClient'[j].t = "delta" /\ toClient'[j].thread = log[toClient'[i].seq].thread
                      => toClient'[j].upto > log[toClient'[i].seq].text
               /\ \A j \in DOMAIN pending :
                    pending[j].thread = log[toClient'[i].seq].thread => pending[j].upto > log[toClient'[i].seq].text
    <3>1. i + 1 \in DOMAIN toClient /\ toClient'[i] = toClient[i + 1] /\ i \in 1..(Len(toClient) - 1)
      BY <1>2, <1>3
    <3>2. \A j \in i..Len(toClient') : j + 1 \in (i + 1)..Len(toClient) /\ toClient'[j] = toClient[j + 1]
      BY <1>2, <3>1
    <3>3. QED
      BY <1>1, <2>1, <3>1, <3>2 DEF NoLateText
  <2>2. QED
    BY <2>1 DEF NoLateText
<1>9. QED
  BY <1>3, <1>4, <1>5, <1>6, <1>7, <1>8

(* If App is handed nothing, the events in the channel still ascend. *)
LEMMA TakeAscends ==
  ASSUME OrderInv, NEW t, Delivered(t), UNCHANGED <<log, chunks, pending, last>>
  PROVE  ChannelAscends'
<1>1. /\ \A i \in Frames(toClient', "evt") : i + 1 \in Frames(toClient, "evt") /\ toClient'[i] = toClient[i + 1]
      /\ \A i \in DOMAIN toClient' : i \in Nat
  BY TakeFacts
<1>2. ChannelAscends
  BY DEF OrderInv
<1>3. ASSUME NEW i \in Frames(toClient', "evt")
      PROVE  /\ \A u \in Threads : last[u] < toClient'[i].seq
             /\ \A j \in Frames(toClient', "evt") : i < j => toClient'[i].seq < toClient'[j].seq
  <2>1. \A j \in Frames(toClient', "evt") : j \in Nat
    BY <1>1 DEF Frames
  <2>2. \A j \in Frames(toClient', "evt") : i < j => i + 1 < j + 1
    BY <2>1
  <2>3. QED
    BY <1>1, <1>2, <2>2 DEF ChannelAscends
<1>4. QED
  BY <1>3 DEF ChannelAscends

(* Fetching again only adds a request, and only to an open socket. *)
LEMMA RefetchFrames ==
  ASSUME TypeOK
  PROVE  /\ DOMAIN Refetch = 1..Len(Refetch) /\ Len(Refetch) \in Nat /\ Len(Refetch) >= Len(toServer)
         /\ \A i \in 1..Len(Refetch) :
              \/ i \in 1..Len(toServer) /\ Refetch[i] = toServer[i]
              \/ i > Len(toServer) /\ Refetch[i].t = "get"
<1>1. toServer \in Seq(ClientFrame) /\ Len(toServer) \in Nat /\ DOMAIN toServer = 1..Len(toServer)
  BY ChannelTypes
<1>2. CASE active = NoThread
  BY <1>1, <1>2 DEF Refetch
<1>3. CASE active # NoThread
  <2>1. GetThread(active) \in ClientFrame /\ GetThread(active).t = "get"
    BY <1>3, ClientFrames, ChannelTypes, Kinds DEF TypeOK
  <2>2. Refetch = Append(toServer, GetThread(active))
    BY <1>3 DEF Refetch
  <2>3. QED
    BY <1>1, <2>1, <2>2, AppendFacts, ElementsOf
<1>4. QED
  BY <1>2, <1>3

(* What neither moves the log nor the daemon's channel keeps the order in it. *)
LEMMA SameChannel ==
  ASSUME OrderInv, UNCHANGED <<log, chunks, pending, toClient, last>>
  PROVE  ChannelAscends' /\ Stamped' /\ NoLateText'
BY DEF OrderInv, ChannelAscends, Stamped, NoLateText, Frames

(* A request other than session.resume may join the client's channel; a sub  *)
(* only once the greeting was handled.                                       *)
LEMMA AddRequests ==
  ASSUME OrderInv, up, up',
         UNCHANGED <<log, subscribed, pending, toClient, seq, last>>,
         DOMAIN toServer' = 1..Len(toServer'), Len(toServer') \in Nat,
         \A i \in 1..Len(toServer') :
           \/ i \in 1..Len(toServer) /\ toServer'[i] = toServer[i]
           \/ i > Len(toServer) /\ toServer'[i].t = "get"
           \/ i > Len(toServer) /\ toServer'[i].t = "sub" /\ Frames(toClient, "ready") = {}
  PROVE  NothingBeforeResume' /\ CursorCovers'
<1>1. /\ TypeOK /\ NothingBeforeResume /\ CursorCovers
      /\ Len(toServer) \in Nat /\ DOMAIN toServer = 1..Len(toServer)
  BY ChannelTypes DEF OrderInv
<1>2. \A i \in Frames(toServer', "resume") :
        i \in Frames(toServer, "resume") /\ i \in 1..Len(toServer) /\ toServer'[i] = toServer[i]
  BY <1>1 DEF Frames
<1>3. Unsynced' => Unsynced
  BY <1>2 DEF Unsynced
<1>4. \A i \in Frames(toServer', "resume") : \A j \in 1..(i - 1) : toServer'[j].t = "get"
  <2>1. ASSUME NEW i \in Frames(toServer', "resume"), NEW j \in 1..(i - 1) PROVE toServer'[j].t = "get"
    <3>1. i \in Frames(toServer, "resume") /\ i \in 1..Len(toServer) /\ i \in 1..Len(toServer')
      BY <1>2 DEF Frames
    <3>2. toServer[j].t = "get"
      BY <1>1, <3>1 DEF NothingBeforeResume
    <3>3. j \in 1..Len(toServer) /\ j \in 1..Len(toServer') /\ ~(j > Len(toServer))
      BY <1>1, <3>1
    <3>4. QED
      BY <3>2, <3>3
  <2>2. QED
    BY <2>1
<1>5. Frames(toClient, "ready") # {} => \A i \in DOMAIN toServer' : toServer'[i].t = "get"
  <2>1. Frames(toClient, "ready") # {} => \A i \in DOMAIN toServer : toServer[i].t = "get"
    BY <1>1 DEF NothingBeforeResume
  <2>2. QED
    BY <1>1, <2>1
<1>6. NothingBeforeResume'
  <2>1. /\ Unsynced => subscribed = {} /\ pending = <<>>
        /\ Unsynced => \A i \in DOMAIN toClient : toClient[i].t \in {"ready", "snap"}
        /\ \A i \in Frames(toClient, "ready") : i = 1
    BY <1>1 DEF NothingBeforeResume
  <2>2. Frames(toClient, "ready")' = Frames(toClient, "ready")
    OBVIOUS
  <2>3. QED
    BY <1>3, <1>4, <1>5, <2>1, <2>2 DEF NothingBeforeResume
<1>7. CursorCovers'
  BY <1>1, <1>2 DEF CursorCovers
<1>8. QED
  BY <1>6, <1>7

(* What the client does on its own keeps the order. *)
LEMMA ClientOrder ==
  ASSUME OrderInv, "effect" \notin Overlaps,
         ResumeTimesOut \/ Subscribe \/ (\E u \in Threads : OpenThread(u))
  PROVE  OrderInv'
<1>1. TypeOK /\ TypeOK' /\ NothingBeforeResume /\ CursorCovers
  BY ClientType DEF OrderInv
<1>2. /\ toServer \in Seq(ClientFrame) /\ Len(toServer) \in Nat /\ DOMAIN toServer = 1..Len(toServer)
      /\ DOMAIN toClient = 1..Len(toClient)
  BY <1>1, ChannelTypes
<1>3. UNCHANGED <<log, chunks, subscribed, pending, toClient, seq, last, up>>
  BY DEF ResumeTimesOut, Subscribe, OpenThread, server
<1>4. ChannelAscends' /\ Stamped' /\ NoLateText'
  BY <1>3, SameChannel
<1>5. ASSUME NEW x \in ClientFrame, toServer' = Append(toServer, x), up,
             x.t = "get" \/ (x.t = "sub" /\ Frames(toClient, "ready") = {})
      PROVE  NothingBeforeResume' /\ CursorCovers'
  <2>1. /\ DOMAIN toServer' = 1..Len(toServer') /\ Len(toServer') = Len(toServer) + 1
        /\ \A i \in 1..Len(toServer) : toServer'[i] = toServer[i]
        /\ toServer'[Len(toServer) + 1] = x
    BY <1>2, <1>5, AppendFacts, ElementsOf
  <2>2. \A i \in 1..Len(toServer') : i \in 1..Len(toServer) \/ i = Len(toServer) + 1
    BY <1>2, <2>1
  <2>3. \A i \in 1..Len(toServer') :
          \/ i \in 1..Len(toServer) /\ toServer'[i] = toServer[i]
          \/ i > Len(toServer) /\ toServer'[i].t = "get"
          \/ i > Len(toServer) /\ toServer'[i].t = "sub" /\ Frames(toClient, "ready") = {}
    BY <1>2, <1>5, <2>1, <2>2
  <2>4. Len(toServer') \in Nat
    BY <1>2, <2>1
  <2>5. QED
    BY <1>3, <1>5, <2>1, <2>3, <2>4, AddRequests
<1>6. CASE toServer' = toServer /\ (resuming' => resuming)
  <2>1. NothingBeforeResume'
    BY <1>1, <1>3, <1>6 DEF NothingBeforeResume, Unsynced, Frames
  <2>2. CursorCovers'
    BY <1>1, <1>3, <1>6 DEF CursorCovers, Frames
  <2>3. QED
    BY <1>1, <1>4, <2>1, <2>2 DEF OrderInv
<1>7. CASE ResumeTimesOut
  <2>1. up /\ ~resuming'
    BY <1>1, <1>7 DEF ResumeTimesOut, NothingBeforeResume
  <2>2. CASE active = NoThread
    BY <1>6, <1>7, <2>1, <2>2 DEF ResumeTimesOut, Refetch
  <2>3. CASE active # NoThread
    <3>1. GetThread(active) \in ClientFrame /\ GetThread(active).t = "get"
      BY <1>1, <2>3, ClientFrames, ChannelTypes, Kinds DEF TypeOK
    <3>2. toServer' = Append(toServer, GetThread(active))
      BY <1>7, <2>3 DEF ResumeTimesOut, Refetch
    <3>3. QED
      BY <1>1, <1>4, <1>5, <2>1, <3>1, <3>2 DEF OrderInv
  <2>4. QED
    BY <2>2, <2>3
<1>8. ASSUME NEW u \in Threads, OpenThread(u) PROVE OrderInv'
  <2>1. resuming' = resuming
    BY <1>8 DEF OpenThread
  <2>2. CASE ~up
    BY <1>6, <1>8, <2>1, <2>2 DEF OpenThread
  <2>3. CASE up
    <3>1. GetThread(u) \in ClientFrame /\ GetThread(u).t = "get"
      BY <1>1, ClientFrames, ChannelTypes, Kinds
    <3>2. toServer' = Append(toServer, GetThread(u))
      BY <1>8, <2>3 DEF OpenThread
    <3>3. QED
      BY <1>1, <1>4, <1>5, <2>3, <3>1, <3>2 DEF OrderInv
  <2>4. QED
    BY <2>2, <2>3
<1>9. CASE Subscribe
  <2> DEFINE wanted == Known \cup ({active} \ {NoThread})
  <2>1. up /\ Greeted /\ toServer' = Append(toServer, Sub(wanted))
    BY <1>9 DEF Subscribe
  <2>2. wanted \subseteq Threads
    BY <1>1, ThreadsAssumption DEF TypeOK
  <2>3. Sub(wanted) \in ClientFrame /\ Sub(wanted).t = "sub"
    BY <1>1, <2>2, ClientFrames, ChannelTypes, Kinds
  <2>4. Frames(toClient, "ready") = {}
    BY <2>1 DEF Greeted, Frames
  <2> HIDE DEF wanted
  <2>5. QED
    BY <1>1, <1>4, <1>5, <2>1, <2>3, <2>4 DEF OrderInv
<1>10. QED
  BY <1>7, <1>8, <1>9

(* The frame being handled is the first of its channel. *)
LEMMA HeadFacts ==
  ASSUME TypeOK, NEW t, Delivered(t)
  PROVE  /\ Head(toClient) = toClient[1] /\ toClient[1].t = t
         /\ 1 \in DOMAIN toClient /\ 1 \in Frames(toClient, t)
<1>1. Head(toClient) = toClient[1] /\ Head(toClient).t = t /\ Len(toClient) >= 1
  BY DeliveredFacts
<1>2. DOMAIN toClient = 1..Len(toClient) /\ Len(toClient) \in Nat
  BY ChannelTypes
<1>3. 1 \in DOMAIN toClient
  BY <1>1, <1>2
<1>4. QED
  BY <1>1, <1>3 DEF Frames

(* Whatever is not a greeting or a snapshot arrives after the resume. *)
LEMMA TakenIsSynced ==
  ASSUME OrderInv, NEW t, Delivered(t), t \notin {"ready", "snap"}
  PROVE  Frames(toServer, "resume") = {}
<1>1. toClient[1].t = t /\ 1 \in DOMAIN toClient
  BY HeadFacts DEF OrderInv
<1>2. QED
  BY <1>1 DEF OrderInv, NothingBeforeResume, Unsynced

(* The greeting: the first connection starts where the daemon is, a later    *)
(* one asks for its gap in front of its subscriptions.                       *)
LEMMA ReadyOrder == ASSUME OrderInv, OnReady PROVE OrderInv'
<1>1. TypeOK /\ TypeOK' /\ NothingBeforeResume /\ CursorCovers
  BY HandleType DEF OrderInv, Handle
<1>2. Delivered("ready") /\ UNCHANGED <<log, chunks, pending, subscribed, last, threads, up>>
  BY DEF OnReady, server
<1>3. /\ Frames(toClient', "ready") = {} /\ up /\ Stamped' /\ NoLateText' /\ ChannelAscends'
      /\ \A i \in DOMAIN toClient' : i \in Nat /\ i + 1 \in DOMAIN toClient /\ toClient'[i] = toClient[i + 1]
  BY <1>2, TakeFacts, TakeAscends
<1>4. 1 \in Frames(toClient, "ready") /\ Head(toClient) = toClient[1]
  BY <1>1, <1>2, HeadFacts
<1>5. /\ subscribed = {} /\ pending = <<>>
      /\ \A i \in DOMAIN toClient : toClient[i].t \in {"ready", "snap"}
      /\ \A i \in DOMAIN toServer : toServer[i].t = "get"
  BY <1>1, <1>4 DEF NothingBeforeResume, Unsynced
<1>6. /\ toServer \in Seq(ClientFrame) /\ Len(toServer) \in Nat /\ DOMAIN toServer = 1..Len(toServer)
      /\ Sub(threads) \in ClientFrame /\ Sub(threads).t = "sub"
      /\ (seq # 0 => Resume(seq, threads) \in ClientFrame)
      /\ Resume(seq, threads).t = "resume" /\ Resume(seq, threads).since = seq
  <2>1. /\ toServer \in Seq(ClientFrame) /\ Len(toServer) \in Nat /\ DOMAIN toServer = 1..Len(toServer)
        /\ Len(log) \in Nat /\ seq \in 0..Len(log) /\ threads \in SUBSET Threads
    BY <1>1, ChannelTypes DEF TypeOK
  <2>2. seq # 0 => seq \in 1..Len(log)
    BY <2>1
  <2>3. Sub(threads) \in ClientFrame /\ (seq # 0 => Resume(seq, threads) \in ClientFrame)
    BY <2>1, <2>2, ClientFrames
  <2>4. /\ Sub(threads).t = "sub"
        /\ Resume(seq, threads).t = "resume" /\ Resume(seq, threads).since = seq
    BY Kinds
  <2>5. QED
    BY <2>1, <2>3, <2>4
<1>7. CASE seq = 0
  <2>1. toServer' = Append(toServer, Sub(threads)) /\ seq' = toClient[1].seq
    BY <1>4, <1>7 DEF OnReady
  <2>2. Frames(toServer', "resume") = {}
    <3>1. ASSUME NEW i \in Frames(toServer', "resume") PROVE FALSE
      <4>1. \/ i \in Frames(toServer, "resume")
            \/ Sub(threads).t = "resume"
        BY <1>6, <2>1, <3>1, FramesAppend
      <4>2. QED
        BY <1>5, <1>6, <4>1 DEF Frames
    <3>2. QED
      BY <3>1
  <2>3. NothingBeforeResume'
    BY <1>2, <1>3, <2>2 DEF NothingBeforeResume, Unsynced
  <2>4. CursorCovers'
    <3>1. \A u \in Threads : last[u] <= toClient[1].seq
      BY <1>1, <1>4 DEF CursorCovers
    <3>2. QED
      BY <1>2, <1>3, <2>1, <2>2, <3>1 DEF CursorCovers
  <2>5. QED
    BY <1>1, <1>3, <2>3, <2>4 DEF OrderInv
<1>8. CASE seq # 0
  <2> DEFINE asked == <<Resume(seq, threads), Sub(threads)>>
  <2>1. toServer' = toServer \o asked /\ seq' = seq
    BY <1>8 DEF OnReady
  <2>2. asked \in Seq(ClientFrame) /\ Len(asked) = 2 /\ asked[1] = Resume(seq, threads) /\ asked[2] = Sub(threads)
    BY <1>6, <1>8
  <2> HIDE DEF asked
  <2>3. /\ Len(toServer') = Len(toServer) + 2 /\ DOMAIN toServer' = 1..Len(toServer')
        /\ \A i \in 1..Len(toServer) : toServer'[i] = toServer[i]
        /\ toServer'[Len(toServer) + 1] = Resume(seq, threads)
        /\ toServer'[Len(toServer) + 2] = Sub(threads)
    <3>1. /\ toServer' \in Seq(ClientFrame) /\ Len(toServer') = Len(toServer) + 2
          /\ \A i \in 1..Len(toServer) : toServer'[i] = toServer[i]
          /\ \A i \in 1..2 : toServer'[Len(toServer) + i] = asked[i]
      <4>1. toServer \in Seq(ClientFrame)
        BY <1>6
      <4>2. asked \in Seq(ClientFrame) /\ toServer' = toServer \o asked
        BY <2>1, <2>2
      <4>3. /\ toServer' \in Seq(ClientFrame) /\ Len(toServer') = Len(toServer) + Len(asked)
            /\ \A i \in 1..Len(toServer) : toServer'[i] = toServer[i]
            /\ \A i \in 1..Len(asked) : toServer'[Len(toServer) + i] = asked[i]
        BY ONLY <4>1, <4>2, ConcatFacts
      <4>4. Len(asked) = 2
        BY <2>2
      <4>5. QED
        BY <4>3, <4>4
    <3>2. DOMAIN toServer' = 1..Len(toServer')
      BY <3>1, ElementsOf
    <3>3. QED
      BY <2>2, <3>1, <3>2
  <2>4. \A i \in Frames(toServer', "resume") : i = Len(toServer) + 1 /\ toServer'[i].since = seq
    <3>1. ASSUME NEW i \in Frames(toServer', "resume") PROVE i = Len(toServer) + 1
      <4>1. i \in 1..(Len(toServer) + 2) /\ toServer'[i].t = "resume"
        BY <2>3 DEF Frames
      <4>2. i \notin 1..Len(toServer)
        BY <1>5, <1>6, <2>3, <4>1
      <4>3. i # Len(toServer) + 2
        BY <1>6, <2>3, <4>1
      <4>4. QED
        BY <1>6, <4>1, <4>2, <4>3
    <3>2. QED
      BY <1>6, <2>3, <3>1
  <2>5. \A i \in Frames(toServer', "resume") : \A j \in 1..(i - 1) : toServer'[j].t = "get"
    <3>1. ASSUME NEW j \in 1..(Len(toServer) + 1 - 1) PROVE toServer'[j].t = "get"
      <4>1. j \in 1..Len(toServer)
        BY <1>6
      <4>2. QED
        BY <1>5, <1>6, <2>3, <4>1
    <3>2. QED
      BY <2>4, <3>1
  <2>6. \A i \in DOMAIN toClient' : toClient'[i].t \in {"ready", "snap"}
    BY <1>3, <1>5
  <2>7. NothingBeforeResume'
    BY <1>2, <1>3, <1>5, <2>5, <2>6 DEF NothingBeforeResume
  <2>8. CursorCovers'
    <3>1. \A u \in Threads : last[u] <= seq
      BY <1>1, <1>8 DEF CursorCovers
    <3>2. QED
      BY <1>2, <1>3, <2>1, <2>4, <3>1 DEF CursorCovers
  <2>9. QED
    BY <1>1, <1>3, <2>7, <2>8 DEF OrderInv
<1>9. QED
  BY <1>7, <1>8

(* An event handed to App is older than every event behind it. *)
LEMMA EventOrder == ASSUME OrderInv, OnEvent PROVE OrderInv'
<1> DEFINE n == toClient[1].seq
           u == log[n].thread
<1>1. TypeOK /\ TypeOK' /\ CursorCovers /\ ChannelAscends /\ Stamped
  BY HandleType DEF OrderInv, Handle
<1>2. Delivered("evt") /\ UNCHANGED <<log, chunks, pending, subscribed, up, toServer>>
  BY DEF OnEvent, server
<1>3. /\ Frames(toClient', "ready") = {} /\ up /\ Stamped' /\ NoLateText'
      /\ \A i \in Frames(toClient', "evt") : i + 1 \in Frames(toClient, "evt") /\ toClient'[i] = toClient[i + 1]
      /\ \A i \in DOMAIN toClient' : i \in Nat /\ i + 1 \in DOMAIN toClient /\ toClient'[i] = toClient[i + 1]
  BY <1>2, TakeFacts
<1>4. Frames(toServer, "resume") = {}
  BY <1>2, TakenIsSynced
<1>5. 1 \in Frames(toClient, "evt") /\ Head(toClient) = toClient[1] /\ n \in 1..Len(log)
  <2>1. 1 \in Frames(toClient, "evt") /\ Head(toClient) = toClient[1]
    BY <1>1, <1>2, HeadFacts
  <2>2. QED
    BY <1>1, <2>1, ChannelTypes
<1>6. /\ seq' = Larger(seq, n) /\ last' = [last EXCEPT ![u] = Larger(@, n)]
  BY <1>5 DEF OnEvent
<1>7. /\ last \in [Threads \cup {Env} -> 0..Len(log)] /\ seq \in 0..Len(log) /\ Len(log) \in Nat
      /\ u \in Threads
  <2>1. last \in [Threads \cup {Env} -> 0..Len(log)] /\ seq \in 0..Len(log)
    BY <1>1 DEF TypeOK
  <2>2. Len(log) \in Nat /\ DOMAIN log = 1..Len(log)
    BY <1>1, ChannelTypes
  <2>3. log[n].thread \in Threads
    BY <1>1, <1>5, <2>2 DEF Stamped
  <2>4. QED
    BY <2>1, <2>2, <2>3
<1> HIDE DEF u
<1>8. \A v \in Threads : last[v] < n
  BY <1>1, <1>5 DEF ChannelAscends
<1>9. \A v \in Threads : last'[v] <= n
  BY <1>5, <1>6, <1>7, <1>8 DEF Larger
<1>10. NothingBeforeResume'
  BY <1>2, <1>3, <1>4 DEF NothingBeforeResume, Unsynced
<1>11. CursorCovers'
  <2>1. n <= seq'
    BY <1>5, <1>6, <1>7 DEF Larger
  <2>2. seq' \in Nat /\ n \in Nat /\ \A v \in Threads : last'[v] \in Nat
    BY <1>5, <1>6, <1>7 DEF Larger
  <2>3. \A v \in Threads : last'[v] <= seq'
    BY <1>9, <2>1, <2>2
  <2>4. QED
    BY <1>2, <1>3, <1>4, <2>3 DEF CursorCovers
<1>12. ChannelAscends'
  <2>1. ASSUME NEW i \in Frames(toClient', "evt")
        PROVE  /\ \A v \in Threads : last'[v] < toClient'[i].seq
               /\ \A j \in Frames(toClient', "evt") : i < j => toClient'[i].seq < toClient'[j].seq
    <3>1. i + 1 \in Frames(toClient, "evt") /\ toClient'[i] = toClient[i + 1] /\ i \in Nat /\ i >= 1
      <4>1. i \in DOMAIN toClient'
        BY DEF Frames
      <4>2. DOMAIN toClient' = 1..Len(toClient') /\ Len(toClient') \in Nat
        BY <1>1 DEF TypeOK
      <4>3. i \in Nat /\ i >= 1
        BY <4>1, <4>2
      <4>4. QED
        BY <1>3, <4>3
    <3>2. n < toClient[i + 1].seq /\ toClient[i + 1].seq \in 1..Len(log)
      BY <1>1, <1>5, <3>1, ChannelTypes DEF ChannelAscends
    <3>3. \A v \in Threads : last'[v] < toClient'[i].seq
      <4>1. \A v \in Threads : last'[v] \in Nat
        BY <1>5, <1>6, <1>7 DEF Larger
      <4>2. QED
        BY <1>5, <1>7, <1>9, <3>1, <3>2, <4>1
    <3>4. ASSUME NEW j \in Frames(toClient', "evt"), i < j PROVE toClient'[i].seq < toClient'[j].seq
      <4>1. j + 1 \in Frames(toClient, "evt") /\ toClient'[j] = toClient[j + 1] /\ j \in Nat
        BY <1>3 DEF Frames
      <4>2. i + 1 < j + 1
        BY <3>1, <3>4, <4>1
      <4>3. QED
        BY <1>1, <3>1, <4>1, <4>2 DEF ChannelAscends
    <3>5. QED
      BY <3>3, <3>4
  <2>2. QED
    BY <2>1 DEF ChannelAscends
<1>13. QED
  BY <1>1, <1>3, <1>10, <1>11, <1>12 DEF OrderInv

(* A handled frame that is neither greeting nor event: App is handed         *)
(* nothing, and at most a request joins the other channel.                   *)
LEMMA HandleOrder == ASSUME OrderInv, Handle PROVE OrderInv'
<1>1. TypeOK /\ TypeOK' /\ CursorCovers /\ NothingBeforeResume
  BY HandleType DEF OrderInv
<1>2. CASE OnDelta \/ OnResumed
  <2>1. PICK t \in {"delta", "res"} : Delivered(t)
    BY <1>2 DEF OnDelta, OnResumed
  <2>2. UNCHANGED <<log, chunks, pending, subscribed, last, up>>
    BY <1>2 DEF OnDelta, OnResumed, server, client
  <2>3. /\ Frames(toClient', "ready") = {} /\ up /\ Stamped' /\ NoLateText' /\ ChannelAscends'
    BY <2>1, <2>2, TakeFacts, TakeAscends
  <2>4. Frames(toServer, "resume") = {}
    BY <2>1, TakenIsSynced
  <2>5. Frames(toServer', "resume") = {}
    <3>1. toServer' = toServer \/ toServer' = Refetch
      BY <1>2 DEF OnDelta, OnResumed
    <3>2. Frames(Refetch, "resume") = {}
      <4>1. ASSUME NEW i \in Frames(Refetch, "resume") PROVE FALSE
        <5>1. i \in 1..Len(Refetch) /\ Refetch[i].t = "resume"
          BY <1>1, RefetchFrames DEF Frames
        <5>2. i \in 1..Len(toServer) /\ Refetch[i] = toServer[i]
          BY <1>1, <5>1, RefetchFrames
        <5>3. i \in Frames(toServer, "resume")
          BY <1>1, <5>1, <5>2, ChannelTypes DEF Frames
        <5>4. QED
          BY <2>4, <5>3
      <4>2. QED
        BY <4>1
    <3>3. QED
      BY <2>4, <3>1, <3>2
  <2>6. NothingBeforeResume'
    BY <2>2, <2>3, <2>5 DEF NothingBeforeResume, Unsynced
  <2>7. seq' = 0 \/ seq' = seq
    BY <1>2 DEF OnDelta, OnResumed, client
  <2>8. CursorCovers'
    BY <1>1, <2>2, <2>3, <2>5, <2>7 DEF CursorCovers
  <2>9. QED
    BY <1>1, <2>3, <2>6, <2>8 DEF OrderInv
<1>3. CASE OnSnapshot
  <2>1. /\ Delivered("snap")
        /\ UNCHANGED <<log, chunks, pending, subscribed, last, up, toServer, seq, resuming>>
    BY <1>3 DEF OnSnapshot, server
  <2>2. /\ Frames(toClient', "ready") = {} /\ up /\ Stamped' /\ NoLateText' /\ ChannelAscends'
        /\ \A i \in DOMAIN toClient' : i \in Nat /\ i + 1 \in DOMAIN toClient /\ toClient'[i] = toClient[i + 1]
    BY <2>1, TakeFacts, TakeAscends
  <2>3. Unsynced' => Unsynced
    BY <2>1, <2>2 DEF Unsynced
  <2>4. NothingBeforeResume'
    <3>1. /\ Unsynced => subscribed = {} /\ pending = <<>>
          /\ Unsynced => \A i \in DOMAIN toClient : toClient[i].t \in {"ready", "snap"}
          /\ \A i \in Frames(toServer, "resume") : \A j \in 1..(i - 1) : toServer[j].t = "get"
      BY <1>1 DEF NothingBeforeResume
    <3>2. Unsynced => \A i \in DOMAIN toClient' : toClient'[i].t \in {"ready", "snap"}
      BY <2>2, <3>1
    <3>3. QED
      BY <2>1, <2>2, <2>3, <3>1, <3>2 DEF NothingBeforeResume
  <2>5. CursorCovers'
    BY <1>1, <2>1, <2>2 DEF CursorCovers
  <2>6. QED
    BY <1>1, <2>2, <2>4, <2>5 DEF OrderInv
<1>4. QED
  BY <1>2, <1>3, ReadyOrder, EventOrder DEF Handle

(* Opening or losing the socket starts the channels over. *)
LEMMA SocketOrder == ASSUME OrderInv, Connect \/ Drop PROVE OrderInv'
<1>1. TypeOK /\ TypeOK' /\ CursorCovers /\ Stamped
  BY SocketType DEF OrderInv
<1>2. UNCHANGED <<log, chunks, seq, last>> /\ toServer' = <<>> /\ pending' = <<>> /\ subscribed' = {}
  BY DEF Connect, Drop
<1>3. Frames(toServer', "resume") = {} /\ Frames(toServer, "resume")' = {} /\ DOMAIN toServer' = {} /\ DOMAIN pending' = {}
  BY <1>2 DEF Frames
<1>4. Stamped'
  BY <1>1, <1>2, <1>3 DEF Stamped
<1>5. CASE Connect
  <2>1. toClient' = <<Ready(Len(log))>> /\ up' = TRUE
    BY <1>5 DEF Connect, head
  <2>2. /\ DOMAIN toClient' = {1} /\ toClient'[1] = Ready(Len(log))
        /\ toClient'[1].t = "ready" /\ toClient'[1].seq = Len(log)
    BY <2>1, Kinds
  <2>3. Frames(toClient', "evt") = {} /\ \A i \in Frames(toClient', "ready") : i = 1
    BY <2>2 DEF Frames
  <2>4. NothingBeforeResume'
    BY <1>2, <1>3, <2>1, <2>2, <2>3 DEF NothingBeforeResume
  <2>5. CursorCovers'
    <3>1. \A u \in Threads : last[u] <= Len(log) /\ (seq # 0 => last[u] <= seq)
      BY <1>1, ChannelTypes DEF CursorCovers
    <3>2. QED
      BY <1>2, <1>3, <2>2, <2>3, <3>1 DEF CursorCovers
  <2>6. ChannelAscends' /\ NoLateText'
    BY <2>2, <2>3 DEF ChannelAscends, NoLateText, Frames
  <2>7. QED
    BY <1>1, <1>4, <2>4, <2>5, <2>6 DEF OrderInv
<1>6. CASE Drop
  <2>1. toClient' = <<>> /\ ~resuming'
    BY <1>6 DEF Drop
  <2>2. \A t : Frames(toClient', t) = {}
    BY <2>1 DEF Frames
  <2>3. NothingBeforeResume'
    BY <1>2, <1>3, <2>1, <2>2 DEF NothingBeforeResume, Unsynced
  <2>4. CursorCovers'
    BY <1>1, <1>2, <1>3, <2>2 DEF CursorCovers
  <2>5. ChannelAscends' /\ NoLateText'
    BY <2>1, <2>2 DEF ChannelAscends, NoLateText
  <2>6. QED
    BY <1>1, <1>4, <2>3, <2>4, <2>5 DEF OrderInv
<1>7. QED
  BY <1>5, <1>6

(* Serving a frame of the client: its channel moves up by one, and only      *)
(* requests for a thread are served before the greeting is handled and       *)
(* session.resume is served.                                                 *)
LEMMA ServeFacts ==
  ASSUME OrderInv, NEW t, Received(t)
  PROVE  /\ up
         /\ \A i \in DOMAIN toServer' : i \in 1..(Len(toServer) - 1) /\ i + 1 \in DOMAIN toServer /\ toServer'[i] = toServer[i + 1]
         /\ \A i \in Frames(toServer', "resume") : i + 1 \in Frames(toServer, "resume") /\ toServer'[i] = toServer[i + 1]
         /\ t # "get" => Frames(toClient, "ready") = {} /\ Frames(toServer', "resume") = {}
         /\ 1 \in Frames(toServer, t)
<1>1. TypeOK /\ NothingBeforeResume
  BY DEF OrderInv
<1>2. /\ toServer \in Seq(ClientFrame) /\ toServer # <<>> /\ toServer' = Tail(toServer)
      /\ Len(toServer) \in Nat /\ Len(toServer) >= 1 /\ DOMAIN toServer = 1..Len(toServer)
      /\ DOMAIN toServer' = 1..(Len(toServer) - 1)
      /\ \A i \in 1..(Len(toServer) - 1) : toServer'[i] = toServer[i + 1]
      /\ Head(toServer) = toServer[1] /\ Head(toServer).t = t
  BY <1>1, ReceivedFacts, ElementsOf
<1>3. \A i \in DOMAIN toServer' : i \in 1..(Len(toServer) - 1) /\ i + 1 \in DOMAIN toServer /\ toServer'[i] = toServer[i + 1]
  BY <1>2
<1>4. \A i \in Frames(toServer', "resume") : i + 1 \in Frames(toServer, "resume") /\ toServer'[i] = toServer[i + 1]
  BY <1>3 DEF Frames
<1>5. 1 \in DOMAIN toServer /\ toServer[1].t = t
  BY <1>2
<1>6. ASSUME t # "get" PROVE Frames(toClient, "ready") = {} /\ Frames(toServer', "resume") = {}
  <2>1. Frames(toClient, "ready") = {}
    BY <1>1, <1>5, <1>6 DEF NothingBeforeResume
  <2>2. ASSUME NEW i \in Frames(toServer', "resume") PROVE FALSE
    <3>1. i + 1 \in Frames(toServer, "resume") /\ i \in 1..(Len(toServer) - 1)
      BY <1>3, <1>4 DEF Frames
    <3>2. 1 \in 1..(i + 1 - 1)
      BY <1>2, <3>1
    <3>3. QED
      BY <1>1, <1>5, <1>6, <3>1, <3>2 DEF NothingBeforeResume
  <2>3. QED
    BY <2>1, <2>2
<1>7. up
  BY <1>1, <1>2 DEF NothingBeforeResume
<1>8. 1 \in Frames(toServer, t)
  BY <1>5 DEF Frames
<1>9. QED
  BY <1>3, <1>4, <1>6, <1>7, <1>8

(* The replay joins an empty-handed channel: the gap is newer than the       *)
(* cursor, and so newer than whatever App was handed.                        *)
LEMMA ResumeOrder == ASSUME OrderInv, OnResume PROVE OrderInv'
<1> DEFINE f == Head(toServer)
           Ordered ==
             /\ Frames(toClient', "ready") = {} /\ DOMAIN toClient' = 1..Len(toClient') /\ Len(toClient') \in Nat
             /\ \A i \in DOMAIN toClient' : toClient'[i].t # "delta"
             /\ \A i \in Frames(toClient', "evt") : \A u \in Threads : last[u] < toClient'[i].seq
             /\ \A i, j \in Frames(toClient', "evt") : i < j => toClient'[i].seq < toClient'[j].seq
<1>1. TypeOK /\ TypeOK' /\ NothingBeforeResume /\ CursorCovers /\ Stamped
  BY ServeType DEF OrderInv, Serve
<1>2. Received("resume") /\ UNCHANGED <<log, chunks, pending, client, up>>
  BY DEF OnResume
<1>3. /\ up /\ Frames(toClient, "ready") = {} /\ Frames(toServer', "resume") = {}
      /\ 1 \in Frames(toServer, "resume")
  BY <1>2, ServeFacts
<1>4. f = toServer[1]
  BY <1>1, <1>2, ReceivedFacts
<1>5. pending = <<>> /\ \A i \in DOMAIN toClient : toClient[i].t \in {"ready", "snap"}
  BY <1>1, <1>3 DEF NothingBeforeResume, Unsynced
<1>6. \A u \in Threads : last[u] <= f.since /\ last[u] \in Nat
  BY <1>1, <1>3, <1>4, ChannelTypes DEF CursorCovers
<1>7. /\ Len(log) \in Nat /\ toClient \in Seq(ServerFrame) /\ Len(toClient) \in Nat
      /\ DOMAIN toClient = 1..Len(toClient) /\ f.since \in Nat
      /\ Replayed \in ServerFrame /\ SnapshotNeeded \in ServerFrame
  BY <1>1, <1>3, <1>4, ChannelTypes, ServerFrames
<1>8. Ordered
  <2>1. CASE toClient' = Append(toClient, SnapshotNeeded)
    <3>1. /\ DOMAIN toClient' = 1..(Len(toClient) + 1) /\ Len(toClient') = Len(toClient) + 1
          /\ \A i \in 1..Len(toClient) : toClient'[i] = toClient[i]
          /\ toClient'[Len(toClient) + 1] = SnapshotNeeded
      BY <1>7, <2>1, AppendFacts, ElementsOf
    <3>2. \A i \in 1..(Len(toClient) + 1) : toClient'[i].t \in {"snap", "res"}
      <4>1. \A i \in 1..Len(toClient) : toClient[i].t = "snap"
        BY <1>3, <1>5, <1>7 DEF Frames
      <4>2. ASSUME NEW i \in 1..(Len(toClient) + 1) PROVE toClient'[i].t \in {"snap", "res"}
        <5>1. i \in 1..Len(toClient) \/ i = Len(toClient) + 1
          BY <1>7
        <5>2. SnapshotNeeded.t = "res"
          BY Kinds
        <5>3. QED
          BY <3>1, <4>1, <5>1, <5>2
      <4>3. QED
        BY <4>2
    <3>3. Frames(toClient', "ready") = {} /\ Frames(toClient', "evt") = {}
      BY <3>1, <3>2 DEF Frames
    <3>4. QED
      BY <1>7, <3>1, <3>2, <3>3
  <2>2. ASSUME NEW order \in SetToSeqs(Gap(f.since, f.threads)), Ascending(order),
               toClient' = Append(toClient, Replayed) \o Events(order)
        PROVE  Ordered
    <3> DEFINE K == Len(toClient) + 1
               G == Len(Events(order))
    <3>1. /\ G \in Nat /\ DOMAIN order = 1..G /\ Events(order) \in Seq(ServerFrame)
          /\ \A i \in 1..G :
               Events(order)[i] = Evt(order[i]) /\ order[i] \in Gap(f.since, f.threads) /\ order[i] \in 1..Len(log)
      BY <1>7, GapFacts
    <3>2. /\ Append(toClient, Replayed) \in Seq(ServerFrame) /\ Len(Append(toClient, Replayed)) = K
          /\ \A i \in 1..Len(toClient) : Append(toClient, Replayed)[i] = toClient[i]
          /\ Append(toClient, Replayed)[K] = Replayed
      BY <1>7, AppendFacts
    <3>3. /\ toClient' \in Seq(ServerFrame) /\ Len(toClient') = K + G
          /\ \A i \in 1..K : toClient'[i] = Append(toClient, Replayed)[i]
          /\ \A i \in 1..G : toClient'[K + i] = Events(order)[i]
      <4>1. Append(toClient, Replayed) \in Seq(ServerFrame) /\ Events(order) \in Seq(ServerFrame)
        BY <3>1, <3>2
      <4>2. /\ toClient' \in Seq(ServerFrame)
            /\ Len(toClient') = Len(Append(toClient, Replayed)) + Len(Events(order))
            /\ \A i \in 1..Len(Append(toClient, Replayed)) : toClient'[i] = Append(toClient, Replayed)[i]
            /\ \A i \in 1..Len(Events(order)) : toClient'[Len(Append(toClient, Replayed)) + i] = Events(order)[i]
        BY ONLY <2>2, <4>1, ConcatFacts
      <4>3. QED
        BY <3>2, <4>2
    <3>4. DOMAIN toClient' = 1..(K + G) /\ Len(toClient') \in Nat
      BY <3>3, ElementsOf
    <3>5. K \in Nat /\ K = Len(toClient) + 1
      BY <1>7
    <3> HIDE DEF K, G
    <3>6. \A i \in 1..K : toClient'[i].t \in {"snap", "res"}
      <4>1. \A i \in 1..Len(toClient) : toClient[i].t = "snap"
        BY <1>3, <1>5, <1>7 DEF Frames
      <4>2. Replayed.t = "res"
        BY Kinds
      <4>3. ASSUME NEW i \in 1..K PROVE toClient'[i].t \in {"snap", "res"}
        <5>1. i \in 1..Len(toClient) \/ i = K
          BY <1>7, <3>5
        <5>2. QED
          BY <3>2, <3>3, <4>1, <4>2, <5>1
      <4>4. QED
        BY <4>3
    <3>7. ASSUME NEW i \in DOMAIN toClient', i \notin 1..K
          PROVE  /\ i - K \in 1..G /\ toClient'[i] = Evt(order[i - K])
                 /\ toClient'[i].t = "evt" /\ toClient'[i].seq = order[i - K]
      <4>1. i - K \in 1..G /\ i = K + (i - K)
        BY <3>1, <3>4, <3>5, <3>7
      <4>2. toClient'[i] = Evt(order[i - K])
        BY <3>1, <3>3, <4>1
      <4>3. QED
        BY <4>1, <4>2, Kinds
    <3>8. \A i \in DOMAIN toClient' : toClient'[i].t \in {"snap", "res", "evt"}
      BY <3>6, <3>7
    <3>9. \A i \in Frames(toClient', "evt") : i - K \in 1..G /\ toClient'[i].seq = order[i - K] /\ i \in Nat
      BY <3>4, <3>5, <3>6, <3>7 DEF Frames
    <3>10. Frames(toClient', "ready") = {} /\ \A i \in DOMAIN toClient' : toClient'[i].t # "delta"
      BY <3>8 DEF Frames
    <3>11. ASSUME NEW i \in Frames(toClient', "evt"), NEW u \in Threads PROVE last[u] < toClient'[i].seq
      <4>1. order[i - K] > f.since /\ order[i - K] \in 1..Len(log)
        BY <3>1, <3>9 DEF Gap
      <4>2. QED
        BY <1>6, <1>7, <3>9, <4>1
    <3>12. ASSUME NEW i \in Frames(toClient', "evt"), NEW j \in Frames(toClient', "evt"), i < j
           PROVE  toClient'[i].seq < toClient'[j].seq
      <4>1. i - K \in DOMAIN order /\ j - K \in DOMAIN order /\ i - K < j - K
        BY <3>1, <3>5, <3>9, <3>12
      <4>2. order[i - K] < order[j - K]
        BY <2>2, <4>1 DEF Ascending
      <4>3. QED
        BY <3>9, <4>2
    <3>13. QED
      BY <3>3, <3>4, <3>10, <3>11, <3>12
  <2>3. QED
    BY <2>1, <2>2 DEF OnResume
<1>9. NothingBeforeResume'
  BY <1>2, <1>3, <1>8 DEF NothingBeforeResume, Unsynced
<1>10. CursorCovers'
  BY <1>1, <1>2, <1>3, <1>8 DEF CursorCovers, client
<1>11. ChannelAscends'
  BY <1>2, <1>8 DEF ChannelAscends, client
<1>12. Stamped'
  BY <1>1, <1>2 DEF Stamped
<1>13. NoLateText'
  <2>1. \A i \in DOMAIN toClient' : \A j \in i..Len(toClient') : j \in DOMAIN toClient'
    BY <1>8
  <2>2. DOMAIN pending' = {}
    BY <1>2, <1>5
  <2>3. QED
    BY <1>8, <2>1, <2>2 DEF NoLateText
<1>14. QED
  BY <1>1, <1>9, <1>10, <1>11, <1>12, <1>13 DEF OrderInv

(* Serving a frame keeps the order. *)
LEMMA ServeOrder == ASSUME OrderInv, Serve PROVE OrderInv'
<1>1. TypeOK /\ TypeOK' /\ NothingBeforeResume /\ CursorCovers /\ ChannelAscends /\ Stamped /\ NoLateText
  BY ServeType DEF OrderInv
<1>2. CASE OnSub
  <2>1. Received("sub") /\ UNCHANGED <<log, chunks, pending, client, up, toClient>>
    BY <1>2 DEF OnSub
  <2>2. up /\ Frames(toClient, "ready") = {} /\ Frames(toServer', "resume") = {}
    BY <2>1, ServeFacts
  <2>3. Frames(toClient', "ready") = {} /\ up'
    BY <2>1, <2>2
  <2>4. NothingBeforeResume'
    BY <2>2, <2>3 DEF NothingBeforeResume, Unsynced
  <2>5. CursorCovers'
    BY <1>1, <2>1, <2>2, <2>3 DEF CursorCovers, client
  <2>6. ChannelAscends' /\ Stamped' /\ NoLateText'
    BY <2>1, SameChannel DEF client
  <2>7. QED
    BY <1>1, <2>4, <2>5, <2>6 DEF OrderInv
<1>3. CASE OnGetThread
  <2> DEFINE x == Snapshot(Head(toServer).thread, head)
  <2>1. /\ Received("get") /\ toClient' = Append(toClient, x)
        /\ UNCHANGED <<log, chunks, pending, subscribed, client, up>>
    BY <1>3 DEF OnGetThread, server
  <2>2. /\ up
        /\ \A i \in DOMAIN toServer' : i \in 1..(Len(toServer) - 1) /\ i + 1 \in DOMAIN toServer /\ toServer'[i] = toServer[i + 1]
        /\ \A i \in Frames(toServer', "resume") : i + 1 \in Frames(toServer, "resume") /\ toServer'[i] = toServer[i + 1]
    BY <2>1, ServeFacts
  <2>3. /\ toClient \in Seq(ServerFrame) /\ Len(toClient) \in Nat /\ DOMAIN toClient = 1..Len(toClient)
        /\ Len(toServer) \in Nat /\ DOMAIN toServer = 1..Len(toServer)
    BY <1>1, ChannelTypes
  <2>4. x \in ServerFrame /\ x.t = "snap"
    <3>1. Head(toServer) \in ClientFrame /\ Head(toServer).t = "get"
      BY <1>1, <2>1, ReceivedFacts
    <3>2. Len(log) \in Nat
      BY <1>1, ChannelTypes
    <3>3. QED
      BY <3>1, <3>2, FrameFields, ServerFrames, Kinds DEF head
  <2> HIDE DEF x
  <2>5. /\ DOMAIN toClient' = 1..(Len(toClient) + 1) /\ Len(toClient') = Len(toClient) + 1
        /\ \A i \in 1..Len(toClient) : toClient'[i] = toClient[i]
        /\ toClient'[Len(toClient) + 1].t = "snap"
    BY <2>1, <2>3, <2>4, AppendFacts, ElementsOf
  <2>6. ASSUME NEW i \in DOMAIN toClient'
        PROVE  (i \in DOMAIN toClient /\ toClient'[i] = toClient[i]) \/ toClient'[i].t = "snap"
    <3>1. i \in 1..Len(toClient) \/ i = Len(toClient) + 1
      BY <2>3, <2>5
    <3>2. QED
      BY <2>3, <2>5, <3>1
  <2>7. /\ \A i \in Frames(toClient', "ready") : i \in Frames(toClient, "ready") /\ toClient'[i] = toClient[i]
        /\ \A i \in Frames(toClient', "evt") : i \in Frames(toClient, "evt") /\ toClient'[i] = toClient[i]
    BY <2>6 DEF Frames
  <2>8. Unsynced' => Unsynced
    BY <2>2, <2>7 DEF Unsynced
  <2>9. NothingBeforeResume'
    <3>1. /\ Unsynced => subscribed = {} /\ pending = <<>>
          /\ Unsynced => \A i \in DOMAIN toClient : toClient[i].t \in {"ready", "snap"}
          /\ Frames(toClient, "ready") # {} => \A i \in DOMAIN toServer : toServer[i].t = "get"
          /\ \A i \in Frames(toServer, "resume") : \A j \in 1..(i - 1) : toServer[j].t = "get"
          /\ \A i \in Frames(toClient, "ready") : i = 1
      BY <1>1 DEF NothingBeforeResume
    <3>2. Unsynced => \A i \in DOMAIN toClient' : toClient'[i].t \in {"ready", "snap"}
      BY <2>6, <3>1
    <3>3. Frames(toClient', "ready") # {} => \A i \in DOMAIN toServer' : toServer'[i].t = "get"
      BY <2>2, <2>7, <3>1
    <3>4. ASSUME NEW i \in Frames(toServer', "resume"), NEW j \in 1..(i - 1) PROVE toServer'[j].t = "get"
      <4>1. i \in 1..(Len(toServer) - 1) /\ i + 1 \in Frames(toServer, "resume")
        BY <2>2 DEF Frames
      <4>2. j \in 1..(Len(toServer) - 1) /\ j + 1 \in 1..(i + 1 - 1)
        BY <2>3, <4>1
      <4>3. toServer'[j] = toServer[j + 1]
        <5>1. DOMAIN toServer' = 1..(Len(toServer) - 1)
          BY <1>1, <2>1, <2>3, ReceivedFacts, ElementsOf
        <5>2. QED
          BY <2>2, <4>2, <5>1
      <4>4. QED
        BY <3>1, <4>1, <4>2, <4>3
    <3>5. up' /\ subscribed' = subscribed /\ pending' = pending
      BY <2>1, <2>2
    <3>6. \A i \in Frames(toClient', "ready") : i = 1
      BY <2>7, <3>1
    <3>7. \A i \in Frames(toServer', "resume") : \A j \in 1..(i - 1) : toServer'[j].t = "get"
      BY <3>4
    <3> HIDE <3>4
    <3>8. QED
      BY <2>8, <3>1, <3>2, <3>3, <3>5, <3>6, <3>7 DEF NothingBeforeResume
  <2>10. CursorCovers'
    BY <1>1, <2>1, <2>2, <2>7 DEF CursorCovers, client
  <2>11. ChannelAscends'
    BY <1>1, <2>1, <2>7 DEF ChannelAscends, client
  <2>12. Stamped'
    BY <1>1, <2>1 DEF Stamped
  <2>13. NoLateText'
    <3>1. ASSUME NEW i \in DOMAIN toClient', toClient'[i].t = "evt",
                 NEW j \in i..Len(toClient'), toClient'[j].t = "delta",
                 toClient'[j].thread = log[toClient'[i].seq].thread
          PROVE  toClient'[j].upto > log[toClient'[i].seq].text
      <4>1. i \in DOMAIN toClient /\ toClient'[i] = toClient[i]
        BY <2>7, <3>1 DEF Frames
      <4>2. j \in DOMAIN toClient'
        BY <2>3, <2>5, <4>1
      <4>3. j \in DOMAIN toClient /\ toClient'[j] = toClient[j]
        BY <2>6, <3>1, <4>2
      <4>4. j \in i..Len(toClient)
        BY <2>3, <4>1, <4>3
      <4>5. QED
        BY <1>1, <3>1, <4>1, <4>3, <4>4 DEF NoLateText
    <3>2. ASSUME NEW i \in DOMAIN toClient', toClient'[i].t = "evt",
                 NEW j \in DOMAIN pending, pending[j].thread = log[toClient'[i].seq].thread
          PROVE  pending[j].upto > log[toClient'[i].seq].text
      <4>1. i \in DOMAIN toClient /\ toClient'[i] = toClient[i]
        BY <2>7, <3>2 DEF Frames
      <4>2. QED
        BY <1>1, <3>2, <4>1 DEF NoLateText
    <3>3. QED
      BY <2>1, <3>1, <3>2 DEF NoLateText
  <2>14. QED
    BY <1>1, <2>9, <2>10, <2>11, <2>12, <2>13 DEF OrderInv
<1>4. QED
  BY <1>2, <1>3, ResumeOrder DEF Serve

(* The first state is in order: nothing is on its way, and nothing was       *)
(* handed to App.                                                            *)
LEMMA OrderInit == Init => OrderInv
<1> SUFFICES ASSUME Init PROVE OrderInv
  OBVIOUS
<1>1. TypeOK
  BY TypeInit
<1>2. /\ toClient = <<>> /\ toServer = <<>> /\ pending = <<>> /\ subscribed = {} /\ resuming = FALSE
      /\ seq = 0 /\ chunks = [u \in Threads |-> 0]
  BY DEF Init
<1>3. \A t : Frames(toClient, t) = {} /\ Frames(toServer, t) = {}
  BY <1>2 DEF Frames
<1>4. NothingBeforeResume /\ CursorCovers /\ ChannelAscends
  BY <1>2, <1>3 DEF NothingBeforeResume, Unsynced, CursorCovers, ChannelAscends
<1>5. NoLateText
  BY <1>2 DEF NoLateText
<1>6. Stamped
  <2>1. PICK order \in SetToSeqs(Threads) :
          log = [i \in DOMAIN order |-> [thread |-> order[i], text |-> 0]]
    BY DEF Init
  <2>2. order \in [1..Cardinality(Threads) -> Threads]
    BY DEF SetToSeqs
  <2>3. \A n \in DOMAIN log : log[n].thread \in Threads /\ log[n].text = 0
    BY <2>1, <2>2
  <2>4. \A n \in DOMAIN log : chunks[log[n].thread] = 0
    BY <1>2, <2>3
  <2>5. DOMAIN pending = {}
    BY <1>2
  <2>6. QED
    BY <2>3, <2>4, <2>5 DEF Stamped
<1>7. QED
  BY <1>1, <1>4, <1>5, <1>6 DEF OrderInv

(* Every step keeps the order. *)
LEMMA OrderStep ==
  ASSUME Env \notin Sources, "effect" \notin Overlaps
  PROVE  OrderInv /\ [Next]_vars => OrderInv'
<1> SUFFICES ASSUME OrderInv, [Next]_vars PROVE OrderInv'
  OBVIOUS
<1>1. CASE UNCHANGED vars
  <2>1. UNCHANGED <<log, chunks, subscribed, pending, seq, threads, resuming, effect, active, view, loaded,
                    last, up, toClient, toServer>>
    BY <1>1 DEF vars, server, client
  <2>2. TypeOK'
    BY <1>1, TypeStep DEF OrderInv
  <2>3. ChannelAscends' /\ Stamped' /\ NoLateText'
    BY <2>1, SameChannel
  <2>4. NothingBeforeResume'
    BY <2>1 DEF OrderInv, NothingBeforeResume, Unsynced, Frames
  <2>5. CursorCovers'
    BY <2>1 DEF OrderInv, CursorCovers, Frames
  <2>6. QED
    BY <2>2, <2>3, <2>4, <2>5 DEF OrderInv
<1>2. ASSUME NEW u \in Threads \cup {Env}, Commit(u) PROVE OrderInv'
  BY <1>2, CommitOrder DEF Commit
<1>3. CASE Next
  BY <1>2, <1>3, StreamOrder, TickOrder, ServeOrder, HandleOrder, SocketOrder, ClientOrder DEF Next
<1>4. QED
  BY <1>1, <1>3

(* In order, the next event handed to App is a new one of its thread. *)
LEMMA OrderImplies == OrderInv => InOrderOnce
<1> SUFFICES ASSUME OrderInv, toClient # <<>>, Head(toClient).t = "evt"
             PROVE  Head(toClient).seq > last[log[Head(toClient).seq].thread]
  BY DEF InOrderOnce
<1>1. TypeOK /\ ChannelAscends /\ Stamped
  BY DEF OrderInv
<1>2. toClient \in Seq(ServerFrame) /\ DOMAIN toClient = 1..Len(toClient) /\ Len(toClient) \in Nat
  BY <1>1, ChannelTypes
<1>3. Head(toClient) = toClient[1] /\ Len(toClient) >= 1
  BY <1>2, TailFacts
<1>4. 1 \in Frames(toClient, "evt")
  BY <1>2, <1>3 DEF Frames
<1>5. toClient[1].seq \in 1..Len(log) /\ DOMAIN log = 1..Len(log) /\ Len(log) \in Nat
  BY <1>1, <1>4, ChannelTypes
<1>6. log[toClient[1].seq].thread \in Threads
  BY <1>1, <1>5 DEF Stamped
<1>7. last[log[toClient[1].seq].thread] < toClient[1].seq /\ last[log[toClient[1].seq].thread] \in Nat
  BY <1>1, <1>4, <1>6, ChannelTypes DEF ChannelAscends
<1>8. QED
  BY <1>3, <1>5, <1>7

(* The channels stay in order, if the subscription effect waits for the      *)
(* greeting and every event has a thread.                                    *)
THEOREM FeedOrder ==
  ASSUME Env \notin Sources, "effect" \notin Overlaps
  PROVE  Spec => []OrderInv
<1>1. Init => OrderInv
  BY OrderInit
<1>2. OrderInv /\ [Next]_vars => OrderInv'
  BY OrderStep
<1>3. QED
  BY <1>1, <1>2, PTL DEF Spec

(* Then App is handed each event of a thread in the order of the log and at  *)
(* most once, across any number of drops, replays and snapshots.             *)
THEOREM FeedInOrderOnce ==
  ASSUME Env \notin Sources, "effect" \notin Overlaps
  PROVE  Spec => []InOrderOnce
<1>1. Spec => []OrderInv
  BY FeedOrder
<1>2. OrderInv => InOrderOnce
  BY OrderImplies
<1>3. QED
  BY <1>1, <1>2, PTL

-----------------------------------------------------------------------------
(* A loaded transcript is current: what makes Current inductive.  The run    *)
(* leaves out both overlaps, so a thread can be opened only once the socket  *)
(* is subscribed to every known thread; and no session.resume is too old for *)
(* the replay window.                                                        *)

WithinWindow == \A i \in Frames(toServer, "resume") : ~TooOld(toServer[i].since)

Syncs == {i \in DOMAIN toServer : toServer[i].t \in {"sub", "resume"}}

(* The client follows the known threads, and so will the daemon.             *)
Following ==
  /\ Known # {} /\ threads = Known /\ seq # 0
  /\ \A i \in Syncs : toServer[i].threads = Known

Sessions ==
  /\ threads \in {{}, Known}
  /\ \A i \in Syncs : toServer[i].threads # {} =>
       /\ toServer[i].threads = Known /\ threads = Known
       /\ \A j \in Syncs : j > i => toServer[j].threads = Known
  /\ subscribed # {} => subscribed = Known /\ Following

(* A greeting never reads like a first connection once there are threads.    *)
Started ==
  Known # {} =>
    /\ Len(log) # 0
    /\ \A i \in Frames(toClient, "ready") : toClient[i].seq # 0
    /\ up /\ Frames(toClient, "ready") = {} => seq # 0

(* The cursor is what the next replay starts from.                           *)
Behind == ~up \/ Unsynced

Opened ==
  /\ active # NoThread => active \in Known /\ Following /\ (Behind \/ subscribed = Known)
  /\ active = NoThread => ~loaded

Asked ==
  /\ \A i \in Frames(toServer, "get") : active # NoThread /\ toServer[i].thread \in Known
  /\ \A i \in Frames(toClient, "snap") : active # NoThread /\ toClient[i].thread \in Known

Replays == \A i \in Frames(toClient, "res") : toClient[i].mode = "replay"

Cursor ==
  /\ \A i \in Frames(toClient, "evt") : seq < toClient[i].seq
  /\ \A i \in Frames(toServer, "resume") : toServer[i].since = seq

(* The event reaches App yet: it is in the channel or in the next replay.    *)
Coming(n) == (Behind /\ seq < n) \/ \E i \in Frames(toClient, "evt") : toClient[i].seq = n

(* A snapshot holds what was pushed in front of it, and what it does not     *)
(* hold is coming.                                                           *)
Snaps ==
  \A i \in Frames(toClient, "snap") :
    /\ \A j \in Frames(toClient, "evt") : j < i => toClient[j].seq <= toClient[i].seq
    /\ \A n \in EventsOf(toClient[i].thread, Len(log)) : n > toClient[i].seq => Coming(n)

Shows ==
  /\ view \subseteq EventsOf(active, Len(log))
  /\ loaded => \A n \in EventsOf(active, Len(log)) : n \in view \/ Coming(n)

LinkInv == OrderInv /\ Sessions /\ Started /\ Opened /\ Asked
ShownInv == Replays /\ Cursor /\ Snaps /\ Shows
CurrentInv == LinkInv /\ ShownInv

(* Then whatever is quiet is current.                                        *)
LEMMA CurrentImplies == CurrentInv => Current
<1> SUFFICES ASSUME CurrentInv, Quiet, loaded PROVE view = EventsOf(active, Len(log))
  BY DEF Current
<1>1. Frames(toClient, "evt") = {} /\ ~Behind
  BY DEF Quiet, Frames, Behind, Unsynced
<1>2. \A n \in EventsOf(active, Len(log)) : n \in view
  BY <1>1 DEF CurrentInv, ShownInv, Shows, Coming
<1>3. QED
  BY <1>2 DEF CurrentInv, ShownInv, Shows

(* It holds at first: nothing is open, and nothing on its way.               *)
LEMMA CurrentInit == Init => CurrentInv
<1> SUFFICES ASSUME Init PROVE CurrentInv
  OBVIOUS
<1>1. /\ toClient = <<>> /\ toServer = <<>> /\ subscribed = {} /\ up = FALSE /\ seq = 0 /\ threads = {}
      /\ active = NoThread /\ view = {} /\ loaded = FALSE
  BY DEF Init
<1>2. \A t : Frames(toClient, t) = {} /\ Frames(toServer, t) = {}
  BY <1>1 DEF Frames
<1>3. Syncs = {}
  BY <1>1 DEF Syncs
<1>4. Known # {} => Len(log) # 0
  <2>1. PICK order \in SetToSeqs(Threads) :
          log = [i \in DOMAIN order |-> [thread |-> order[i], text |-> 0]]
    BY DEF Init
  <2>2. IsFiniteSet(Threads)
    BY ThreadsAssumption
  <2>3. Cardinality(Threads) \in Nat /\ (Known # {} => Cardinality(Threads) # 0)
    BY <2>2, ThreadsAssumption, FS_CardinalityType, FS_EmptySet
  <2>4. order \in [1..Cardinality(Threads) -> Threads]
    BY <2>1 DEF SetToSeqs
  <2>5. DOMAIN log = 1..Cardinality(Threads)
    BY <2>1, <2>4
  <2>6. Len(log) \in Nat /\ DOMAIN log = 1..Len(log)
    BY OrderInit, ChannelTypes DEF OrderInv
  <2>7. Len(log) = 0 => Cardinality(Threads) = 0
    BY <2>3, <2>5, <2>6
  <2>8. QED
    BY <2>3, <2>7
<1>5. Sessions /\ Started /\ Opened /\ Asked
  BY <1>1, <1>2, <1>3, <1>4 DEF Sessions, Started, Opened, Asked
<1>6. Replays /\ Cursor /\ Snaps /\ Shows
  BY <1>1, <1>2 DEF Replays, Cursor, Snaps, Shows
<1>7. QED
  BY <1>5, <1>6, OrderInit DEF CurrentInv, LinkInv, ShownInv

(* The types of the frames it speaks of.                                     *)
LEMMA MoreTypes ==
  ASSUME TypeOK
  PROVE  /\ \A i \in Frames(toClient, "snap") :
              i \in 1..Len(toClient) /\ toClient[i].thread \in Threads /\ toClient[i].seq \in 0..Len(log)
         /\ \A i \in DOMAIN toServer : toServer[i] \in ClientFrame
         /\ active \in Threads \cup {NoThread} /\ NoThread \notin Threads /\ Known \subseteq Threads
         /\ \A v : EventsOf(v, Len(log)) \subseteq 1..Len(log)
<1>1. /\ toClient \in Seq(ServerFrame) /\ DOMAIN toClient = 1..Len(toClient)
      /\ toServer \in Seq(ClientFrame) /\ DOMAIN toServer = 1..Len(toServer)
  BY ChannelTypes
<1>2. /\ \A i \in 1..Len(toClient) : toClient[i] \in ServerFrame
      /\ \A i \in 1..Len(toServer) : toServer[i] \in ClientFrame
  BY <1>1, ElementsOf
<1>3. \A i \in Frames(toClient, "snap") :
        i \in 1..Len(toClient) /\ toClient[i].thread \in Threads /\ toClient[i].seq \in 0..Len(log)
  BY <1>1, <1>2, FrameFields DEF Frames
<1>4. active \in Threads \cup {NoThread} /\ NoThread \notin Threads /\ Known \subseteq Threads
  BY ThreadsAssumption DEF TypeOK
<1>5. \A v : EventsOf(v, Len(log)) \subseteq 1..Len(log)
  BY DEF EventsOf
<1>6. QED
  BY <1>1, <1>2, <1>3, <1>4, <1>5

(* Requests for a thread change nothing about who follows what, and neither  *)
(* does serving the first frame.                                             *)
LEMMA SyncsKept ==
  ASSUME Sessions, TypeOK', threads' = threads, seq # 0 => seq' # 0, NEW d \in {0, 1},
         \A i \in DOMAIN toServer' :
           (i + d \in DOMAIN toServer /\ toServer'[i] = toServer[i + d]) \/ toServer'[i].t = "get"
  PROVE  /\ Following => Following'
         /\ (subscribed' # {} => subscribed' = Known /\ Following) => Sessions'
<1>1. DOMAIN toServer' \subseteq Nat
  <2>1. DOMAIN toServer' = 1..Len(toServer')
    BY DEF TypeOK
  <2>2. QED
    BY <2>1
<1>2. \A i \in Syncs' : i \in Nat /\ i + d \in Syncs /\ toServer'[i] = toServer[i + d]
  BY <1>1 DEF Syncs
<1>3. Following => Following'
  BY <1>2 DEF Following
<1>4. \A i \in Syncs' : toServer'[i].threads # {} =>
        /\ toServer'[i].threads = Known /\ threads' = Known
        /\ \A j \in Syncs' : j > i => toServer'[j].threads = Known
  <2>1. \A i, j \in Syncs' : j > i => j + d > i + d
    BY <1>2
  <2>2. QED
    BY <1>2, <2>1 DEF Sessions
<1>5. QED
  BY <1>3, <1>4 DEF Sessions

(* A request for a known thread joins the others, which keep their place or  *)
(* move up by one.                                                           *)
LEMMA GetsKept ==
  ASSUME Asked, Cursor, active # NoThread => active' # NoThread, NEW d \in {0, 1},
         \A i \in DOMAIN toServer' :
           \/ i + d \in DOMAIN toServer /\ toServer'[i] = toServer[i + d]
           \/ toServer'[i].t = "get" /\ toServer'[i].thread \in Known /\ active' # NoThread
  PROVE  /\ \A i \in Frames(toServer', "get") : active' # NoThread /\ toServer'[i].thread \in Known
         /\ \A i \in Frames(toServer', "resume") :
              i + d \in Frames(toServer, "resume") /\ toServer'[i].since = seq
BY DEF Asked, Cursor, Frames

(* Fetching the open thread asks for a known one.                            *)
LEMMA RefetchKnown ==
  ASSUME TypeOK, Opened
  PROVE  /\ \A i \in DOMAIN Refetch :
              \/ i + 0 \in DOMAIN toServer /\ Refetch[i] = toServer[i + 0]
              \/ Refetch[i].t = "get" /\ Refetch[i].thread \in Known /\ active # NoThread
         /\ \A i \in DOMAIN toServer : i \in DOMAIN Refetch /\ Refetch[i] = toServer[i]
<1>1. toServer \in Seq(ClientFrame) /\ Len(toServer) \in Nat /\ DOMAIN toServer = 1..Len(toServer)
  BY ChannelTypes
<1>2. CASE active = NoThread
  BY <1>1, <1>2 DEF Refetch
<1>3. CASE active # NoThread
  <2>1. GetThread(active) \in ClientFrame /\ GetThread(active).t = "get" /\ GetThread(active).thread = active
    BY <1>3, ClientFrames, ChannelTypes, MoreTypes DEF GetThread
  <2>2. Refetch = Append(toServer, GetThread(active)) /\ active \in Known
    BY <1>3 DEF Refetch, Opened
  <2>3. /\ DOMAIN Refetch = 1..(Len(toServer) + 1)
        /\ \A i \in 1..Len(toServer) : Refetch[i] = toServer[i]
        /\ Refetch[Len(toServer) + 1] = GetThread(active)
    BY <1>1, <2>1, <2>2, AppendFacts, ElementsOf
  <2>4. \A i \in 1..(Len(toServer) + 1) : (i \in 1..Len(toServer) /\ i + 0 = i) \/ i = Len(toServer) + 1
    BY <1>1
  <2>5. QED
    BY <1>1, <1>3, <2>1, <2>2, <2>3, <2>4
<1>4. QED
  BY <1>2, <1>3

(* Taking a frame that is no event and no greeting loses nothing that is     *)
(* coming.                                                                   *)
LEMMA TakenKept ==
  ASSUME CurrentInv, NEW t, t \notin {"ready", "evt"}, Delivered(t),
         UNCHANGED <<log, chunks, pending, seq, up, active>>,
         Frames(toServer, "resume") # {} => Frames(toServer', "resume") # {}
  PROVE  /\ \A n : Coming(n) => Coming(n)'
         /\ Behind => Behind'
         /\ Started' /\ Replays' /\ Snaps'
         /\ \A i \in Frames(toClient', "snap") : active' # NoThread /\ toClient'[i].thread \in Known
         /\ \A i \in Frames(toClient', "evt") : seq' < toClient'[i].seq
<1>1. TypeOK /\ NothingBeforeResume /\ Started /\ Asked /\ Replays /\ Cursor /\ Snaps
  BY DEF CurrentInv, LinkInv, ShownInv, OrderInv
<1>2. OrderInv
  BY DEF CurrentInv, LinkInv
<1>3. /\ Frames(toClient', "ready") = {} /\ up
      /\ \A i \in DOMAIN toClient' : i \in Nat /\ i + 1 \in DOMAIN toClient /\ toClient'[i] = toClient[i + 1]
  BY <1>2, TakeFacts
<1>4. \A k : \A i \in Frames(toClient', k) : i \in Nat /\ i + 1 \in Frames(toClient, k) /\ toClient'[i] = toClient[i + 1]
  BY <1>3 DEF Frames
<1>5. Frames(toClient, "ready") = {}
  <2>1. toClient[1].t = t
    BY <1>1, HeadFacts
  <2>2. QED
    BY <1>1, <2>1 DEF NothingBeforeResume, Frames
<1>6. Behind => Behind'
  BY <1>3, <1>5 DEF Behind, Unsynced
<1>7. ASSUME NEW n, Coming(n) PROVE Coming(n)'
  <2>1. CASE Behind /\ seq < n
    BY <1>6, <2>1 DEF Coming
  <2>2. ASSUME NEW i \in Frames(toClient, "evt"), toClient[i].seq = n PROVE Coming(n)'
    <3>1. i # 1
      BY <1>1, <2>2, HeadFacts DEF Frames
    <3>2. /\ DOMAIN toClient = 1..Len(toClient) /\ DOMAIN toClient' = 1..(Len(toClient) - 1)
          /\ Len(toClient) \in Nat
      BY <1>1, DeliveredFacts, ElementsOf
    <3>3. i - 1 \in DOMAIN toClient' /\ (i - 1) + 1 = i
      BY <2>2, <3>1, <3>2 DEF Frames
    <3>4. toClient'[i - 1] = toClient[i]
      BY <1>3, <3>3
    <3>5. i - 1 \in Frames(toClient', "evt") /\ toClient'[i - 1].seq = n
      BY <2>2, <3>3, <3>4 DEF Frames
    <3>6. QED
      BY <3>5 DEF Coming
  <2>3. QED
    BY <1>7, <2>1, <2>2 DEF Coming
<1>8. Started'
  BY <1>1, <1>3, <1>5 DEF Started
<1>9. Replays'
  BY <1>1, <1>4 DEF Replays
<1>10. Snaps'
  <2>1. ASSUME NEW i \in Frames(toClient', "snap")
        PROVE  /\ \A j \in Frames(toClient', "evt") : j < i => toClient'[j].seq <= toClient'[i].seq
               /\ \A n \in EventsOf(toClient'[i].thread, Len(log)) : n > toClient'[i].seq => Coming(n)'
    <3>1. i + 1 \in Frames(toClient, "snap") /\ toClient'[i] = toClient[i + 1] /\ i \in Nat
      BY <1>4
    <3>2. \A j \in Frames(toClient', "evt") :
            j < i => j + 1 \in Frames(toClient, "evt") /\ j + 1 < i + 1 /\ toClient'[j] = toClient[j + 1]
      BY <1>4, <3>1
    <3>3. QED
      BY <1>1, <1>7, <3>1, <3>2 DEF Snaps
  <2>2. QED
    BY <2>1 DEF Snaps, EventsOf
<1>11. \A i \in Frames(toClient', "snap") : active' # NoThread /\ toClient'[i].thread \in Known
  BY <1>1, <1>4 DEF Asked
<1>12. \A i \in Frames(toClient', "evt") : seq' < toClient'[i].seq
  BY <1>1, <1>4 DEF Cursor
<1>13. QED
  BY <1>6, <1>7, <1>8, <1>9, <1>10, <1>11, <1>12

(* Text carries no event.                                                    *)
LEMMA DeltaCurrent == ASSUME CurrentInv, OrderInv', OnDelta PROVE CurrentInv'
<1>1. TypeOK /\ TypeOK' /\ OrderInv /\ Sessions /\ Opened /\ Asked /\ Cursor /\ Shows
  BY DEF CurrentInv, LinkInv, ShownInv, OrderInv
<1>2. /\ Delivered("delta")
      /\ UNCHANGED <<log, chunks, subscribed, pending, seq, threads, resuming, effect, active, view, loaded,
                     last, up, toServer>>
  BY DEF OnDelta, server, client
<1>3. /\ \A n : Coming(n) => Coming(n)'
      /\ Behind => Behind'
      /\ Started' /\ Replays' /\ Snaps'
      /\ \A i \in Frames(toClient', "snap") : active' # NoThread /\ toClient'[i].thread \in Known
      /\ \A i \in Frames(toClient', "evt") : seq' < toClient'[i].seq
  BY <1>2, TakenKept
<1>4. Sessions' /\ Opened'
  BY <1>1, <1>2, <1>3 DEF Sessions, Following, Syncs, Opened
<1>5. Asked' /\ Cursor'
  BY <1>1, <1>2, <1>3 DEF Asked, Cursor
<1>6. Shows'
  BY <1>1, <1>2, <1>3 DEF Shows, EventsOf
<1>7. QED
  BY <1>3, <1>4, <1>5, <1>6 DEF CurrentInv, LinkInv, ShownInv

(* The answer to a resume is a replay, so that the cursor stays.             *)
LEMMA ResumedCurrent == ASSUME CurrentInv, OrderInv', OnResumed PROVE CurrentInv'
<1>1. TypeOK /\ TypeOK' /\ OrderInv /\ Sessions /\ Opened /\ Asked /\ Replays /\ Cursor /\ Shows
  BY DEF CurrentInv, LinkInv, ShownInv, OrderInv
<1>2. /\ Delivered("res")
      /\ UNCHANGED <<log, chunks, subscribed, pending, threads, effect, active, view, loaded, last, up>>
  BY DEF OnResumed, server
<1>3. UNCHANGED <<seq, toServer>>
  <2>1. Head(toClient) = toClient[1] /\ 1 \in Frames(toClient, "res")
    BY <1>1, <1>2, HeadFacts
  <2>2. QED
    BY <1>1, <2>1 DEF OnResumed, Replays
<1>4. /\ \A n : Coming(n) => Coming(n)'
      /\ Behind => Behind'
      /\ Started' /\ Replays' /\ Snaps'
      /\ \A i \in Frames(toClient', "snap") : active' # NoThread /\ toClient'[i].thread \in Known
      /\ \A i \in Frames(toClient', "evt") : seq' < toClient'[i].seq
  BY <1>2, <1>3, TakenKept
<1>5. Sessions' /\ Opened'
  BY <1>1, <1>2, <1>3, <1>4 DEF Sessions, Following, Syncs, Opened
<1>6. Asked' /\ Cursor'
  BY <1>1, <1>2, <1>3, <1>4 DEF Asked, Cursor
<1>7. Shows'
  BY <1>1, <1>2, <1>4 DEF Shows, EventsOf
<1>8. QED
  BY <1>4, <1>5, <1>6, <1>7 DEF CurrentInv, LinkInv, ShownInv

(* A snapshot of the open thread shows all that is not coming.               *)
LEMMA SnapshotCurrent == ASSUME CurrentInv, OrderInv', OnSnapshot PROVE CurrentInv'
<1> DEFINE f == toClient[1]
<1>1. /\ TypeOK /\ TypeOK' /\ OrderInv /\ Sessions /\ Opened /\ Asked /\ Cursor /\ Shows /\ Snaps
  BY DEF CurrentInv, LinkInv, ShownInv, OrderInv
<1>2. /\ Delivered("snap")
      /\ UNCHANGED <<log, chunks, subscribed, pending, seq, threads, resuming, effect, active, last, up,
                     toServer>>
  BY DEF OnSnapshot, server
<1>3. Head(toClient) = f /\ 1 \in Frames(toClient, "snap")
  BY <1>1, <1>2, HeadFacts
<1>4. /\ \A n : Coming(n) => Coming(n)'
      /\ Behind => Behind'
      /\ Started' /\ Replays' /\ Snaps'
      /\ \A i \in Frames(toClient', "snap") : active' # NoThread /\ toClient'[i].thread \in Known
      /\ \A i \in Frames(toClient', "evt") : seq' < toClient'[i].seq
  BY <1>2, TakenKept
<1>5. Sessions'
  BY <1>1, <1>2, <1>4 DEF Sessions, Following, Syncs
<1>6. Opened'
  <2>1. active # NoThread
    BY <1>1, <1>3 DEF Asked
  <2>2. QED
    BY <1>1, <1>2, <1>4, <2>1 DEF Opened, Following, Syncs
<1>7. Asked' /\ Cursor'
  BY <1>1, <1>2, <1>4 DEF Asked, Cursor
<1>8. Shows'
  <2>1. CASE f.thread = active
    <3>1. view' = EventsOf(active, f.seq) /\ f.seq \in 0..Len(log) /\ Len(log) \in Nat
      BY <1>1, <1>3, <2>1, MoreTypes, ChannelTypes DEF OnSnapshot
    <3>2. view' \subseteq EventsOf(active, Len(log))
      BY <3>1 DEF EventsOf
    <3>3. ASSUME NEW n \in EventsOf(active, Len(log)) PROVE n \in view' \/ Coming(n)'
      <4>1. n \in 1..Len(log) /\ log[n].thread = active
        BY DEF EventsOf
      <4>2. CASE n <= f.seq
        BY <3>1, <4>1, <4>2 DEF EventsOf
      <4>3. CASE n > f.seq
        <5>1. Coming(n)
          BY <1>1, <1>3, <2>1, <4>3 DEF Snaps
        <5>2. QED
          BY <1>4, <5>1
      <4>4. QED
        BY <3>1, <4>1, <4>2, <4>3
    <3>4. QED
      BY <1>2, <3>2, <3>3 DEF Shows, EventsOf
  <2>2. CASE f.thread # active
    <3>1. UNCHANGED <<view, loaded>>
      BY <1>3, <2>2 DEF OnSnapshot
    <3>2. QED
      BY <1>1, <1>2, <1>4, <3>1 DEF Shows, EventsOf
  <2>3. QED
    BY <2>1, <2>2
<1>9. QED
  BY <1>4, <1>5, <1>6, <1>7, <1>8 DEF CurrentInv, LinkInv, ShownInv

(* An event moves the cursor just past itself, and is shown if it belongs to *)
(* the open thread.                                                          *)
LEMMA EventCurrent == ASSUME CurrentInv, OrderInv', OnEvent PROVE CurrentInv'
<1> DEFINE m == toClient[1].seq
<1>1. /\ TypeOK /\ TypeOK' /\ OrderInv /\ Sessions /\ Started /\ Opened /\ Asked /\ Replays /\ Cursor /\ Shows
      /\ Snaps /\ ChannelAscends /\ NothingBeforeResume
  BY DEF CurrentInv, LinkInv, ShownInv, OrderInv
<1>2. /\ Delivered("evt")
      /\ UNCHANGED <<log, chunks, subscribed, pending, threads, resuming, effect, active, loaded, up, toServer>>
  BY DEF OnEvent, server
<1>3. Head(toClient) = toClient[1] /\ 1 \in Frames(toClient, "evt") /\ toClient[1].t = "evt"
  BY <1>1, <1>2, HeadFacts
<1>4. m \in 1..Len(log) /\ seq \in 0..Len(log) /\ Len(log) \in Nat /\ seq < m
  BY <1>1, <1>3, ChannelTypes DEF Cursor
<1>5. seq' = m
  BY <1>3, <1>4 DEF OnEvent, Larger
<1>6. view' = IF log[m].thread = active THEN view \cup {m} ELSE view
  BY <1>3 DEF OnEvent
<1>7. /\ Frames(toClient', "ready") = {} /\ up
      /\ \A i \in DOMAIN toClient' : i \in Nat /\ i + 1 \in DOMAIN toClient /\ toClient'[i] = toClient[i + 1]
  BY <1>1, <1>2, TakeFacts
<1>8. /\ DOMAIN toClient = 1..Len(toClient) /\ DOMAIN toClient' = 1..(Len(toClient) - 1)
      /\ Len(toClient) \in Nat
  BY <1>1, <1>2, DeliveredFacts, ElementsOf
<1>9. \A k : \A i \in Frames(toClient', k) :
        i \in Nat /\ 1 < i + 1 /\ i + 1 \in Frames(toClient, k) /\ toClient'[i] = toClient[i + 1]
  <2>1. \A i \in DOMAIN toClient' : i >= 1
    BY <1>8
  <2>2. QED
    BY <1>7, <2>1 DEF Frames
<1>10. ~Behind /\ Frames(toServer, "resume") = {} /\ Frames(toClient, "ready") = {}
  <2>1. Frames(toServer, "resume") = {}
    BY <1>1, <1>2, TakenIsSynced
  <2>2. Frames(toClient, "ready") = {}
    BY <1>1, <1>3 DEF NothingBeforeResume, Frames
  <2>3. QED
    BY <1>7, <2>1, <2>2 DEF Behind, Unsynced
<1>11. ASSUME NEW n, Coming(n), n # m PROVE Coming(n)'
  <2>1. PICK i \in Frames(toClient, "evt") : toClient[i].seq = n
    BY <1>10, <1>11 DEF Coming
  <2>2. i # 1 /\ i \in DOMAIN toClient
    BY <1>11, <2>1 DEF Frames
  <2>3. i - 1 \in DOMAIN toClient' /\ (i - 1) + 1 = i
    BY <1>8, <2>2
  <2>4. toClient'[i - 1] = toClient[i]
    BY <1>7, <2>3
  <2>5. i - 1 \in Frames(toClient', "evt") /\ toClient'[i - 1].seq = n
    BY <2>1, <2>3, <2>4 DEF Frames
  <2>6. QED
    BY <2>5 DEF Coming
<1> HIDE DEF m
<1>12. seq' # 0
  BY <1>4, <1>5
<1>13. Sessions' /\ Started'
  BY <1>1, <1>2, <1>7, <1>12 DEF Sessions, Started, Following, Syncs
<1>14. Opened'
  BY <1>1, <1>2, <1>10, <1>12 DEF Opened, Following, Syncs
<1>15. Asked'
  BY <1>1, <1>2, <1>9 DEF Asked
<1>16. Replays'
  BY <1>1, <1>9 DEF Replays
<1>17. Cursor'
  <2>1. \A i \in Frames(toClient', "evt") : m < toClient'[i].seq
    BY <1>1, <1>3, <1>9 DEF ChannelAscends, m
  <2>2. QED
    BY <1>2, <1>5, <1>10, <2>1 DEF Cursor
<1>18. Snaps'
  <2>1. ASSUME NEW i \in Frames(toClient', "snap")
        PROVE  /\ \A j \in Frames(toClient', "evt") : j < i => toClient'[j].seq <= toClient'[i].seq
               /\ \A n \in EventsOf(toClient'[i].thread, Len(log)) : n > toClient'[i].seq => Coming(n)'
    <3>1. i + 1 \in Frames(toClient, "snap") /\ toClient'[i] = toClient[i + 1] /\ i \in Nat /\ 1 < i + 1
      BY <1>9
    <3>2. \A j \in Frames(toClient', "evt") :
            j < i => j + 1 \in Frames(toClient, "evt") /\ j + 1 < i + 1 /\ toClient'[j] = toClient[j + 1]
      BY <1>9, <3>1
    <3>3. m <= toClient'[i].seq /\ toClient'[i].seq \in Nat
      BY <1>1, <1>3, <3>1, MoreTypes DEF Snaps, m
    <3>4. ASSUME NEW n \in EventsOf(toClient'[i].thread, Len(log)), n > toClient'[i].seq PROVE Coming(n)'
      <4>1. Coming(n)
        BY <1>1, <3>1, <3>4 DEF Snaps
      <4>2. n # m
        BY <1>4, <3>3, <3>4
      <4>3. QED
        BY <1>11, <4>1, <4>2
    <3>5. QED
      BY <1>1, <3>1, <3>2, <3>4 DEF Snaps
  <2>2. QED
    BY <1>2, <2>1 DEF Snaps, EventsOf
<1>19. Shows'
  <2>1. view' \subseteq EventsOf(active, Len(log))
    BY <1>1, <1>4, <1>6 DEF Shows, EventsOf
  <2>2. ASSUME loaded, NEW n \in EventsOf(active, Len(log)) PROVE n \in view' \/ Coming(n)'
    <3>1. n \in view \/ Coming(n)
      BY <1>1, <2>2 DEF Shows
    <3>2. CASE n = m
      BY <1>6, <3>2 DEF EventsOf
    <3>3. CASE n # m
      BY <1>6, <1>11, <3>1, <3>3
    <3>4. QED
      BY <3>2, <3>3
  <2>3. QED
    BY <1>2, <2>1, <2>2 DEF Shows, EventsOf
<1>20. QED
  BY <1>13, <1>14, <1>15, <1>16, <1>17, <1>18, <1>19 DEF CurrentInv, LinkInv, ShownInv

(* What leaves the daemon's channel alone leaves alone what is coming.       *)
LEMMA SameComing ==
  ASSUME CurrentInv, UNCHANGED <<log, toClient, seq, up>>,
         Frames(toServer, "resume") # {} => Frames(toServer', "resume") # {},
         active # NoThread => active' # NoThread
  PROVE  /\ \A n : Coming(n) => Coming(n)'
         /\ Behind => Behind'
         /\ Started' /\ Replays' /\ Snaps'
         /\ \A i \in Frames(toClient', "snap") : active' # NoThread /\ toClient'[i].thread \in Known
         /\ \A i \in Frames(toClient', "evt") : seq' < toClient'[i].seq
<1>1. Started /\ Asked /\ Replays /\ Cursor /\ Snaps
  BY DEF CurrentInv, LinkInv, ShownInv
<1>2. Behind => Behind'
  BY DEF Behind, Unsynced
<1>3. \A n : Coming(n) => Coming(n)'
  BY <1>2 DEF Coming
<1>4. Started' /\ Replays'
  BY <1>1 DEF Started, Replays
<1>5. Snaps'
  <2>1. \A i \in Frames(toClient', "snap") :
          /\ \A j \in Frames(toClient', "evt") : j < i => toClient'[j].seq <= toClient'[i].seq
          /\ \A n \in EventsOf(toClient'[i].thread, Len(log)) : n > toClient'[i].seq => Coming(n)'
    BY <1>1, <1>3 DEF Snaps
  <2>2. QED
    BY <2>1 DEF Snaps, EventsOf
<1>6. QED
  BY <1>1, <1>2, <1>3, <1>4, <1>5 DEF Asked, Cursor

(* Giving up on a resume only fetches the open thread again.                 *)
LEMMA TimeoutCurrent == ASSUME CurrentInv, OrderInv', ResumeTimesOut PROVE CurrentInv'
<1>1. TypeOK /\ TypeOK' /\ OrderInv /\ Sessions /\ Opened /\ Asked /\ Cursor /\ Shows
  BY DEF CurrentInv, LinkInv, ShownInv, OrderInv
<1>2. /\ toServer' = Refetch
      /\ UNCHANGED <<log, chunks, subscribed, pending, seq, threads, effect, active, view, loaded, last, up,
                     toClient>>
  BY DEF ResumeTimesOut, server
<1>3. /\ \A i \in DOMAIN toServer' :
           \/ i + 0 \in DOMAIN toServer /\ toServer'[i] = toServer[i + 0]
           \/ toServer'[i].t = "get" /\ toServer'[i].thread \in Known /\ active' # NoThread
      /\ \A i \in DOMAIN toServer : i \in DOMAIN toServer' /\ toServer'[i] = toServer[i]
  BY <1>1, <1>2, RefetchKnown
<1>4. Frames(toServer, "resume") # {} => Frames(toServer', "resume") # {}
  BY <1>3 DEF Frames
<1>5. /\ \A n : Coming(n) => Coming(n)'
      /\ Behind => Behind'
      /\ Started' /\ Replays' /\ Snaps'
      /\ \A i \in Frames(toClient', "snap") : active' # NoThread /\ toClient'[i].thread \in Known
      /\ \A i \in Frames(toClient', "evt") : seq' < toClient'[i].seq
  BY <1>2, <1>4, SameComing
<1>6. /\ Following => Following'
      /\ (subscribed' # {} => subscribed' = Known /\ Following) => Sessions'
  <2>1. \A i \in DOMAIN toServer' :
           (i + 0 \in DOMAIN toServer /\ toServer'[i] = toServer[i + 0]) \/ toServer'[i].t = "get"
    BY <1>3
  <2>2. QED
    BY <1>1, <1>2, <2>1, SyncsKept, 0 \in {0, 1}
<1>7. Sessions' /\ Opened'
  BY <1>1, <1>2, <1>5, <1>6 DEF Sessions, Opened
<1>8. Asked' /\ Cursor'
  <2>1. /\ \A i \in Frames(toServer', "get") : active' # NoThread /\ toServer'[i].thread \in Known
        /\ \A i \in Frames(toServer', "resume") : toServer'[i].since = seq
    BY <1>1, <1>2, <1>3, GetsKept, 0 \in {0, 1}
  <2>2. QED
    BY <1>2, <1>5, <2>1 DEF Asked, Cursor
<1>9. Shows'
  BY <1>1, <1>2, <1>5 DEF Shows, EventsOf
<1>10. QED
  BY <1>5, <1>7, <1>8, <1>9 DEF CurrentInv, LinkInv, ShownInv

(* Opening a thread, which the socket is subscribed to, starts with nothing  *)
(* shown.                                                                    *)
LEMMA OpenCurrent ==
  ASSUME CurrentInv, OrderInv', Overlaps = {}, NEW u \in Threads, OpenThread(u)
  PROVE  CurrentInv'
<1>1. TypeOK /\ TypeOK' /\ OrderInv /\ Sessions /\ Opened /\ Asked /\ Cursor /\ Shows
  BY DEF CurrentInv, LinkInv, ShownInv, OrderInv
<1>2. /\ u \in subscribed /\ active' = u
      /\ UNCHANGED <<log, chunks, subscribed, pending, seq, threads, resuming, last, up, toClient>>
  BY DEF OpenThread, server
<1>3. subscribed = Known /\ Following /\ u \in Known /\ up /\ u # NoThread
  BY <1>1, <1>2, SubscribedIsSynced, MoreTypes DEF Sessions
<1>4. toServer' = Append(toServer, GetThread(u))
  BY <1>3 DEF OpenThread
<1>5. /\ \A i \in DOMAIN toServer' :
           \/ i + 0 \in DOMAIN toServer /\ toServer'[i] = toServer[i + 0]
           \/ toServer'[i].t = "get" /\ toServer'[i].thread \in Known /\ active' # NoThread
      /\ \A i \in DOMAIN toServer : i \in DOMAIN toServer' /\ toServer'[i] = toServer[i]
  <2>1. toServer \in Seq(ClientFrame) /\ Len(toServer) \in Nat /\ DOMAIN toServer = 1..Len(toServer)
    BY <1>1, ChannelTypes
  <2>2. GetThread(u) \in ClientFrame /\ GetThread(u).t = "get" /\ GetThread(u).thread = u
    BY <1>1, ClientFrames, ChannelTypes DEF GetThread
  <2>3. /\ DOMAIN toServer' = 1..(Len(toServer) + 1)
        /\ \A i \in 1..Len(toServer) : toServer'[i] = toServer[i]
        /\ toServer'[Len(toServer) + 1] = GetThread(u)
    BY <1>4, <2>1, <2>2, AppendFacts, ElementsOf
  <2>4. \A i \in 1..(Len(toServer) + 1) : (i \in 1..Len(toServer) /\ i + 0 = i) \/ i = Len(toServer) + 1
    BY <2>1
  <2>5. QED
    BY <1>2, <1>3, <2>1, <2>2, <2>3, <2>4
<1>6. Frames(toServer, "resume") # {} => Frames(toServer', "resume") # {}
  BY <1>5 DEF Frames
<1>7. /\ \A n : Coming(n) => Coming(n)'
      /\ Behind => Behind'
      /\ Started' /\ Replays' /\ Snaps'
      /\ \A i \in Frames(toClient', "snap") : active' # NoThread /\ toClient'[i].thread \in Known
      /\ \A i \in Frames(toClient', "evt") : seq' < toClient'[i].seq
  BY <1>2, <1>3, <1>6, SameComing
<1>8. /\ Following => Following'
      /\ (subscribed' # {} => subscribed' = Known /\ Following) => Sessions'
  <2>1. \A i \in DOMAIN toServer' :
           (i + 0 \in DOMAIN toServer /\ toServer'[i] = toServer[i + 0]) \/ toServer'[i].t = "get"
    BY <1>5
  <2>2. QED
    BY <1>1, <1>2, <2>1, SyncsKept, 0 \in {0, 1}
<1>9. Sessions' /\ Opened'
  BY <1>2, <1>3, <1>8 DEF Opened
<1>10. Asked' /\ Cursor'
  <2>1. /\ \A i \in Frames(toServer', "get") : active' # NoThread /\ toServer'[i].thread \in Known
        /\ \A i \in Frames(toServer', "resume") : toServer'[i].since = seq
    BY <1>1, <1>2, <1>3, <1>5, GetsKept, 0 \in {0, 1}
  <2>2. QED
    BY <1>2, <1>7, <2>1 DEF Asked, Cursor
<1>11. Shows'
  <2>1. CASE u = active
    BY <1>1, <1>2, <1>7, <2>1 DEF Shows, EventsOf, OpenThread
  <2>2. CASE u # active
    BY <2>2 DEF Shows, OpenThread
  <2>3. QED
    BY <2>1, <2>2
<1>12. QED
  BY <1>7, <1>9, <1>10, <1>11 DEF CurrentInv, LinkInv, ShownInv

(* The subscription effect wants the known threads, the open one among them. *)
LEMMA SubscribeCurrent ==
  ASSUME CurrentInv, OrderInv', Overlaps = {}, Subscribe
  PROVE  CurrentInv'
<1>1. TypeOK /\ TypeOK' /\ OrderInv /\ Sessions /\ Started /\ Opened /\ Asked /\ Cursor /\ Shows
  BY DEF CurrentInv, LinkInv, ShownInv, OrderInv
<1>2. /\ up /\ Greeted
      /\ UNCHANGED <<log, chunks, subscribed, pending, seq, resuming, active, view, loaded, last, up, toClient>>
  BY DEF Subscribe, server
<1>3. threads' = Known /\ toServer' = Append(toServer, Sub(Known))
  BY <1>1, MoreTypes DEF Subscribe, Opened
<1>4. /\ toServer \in Seq(ClientFrame) /\ Len(toServer) \in Nat /\ DOMAIN toServer = 1..Len(toServer)
      /\ DOMAIN toServer' = 1..(Len(toServer) + 1)
      /\ \A i \in 1..Len(toServer) : toServer'[i] = toServer[i]
      /\ toServer'[Len(toServer) + 1] = Sub(Known)
      /\ Sub(Known).t = "sub" /\ Sub(Known).threads = Known
  <2>1. toServer \in Seq(ClientFrame) /\ Len(toServer) \in Nat /\ DOMAIN toServer = 1..Len(toServer)
    BY <1>1, ChannelTypes
  <2>2. Sub(Known) \in ClientFrame /\ Sub(Known).t = "sub" /\ Sub(Known).threads = Known
    BY <1>1, ClientFrames, ChannelTypes, ThreadsAssumption DEF Sub
  <2>3. QED
    BY <1>3, <2>1, <2>2, AppendFacts, ElementsOf
<1>5. \A i \in DOMAIN toServer' :
        (i \in DOMAIN toServer /\ toServer'[i] = toServer[i]) \/ (i = Len(toServer) + 1 /\ toServer'[i] = Sub(Known))
  BY <1>4
<1>6. Frames(toServer, "resume") # {} => Frames(toServer', "resume") # {}
  <2>1. \A i \in DOMAIN toServer : i \in DOMAIN toServer' /\ toServer'[i] = toServer[i]
    BY <1>4
  <2>2. QED
    BY <2>1 DEF Frames
<1>7. /\ \A n : Coming(n) => Coming(n)'
      /\ Behind => Behind'
      /\ Started' /\ Replays' /\ Snaps'
      /\ \A i \in Frames(toClient', "snap") : active' # NoThread /\ toClient'[i].thread \in Known
      /\ \A i \in Frames(toClient', "evt") : seq' < toClient'[i].seq
  BY <1>2, <1>6, SameComing
<1>8. \A i \in Syncs' : (i \in Syncs /\ toServer'[i] = toServer[i]) \/ toServer'[i].threads = Known
  BY <1>4, <1>5 DEF Syncs
<1>9. Following => Following'
  BY <1>2, <1>3, <1>8 DEF Following
<1>10. Sessions'
  <2>1. ASSUME NEW i \in Syncs', toServer'[i].threads # {}
        PROVE  toServer'[i].threads = Known /\ \A j \in Syncs' : j > i => toServer'[j].threads = Known
    <3>1. CASE i \in Syncs /\ toServer'[i] = toServer[i]
      BY <1>1, <1>8, <2>1, <3>1 DEF Sessions
    <3>2. CASE i = Len(toServer) + 1
      <4>1. \A j \in Syncs' : j \in 1..(Len(toServer) + 1)
        BY <1>4 DEF Syncs
      <4>2. QED
        BY <1>4, <3>2, <4>1
    <3>3. QED
      BY <1>4, <1>5, <3>1, <3>2 DEF Syncs
  <2>2. QED
    BY <1>1, <1>2, <1>3, <1>9, <2>1 DEF Sessions
<1>11. Opened'
  BY <1>1, <1>2, <1>7, <1>9 DEF Opened
<1>12. Asked' /\ Cursor'
  <2>1. \A i \in Frames(toServer', "get") : i \in Frames(toServer, "get") /\ toServer'[i] = toServer[i]
    BY <1>4, <1>5 DEF Frames
  <2>2. \A i \in Frames(toServer', "resume") : i \in Frames(toServer, "resume") /\ toServer'[i] = toServer[i]
    BY <1>4, <1>5 DEF Frames
  <2>3. QED
    BY <1>1, <1>2, <1>7, <2>1, <2>2 DEF Asked, Cursor
<1>13. Shows'
  BY <1>1, <1>2, <1>7 DEF Shows, EventsOf
<1>14. QED
  BY <1>7, <1>10, <1>11, <1>12, <1>13 DEF CurrentInv, LinkInv, ShownInv

(* A drop loses what was on its way: the cursor is behind all of it.         *)
LEMMA DropCurrent == ASSUME CurrentInv, OrderInv', Drop PROVE CurrentInv'
<1>1. TypeOK /\ Sessions /\ Started /\ Opened /\ Asked /\ Cursor /\ Shows
  BY DEF CurrentInv, LinkInv, ShownInv, OrderInv
<1>2. /\ ~up' /\ toClient' = <<>> /\ toServer' = <<>> /\ subscribed' = {}
      /\ UNCHANGED <<log, seq, threads, active, view, loaded>>
  BY DEF Drop
<1>3. (\A t : Frames(toClient', t) = {} /\ Frames(toServer', t) = {}) /\ Syncs' = {}
  BY <1>2 DEF Frames, Syncs
<1>4. ASSUME NEW n, Coming(n) PROVE Coming(n)'
  BY <1>1, <1>2, <1>4 DEF Coming, Cursor, Behind
<1>5. Sessions' /\ Started' /\ Opened' /\ Asked'
  BY <1>1, <1>2, <1>3 DEF Sessions, Started, Opened, Asked, Following, Behind
<1>6. Replays' /\ Cursor' /\ Snaps'
  BY <1>3 DEF Replays, Cursor, Snaps
<1>7. Shows'
  BY <1>1, <1>2, <1>4 DEF Shows, EventsOf
<1>8. QED
  BY <1>5, <1>6, <1>7 DEF CurrentInv, LinkInv, ShownInv

(* A new socket is behind until its resume is served.                        *)
LEMMA ConnectCurrent == ASSUME CurrentInv, OrderInv', Connect PROVE CurrentInv'
<1>1. TypeOK /\ NothingBeforeResume /\ Sessions /\ Started /\ Opened /\ Asked /\ Cursor /\ Shows
  BY DEF CurrentInv, LinkInv, ShownInv, OrderInv
<1>2. /\ ~up /\ up' /\ toClient' = <<Ready(Len(log))>> /\ toServer' = <<>> /\ subscribed' = {}
      /\ UNCHANGED <<log, seq, threads, active, view, loaded>>
  BY DEF Connect, head
<1>3. toClient = <<>>
  BY <1>1, <1>2 DEF NothingBeforeResume
<1>4. (\A t : Frames(toServer', t) = {}) /\ Syncs' = {} /\ \A t : Frames(toClient, t) = {}
  BY <1>2, <1>3 DEF Frames, Syncs
<1>5. /\ DOMAIN toClient' = {1} /\ toClient'[1] = Ready(Len(log))
      /\ Ready(Len(log)).t = "ready" /\ Ready(Len(log)).seq = Len(log)
  BY <1>2 DEF Ready
<1>6. /\ Frames(toClient', "ready") = {1} /\ Frames(toClient', "evt") = {} /\ Frames(toClient', "snap") = {}
      /\ Frames(toClient', "res") = {}
  BY <1>5 DEF Frames
<1>7. Behind'
  BY <1>6 DEF Behind, Unsynced
<1>8. \A n : Coming(n) => Coming(n)'
  BY <1>2, <1>4, <1>7 DEF Coming
<1>9. Sessions' /\ Started' /\ Opened' /\ Asked'
  BY <1>1, <1>2, <1>4, <1>5, <1>6, <1>7 DEF Sessions, Started, Opened, Asked, Following
<1>10. Replays' /\ Cursor' /\ Snaps'
  BY <1>4, <1>6 DEF Replays, Cursor, Snaps
<1>11. Shows'
  BY <1>1, <1>2, <1>8 DEF Shows, EventsOf
<1>12. QED
  BY <1>9, <1>10, <1>11 DEF CurrentInv, LinkInv, ShownInv

(* The greeting: a first connection has nothing open, a later one asks for   *)
(* what it is behind.                                                        *)
LEMMA ReadyCurrent == ASSUME CurrentInv, OrderInv', OnReady PROVE CurrentInv'
<1>1. /\ TypeOK /\ TypeOK' /\ OrderInv /\ NothingBeforeResume /\ Sessions /\ Started /\ Opened /\ Asked
      /\ Cursor /\ Snaps /\ Shows
  BY DEF CurrentInv, LinkInv, ShownInv, OrderInv
<1>2. /\ Delivered("ready")
      /\ UNCHANGED <<log, chunks, subscribed, pending, threads, effect, active, view, loaded, last, up>>
  BY DEF OnReady, server
<1>3. Head(toClient) = toClient[1] /\ 1 \in Frames(toClient, "ready")
  BY <1>1, <1>2, HeadFacts
<1>4. /\ Unsynced /\ Behind /\ subscribed = {}
      /\ \A i \in DOMAIN toClient : toClient[i].t \in {"ready", "snap"}
      /\ \A i \in DOMAIN toServer : toServer[i].t = "get"
      /\ Frames(toClient, "evt") = {}
  <2>1. Unsynced
    BY <1>3 DEF Unsynced
  <2>2. \A i \in DOMAIN toClient : toClient[i].t \in {"ready", "snap"}
    BY <1>1, <2>1 DEF NothingBeforeResume
  <2>3. QED
    BY <1>1, <1>3, <2>1, <2>2 DEF NothingBeforeResume, Behind, Frames
<1>5. /\ Frames(toClient', "ready") = {} /\ up
      /\ \A i \in DOMAIN toClient' : i \in Nat /\ i + 1 \in DOMAIN toClient /\ toClient'[i] = toClient[i + 1]
  BY <1>1, <1>2, TakeFacts
<1>6. \A k : \A i \in Frames(toClient', k) : i + 1 \in Frames(toClient, k) /\ toClient'[i] = toClient[i + 1]
  BY <1>5 DEF Frames
<1>7. Frames(toClient', "evt") = {} /\ Frames(toClient', "res") = {}
  BY <1>4, <1>5, <1>6 DEF Frames
<1>8. \A i \in Frames(toClient', "snap") : active' # NoThread /\ toClient'[i].thread \in Known
  BY <1>1, <1>2, <1>6 DEF Asked
<1>9. toServer \in Seq(ClientFrame) /\ Len(toServer) \in Nat /\ DOMAIN toServer = 1..Len(toServer)
  BY <1>1, ChannelTypes
<1>10. Replays'
  BY <1>7 DEF Replays
<1>11. CASE seq = 0
  <2>1. seq' = toClient[1].seq /\ toServer' = Append(toServer, Sub(threads))
    BY <1>3, <1>11 DEF OnReady
  <2>2. active = NoThread /\ ~loaded
    BY <1>1, <1>11 DEF Opened, Following
  <2>3. Sub(threads) \in ClientFrame /\ Sub(threads).t = "sub" /\ Sub(threads).threads = threads
    BY <1>1, ClientFrames, ChannelTypes DEF Sub, TypeOK
  <2>4. /\ DOMAIN toServer' = 1..(Len(toServer) + 1)
        /\ \A i \in 1..Len(toServer) : toServer'[i] = toServer[i]
        /\ toServer'[Len(toServer) + 1] = Sub(threads)
    BY <1>9, <2>1, <2>3, AppendFacts, ElementsOf
  <2>5. \A i \in DOMAIN toServer' :
          (i \in DOMAIN toServer /\ toServer'[i] = toServer[i])
            \/ (i = Len(toServer) + 1 /\ toServer'[i] = Sub(threads))
    BY <1>9, <2>4
  <2>6. \A i \in Syncs' : i = Len(toServer) + 1 /\ toServer'[i].threads = threads
    BY <1>4, <2>3, <2>5 DEF Syncs
  <2>7. Len(toServer) + 1 \in Nat
    BY <1>9
  <2>8. Sessions'
    BY <1>1, <1>2, <1>4, <2>6, <2>7 DEF Sessions
  <2>9. Started'
    BY <1>1, <1>2, <1>3, <1>5, <2>1 DEF Started
  <2>10. Opened'
    BY <1>2, <2>2 DEF Opened
  <2>11. \A i \in Frames(toServer', "get") : i \in Frames(toServer, "get") /\ toServer'[i] = toServer[i]
    BY <2>3, <2>5 DEF Frames
  <2>12. Frames(toServer', "resume") = {}
    BY <1>4, <2>3, <2>5 DEF Frames
  <2>13. Asked' /\ Cursor'
    BY <1>1, <1>2, <1>7, <1>8, <2>11, <2>12 DEF Asked, Cursor
  <2>14. Snaps'
    BY <1>2, <1>8, <2>2 DEF Snaps
  <2>15. Shows'
    BY <1>1, <1>2, <2>2 DEF Shows, EventsOf
  <2>16. QED
    BY <1>10, <2>8, <2>9, <2>10, <2>13, <2>14, <2>15 DEF CurrentInv, LinkInv, ShownInv
<1>12. CASE seq # 0
  <2>1. seq' = seq /\ toServer' = toServer \o <<Resume(seq, threads), Sub(threads)>>
    BY <1>12 DEF OnReady
  <2>2. /\ Resume(seq, threads) \in ClientFrame /\ Resume(seq, threads).t = "resume"
        /\ Resume(seq, threads).since = seq /\ Resume(seq, threads).threads = threads
        /\ Sub(threads) \in ClientFrame /\ Sub(threads).t = "sub" /\ Sub(threads).threads = threads
    <3>1. seq \in 1..Len(log) /\ threads \in SUBSET Threads /\ Len(log) \in Nat
      BY <1>1, <1>12, ChannelTypes DEF TypeOK
    <3>2. QED
      BY <3>1, ClientFrames DEF Sub, Resume
  <2>3. /\ DOMAIN toServer' = 1..(Len(toServer) + 2)
        /\ \A i \in 1..Len(toServer) : toServer'[i] = toServer[i]
        /\ toServer'[Len(toServer) + 1] = Resume(seq, threads)
        /\ toServer'[Len(toServer) + 2] = Sub(threads)
    <3> DEFINE d == <<Resume(seq, threads), Sub(threads)>>
    <3>1. d \in Seq(ClientFrame) /\ Len(d) = 2 /\ d[1] = Resume(seq, threads) /\ d[2] = Sub(threads)
      BY <2>2
    <3> HIDE DEF d
    <3>2. toServer' = toServer \o d
      BY <2>1 DEF d
    <3>3. /\ toServer' \in Seq(ClientFrame) /\ Len(toServer') = Len(toServer) + 2
          /\ \A i \in 1..Len(toServer) : toServer'[i] = toServer[i]
          /\ \A i \in 1..2 : toServer'[Len(toServer) + i] = d[i]
      <4>1. toServer \in Seq(ClientFrame) /\ d \in Seq(ClientFrame)
        BY <1>9, <3>1
      <4>2. /\ toServer' \in Seq(ClientFrame) /\ Len(toServer') = Len(toServer) + Len(d)
            /\ \A i \in 1..Len(toServer) : toServer'[i] = toServer[i]
            /\ \A i \in 1..Len(d) : toServer'[Len(toServer) + i] = d[i]
        BY ONLY <3>2, <4>1, ConcatFacts
      <4>3. QED
        BY <3>1, <4>2
    <3>4. QED
      BY <3>1, <3>3, ElementsOf
  <2>4. \A i \in DOMAIN toServer' :
          \/ i \in DOMAIN toServer /\ toServer'[i] = toServer[i]
          \/ i = Len(toServer) + 1 /\ toServer'[i] = Resume(seq, threads)
          \/ i = Len(toServer) + 2 /\ toServer'[i] = Sub(threads)
    BY <1>9, <2>3
  <2>5. \A i \in Syncs' : toServer'[i].threads = threads
    BY <1>4, <2>2, <2>4 DEF Syncs
  <2>6. Sessions'
    BY <1>1, <1>2, <1>4, <2>5 DEF Sessions
  <2>7. Started'
    BY <1>1, <1>2, <1>5, <1>12, <2>1 DEF Started
  <2>8. Behind'
    <3>1. Len(toServer) + 1 \in DOMAIN toServer'
      BY <1>9, <2>3
    <3>2. Len(toServer) + 1 \in Frames(toServer', "resume")
      BY <2>2, <2>3, <3>1 DEF Frames
    <3>3. QED
      BY <3>2 DEF Behind, Unsynced
  <2>9. Opened'
    BY <1>1, <1>2, <2>1, <2>5, <2>8 DEF Opened, Following
  <2>10. \A i \in Frames(toServer', "get") : i \in Frames(toServer, "get") /\ toServer'[i] = toServer[i]
    BY <2>2, <2>4 DEF Frames
  <2>11. \A i \in Frames(toServer', "resume") : toServer'[i].since = seq
    BY <1>4, <2>2, <2>4 DEF Frames
  <2>12. Asked' /\ Cursor'
    BY <1>1, <1>2, <1>7, <1>8, <2>1, <2>10, <2>11 DEF Asked, Cursor
  <2>13. \A n : Coming(n) => Coming(n)'
    BY <1>4, <2>1, <2>8 DEF Coming
  <2>14. Snaps'
    <3>1. \A i \in Frames(toClient', "snap") :
            \A n \in EventsOf(toClient'[i].thread, Len(log)) : n > toClient'[i].seq => Coming(n)'
      BY <1>1, <1>6, <2>13 DEF Snaps
    <3>2. QED
      BY <1>2, <1>7, <3>1 DEF Snaps, EventsOf
  <2>15. Shows'
    BY <1>1, <1>2, <2>13 DEF Shows, EventsOf
  <2>16. QED
    BY <1>10, <2>6, <2>7, <2>9, <2>12, <2>14, <2>15 DEF CurrentInv, LinkInv, ShownInv
<1>13. QED
  BY <1>11, <1>12

(* Serving a subscription or a resume subscribes the socket to the known     *)
(* threads once the client asked for them.                                   *)
LEMMA SessionServed ==
  ASSUME LinkInv, TypeOK', NEW t \in {"sub", "resume"}, Received(t), subscribed' = toServer[1].threads,
         UNCHANGED <<log, chunks, pending, seq, threads, active, loaded, up>>
  PROVE  Sessions' /\ Opened'
<1>1. TypeOK /\ OrderInv /\ Sessions /\ Started /\ Opened
  BY DEF LinkInv, OrderInv
<1>2. /\ up /\ Frames(toClient, "ready") = {}
      /\ \A i \in DOMAIN toServer' : i \in 1..(Len(toServer) - 1) /\ i + 1 \in DOMAIN toServer
                                     /\ toServer'[i] = toServer[i + 1]
      /\ 1 \in Frames(toServer, t)
  <2>1. t # "get"
    OBVIOUS
  <2>2. QED
    BY <1>1, <2>1, ServeFacts
<1>3. /\ Following => Following'
      /\ (subscribed' # {} => subscribed' = Known /\ Following) => Sessions'
  BY <1>1, <1>2, SyncsKept, 1 \in {0, 1}
<1>4. 1 \in Syncs
  BY <1>2 DEF Syncs, Frames
<1>5. ASSUME subscribed' # {} PROVE subscribed' = Known /\ Following
  <2>1. toServer[1].threads = Known /\ threads = Known /\ \A j \in Syncs : j > 1 => toServer[j].threads = Known
    BY <1>1, <1>4, <1>5 DEF Sessions
  <2>2. \A j \in Syncs : j = 1 \/ j > 1
    <3>1. DOMAIN toServer = 1..Len(toServer)
      BY <1>1, ChannelTypes
    <3>2. QED
      BY <3>1 DEF Syncs
  <2>3. \A j \in Syncs : toServer[j].threads = Known
    BY <2>1, <2>2
  <2>4. Known # {} /\ seq # 0
    BY <1>1, <1>2, <1>5, <2>1 DEF Started
  <2>5. QED
    BY <2>1, <2>3, <2>4 DEF Following
<1>6. active # NoThread => subscribed' = Known
  BY <1>1, <1>4 DEF Opened, Following
<1>7. QED
  BY <1>1, <1>3, <1>5, <1>6 DEF Opened

(* A subscription that is served changes nothing about what is coming.       *)
LEMMA SubCurrent == ASSUME CurrentInv, OrderInv', OnSub PROVE CurrentInv'
<1>1. /\ TypeOK /\ TypeOK' /\ LinkInv /\ OrderInv /\ NothingBeforeResume /\ Asked /\ Cursor /\ Shows
  BY DEF CurrentInv, LinkInv, ShownInv, OrderInv
<1>2. /\ Received("sub") /\ subscribed' = Head(toServer).threads
      /\ UNCHANGED <<log, chunks, pending, seq, threads, resuming, effect, active, view, loaded, last, up,
                     toClient>>
  BY DEF OnSub, client
<1>3. /\ up /\ Frames(toClient, "ready") = {} /\ Frames(toServer', "resume") = {}
      /\ \A i \in DOMAIN toServer' : i \in 1..(Len(toServer) - 1) /\ i + 1 \in DOMAIN toServer
                                     /\ toServer'[i] = toServer[i + 1]
      /\ 1 \in Frames(toServer, "sub")
  BY <1>1, <1>2, ServeFacts
<1>4. subscribed' = toServer[1].threads
  BY <1>1, <1>2, ReceivedFacts
<1>5. Frames(toServer, "resume") = {}
  <2>1. ASSUME NEW i \in Frames(toServer, "resume") PROVE FALSE
    <3>1. i \in 1..Len(toServer) /\ Len(toServer) \in Nat
      BY <1>1, ChannelTypes
    <3>2. i # 1
      BY <1>3, <2>1 DEF Frames
    <3>3. 1 \in 1..(i - 1)
      BY <3>1, <3>2
    <3>4. QED
      BY <1>1, <1>3, <2>1, <3>3 DEF NothingBeforeResume, Frames
  <2>2. QED
    BY <2>1
<1>6. ~Behind
  BY <1>3, <1>5 DEF Behind, Unsynced
<1>7. /\ \A n : Coming(n) => Coming(n)'
      /\ Behind => Behind'
      /\ Started' /\ Replays' /\ Snaps'
      /\ \A i \in Frames(toClient', "snap") : active' # NoThread /\ toClient'[i].thread \in Known
      /\ \A i \in Frames(toClient', "evt") : seq' < toClient'[i].seq
  BY <1>2, <1>5, SameComing
<1>8. Sessions' /\ Opened'
  BY <1>1, <1>2, <1>4, SessionServed
<1>9. Asked' /\ Cursor'
  <2>1. \A i \in DOMAIN toServer' :
          \/ i + 1 \in DOMAIN toServer /\ toServer'[i] = toServer[i + 1]
          \/ toServer'[i].t = "get" /\ toServer'[i].thread \in Known /\ active' # NoThread
    BY <1>3
  <2>2. /\ \A i \in Frames(toServer', "get") : active' # NoThread /\ toServer'[i].thread \in Known
        /\ \A i \in Frames(toServer', "resume") : toServer'[i].since = seq
    BY <1>1, <1>2, <2>1, GetsKept, 1 \in {0, 1}
  <2>3. QED
    BY <1>2, <1>7, <2>2 DEF Asked, Cursor
<1>10. Shows'
  BY <1>1, <1>2, <1>7 DEF Shows, EventsOf
<1>11. QED
  BY <1>7, <1>8, <1>9, <1>10 DEF CurrentInv, LinkInv, ShownInv

(* A snapshot holds everything there is.                                     *)
LEMMA GetCurrent == ASSUME CurrentInv, OrderInv', OnGetThread PROVE CurrentInv'
<1> DEFINE w == toServer[1].thread
           s == Snapshot(w, Len(log))
<1>1. /\ TypeOK /\ TypeOK' /\ OrderInv /\ Sessions /\ Started /\ Opened /\ Asked /\ Replays /\ Cursor /\ Snaps
      /\ Shows
  BY DEF CurrentInv, LinkInv, ShownInv, OrderInv
<1>2. /\ Received("get")
      /\ UNCHANGED <<log, chunks, subscribed, pending, seq, threads, resuming, effect, active, view, loaded,
                     last, up>>
  BY DEF OnGetThread, server, client
<1>3. /\ \A i \in DOMAIN toServer' : i \in 1..(Len(toServer) - 1) /\ i + 1 \in DOMAIN toServer
                                     /\ toServer'[i] = toServer[i + 1]
      /\ 1 \in Frames(toServer, "get")
  BY <1>1, <1>2, ServeFacts
<1>4. toClient' = Append(toClient, s)
  BY <1>1, <1>2, ReceivedFacts DEF OnGetThread, head
<1>5. active # NoThread /\ w \in Known
  BY <1>1, <1>3 DEF Asked
<1>6. s \in ServerFrame /\ s.t = "snap" /\ s.thread = w /\ s.seq = Len(log)
  BY <1>1, <1>5, ServerFrames, ChannelTypes, MoreTypes DEF Snapshot
<1>7. toClient \in Seq(ServerFrame) /\ DOMAIN toClient = 1..Len(toClient) /\ Len(toClient) \in Nat /\ Len(log) \in Nat
  BY <1>1, ChannelTypes
<1> HIDE DEF s, w
<1>8. /\ DOMAIN toClient' = 1..(Len(toClient) + 1)
      /\ \A i \in 1..Len(toClient) : toClient'[i] = toClient[i]
      /\ toClient'[Len(toClient) + 1] = s
  BY <1>4, <1>6, <1>7, AppendFacts, ElementsOf
<1>9. /\ \A k : \A i \in Frames(toClient', k) :
           (i \in Frames(toClient, k) /\ toClient'[i] = toClient[i]) \/ (k = "snap" /\ i = Len(toClient) + 1)
      /\ \A k : \A i \in Frames(toClient, k) : i \in Frames(toClient', k) /\ toClient'[i] = toClient[i]
  <2>1. \A i \in DOMAIN toClient' : i \in 1..Len(toClient) \/ i = Len(toClient) + 1
    BY <1>7, <1>8
  <2>2. QED
    BY <1>6, <1>7, <1>8, <2>1 DEF Frames
<1>10. /\ \A i \in Frames(toClient', "evt") : i \in Frames(toClient, "evt") /\ toClient'[i] = toClient[i]
       /\ \A i \in Frames(toClient', "ready") : i \in Frames(toClient, "ready") /\ toClient'[i] = toClient[i]
       /\ \A i \in Frames(toClient', "res") : i \in Frames(toClient, "res") /\ toClient'[i] = toClient[i]
  BY <1>9
<1>11. Behind => Behind'
  <2>1. \A i \in Frames(toServer, "resume") : i - 1 \in Frames(toServer', "resume")
    <3>1. /\ DOMAIN toServer = 1..Len(toServer) /\ DOMAIN toServer' = 1..(Len(toServer) - 1)
          /\ Len(toServer) \in Nat
      BY <1>1, <1>2, ReceivedFacts, ElementsOf
    <3>2. ASSUME NEW i \in Frames(toServer, "resume") PROVE i - 1 \in Frames(toServer', "resume")
      <4>1. i # 1
        BY <1>3, <3>2 DEF Frames
      <4>2. i - 1 \in DOMAIN toServer' /\ (i - 1) + 1 = i
        BY <3>1, <3>2, <4>1 DEF Frames
      <4>3. QED
        BY <1>3, <3>2, <4>2 DEF Frames
    <3>3. QED
      BY <3>2
  <2>2. Frames(toServer, "resume") # {} => Frames(toServer', "resume") # {}
    BY <2>1
  <2>3. Frames(toClient, "ready") # {} => Frames(toClient', "ready") # {}
    BY <1>9
  <2>4. QED
    BY <1>2, <2>2, <2>3 DEF Behind, Unsynced
<1>12. \A n : Coming(n) => Coming(n)'
  BY <1>2, <1>9, <1>11 DEF Coming
<1>13. Sessions' /\ Opened'
  <2>1. Following => Following' /\ ((subscribed' # {} => subscribed' = Known /\ Following) => Sessions')
    BY <1>1, <1>2, <1>3, SyncsKept, 1 \in {0, 1}
  <2>2. Following
    BY <1>1, <1>5 DEF Opened
  <2>3. QED
    BY <1>1, <1>2, <1>3, <1>11, <2>1, <2>2, SyncsKept, 1 \in {0, 1} DEF Sessions, Opened
<1>14. Started' /\ Replays'
  <2>1. Frames(toClient, "ready") # {} => Frames(toClient', "ready") # {}
    BY <1>9
  <2>2. QED
    BY <1>1, <1>2, <1>10, <2>1 DEF Started, Replays
<1>15. Asked' /\ Cursor'
  <2>1. \A i \in DOMAIN toServer' :
          \/ i + 1 \in DOMAIN toServer /\ toServer'[i] = toServer[i + 1]
          \/ toServer'[i].t = "get" /\ toServer'[i].thread \in Known /\ active' # NoThread
    BY <1>3
  <2>2. /\ \A i \in Frames(toServer', "get") : active' # NoThread /\ toServer'[i].thread \in Known
        /\ \A i \in Frames(toServer', "resume") : toServer'[i].since = seq
    BY <1>1, <1>2, <2>1, GetsKept, 1 \in {0, 1}
  <2>3. \A i \in Frames(toClient', "snap") : toClient'[i].thread \in Known
    BY <1>1, <1>5, <1>6, <1>8, <1>9 DEF Asked
  <2>4. QED
    BY <1>1, <1>2, <1>5, <1>10, <2>2, <2>3 DEF Asked, Cursor
<1>16. Snaps'
  <2>1. ASSUME NEW i \in Frames(toClient', "snap")
        PROVE  /\ \A j \in Frames(toClient', "evt") : j < i => toClient'[j].seq <= toClient'[i].seq
               /\ \A n \in EventsOf(toClient'[i].thread, Len(log)) : n > toClient'[i].seq => Coming(n)'
    <3>1. CASE i \in Frames(toClient, "snap") /\ toClient'[i] = toClient[i]
      BY <1>1, <1>10, <1>12, <3>1 DEF Snaps
    <3>2. CASE i = Len(toClient) + 1
      <4>1. toClient'[i].seq = Len(log)
        BY <1>6, <1>8, <3>2
      <4>2. \A j \in Frames(toClient', "evt") : toClient'[j].seq \in 1..Len(log)
        BY <1>1, <1>10, ChannelTypes
      <4>3. \A n \in EventsOf(toClient'[i].thread, Len(log)) : n \in 1..Len(log)
        BY DEF EventsOf
      <4>4. QED
        BY <1>7, <4>1, <4>2, <4>3
    <3>3. QED
      BY <1>9, <3>1, <3>2
  <2>2. QED
    BY <1>2, <2>1 DEF Snaps, EventsOf
<1>17. Shows'
  BY <1>1, <1>2, <1>12 DEF Shows, EventsOf
<1>18. QED
  BY <1>13, <1>14, <1>15, <1>16, <1>17 DEF CurrentInv, LinkInv, ShownInv

(* The gap, in order, names each of its events.                              *)
LEMMA GapIsWhole ==
  ASSUME Len(log) \in Nat, NEW since, NEW S, NEW order \in SetToSeqs(Gap(since, S)), NEW n \in Gap(since, S)
  PROVE  \E k \in DOMAIN order : order[k] = n
<1> DEFINE G == Gap(since, S)
           D == 1..Cardinality(G)
<1>1. IsFiniteSet(G)
  <2>1. G \subseteq 1..Len(log)
    BY DEF Gap, head
  <2>2. QED
    BY <2>1, FS_Interval, FS_Subset, 1 \in Int, Len(log) \in Int
<1>2. order \in [D -> G] /\ \A i, j \in D : i # j => order[i] # order[j]
  BY DEF SetToSeqs
<1>3. Cardinality(G) \in Nat
  BY <1>1, FS_CardinalityType
<1>4. n \in G
  OBVIOUS
<1> HIDE DEF G
<1>5. IsFiniteSet(D) /\ Cardinality(D) = Cardinality(G)
  BY <1>3, FS_Interval, 1 \in Int, Cardinality(G) \in Int
<1>6. IsFiniteSet(G \ {n}) /\ Cardinality(G \ {n}) = Cardinality(G) - 1
  BY <1>1, <1>4, FS_RemoveElement
<1> HIDE DEF D
<1>7. SUFFICES ASSUME \A k \in D : order[k] # n PROVE FALSE
  BY <1>2
<1>8. order \in [D -> G \ {n}]
  BY <1>2, <1>7
<1>9. Cardinality(G \ {n}) < Cardinality(D)
  BY <1>3, <1>5, <1>6
<1>10. \E x, y \in D : x # y /\ order[x] = order[y]
  BY <1>5, <1>6, <1>8, <1>9, FS_PigeonHole
<1>11. QED
  BY <1>2, <1>10

(* What a replay puts in the channel: an answer and the gap behind whatever  *)
(* was there.                                                                *)
LEMMA ReplayFrames ==
  ASSUME TypeOK, NEW since, NEW S, NEW order \in SetToSeqs(Gap(since, S)),
         toClient' = Append(toClient, Replayed) \o Events(order)
  PROVE  /\ \A i \in DOMAIN toClient' :
              \/ i \in DOMAIN toClient /\ toClient'[i] = toClient[i]
              \/ i = Len(toClient) + 1 /\ toClient'[i] = Replayed
              \/ /\ i > Len(toClient) /\ toClient'[i].t = "evt"
                 /\ toClient'[i].seq \in Gap(since, S)
         /\ \A n \in Gap(since, S) : \E i \in Frames(toClient', "evt") : toClient'[i].seq = n
<1> DEFINE G == Len(Events(order))
           c == Append(toClient, Replayed)
<1>1. /\ toClient \in Seq(ServerFrame) /\ Len(toClient) \in Nat /\ DOMAIN toClient = 1..Len(toClient)
      /\ Len(log) \in Nat /\ Replayed \in ServerFrame
  BY ChannelTypes, ServerFrames
<1>2. /\ G \in Nat /\ DOMAIN order = 1..G /\ Events(order) \in Seq(ServerFrame)
      /\ \A i \in 1..G : Events(order)[i] = Evt(order[i]) /\ order[i] \in Gap(since, S)
  BY <1>1, GapFacts
<1>3. /\ c \in Seq(ServerFrame) /\ Len(c) = Len(toClient) + 1
      /\ \A i \in 1..Len(toClient) : c[i] = toClient[i]
      /\ c[Len(toClient) + 1] = Replayed
  BY <1>1, AppendFacts
<1>4. toClient' = c \o Events(order)
  OBVIOUS
<1> HIDE DEF c
<1>5. /\ toClient' \in Seq(ServerFrame) /\ Len(toClient') = Len(c) + Len(Events(order))
      /\ \A i \in 1..Len(c) : toClient'[i] = c[i]
      /\ \A i \in 1..Len(Events(order)) : toClient'[Len(c) + i] = Events(order)[i]
  <2>1. c \in Seq(ServerFrame) /\ Events(order) \in Seq(ServerFrame)
    BY <1>2, <1>3
  <2>2. QED
    BY ONLY <1>4, <2>1, ConcatFacts
<1> HIDE DEF G
<1>6. Len(toClient') = Len(toClient) + 1 + G /\ DOMAIN toClient' = 1..(Len(toClient) + 1 + G)
  BY <1>3, <1>5, ElementsOf DEF G
<1>7. \A k \in 1..G : /\ Len(toClient) + 1 + k \in DOMAIN toClient'
                      /\ toClient'[Len(toClient) + 1 + k] = Evt(order[k])
  BY <1>1, <1>2, <1>3, <1>5, <1>6 DEF G
<1>8. ASSUME NEW i \in DOMAIN toClient'
      PROVE  \/ i \in DOMAIN toClient /\ toClient'[i] = toClient[i]
             \/ i = Len(toClient) + 1 /\ toClient'[i] = Replayed
             \/ /\ i > Len(toClient) /\ toClient'[i].t = "evt"
                /\ toClient'[i].seq \in Gap(since, S)
  <2>1. CASE i \in 1..Len(toClient)
    <3>1. i \in 1..Len(c)
      BY <1>1, <1>3, <2>1
    <3>2. QED
      BY <1>1, <1>3, <1>5, <2>1, <3>1
  <2>2. CASE i = Len(toClient) + 1
    <3>1. i \in 1..Len(c)
      BY <1>1, <1>3, <2>2
    <3>2. QED
      BY <1>3, <1>5, <2>2, <3>1
  <2>3. CASE i > Len(toClient) + 1
    <3>1. PICK k \in 1..G : i = Len(toClient) + 1 + k
      <4>1. i - (Len(toClient) + 1) \in 1..G /\ i = Len(toClient) + 1 + (i - (Len(toClient) + 1))
        BY <1>1, <1>2, <1>6, <2>3
      <4>2. QED
        BY <4>1
    <3>2. toClient'[i] = Evt(order[k]) /\ order[k] \in Gap(since, S)
      BY <1>2, <1>7, <3>1
    <3>3. i > Len(toClient)
      BY <1>1, <1>6, <2>3
    <3>4. QED
      BY <3>2, <3>3, Kinds
  <2>4. QED
    BY <1>1, <1>2, <1>6, <2>1, <2>2, <2>3
<1>9. ASSUME NEW n \in Gap(since, S) PROVE \E i \in Frames(toClient', "evt") : toClient'[i].seq = n
  <2>1. PICK k \in DOMAIN order : order[k] = n
    BY <1>1, GapIsWhole
  <2>2. /\ Len(toClient) + 1 + k \in DOMAIN toClient'
        /\ toClient'[Len(toClient) + 1 + k] = Evt(n)
    BY <1>2, <1>7, <2>1
  <2>3. toClient'[Len(toClient) + 1 + k].t = "evt" /\ toClient'[Len(toClient) + 1 + k].seq = n
    BY <2>2, Kinds
  <2>4. Len(toClient) + 1 + k \in Frames(toClient', "evt")
    BY <2>2, <2>3 DEF Frames
  <2>5. QED
    BY <2>3, <2>4
<1>10. QED
  BY <1>8, <1>9

(* The replay brings every event the client was behind of.                   *)
LEMMA ResumeCurrent == ASSUME CurrentInv, OrderInv', WithinWindow, OnResume PROVE CurrentInv'
<1> DEFINE f == toServer[1]
<1>1. /\ TypeOK /\ TypeOK' /\ LinkInv /\ OrderInv /\ NothingBeforeResume /\ Started /\ Opened /\ Asked /\ Replays
      /\ Cursor /\ Snaps /\ Shows
  BY DEF CurrentInv, LinkInv, ShownInv, OrderInv
<1>2. /\ Received("resume")
      /\ UNCHANGED <<log, chunks, pending, seq, threads, resuming, effect, active, view, loaded, last, up>>
  BY DEF OnResume, client
<1>3. Head(toServer) = f
  BY <1>1, <1>2, ReceivedFacts
<1>4. /\ up /\ Frames(toClient, "ready") = {} /\ Frames(toServer', "resume") = {}
      /\ \A i \in DOMAIN toServer' : i \in 1..(Len(toServer) - 1) /\ i + 1 \in DOMAIN toServer
                                     /\ toServer'[i] = toServer[i + 1]
      /\ 1 \in Frames(toServer, "resume")
  BY <1>1, <1>2, ServeFacts
<1>5. f.since = seq /\ ~TooOld(f.since)
  BY <1>1, <1>4 DEF Cursor, WithinWindow
<1>6. subscribed' = f.threads
  BY <1>3 DEF OnResume
<1>7. PICK order \in SetToSeqs(Gap(seq, f.threads)) : toClient' = Append(toClient, Replayed) \o Events(order)
  BY <1>3, <1>5 DEF OnResume
<1>8. Frames(toClient, "evt") = {} /\ Frames(toClient, "res") = {}
  <2>1. \A i \in DOMAIN toClient : toClient[i].t \in {"ready", "snap"}
    BY <1>1, <1>4 DEF NothingBeforeResume, Unsynced
  <2>2. QED
    BY <2>1 DEF Frames
<1>9. /\ \A i \in DOMAIN toClient' :
           \/ i \in DOMAIN toClient /\ toClient'[i] = toClient[i]
           \/ i = Len(toClient) + 1 /\ toClient'[i] = Replayed
           \/ /\ i > Len(toClient) /\ toClient'[i].t = "evt"
              /\ toClient'[i].seq \in Gap(seq, f.threads)
      /\ \A n \in Gap(seq, f.threads) : \E i \in Frames(toClient', "evt") : toClient'[i].seq = n
  BY <1>1, <1>7, ReplayFrames
<1>10. Replayed.t = "res" /\ Replayed.mode = "replay"
  BY DEF Replayed
<1>11. /\ \A i \in Frames(toClient', "snap") : i \in Frames(toClient, "snap") /\ toClient'[i] = toClient[i]
       /\ \A i \in Frames(toClient', "evt") : i > Len(toClient) /\ toClient'[i].seq \in Gap(seq, f.threads)
       /\ \A i \in Frames(toClient', "res") : toClient'[i] = Replayed
       /\ Frames(toClient', "ready") = {}
  BY <1>4, <1>8, <1>9, <1>10 DEF Frames
<1>12. Sessions' /\ Opened'
  BY <1>1, <1>2, <1>6, SessionServed
<1>13. Started' /\ Replays'
  BY <1>1, <1>2, <1>4, <1>10, <1>11 DEF Started, Replays
<1>14. seq \in Nat /\ Len(toClient) \in Nat
  BY <1>1, ChannelTypes
<1>15. Asked' /\ Cursor'
  <2>1. \A i \in DOMAIN toServer' :
          \/ i + 1 \in DOMAIN toServer /\ toServer'[i] = toServer[i + 1]
          \/ toServer'[i].t = "get" /\ toServer'[i].thread \in Known /\ active' # NoThread
    BY <1>4
  <2>2. /\ \A i \in Frames(toServer', "get") : active' # NoThread /\ toServer'[i].thread \in Known
        /\ \A i \in Frames(toServer', "resume") : toServer'[i].since = seq
    BY <1>1, <1>2, <2>1, GetsKept, 1 \in {0, 1}
  <2>3. \A i \in Frames(toClient', "evt") : seq < toClient'[i].seq
    BY <1>11, <1>14 DEF Gap
  <2>4. QED
    BY <1>1, <1>2, <1>11, <2>2, <2>3 DEF Asked, Cursor
<1>16. ASSUME NEW n \in 1..Len(log), Coming(n), log[n].thread \in Known, active # NoThread PROVE Coming(n)'
  <2>1. seq < n
    BY <1>8, <1>16 DEF Coming
  <2>2. f.threads = Known
    <3>1. 1 \in Syncs
      BY <1>4 DEF Syncs, Frames
    <3>2. QED
      BY <1>1, <1>16, <3>1 DEF Opened, Following
  <2>3. n \in Gap(seq, f.threads)
    BY <1>14, <1>16, <2>1, <2>2 DEF Gap, head
  <2>4. QED
    BY <1>9, <2>3 DEF Coming
<1>17. Snaps'
  <2>1. ASSUME NEW i \in Frames(toClient', "snap")
        PROVE  /\ \A j \in Frames(toClient', "evt") : j < i => toClient'[j].seq <= toClient'[i].seq
               /\ \A n \in EventsOf(toClient'[i].thread, Len(log)) : n > toClient'[i].seq => Coming(n)'
    <3>1. i \in Frames(toClient, "snap") /\ toClient'[i] = toClient[i] /\ i \in 1..Len(toClient)
      BY <1>1, <1>11, MoreTypes
    <3>2. \A j \in Frames(toClient', "evt") : j \in Nat /\ ~(j < i)
      <4>1. DOMAIN toClient' = 1..Len(toClient')
        BY <1>1 DEF TypeOK
      <4>2. \A j \in Frames(toClient', "evt") : j \in Nat
        BY <4>1 DEF Frames
      <4>3. QED
        BY <1>11, <1>14, <3>1, <4>2
    <3>3. active # NoThread /\ toClient[i].thread \in Known
      BY <1>1, <3>1 DEF Asked
    <3>4. ASSUME NEW n \in EventsOf(toClient'[i].thread, Len(log)), n > toClient'[i].seq PROVE Coming(n)'
      <4>1. Coming(n)
        BY <1>1, <3>1, <3>4 DEF Snaps
      <4>2. n \in 1..Len(log) /\ log[n].thread = toClient[i].thread
        BY <3>1, <3>4 DEF EventsOf
      <4>3. QED
        BY <1>16, <3>3, <4>1, <4>2
    <3>5. QED
      BY <3>2, <3>4
  <2>2. QED
    BY <1>2, <2>1 DEF Snaps, EventsOf
<1>18. Shows'
  <2>1. ASSUME loaded, NEW n \in EventsOf(active, Len(log)) PROVE n \in view \/ Coming(n)'
    <3>1. active # NoThread /\ active \in Known
      BY <1>1, <2>1 DEF Opened
    <3>2. n \in 1..Len(log) /\ log[n].thread = active
      BY <2>1 DEF EventsOf
    <3>3. QED
      BY <1>1, <1>16, <2>1, <3>1, <3>2 DEF Shows
  <2>2. QED
    BY <1>1, <1>2, <2>1 DEF Shows, EventsOf
<1>19. QED
  BY <1>12, <1>13, <1>15, <1>17, <1>18 DEF CurrentInv, LinkInv, ShownInv

(* Flushing adds text, and nothing but text.                                 *)
LEMMA FlushedFrames ==
  ASSUME OrderInv, NEW c, c = toClient \o Flushed
  PROVE  /\ c \in Seq(ServerFrame) /\ Len(c) \in Nat /\ DOMAIN c = 1..Len(c) /\ Len(c) >= Len(toClient)
         /\ \A i \in DOMAIN toClient : i \in DOMAIN c /\ c[i] = toClient[i]
         /\ \A i \in DOMAIN c : i \in DOMAIN toClient \/ (i > Len(toClient) /\ c[i].t = "delta")
         /\ \A t : t # "delta" => Frames(c, t) = Frames(toClient, t)
<1>1. TypeOK
  BY DEF OrderInv
<1>2. /\ toClient \in Seq(ServerFrame) /\ Len(toClient) \in Nat /\ DOMAIN toClient = 1..Len(toClient)
      /\ Len(pending) \in Nat
  BY <1>1, ChannelTypes
<1>3. /\ Flushed \in Seq(ServerFrame) /\ Len(Flushed) = Len(pending)
      /\ \A i \in 1..Len(pending) : Flushed[i] = Delta(pending[i])
  BY <1>1, FlushedFacts
<1>4. /\ c \in Seq(ServerFrame) /\ Len(c) = Len(toClient) + Len(Flushed)
      /\ \A i \in 1..Len(toClient) : c[i] = toClient[i]
      /\ \A i \in 1..Len(Flushed) : c[Len(toClient) + i] = Flushed[i]
  <2>1. toClient \in Seq(ServerFrame) /\ Flushed \in Seq(ServerFrame)
    BY <1>2, <1>3
  <2>2. QED
    BY ONLY <2>1, ConcatFacts, c = toClient \o Flushed
<1>5. DOMAIN c = 1..(Len(toClient) + Len(pending)) /\ Len(c) = Len(toClient) + Len(pending)
  BY <1>3, <1>4, ElementsOf
<1>6. \A i \in DOMAIN toClient : i \in DOMAIN c /\ c[i] = toClient[i]
  BY <1>2, <1>4, <1>5
<1>7. ASSUME NEW i \in DOMAIN c, i \notin DOMAIN toClient PROVE i > Len(toClient) /\ c[i].t = "delta"
  <2>1. i - Len(toClient) \in 1..Len(pending) /\ i = Len(toClient) + (i - Len(toClient)) /\ i > Len(toClient)
    BY <1>2, <1>5, <1>7
  <2>2. c[i] = Delta(pending[i - Len(toClient)])
    BY <1>3, <1>4, <2>1
  <2>3. QED
    BY <2>1, <2>2, Kinds
<1>8. \A t : t # "delta" => Frames(c, t) = Frames(toClient, t)
  BY <1>6, <1>7 DEF Frames
<1>9. QED
  BY <1>2, <1>4, <1>5, <1>6, <1>7, <1>8

(* A pushed event is behind the text that was pending.                       *)
LEMMA PushedFrames ==
  ASSUME OrderInv, TypeOK', Len(log') = Len(log) + 1,
         toClient' = (toClient \o Flushed) \o <<Evt(Len(log) + 1)>>
  PROVE  /\ \A i \in DOMAIN toClient : i \in DOMAIN toClient' /\ toClient'[i] = toClient[i]
         /\ \A i \in DOMAIN toClient' :
              \/ i \in DOMAIN toClient
              \/ i > Len(toClient) /\ toClient'[i].t = "delta"
              \/ i > Len(toClient) /\ toClient'[i].t = "evt" /\ toClient'[i].seq = Len(log) + 1
         /\ \E i \in Frames(toClient', "evt") : toClient'[i].seq = Len(log) + 1
<1> DEFINE c == toClient \o Flushed
           e == Evt(Len(log) + 1)
<1>1. /\ c \in Seq(ServerFrame) /\ Len(c) \in Nat /\ DOMAIN c = 1..Len(c) /\ Len(c) >= Len(toClient)
      /\ \A i \in DOMAIN toClient : i \in DOMAIN c /\ c[i] = toClient[i]
      /\ \A i \in DOMAIN c : i \in DOMAIN toClient \/ (i > Len(toClient) /\ c[i].t = "delta")
  BY FlushedFrames
<1>2. Len(toClient) \in Nat
  BY ChannelTypes DEF OrderInv
<1>3. toClient' = c \o <<e>> /\ e.t = "evt" /\ e.seq = Len(log) + 1
  BY Kinds
<1> HIDE DEF c, e
<1>4. /\ DOMAIN toClient' = 1..(Len(c) + 1)
      /\ \A i \in 1..Len(c) : toClient'[i] = c[i]
      /\ toClient'[Len(c) + 1] = e
  BY <1>1, <1>3
<1>5. \A i \in DOMAIN toClient' : i \in DOMAIN c \/ i = Len(c) + 1
  BY <1>1, <1>4
<1>6. Len(c) + 1 \in Frames(toClient', "evt")
  BY <1>1, <1>3, <1>4 DEF Frames
<1>7. Len(c) + 1 > Len(toClient)
  BY <1>1, <1>2
<1>8. \A i \in DOMAIN toClient : i \in DOMAIN toClient' /\ toClient'[i] = toClient[i]
  BY <1>1, <1>4
<1>9. QED
  BY <1>1, <1>3, <1>4, <1>5, <1>6, <1>7, <1>8

(* What only adds frames that are neither greetings, events, answers nor     *)
(* snapshots changes nothing.                                                *)
LEMMA TickCurrent == ASSUME CurrentInv, OrderInv', Tick PROVE CurrentInv'
<1>1. TypeOK /\ OrderInv /\ Sessions /\ Started /\ Opened /\ Asked /\ Replays /\ Cursor /\ Snaps /\ Shows
  BY DEF CurrentInv, LinkInv, ShownInv, OrderInv
<1>2. /\ toClient' = toClient \o Flushed
      /\ UNCHANGED <<log, chunks, subscribed, seq, threads, resuming, effect, active, view, loaded, last, up,
                     toServer>>
  BY DEF Tick, client
<1>3. /\ \A t : t # "delta" => Frames(toClient', t) = Frames(toClient, t)
      /\ \A i \in DOMAIN toClient : toClient'[i] = toClient[i]
  BY <1>1, <1>2, FlushedFrames
<1>4. /\ Frames(toClient', "ready") = Frames(toClient, "ready") /\ Frames(toClient', "evt") = Frames(toClient, "evt")
      /\ Frames(toClient', "snap") = Frames(toClient, "snap") /\ Frames(toClient', "res") = Frames(toClient, "res")
      /\ \A t : \A i \in Frames(toClient, t) : toClient'[i] = toClient[i]
  BY <1>3 DEF Frames
<1>5. Behind' = Behind
  BY <1>2, <1>4 DEF Behind, Unsynced
<1>6. \A n : Coming(n) => Coming(n)'
  BY <1>2, <1>4, <1>5 DEF Coming
<1>7. Sessions' /\ Started' /\ Opened' /\ Asked'
  BY <1>1, <1>2, <1>4, <1>5 DEF Sessions, Started, Opened, Asked, Following, Syncs
<1>8. Replays' /\ Cursor'
  BY <1>1, <1>2, <1>4 DEF Replays, Cursor
<1>9. Snaps'
  <2>1. \A i \in Frames(toClient', "snap") :
          /\ \A j \in Frames(toClient', "evt") : j < i => toClient'[j].seq <= toClient'[i].seq
          /\ \A n \in EventsOf(toClient'[i].thread, Len(log)) : n > toClient'[i].seq => Coming(n)'
    BY <1>1, <1>4, <1>6 DEF Snaps
  <2>2. QED
    BY <1>2, <2>1 DEF Snaps, EventsOf
<1>10. Shows'
  BY <1>1, <1>2, <1>6 DEF Shows, EventsOf
<1>11. QED
  BY <1>7, <1>8, <1>9, <1>10 DEF CurrentInv, LinkInv, ShownInv

(* Streaming touches nothing of it.                                          *)
LEMMA SameCurrent ==
  ASSUME CurrentInv, OrderInv',
         UNCHANGED <<log, subscribed, seq, threads, active, view, loaded, up, toClient, toServer>>
  PROVE  CurrentInv'
<1>1. Sessions /\ Started /\ Opened /\ Asked /\ Replays /\ Cursor /\ Snaps /\ Shows
  BY DEF CurrentInv, LinkInv, ShownInv
<1>2. Sessions' /\ Started' /\ Opened' /\ Asked'
  BY <1>1 DEF Sessions, Started, Opened, Asked, Following, Behind, Unsynced, Syncs
<1>3. Replays' /\ Cursor'
  BY <1>1 DEF Replays, Cursor
<1>4. \A n : Coming(n) => Coming(n)'
  BY DEF Coming, Behind, Unsynced
<1>5. Shows'
  BY <1>1, <1>4 DEF Shows, EventsOf
<1>6. Snaps'
  <2>1. \A i \in Frames(toClient', "snap") :
          /\ \A j \in Frames(toClient', "evt") : j < i => toClient'[j].seq <= toClient'[i].seq
          /\ \A n \in EventsOf(toClient'[i].thread, Len(log)) : n > toClient'[i].seq => Coming(n)'
    BY <1>1, <1>4 DEF Snaps
  <2>2. QED
    BY <2>1 DEF Snaps, EventsOf
<1>7. QED
  BY <1>2, <1>3, <1>5, <1>6 DEF CurrentInv, LinkInv, ShownInv

(* An event of a known thread is pushed, or in the next replay.              *)
LEMMA CommitCurrent ==
  ASSUME CurrentInv, OrderInv', NEW u \in Threads, Commit(u)
  PROVE  CurrentInv'
<1>1. /\ TypeOK /\ TypeOK' /\ OrderInv /\ NothingBeforeResume /\ Sessions /\ Started /\ Opened /\ Asked /\ Replays
      /\ Cursor /\ Snaps /\ Shows
  BY DEF CurrentInv, LinkInv, ShownInv, OrderInv
<1>2. UNCHANGED <<chunks, subscribed, seq, threads, resuming, effect, active, view, loaded, last, up, toServer>>
  BY DEF Commit, client
<1>3. Len(log) \in Nat /\ seq \in 0..Len(log) /\ Len(toClient) \in Nat /\ DOMAIN toClient = 1..Len(toClient)
  BY <1>1, ChannelTypes
<1>m. PICK m \in Nat : m = Len(log) + 1
  BY <1>3
<1>4. Len(log') = m /\ (\A i \in 1..Len(log) : log'[i] = log[i]) /\ log'[m].thread = u
  <2>1. log \in Seq([thread: Threads \cup {Env}, text: Nat])
    BY <1>1 DEF TypeOK
  <2>2. [thread |-> u, text |-> chunks[u]] \in [thread: Threads \cup {Env}, text: Nat]
    BY <1>1, ChannelTypes
  <2>3. log' = Append(log, [thread |-> u, text |-> chunks[u]])
    BY ThreadsAssumption DEF Commit
  <2>4. QED
    BY <1>m, <2>1, <2>2, <2>3, AppendFacts
<1>5. \A v : /\ EventsOf(v, Len(log)) \subseteq EventsOf(v, Len(log))'
             /\ \A n \in EventsOf(v, Len(log))' : n \in EventsOf(v, Len(log)) \/ (n = m /\ v = u)
  <2>1. \A n \in 1..m : n \in 1..Len(log) \/ n = m
    BY <1>3, <1>m
  <2>2. 1..Len(log) \subseteq 1..m /\ m \in 1..m
    BY <1>3, <1>m
  <2>3. QED
    BY <1>4, <2>1, <2>2 DEF EventsOf
<1> DEFINE pushed == up /\ u \in subscribed
<1>6. /\ pushed => toClient' = (toClient \o Flushed) \o <<Evt(m)>>
      /\ ~pushed => toClient' = toClient
  BY <1>m, ThreadsAssumption DEF Commit, Relevant
<1>7. /\ \A i \in DOMAIN toClient : i \in DOMAIN toClient' /\ toClient'[i] = toClient[i]
      /\ \A i \in DOMAIN toClient' :
           \/ i \in DOMAIN toClient
           \/ i > Len(toClient) /\ toClient'[i].t = "delta"
           \/ i > Len(toClient) /\ toClient'[i].t = "evt" /\ toClient'[i].seq = m
      /\ pushed => \E i \in Frames(toClient', "evt") : toClient'[i].seq = m
  <2>1. CASE ~pushed
    BY <1>6, <2>1
  <2>2. CASE pushed
    BY <1>1, <1>3, <1>m, <1>4, <1>6, <2>2, PushedFrames
  <2>3. QED
    BY <2>1, <2>2
<1> HIDE DEF pushed
<1>8. /\ \A t : \A i \in Frames(toClient, t) : i \in Frames(toClient', t) /\ toClient'[i] = toClient[i]
      /\ \A i \in Frames(toClient', "ready") : i \in Frames(toClient, "ready") /\ toClient'[i] = toClient[i]
      /\ \A i \in Frames(toClient', "snap") : i \in Frames(toClient, "snap") /\ toClient'[i] = toClient[i]
      /\ \A i \in Frames(toClient', "res") : i \in Frames(toClient, "res") /\ toClient'[i] = toClient[i]
      /\ \A i \in Frames(toClient', "evt") :
           \/ i \in Frames(toClient, "evt") /\ toClient'[i] = toClient[i]
           \/ i > Len(toClient) /\ toClient'[i].seq = m
  BY <1>7 DEF Frames
<1>9. Behind' = Behind
  <2>1. Frames(toClient', "ready") = Frames(toClient, "ready")
    BY <1>8
  <2>2. QED
    BY <1>2, <2>1 DEF Behind, Unsynced
<1>10. \A n : Coming(n) => Coming(n)'
  BY <1>2, <1>8, <1>9 DEF Coming
<1>11. ASSUME active # NoThread, u \in Known PROVE Coming(m)'
  <2>1. CASE Behind
    BY <1>2, <1>3, <1>m, <1>9, <2>1 DEF Coming
  <2>2. CASE ~Behind
    <3>1. pushed
      BY <1>1, <1>11, <2>2 DEF Opened, Behind, pushed
    <3>2. QED
      BY <1>7, <3>1 DEF Coming
  <2>3. QED
    BY <2>1, <2>2
<1>12. Sessions' /\ Opened'
  BY <1>1, <1>2, <1>9 DEF Sessions, Opened, Following, Syncs
<1>13. Started' /\ Asked' /\ Replays'
  <2>1. Len(log)' # 0
    BY <1>3, <1>m, <1>4
  <2>2. Frames(toClient', "ready") = {} => Frames(toClient, "ready") = {}
    BY <1>8
  <2>3. QED
    BY <1>1, <1>2, <1>8, <2>1, <2>2 DEF Started, Asked, Replays
<1>14. Cursor'
  BY <1>1, <1>2, <1>3, <1>m, <1>8 DEF Cursor
<1>15. Snaps'
  <2>1. ASSUME NEW i \in Frames(toClient', "snap")
        PROVE  /\ \A j \in Frames(toClient', "evt") : j < i => toClient'[j].seq <= toClient'[i].seq
               /\ \A n \in EventsOf(toClient[i].thread, Len(log))' : n > toClient'[i].seq => Coming(n)'
    <3>1. i \in Frames(toClient, "snap") /\ toClient'[i] = toClient[i] /\ i \in 1..Len(toClient)
      BY <1>1, <1>8, MoreTypes
    <3>2. \A j \in Frames(toClient', "evt") : j < i => j \in Frames(toClient, "evt") /\ toClient'[j] = toClient[j]
      <4>1. DOMAIN toClient' = 1..Len(toClient')
        BY <1>1 DEF TypeOK
      <4>2. \A j \in Frames(toClient', "evt") : j \in Nat
        BY <4>1 DEF Frames
      <4>3. QED
        BY <1>3, <1>8, <3>1, <4>2
    <3>3. active # NoThread /\ toClient[i].thread \in Known
      BY <1>1, <3>1 DEF Asked
    <3>4. QED
      BY <1>1, <1>5, <1>10, <1>11, <3>1, <3>2, <3>3 DEF Snaps
  <2>2. QED
    BY <1>8, <2>1 DEF Snaps, EventsOf
<1>16. Shows'
  <2>1. \A v : EventsOf(v, Len(log))' = {n \in 1..Len(log') : log'[n].thread = v}
    BY DEF EventsOf
  <2>2. view \subseteq EventsOf(active, Len(log))
    BY <1>1 DEF Shows
  <2>3. ASSUME loaded, NEW n \in {n \in 1..Len(log') : log'[n].thread = active} PROVE n \in view \/ Coming(n)'
    <3>1. active # NoThread /\ active \in Known
      BY <1>1, <2>3 DEF Opened
    <3>2. n \in EventsOf(active, Len(log)) \/ (n = m /\ active = u)
      BY <1>4, <1>5, <2>3 DEF EventsOf
    <3>3. QED
      BY <1>1, <1>10, <1>11, <2>3, <3>1, <3>2 DEF Shows
  <2>4. view \subseteq {n \in 1..Len(log') : log'[n].thread = active}
    BY <1>5, <2>1, <2>2
  <2>5. QED
    BY <1>2, <2>3, <2>4 DEF Shows, EventsOf
<1>17. QED
  BY <1>12, <1>13, <1>14, <1>15, <1>16 DEF CurrentInv, LinkInv, ShownInv

(* Every step keeps a loaded transcript current.                             *)
LEMMA CurrentStep ==
  ASSUME Env \notin Sources, Overlaps = {}
  PROVE  CurrentInv /\ WithinWindow /\ [Next]_vars => CurrentInv'
<1> SUFFICES ASSUME CurrentInv, WithinWindow, [Next]_vars PROVE CurrentInv'
  OBVIOUS
<1>1. OrderInv'
  BY OrderStep DEF CurrentInv, LinkInv
<1>2. CASE UNCHANGED vars
  BY <1>1, <1>2, SameCurrent DEF vars, server, client
<1>3. ASSUME NEW u \in Threads \cup {Env}, Commit(u) PROVE CurrentInv'
  BY <1>1, <1>3, CommitCurrent DEF Commit
<1>4. ASSUME NEW u \in Threads, Stream(u) PROVE CurrentInv'
  BY <1>1, <1>4, SameCurrent DEF Stream, client
<1>5. ASSUME NEW u \in Threads, OpenThread(u) PROVE CurrentInv'
  BY <1>1, <1>5, OpenCurrent
<1>6. CASE Serve
  BY <1>1, <1>6, SubCurrent, GetCurrent, ResumeCurrent DEF Serve
<1>7. CASE Handle
  BY <1>1, <1>7, ReadyCurrent, EventCurrent, DeltaCurrent, ResumedCurrent, SnapshotCurrent DEF Handle
<1>8. CASE Tick \/ Connect \/ Drop \/ ResumeTimesOut \/ Subscribe
  BY <1>1, <1>8, TickCurrent, ConnectCurrent, DropCurrent, TimeoutCurrent, SubscribeCurrent
<1>9. QED
  BY <1>2, <1>3, <1>4, <1>5, <1>6, <1>7, <1>8 DEF Next

(* For as long as no resume is too old for the replay window, a transcript   *)
(* that was loaded is the whole history of its thread whenever nothing is on *)
(* its way: whatever a dropped socket swallowed has come back.               *)
THEOREM FeedCurrentWithinWindow ==
  ASSUME Env \notin Sources, Overlaps = {}
  PROVE  Spec /\ []WithinWindow => []Current
<1>1. Init => CurrentInv
  BY CurrentInit
<1>2. CurrentInv /\ WithinWindow /\ [Next]_vars => CurrentInv'
  BY CurrentStep
<1>3. CurrentInv => Current
  BY CurrentImplies
<1>4. QED
  BY <1>1, <1>2, <1>3, PTL DEF Spec

(* A window that the log fits in is never too short.                         *)
Fits == TypeOK /\ Len(log) <= Window

LEMMA FitsStep ==
  ASSUME MaxEvents <= Window
  PROVE  Fits /\ [Next]_vars => Fits'
<1> SUFFICES ASSUME Fits, [Next]_vars PROVE Fits'
  OBVIOUS
<1>1. TypeOK /\ TypeOK' /\ Len(log) \in Nat /\ MaxEvents \in Nat /\ Window \in Nat
  BY TypeStep, ChannelTypes, FeedBounds DEF Fits
<1>2. ASSUME NEW u \in Threads \cup {Env}, Commit(u) PROVE Len(log') <= Window
  <2>1. Len(log) < MaxEvents /\ Len(log') = Len(log) + 1
    BY <1>1, <1>2 DEF Commit, TypeOK
  <2>2. QED
    BY <1>1, <2>1
<1>3. log' = log \/ \E u \in Threads \cup {Env} : Commit(u)
  BY DEF Next, vars, server, Stream, OpenThread, Tick, Serve, OnSub, OnResume, OnGetThread, Handle, OnReady,
         OnEvent, OnDelta, OnResumed, OnSnapshot, Connect, Drop, ResumeTimesOut, Subscribe
<1>4. QED
  BY <1>1, <1>2, <1>3 DEF Fits

(* So in every run whose log fits in the window, the threads that exist at   *)
(* the start included, a loaded transcript is current.                       *)
THEOREM FeedCurrent ==
  ASSUME Env \notin Sources, Overlaps = {}, MaxEvents <= Window, Cardinality(Threads) <= Window
  PROVE  Spec => []Current
<1>1. Init => Fits
  <2> SUFFICES ASSUME Init PROVE Fits
    OBVIOUS
  <2>1. TypeOK /\ Len(log) \in Nat /\ DOMAIN log = 1..Len(log)
    BY TypeInit, ChannelTypes
  <2>2. PICK order \in SetToSeqs(Threads) :
          log = [i \in DOMAIN order |-> [thread |-> order[i], text |-> 0]]
    BY DEF Init
  <2>3. Cardinality(Threads) \in Nat
    BY ThreadsAssumption, FS_CardinalityType
  <2>4. order \in [1..Cardinality(Threads) -> Threads]
    BY <2>2 DEF SetToSeqs
  <2>5. DOMAIN log = 1..Cardinality(Threads)
    BY <2>2, <2>4
  <2>6. Len(log) = Cardinality(Threads)
    BY <2>1, <2>3, <2>5
  <2>7. QED
    BY <2>1, <2>6 DEF Fits
<1>2. Fits /\ [Next]_vars => Fits'
  BY FitsStep
<1>3. Fits => WithinWindow
  <2> SUFFICES ASSUME Fits, NEW i \in Frames(toServer, "resume") PROVE ~TooOld(toServer[i].since)
    BY DEF WithinWindow
  <2>1. toServer[i].since \in 1..Len(log) /\ Len(log) \in Nat /\ Len(log) <= Window /\ Window \in Nat
    BY ChannelTypes, FeedBounds DEF Fits
  <2>2. QED
    BY <2>1 DEF TooOld, head
<1>4. Spec /\ []WithinWindow => []Current
  BY FeedCurrentWithinWindow
<1>5. QED
  BY <1>1, <1>2, <1>3, <1>4, PTL DEF Spec
=============================================================================
