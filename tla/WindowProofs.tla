---------------------------- MODULE WindowProofs ----------------------------
(***************************************************************************)
(* What a window shows is so, with the constants of each part as           *)
(* parameters: the updates on offer, commits and pushes, the panes of a    *)
(* thread, the welcome screen and the dialog that adds a project.          *)
(***************************************************************************)
EXTENDS DaemonParts, TLAPS

-----------------------------------------------------------------------------
(* Updates                                                                  *)

(* A package's first release is there, and a later one with other numbers   *)
(* has greater ones.                                                        *)
InOrder(R) ==
  /\ DOMAIN R \subseteq Nat \ {0} /\ 1 \in DOMAIN R
  /\ R \in [DOMAIN R -> [core : Nat \X Nat, pre : BOOLEAN]]
  /\ \A m, n \in DOMAIN R : m < n /\ R[m].core # R[n].core =>
       IF R[n].core[1] # R[m].core[1] THEN R[n].core[1] > R[m].core[1]
       ELSE R[n].core[2] > R[m].core[2]

(* Such are 1.9.0, 1.10.0-beta and 1.10.0.                                  *)
LEMMA ThreeInOrder ==
  InOrder(<<[core |-> <<1, 9>>, pre |-> FALSE], [core |-> <<1, 10>>, pre |-> TRUE],
            [core |-> <<1, 10>>, pre |-> FALSE]>>)
<1>1. PICK a, b, c : /\ a = [core |-> <<1, 9>>, pre |-> FALSE]
                     /\ b = [core |-> <<1, 10>>, pre |-> TRUE]
                     /\ c = [core |-> <<1, 10>>, pre |-> FALSE]
  OBVIOUS
<1>2. /\ a \in [core : Nat \X Nat, pre : BOOLEAN] /\ a.core = <<1, 9>>
      /\ b \in [core : Nat \X Nat, pre : BOOLEAN] /\ b.core = <<1, 10>>
      /\ c \in [core : Nat \X Nat, pre : BOOLEAN] /\ c.core = <<1, 10>>
  BY <1>1
<1>3. PICK R : R = <<a, b, c>>
  OBVIOUS
<1>4. DOMAIN R = 1..3 /\ R[1] = a /\ R[2] = b /\ R[3] = c /\ R = [n \in 1..3 |-> R[n]]
  BY <1>3
<1>5. R \in [1..3 -> [core : Nat \X Nat, pre : BOOLEAN]]
  BY <1>2, <1>4
<1>6. ASSUME NEW m \in 1..3, NEW n \in 1..3, m < n, R[m].core # R[n].core
      PROVE  R[m].core = <<1, 9>> /\ R[n].core = <<1, 10>>
  BY <1>6, <1>2, <1>4
<1>7. InOrder(R)
  BY <1>4, <1>5, <1>6 DEF InOrder
<1>8. QED
  BY <1>1, <1>3, <1>7

MaybeRelease(R) == DOMAIN R \cup {0}
UpOffers(P, R) == [of : P, to : DOMAIN R]
UpWorlds(P, R) ==
  [latest : [P -> DOMAIN R], installed : [P -> MaybeRelease(R)], now : Nat, upgraded : SUBSET P]
UpCaches(P, R) == [at : Nat, versions : [P -> MaybeRelease(R)], there : BOOLEAN]
UpRequests(P, R) ==
  [at : {"no", "asked", "cache", "lookup", "answered", "over"},
   installed : [P -> MaybeRelease(R)], versions : [P -> MaybeRelease(R)], left : SUBSET P,
   updates : SUBSET UpOffers(P, R)]
UpWins(P, R) ==
  [open : BOOLEAN, asks : Nat, updates : SUBSET UpOffers(P, R), dismissed : SUBSET UpOffers(P, R)]

UpTyped(P, R, N) ==
  /\ x1 \in UpWorlds(P, R) /\ x2 \in UpCaches(P, R) /\ x3 \in [1..N -> UpRequests(P, R)]
  /\ x4 \in UpWins(P, R) /\ x5 \in Nat

(* What was read from npm, or from the file, has come out.                  *)
CameOut(P, N) ==
  \A p \in P :
    /\ x2.versions[p] <= x1.latest[p]
    /\ \A c \in 1..N : x3[c].versions[p] <= x1.latest[p]

(* A request that has not looked up yet knows no version; what it answers   *)
(* has come out, and is newer than what it saw installed.                   *)
AnswersAreNewer(N) ==
  \A c \in 1..N : \A u \in x3[c].updates :
    u.to <= x1.latest[u.of] /\ u.to > x3[c].installed[u.of]

BehindOf(R, c, p) ==
  /\ x3[c].installed[p] # 0 /\ x3[c].versions[p] > x3[c].installed[p]
  /\ R[x3[c].installed[p]].core # R[x3[c].versions[p]].core
AnswersAreWhole(P, R, N) ==
  \A c \in 1..N :
    /\ x3[c].at \in {"no", "asked", "cache"} =>
         x3[c].updates = {} /\ \A p \in P : x3[c].versions[p] = 0
    /\ x3[c].at \in {"answered", "over"} =>
         \A p \in P : BehindOf(R, c, p) => \E u \in x3[c].updates : u.of = p

(* The request a window waits for saw what is installed, but for what was   *)
(* changed since; what the window shows is from it.                         *)
AskedSees(P, N) ==
  /\ ~x4.open => x4.asks = 0 /\ x4.updates = {}
  /\ x4.open => x4.asks \in 1..N /\ x3[x4.asks].at # "no"
  /\ x4.open /\ x3[x4.asks].at # "asked" =>
       \A p \in P : p \in x1.upgraded \/ x3[x4.asks].installed[p] = x1.installed[p]
OffersAreNewerNow ==
  \A u \in x4.updates :
    u.to <= x1.latest[u.of] /\ (u.of \in x1.upgraded \/ u.to > x1.installed[u.of])

UpInv(P, R, N) ==
  /\ UpTyped(P, R, N) /\ CameOut(P, N) /\ AnswersAreNewer(N) /\ AnswersAreWhole(P, R, N)
  /\ AskedSees(P, N) /\ OffersAreNewerNow

LEMMA NewerIsLater ==
  ASSUME NEW P, NEW R, InOrder(R), NEW t, NEW tt, NEW N, NEW k, NEW m \in DOMAIN R, NEW n \in DOMAIN R
  PROVE  /\ Upd(P, R, t, tt, N, k)!IsNewer(n, m) => n > m
         /\ n > m /\ R[m].core # R[n].core => Upd(P, R, t, tt, N, k)!IsNewer(n, m)
<1> USE DEF Upd!IsNewer, Upd!Core
<1>1. /\ m \in Nat /\ n \in Nat
      /\ R[m].core[1] \in Nat /\ R[m].core[2] \in Nat /\ R[n].core[1] \in Nat /\ R[n].core[2] \in Nat
  <2>1. R[m] \in [core : Nat \X Nat, pre : BOOLEAN] /\ R[n] \in [core : Nat \X Nat, pre : BOOLEAN]
    BY DEF InOrder
  <2>2. QED
    BY <2>1 DEF InOrder
<1>2. CASE n < m
  <2>1. CASE R[m].core = R[n].core
    BY <2>1, <1>1, <1>2
  <2>2. CASE R[m].core # R[n].core
    <3>1. IF R[m].core[1] # R[n].core[1] THEN R[m].core[1] > R[n].core[1] ELSE R[m].core[2] > R[n].core[2]
      BY <2>2, <1>2 DEF InOrder
    <3>2. QED
      BY <3>1, <1>1, <1>2
  <2>3. QED
    BY <2>1, <2>2
<1>3. CASE n = m
  BY <1>3, <1>1
<1>4. CASE n > m
  <2>1. R[m].core # R[n].core => IF R[n].core[1] # R[m].core[1] THEN R[n].core[1] > R[m].core[1] ELSE R[n].core[2] > R[m].core[2]
    BY <1>4 DEF InOrder
  <2>2. QED
    BY <2>1, <1>4
<1>5. QED
  BY <1>1, <1>2, <1>3, <1>4

OffersAll(P, R, i, v, U) ==
  /\ U \in SUBSET UpOffers(P, R)
  /\ \A u \in U : u.to = v[u.of] /\ u.to > i[u.of]
  /\ \A p \in P : i[p] # 0 /\ v[p] > i[p] /\ R[i[p]].core # R[v[p]].core =>
       \E u \in U : u.of = p

(* What is offered is newer than what was seen, and all that is behind is.  *)
LEMMA UpdatesFromIs ==
  ASSUME NEW P, NEW R, InOrder(R), NEW t, NEW tt, NEW N, NEW k,
         NEW i \in [P -> MaybeRelease(R)], NEW v \in [P -> MaybeRelease(R)],
         NEW U, U = Upd(P, R, t, tt, N, k)!UpdatesFrom(i, v)
  PROVE  OffersAll(P, R, i, v, U)
<1>d. DOMAIN R \subseteq Nat \ {0}
  BY DEF InOrder
<1>1. \A p \in P : i[p] # 0 => i[p] \in DOMAIN R
  BY DEF MaybeRelease
<1>2. \A p \in P : v[p] # 0 => v[p] \in DOMAIN R
  BY DEF MaybeRelease
<1>3. U = {[of |-> p, to |-> v[p]] :
             p \in {q \in P : i[q] # 0 /\ v[q] # 0 /\ Upd(P, R, t, tt, N, k)!IsNewer(v[q], i[q])}}
  BY DEF Upd!UpdatesFrom, Upd!None
<1>4. ASSUME NEW u \in U
      PROVE  u \in UpOffers(P, R) /\ u.to = v[u.of] /\ u.to > i[u.of]
  <2>1. PICK p \in P : /\ u = [of |-> p, to |-> v[p]] /\ i[p] # 0 /\ v[p] # 0
                       /\ Upd(P, R, t, tt, N, k)!IsNewer(v[p], i[p])
    BY <1>3, <1>4
  <2>2. v[p] > i[p]
    BY <2>1, <1>1, <1>2, NewerIsLater
  <2>3. QED
    BY <2>1, <2>2, <1>2 DEF UpOffers
<1>5. ASSUME NEW p \in P, i[p] # 0, v[p] > i[p], R[i[p]].core # R[v[p]].core
      PROVE  \E u \in U : u.of = p
  <2>1. i[p] \in DOMAIN R
    BY <1>5, <1>1
  <2>2. v[p] # 0
    BY <2>1, <1>5, <1>d
  <2>3. Upd(P, R, t, tt, N, k)!IsNewer(v[p], i[p])
    BY <2>1, <2>2, <1>2, <1>5, NewerIsLater
  <2>4. [of |-> p, to |-> v[p]] \in U
    BY <1>3, <1>5, <2>2, <2>3
  <2>5. QED
    BY <2>4
<1>6. QED
  BY <1>4, <1>5 DEF OffersAll

LEMMA UpStarts ==
  ASSUME NEW P, NEW R, InOrder(R), NEW t, NEW tt, NEW N \in Nat, NEW k,
         Upd(P, R, t, tt, N, k)!Init
  PROVE  UpInv(P, R, N)
<1> USE DEF Upd!Init, Upd!Nothing, Upd!NoCall, Upd!None, MaybeRelease
<1>1. UpTyped(P, R, N)
  BY DEF UpTyped, UpWorlds, UpCaches, UpRequests, UpWins, InOrder
<1>2. CameOut(P, N) /\ AnswersAreNewer(N) /\ AnswersAreWhole(P, R, N) /\ AskedSees(P, N)
      /\ OffersAreNewerNow
  BY DEF CameOut, AnswersAreNewer, AnswersAreWhole, AskedSees, OffersAreNewerNow
<1>3. QED
  BY <1>1, <1>2 DEF UpInv

LEMMA WorldMoves ==
  ASSUME NEW P, NEW R, InOrder(R), NEW t, NEW tt, NEW N \in Nat, NEW k, UpInv(P, R, N),
         \/ \E p \in P : \/ Upd(P, R, t, tt, N, k)!Publish(p)
                         \/ Upd(P, R, t, tt, N, k)!Install(p)
         \/ Upd(P, R, t, tt, N, k)!Time
  PROVE  UpInv(P, R, N)'
<1> USE DEF UpInv, Upd!Clicks, Upd!Numbers, Upd!Stable
<1>d. DOMAIN R \subseteq Nat /\ \A x \in MaybeRelease(R) : x \in Nat
  BY DEF InOrder, MaybeRelease
<1>t. x1 \in UpWorlds(P, R) /\ x5 \in Nat
  BY DEF UpTyped
<1>1. ASSUME NEW p \in P, Upd(P, R, t, tt, N, k)!Publish(p) PROVE UpInv(P, R, N)'
  <2>1. PICK n \in DOMAIN R : n > x1.latest[p] /\ x1' = [x1 EXCEPT !.latest[p] = n]
    BY <1>1 DEF Upd!Publish
  <2>2. UNCHANGED <<x2, x3, x4>> /\ x5' = x5 + 1
    BY <1>1 DEF Upd!Publish
  <2>3. /\ x1'.latest = [x1.latest EXCEPT ![p] = n]
        /\ x1'.installed = x1.installed /\ x1'.upgraded = x1.upgraded /\ x1'.now = x1.now
        /\ x1' \in UpWorlds(P, R)
    BY <2>1, <1>t DEF UpWorlds
  <2>4. \A q \in P : x1.latest[q] \in Nat /\ x1'.latest[q] \in Nat /\ x1.latest[q] <= x1'.latest[q]
    BY <2>1, <2>3, <1>t, <1>d DEF UpWorlds
  <2>5. UpTyped(P, R, N)'
    BY <2>2, <2>3, <1>t DEF UpTyped
  <2>6. CameOut(P, N)'
    <3>1. \A q \in P : x2.versions[q] \in Nat /\ \A c \in 1..N : x3[c].versions[q] \in Nat
      BY <1>d DEF UpTyped, UpCaches, UpRequests
    <3>2. QED
      BY <2>2, <2>4, <3>1 DEF CameOut
  <2>7. AnswersAreNewer(N)'
    <3>1. \A c \in 1..N : \A u \in x3[c].updates : u.of \in P /\ u.to \in Nat
      BY <1>d DEF UpTyped, UpRequests, UpOffers
    <3>2. QED
      BY <2>2, <2>4, <3>1 DEF AnswersAreNewer
  <2>8. OffersAreNewerNow'
    <3>1. \A u \in x4.updates : u.of \in P /\ u.to \in Nat
      BY <1>d DEF UpTyped, UpWins, UpOffers
    <3>2. QED
      BY <2>2, <2>3, <2>4, <3>1 DEF OffersAreNewerNow
  <2>9. AnswersAreWhole(P, R, N)' /\ AskedSees(P, N)'
    BY <2>2, <2>3 DEF AnswersAreWhole, BehindOf, AskedSees
  <2>10. QED
    BY <2>5, <2>6, <2>7, <2>8, <2>9
<1>2. ASSUME NEW p \in P, Upd(P, R, t, tt, N, k)!Install(p) PROVE UpInv(P, R, N)'
  <2>1. PICK n \in DOMAIN R : x1' = [x1 EXCEPT !.installed[p] = n, !.upgraded = @ \cup {p}]
    BY <1>2 DEF Upd!Install
  <2>2. UNCHANGED <<x2, x3, x4>> /\ x5' = x5 + 1
    BY <1>2 DEF Upd!Install
  <2>3. /\ x1'.installed = [x1.installed EXCEPT ![p] = n]
        /\ x1'.latest = x1.latest /\ x1'.upgraded = x1.upgraded \cup {p} /\ x1'.now = x1.now
        /\ x1' \in UpWorlds(P, R)
    BY <2>1, <1>t DEF UpWorlds, MaybeRelease
  <2>4. \A q \in P : q \in x1'.upgraded \/ (q \notin x1.upgraded /\ x1'.installed[q] = x1.installed[q])
    <3>1. x1.installed \in [P -> MaybeRelease(R)]
      BY <1>t DEF UpWorlds
    <3>2. \A q \in P \ {p} : x1'.installed[q] = x1.installed[q]
      BY <2>3, <3>1
    <3>3. QED
      BY <2>3, <3>2
  <2>5. UpTyped(P, R, N)'
    BY <2>2, <2>3, <1>t DEF UpTyped
  <2>6. CameOut(P, N)' /\ AnswersAreNewer(N)' /\ AnswersAreWhole(P, R, N)'
    BY <2>2, <2>3 DEF CameOut, AnswersAreNewer, AnswersAreWhole, BehindOf
  <2>7. AskedSees(P, N)'
    BY <2>2, <2>4 DEF AskedSees
  <2>8. OffersAreNewerNow'
    <3>1. \A u \in x4.updates : u.of \in P
      BY DEF UpTyped, UpWins, UpOffers
    <3>2. QED
      BY <2>2, <2>3, <2>4, <3>1 DEF OffersAreNewerNow
  <2>9. QED
    BY <2>5, <2>6, <2>7, <2>8
<1>3. ASSUME Upd(P, R, t, tt, N, k)!Time PROVE UpInv(P, R, N)'
  <2>1. /\ x1' = [x1 EXCEPT !.now = @ + 1] /\ UNCHANGED <<x2, x3, x4, x5>>
    BY <1>3 DEF Upd!Time
  <2>2. /\ x1'.installed = x1.installed /\ x1'.latest = x1.latest /\ x1'.upgraded = x1.upgraded
        /\ x1' \in UpWorlds(P, R)
    BY <2>1, <1>t DEF UpWorlds
  <2>3. QED
    BY <2>1, <2>2 DEF UpTyped, CameOut, AnswersAreNewer, AnswersAreWhole, BehindOf, AskedSees,
                      OffersAreNewerNow
<1>4. QED
  BY <1>1, <1>2, <1>3

(* What a step has to show of the request c that becomes r.                 *)
RequestIs(P, R, c, r) ==
  /\ x3' = [x3 EXCEPT ![c] = r] /\ r \in UpRequests(P, R) /\ x2' \in UpCaches(P, R)
  /\ \A p \in P : x2'.versions[p] <= x1.latest[p] /\ r.versions[p] <= x1.latest[p]
  /\ \A u \in r.updates : u.to <= x1.latest[u.of] /\ u.to > r.installed[u.of]
  /\ r.at \in {"no", "asked", "cache"} => r.updates = {} /\ \A p \in P : r.versions[p] = 0
  /\ r.at \in {"answered", "over"} =>
       \A p \in P : /\ r.installed[p] # 0 /\ r.versions[p] > r.installed[p]
                    /\ R[r.installed[p]].core # R[r.versions[p]].core
                    => \E u \in r.updates : u.of = p
  /\ r.at # "no"
  /\ x4.open /\ x4.asks = c /\ r.at # "asked" =>
       \A p \in P : p \in x1.upgraded \/ r.installed[p] = x1.installed[p]

(* A request goes on.                                                       *)
LEMMA RequestMoves ==
  ASSUME NEW P, NEW R, InOrder(R), NEW t, NEW tt, NEW N \in Nat, NEW k, UpInv(P, R, N),
         NEW c \in 1..N,
         \/ Upd(P, R, t, tt, N, k)!Detects(c) \/ Upd(P, R, t, tt, N, k)!ReadCache(c)
         \/ Upd(P, R, t, tt, N, k)!WriteCache(c)
         \/ \E p \in P : Upd(P, R, t, tt, N, k)!Lookup(c, p)
  PROVE  UpInv(P, R, N)'
<1> USE DEF UpInv
<1>d. DOMAIN R \subseteq Nat /\ \A x \in MaybeRelease(R) : x \in Nat
  BY DEF InOrder, MaybeRelease
<1>t. /\ x1 \in UpWorlds(P, R) /\ x2 \in UpCaches(P, R) /\ x5 \in Nat /\ x4 \in UpWins(P, R)
      /\ x3 \in [1..N -> UpRequests(P, R)] /\ x3[c] \in UpRequests(P, R)
      /\ DOMAIN x3 = 1..N
  BY DEF UpTyped
<1>0. UNCHANGED <<x1, x4, x5>>
  BY DEF Upd!Detects, Upd!ReadCache, Upd!WriteCache, Upd!Lookup
<1>k. \A p \in P : /\ x1.latest[p] \in Nat /\ x1.installed[p] \in Nat /\ x2.versions[p] \in Nat
                   /\ x3[c].versions[p] \in Nat /\ x3[c].installed[p] \in Nat
  BY <1>t, <1>d DEF UpWorlds, UpCaches, UpRequests
<1>s. ASSUME NEW r, RequestIs(P, R, c, r)
      PROVE  UpInv(P, R, N)'
  <2>1. x3'[c] = r /\ (\A d \in 1..N : d # c => x3'[d] = x3[d]) /\ x3' \in [1..N -> UpRequests(P, R)]
    BY <1>s, <1>t DEF RequestIs
  <2>2. UpTyped(P, R, N)'
    BY <1>0, <1>s, <2>1 DEF RequestIs, UpTyped
  <2>3. CameOut(P, N)'
    BY <1>0, <1>s, <2>1 DEF RequestIs, CameOut
  <2>4. AnswersAreNewer(N)'
    BY <1>0, <1>s, <2>1 DEF RequestIs, AnswersAreNewer
  <2>5. AnswersAreWhole(P, R, N)'
    BY <1>s, <2>1 DEF RequestIs, AnswersAreWhole, BehindOf
  <2>6. AskedSees(P, N)' /\ OffersAreNewerNow'
    BY <1>0, <1>s, <2>1 DEF RequestIs, AskedSees, OffersAreNewerNow
  <2>7. QED
    BY <2>2, <2>3, <2>4, <2>5, <2>6
<1>o. /\ \A p \in P : x2.versions[p] <= x1.latest[p] /\ x3[c].versions[p] <= x1.latest[p]
      /\ \A u \in x3[c].updates : u.to <= x1.latest[u.of] /\ u.to > x3[c].installed[u.of]
      /\ x3[c].at \in {"no", "asked", "cache"} =>
           x3[c].updates = {} /\ \A p \in P : x3[c].versions[p] = 0
      /\ x4.open /\ x4.asks = c /\ x3[c].at # "asked" =>
               \A p \in P : p \in x1.upgraded \/ x3[c].installed[p] = x1.installed[p]
  BY DEF CameOut, AnswersAreNewer, AnswersAreWhole, AskedSees
(* An answer: all that is behind of what it looked at, and nothing else.    *)
<1>a. ASSUME NEW v \in [P -> MaybeRelease(R)], \A p \in P : v[p] <= x1.latest[p],
             \A p \in P : x3[c].versions[p] \in {0, v[p]},
             x3' = [x3 EXCEPT ![c].at = "answered",
                              ![c].updates = Upd(P, R, t, tt, N, k)!UpdatesFrom(x3[c].installed, v)],
             x3[c].at \in {"cache", "lookup"},
             x2' \in UpCaches(P, R), \A p \in P : x2'.versions[p] <= x1.latest[p]
      PROVE  UpInv(P, R, N)'
  <2>u. PICK U : U = Upd(P, R, t, tt, N, k)!UpdatesFrom(x3[c].installed, v)
    OBVIOUS
  <2>r. PICK r : r = [x3[c] EXCEPT !.at = "answered", !.updates = U]
    OBVIOUS
  <2>i. x3[c].installed \in [P -> MaybeRelease(R)]
    BY <1>t DEF UpRequests
  <2>j. PICK i \in [P -> MaybeRelease(R)] : i = x3[c].installed
    BY <2>i
  <2>1. /\ U \in SUBSET UpOffers(P, R)
        /\ \A u \in U : u.to = v[u.of] /\ u.to > x3[c].installed[u.of]
        /\ \A p \in P : /\ x3[c].installed[p] # 0 /\ v[p] > x3[c].installed[p]
                         /\ R[x3[c].installed[p]].core # R[v[p]].core
                         => \E u \in U : u.of = p
    <3>1. v \in [P -> MaybeRelease(R)]
      BY <1>a
    <3>2. U = Upd(P, R, t, tt, N, k)!UpdatesFrom(i, v)
      BY <2>u, <2>j
    <3>3. OffersAll(P, R, i, v, U)
      BY <3>1, <3>2, UpdatesFromIs
    <3>4. QED
      BY <3>3, <2>j DEF OffersAll
  <2>2. /\ r.at = "answered" /\ r.updates = U /\ r.installed = x3[c].installed
        /\ r.versions = x3[c].versions /\ r \in UpRequests(P, R)
    BY <2>r, <2>1, <1>t DEF UpRequests
  <2>3. x3' = [x3 EXCEPT ![c] = r]
    BY <1>a, <2>r, <2>u, <1>t
  <2>4. \A u \in U : u.of \in P
    BY <2>1 DEF UpOffers
  <2>5. \A u \in r.updates : u.to <= x1.latest[u.of] /\ u.to > r.installed[u.of]
    BY <2>1, <2>2, <2>4, <1>a
  <2>6. \A p \in P : /\ r.installed[p] # 0 /\ r.versions[p] > r.installed[p]
                     /\ R[r.installed[p]].core # R[r.versions[p]].core
                     => \E u \in r.updates : u.of = p
    BY <2>1, <2>2, <1>a, <1>k
  <2>7. \A p \in P : x2'.versions[p] <= x1.latest[p] /\ r.versions[p] <= x1.latest[p]
    BY <1>a, <1>o, <2>2
  <2>8. x4.open /\ x4.asks = c => \A p \in P : p \in x1.upgraded \/ r.installed[p] = x1.installed[p]
    BY <1>a, <1>o, <2>2
  <2>9. x2' \in UpCaches(P, R)
    BY <1>a
  <2>10. RequestIs(P, R, c, r)
    BY <2>2, <2>3, <2>5, <2>6, <2>7, <2>8, <2>9 DEF RequestIs
  <2>11. QED
    BY <1>s, <2>10
<1>1. ASSUME Upd(P, R, t, tt, N, k)!Detects(c) PROVE UpInv(P, R, N)'
  <2>r. PICK r : r = [x3[c] EXCEPT !.at = "cache", !.installed = x1.installed]
    OBVIOUS
  <2>1. x3' = [x3 EXCEPT ![c] = r] /\ x2' = x2 /\ x3[c].at = "asked"
    BY <1>1, <2>r, <1>t DEF Upd!Detects
  <2>2. /\ r.at = "cache" /\ r.updates = x3[c].updates /\ r.installed = x1.installed
        /\ r.versions = x3[c].versions /\ r \in UpRequests(P, R)
    BY <2>r, <1>t DEF UpRequests, UpWorlds
  <2>3. x3[c].updates = {}
    BY <2>1, <1>o
  <2>4. RequestIs(P, R, c, r)
    BY <1>o, <1>t, <2>1, <2>2, <2>3 DEF RequestIs
  <2>5. QED
    BY <1>s, <2>4
<1>2. ASSUME Upd(P, R, t, tt, N, k)!ReadCache(c) PROVE UpInv(P, R, N)'
  <2>1. /\ x3[c].at = "cache" /\ x2' = x2
        /\ \/ /\ Upd(P, R, t, tt, N, k)!Needed(c) = {}
              /\ Upd(P, R, t, tt, N, k)!Answers(c, {})
           \/ Upd(P, R, t, tt, N, k)!Answers(c, Upd(P, R, t, tt, N, k)!UpdatesFrom(x3[c].installed, x2.versions))
           \/ x3' = [x3 EXCEPT ![c].at = "lookup", ![c].versions = x2.versions,
                              ![c].left = Upd(P, R, t, tt, N, k)!Needed(c)]
    BY <1>2 DEF Upd!ReadCache
  <2>2. /\ x3[c].updates = {} /\ \A p \in P : x3[c].versions[p] = 0
        /\ x4.open /\ x4.asks = c => \A p \in P : p \in x1.upgraded \/ x3[c].installed[p] = x1.installed[p]
        /\ \A p \in P : x2.versions[p] <= x1.latest[p]
    BY <2>1, <1>o
  <2>v. x2.versions \in [P -> MaybeRelease(R)] /\ x2' \in UpCaches(P, R)
    BY <2>1, <1>t DEF UpCaches
  <2>3. CASE /\ Upd(P, R, t, tt, N, k)!Needed(c) = {}
             /\ Upd(P, R, t, tt, N, k)!Answers(c, {})
    <3>r. PICK r : r = [x3[c] EXCEPT !.at = "answered", !.updates = {}]
      OBVIOUS
    <3>1. /\ r.at = "answered" /\ r.updates = {} /\ r.installed = x3[c].installed
          /\ r.versions = x3[c].versions /\ r \in UpRequests(P, R)
      BY <3>r, <1>t DEF UpRequests
    <3>2. x3' = [x3 EXCEPT ![c] = r]
      BY <2>3, <3>r, <1>t DEF Upd!Answers
    <3>3. \A p \in P : r.installed[p] = 0
      BY <2>3, <3>1 DEF Upd!Needed, Upd!None
    <3>4. \A p \in P : x2'.versions[p] <= x1.latest[p] /\ r.versions[p] <= x1.latest[p]
      BY <1>o, <2>1, <3>1
    <3>5. RequestIs(P, R, c, r)
      BY <2>2, <2>v, <3>1, <3>2, <3>3, <3>4 DEF RequestIs
    <3>6. QED
      BY <1>s, <3>5
  <2>4. CASE Upd(P, R, t, tt, N, k)!Answers(c, Upd(P, R, t, tt, N, k)!UpdatesFrom(x3[c].installed, x2.versions))
    <3>1. x3' = [x3 EXCEPT ![c].at = "answered",
                   ![c].updates = Upd(P, R, t, tt, N, k)!UpdatesFrom(x3[c].installed, x2.versions)]
      BY <2>4 DEF Upd!Answers
    <3>2. \A p \in P : x2'.versions[p] <= x1.latest[p] /\ x3[c].versions[p] \in {0, x2.versions[p]}
      BY <2>1, <2>2
    <3>3. QED
      BY <1>a, <2>1, <2>2, <2>v, <3>1, <3>2
  <2>5. CASE x3' = [x3 EXCEPT ![c].at = "lookup", ![c].versions = x2.versions,
                              ![c].left = Upd(P, R, t, tt, N, k)!Needed(c)]
    <3>n. Upd(P, R, t, tt, N, k)!Needed(c) \in SUBSET P
      BY DEF Upd!Needed
    <3>r. PICK r : r = [x3[c] EXCEPT !.at = "lookup", !.versions = x2.versions,
                              !.left = Upd(P, R, t, tt, N, k)!Needed(c)]
      OBVIOUS
    <3>1. /\ r.at = "lookup" /\ r.updates = {} /\ r.installed = x3[c].installed
          /\ r.versions = x2.versions /\ r \in UpRequests(P, R)
      BY <3>r, <3>n, <2>2, <2>v, <1>t DEF UpRequests
    <3>2. x3' = [x3 EXCEPT ![c] = r]
      BY <2>5, <3>r, <1>t
    <3>3. \A p \in P : x2'.versions[p] <= x1.latest[p] /\ r.versions[p] <= x1.latest[p]
      BY <2>1, <2>2, <3>1
    <3>4. RequestIs(P, R, c, r)
      BY <2>2, <2>v, <3>1, <3>2, <3>3 DEF RequestIs
    <3>5. QED
      BY <1>s, <3>4
  <2>6. QED
    BY <2>1, <2>3, <2>4, <2>5
<1>3. ASSUME NEW p \in P, Upd(P, R, t, tt, N, k)!Lookup(c, p) PROVE UpInv(P, R, N)'
  <2>1. PICK v \in {x3[c].versions[p], x1.latest[p]} :
          x3' = [x3 EXCEPT ![c].versions[p] = v, ![c].left = @ \ {p}]
    BY <1>3 DEF Upd!Lookup
  <2>2. x3[c].at = "lookup" /\ x2' = x2
    BY <1>3 DEF Upd!Lookup
  <2>3. v \in MaybeRelease(R) /\ v <= x1.latest[p]
    <3>1. x1.latest[p] \in MaybeRelease(R) /\ x3[c].versions[p] \in MaybeRelease(R)
      BY <1>t DEF UpWorlds, UpRequests, MaybeRelease
    <3>2. QED
      BY <2>1, <3>1, <1>o, <1>k
  <2>r. PICK r : r = [x3[c] EXCEPT !.versions[p] = v, !.left = @ \ {p}]
    OBVIOUS
  <2>4. /\ r.at = "lookup" /\ r.updates = x3[c].updates /\ r.installed = x3[c].installed
        /\ r.versions = [x3[c].versions EXCEPT ![p] = v] /\ r \in UpRequests(P, R)
    BY <2>r, <2>2, <2>3, <1>t DEF UpRequests
  <2>5. x3' = [x3 EXCEPT ![c] = r]
    BY <2>1, <2>r, <1>t
  <2>6. x3[c].versions \in [P -> MaybeRelease(R)]
    BY <1>t DEF UpRequests
  <2>7. \A q \in P : x2'.versions[q] <= x1.latest[q] /\ r.versions[q] <= x1.latest[q]
    BY <2>2, <2>3, <2>4, <2>6, <1>o
  <2>8. x2' \in UpCaches(P, R)
    BY <2>2, <1>t
  <2>9. RequestIs(P, R, c, r)
    BY <1>o, <2>2, <2>4, <2>5, <2>7, <2>8 DEF RequestIs
  <2>10. QED
    BY <1>s, <2>9
<1>4. ASSUME Upd(P, R, t, tt, N, k)!WriteCache(c) PROVE UpInv(P, R, N)'
  <2>1. /\ x3[c].at = "lookup"
        /\ x2' = [at |-> x1.now, versions |-> x3[c].versions, there |-> TRUE] \/ x2' = x2
    BY <1>4 DEF Upd!WriteCache
  <2>2. x3' = [x3 EXCEPT ![c].at = "answered",
                 ![c].updates = Upd(P, R, t, tt, N, k)!UpdatesFrom(x3[c].installed, x3[c].versions)]
    BY <1>4 DEF Upd!WriteCache, Upd!Answers
  <2>3. x3[c].versions \in [P -> MaybeRelease(R)] /\ x1.now \in Nat
    BY <1>t DEF UpRequests, UpWorlds
  <2>4. x2' \in UpCaches(P, R)
    <3>1. [at |-> x1.now, versions |-> x3[c].versions, there |-> TRUE] \in UpCaches(P, R)
      BY <2>3 DEF UpCaches
    <3>2. QED
      BY <2>1, <3>1, <1>t
  <2>5. \A p \in P : x2'.versions[p] <= x1.latest[p]
    BY <2>1, <1>o
  <2>6. \A p \in P : x3[c].versions[p] <= x1.latest[p]
    BY <1>o
  <2>7. QED
    BY <1>a, <2>1, <2>2, <2>3, <2>4, <2>5, <2>6
<1>5. QED
  BY <1>1, <1>2, <1>3, <1>4


(* The window.                                                              *)
LEMMA WindowMoves ==
  ASSUME NEW P, NEW R, InOrder(R), NEW t, NEW tt, NEW N \in Nat, NEW k, UpInv(P, R, N),
         \/ Upd(P, R, t, tt, N, k)!Connect \/ Upd(P, R, t, tt, N, k)!Disconnect
         \/ Upd(P, R, t, tt, N, k)!Dismiss
         \/ \E c \in 1..N : Upd(P, R, t, tt, N, k)!Answered(c)
  PROVE  UpInv(P, R, N)'
<1> USE DEF UpInv
<1>t. /\ x1 \in UpWorlds(P, R) /\ x2 \in UpCaches(P, R) /\ x5 \in Nat /\ x4 \in UpWins(P, R)
      /\ x3 \in [1..N -> UpRequests(P, R)] /\ DOMAIN x3 = 1..N
  BY DEF UpTyped
(* A step of which only the place of a request changes.                     *)
<1>a. ASSUME NEW c \in 1..N, NEW at \in {"asked", "over"}, x3' = [x3 EXCEPT ![c].at = at],
             x3[c].at = (IF at = "asked" THEN "no" ELSE "answered")
      PROVE  /\ x3' \in [1..N -> UpRequests(P, R)]
             /\ x3'[c].at = at
             /\ \A d \in 1..N : /\ x3'[d].versions = x3[d].versions
                                /\ x3'[d].installed = x3[d].installed
                                /\ x3'[d].updates = x3[d].updates
                                /\ d # c => x3'[d].at = x3[d].at
             /\ AnswersAreWhole(P, R, N)'
  <2>1. x3[c] \in UpRequests(P, R)
    BY <1>t
  <2>2. /\ x3' \in [1..N -> UpRequests(P, R)]
        /\ x3'[c].at = at
        /\ \A d \in 1..N : /\ x3'[d].versions = x3[d].versions
                           /\ x3'[d].installed = x3[d].installed
                           /\ x3'[d].updates = x3[d].updates
                           /\ d # c => x3'[d].at = x3[d].at
    BY <1>a, <1>t, <2>1 DEF UpRequests
  <2>3. AnswersAreWhole(P, R, N)'
    BY <1>a, <2>2 DEF AnswersAreWhole, BehindOf
  <2>4. QED
    BY <2>2, <2>3
<1>1. ASSUME Upd(P, R, t, tt, N, k)!Connect PROVE UpInv(P, R, N)'
  <2>1. PICK c \in 1..N : /\ x3[c].at = "no" /\ x3' = [x3 EXCEPT ![c].at = "asked"]
                          /\ x4' = [x4 EXCEPT !.open = TRUE, !.asks = c]
    BY <1>1 DEF Upd!Connect
  <2>2. ~x4.open /\ x1' = [x1 EXCEPT !.upgraded = {}] /\ UNCHANGED <<x2, x5>>
    BY <1>1 DEF Upd!Connect
  <2>3. /\ x1' \in UpWorlds(P, R) /\ x1'.latest = x1.latest /\ x1'.installed = x1.installed
        /\ x4' \in UpWins(P, R) /\ x4'.open /\ x4'.asks = c /\ x4'.updates = x4.updates
    <3>1. x1' \in UpWorlds(P, R) /\ x1'.latest = x1.latest /\ x1'.installed = x1.installed
      BY <1>t, <2>2 DEF UpWorlds
    <3>2. c \in Nat
      OBVIOUS
    <3>3. x4' \in UpWins(P, R) /\ x4'.open = TRUE /\ x4'.asks = c /\ x4'.updates = x4.updates
      BY <1>t, <2>1, <3>2 DEF UpWins
    <3>4. QED
      BY <3>1, <3>3
  <2>4. x4.updates = {}
    BY <2>2 DEF AskedSees
  <2>5. /\ x3' \in [1..N -> UpRequests(P, R)] /\ AnswersAreWhole(P, R, N)'
        /\ x3'[c].at = "asked"
        /\ \A d \in 1..N : /\ x3'[d].versions = x3[d].versions /\ x3'[d].installed = x3[d].installed
                           /\ x3'[d].updates = x3[d].updates
    <3>a. PICK at \in {"asked", "over"} : at = "asked"
      OBVIOUS
    <3>1. x3' = [x3 EXCEPT ![c].at = at] /\ x3[c].at = (IF at = "asked" THEN "no" ELSE "answered")
      BY <2>1, <3>a
    <3>2. QED
      BY <3>1, <3>a, <1>a
  <2>6. UpTyped(P, R, N)'
    BY <1>t, <2>2, <2>3, <2>5 DEF UpTyped
  <2>7. CameOut(P, N)' /\ AnswersAreNewer(N)'
    BY <2>2, <2>3, <2>5 DEF CameOut, AnswersAreNewer
  <2>8. AskedSees(P, N)' /\ OffersAreNewerNow'
    BY <2>3, <2>4, <2>5 DEF AskedSees, OffersAreNewerNow
  <2>9. QED
    BY <2>5, <2>6, <2>7, <2>8
<1>2. ASSUME Upd(P, R, t, tt, N, k)!Disconnect PROVE UpInv(P, R, N)'
  <2>1. UNCHANGED <<x1, x2, x3, x5>>
        /\ x4' = [x4 EXCEPT !.open = FALSE, !.asks = 0, !.updates = {}]
    BY <1>2 DEF Upd!Disconnect, Upd!None
  <2>2. x4' \in UpWins(P, R) /\ x4'.open = FALSE /\ x4'.asks = 0 /\ x4'.updates = {}
    BY <2>1, <1>t DEF UpWins
  <2>3. QED
    BY <1>t, <2>1, <2>2 DEF UpTyped, CameOut, AnswersAreNewer, AnswersAreWhole, BehindOf, AskedSees,
                            OffersAreNewerNow
<1>3. ASSUME Upd(P, R, t, tt, N, k)!Dismiss PROVE UpInv(P, R, N)'
  <2>1. UNCHANGED <<x1, x2, x3>> /\ x5' = x5 + 1
        /\ x4' = [x4 EXCEPT !.dismissed = @ \cup (x4.updates \ x4.dismissed)]
    BY <1>3 DEF Upd!Dismiss, Upd!Visible, Upd!Clicks
  <2>2. x4' \in UpWins(P, R) /\ x4'.open = x4.open /\ x4'.asks = x4.asks /\ x4'.updates = x4.updates
    BY <2>1, <1>t DEF UpWins
  <2>3. QED
    BY <1>t, <2>1, <2>2 DEF UpTyped, CameOut, AnswersAreNewer, AnswersAreWhole, BehindOf, AskedSees,
                            OffersAreNewerNow
<1>4. ASSUME NEW c \in 1..N, Upd(P, R, t, tt, N, k)!Answered(c) PROVE UpInv(P, R, N)'
  <2>1. /\ x3[c].at = "answered" /\ x3' = [x3 EXCEPT ![c].at = "over"] /\ UNCHANGED <<x1, x2, x5>>
        /\ x4' = IF x4.asks = c THEN [x4 EXCEPT !.updates = x3[c].updates] ELSE x4
    BY <1>4 DEF Upd!Answered
  <2>2. /\ x3' \in [1..N -> UpRequests(P, R)] /\ AnswersAreWhole(P, R, N)'
        /\ \A d \in 1..N : /\ x3'[d].versions = x3[d].versions /\ x3'[d].installed = x3[d].installed
                           /\ x3'[d].updates = x3[d].updates
                           /\ d # c => x3'[d].at = x3[d].at
        /\ x3'[c].at = "over"
    BY <2>1, <1>a
  <2>3. /\ x4' \in UpWins(P, R) /\ x4'.open = x4.open /\ x4'.asks = x4.asks
        /\ x4'.updates = IF x4.asks = c THEN x3[c].updates ELSE x4.updates
    <3>1. x3[c].updates \in SUBSET UpOffers(P, R)
      BY <1>t DEF UpRequests
    <3>2. QED
      BY <2>1, <3>1, <1>t DEF UpWins
  <2>4. UpTyped(P, R, N)'
    BY <1>t, <2>1, <2>2, <2>3 DEF UpTyped
  <2>5. CameOut(P, N)' /\ AnswersAreNewer(N)'
    BY <2>1, <2>2 DEF CameOut, AnswersAreNewer
  <2>6. AskedSees(P, N)'
    <3>1. ~x4.open => x4'.updates = {}
      BY <2>3 DEF AskedSees
    <3>2. QED
      BY <2>1, <2>2, <2>3, <3>1 DEF AskedSees
  <2>7. OffersAreNewerNow'
    <3>1. ASSUME x4.asks = c, NEW u \in x3[c].updates
          PROVE  u.to <= x1.latest[u.of] /\ (u.of \in x1.upgraded \/ u.to > x1.installed[u.of])
      <4>1. u.of \in P /\ x3[c] \in UpRequests(P, R)
        BY <1>t DEF UpRequests, UpOffers
      <4>2. x4.open
        BY <3>1 DEF AskedSees
      <4>3. u.of \in x1.upgraded \/ x3[c].installed[u.of] = x1.installed[u.of]
        BY <2>1, <3>1, <4>1, <4>2 DEF AskedSees
      <4>4. QED
        BY <4>3 DEF AnswersAreNewer
    <3>2. QED
      BY <2>1, <2>3, <3>1 DEF OffersAreNewerNow
  <2>8. QED
    BY <2>2, <2>4, <2>5, <2>6, <2>7
<1>5. QED
  BY <1>1, <1>2, <1>3, <1>4

LEMMA UpInduct ==
  ASSUME NEW P, NEW R, InOrder(R), NEW t, NEW tt, NEW N \in Nat, NEW k
  PROVE  /\ Upd(P, R, t, tt, N, k)!Init => UpInv(P, R, N)
         /\ UpInv(P, R, N) /\ [Upd(P, R, t, tt, N, k)!Next]_(Upd(P, R, t, tt, N, k)!vars) => UpInv(P, R, N)'
         /\ UpInv(P, R, N) => Upd(P, R, t, tt, N, k)!UpdatesAreTrue
<1>1. UpInv(P, R, N) /\ UNCHANGED Upd(P, R, t, tt, N, k)!vars => UpInv(P, R, N)'
  BY DEF Upd!vars, UpInv, UpTyped, CameOut, AnswersAreNewer, AnswersAreWhole, BehindOf, AskedSees,
         OffersAreNewerNow
<1>2. UpInv(P, R, N) /\ Upd(P, R, t, tt, N, k)!Next => UpInv(P, R, N)'
  BY WorldMoves, RequestMoves, WindowMoves DEF Upd!Next
<1>3. UpInv(P, R, N) => Upd(P, R, t, tt, N, k)!UpdatesAreTrue
  <2>1. ASSUME UpInv(P, R, N) PROVE Upd(P, R, t, tt, N, k)!OffersAreNewer
    BY <2>1 DEF UpInv, OffersAreNewerNow, AskedSees, Upd!OffersAreNewer
  <2>2. ASSUME UpInv(P, R, N) PROVE Upd(P, R, t, tt, N, k)!NothingHidden
    BY <2>2 DEF UpInv, AnswersAreWhole, BehindOf, Upd!NothingHidden, Upd!Behind, Upd!None
  <2>3. QED
    BY <2>1, <2>2 DEF Upd!UpdatesAreTrue
<1>4. QED
  BY <1>1, <1>2, <1>3, UpStarts

(* Whatever requests, files and disconnections did before, an update that   *)
(* is offered came out and is newer than what is installed, but for what    *)
(* was changed since the window asked, and a CLI that is behind is offered. *)
THEOREM UpdatesTrue ==
  ASSUME NEW CONSTANT P, NEW CONSTANT R, InOrder(R), NEW CONSTANT t, NEW CONSTANT tt,
         NEW CONSTANT N \in Nat, NEW CONSTANT k
  PROVE  Upd(P, R, t, tt, N, k)!Spec => []Upd(P, R, t, tt, N, k)!UpdatesAreTrue
<1>1. Upd(P, R, t, tt, N, k)!Init => UpInv(P, R, N)
  BY UpInduct
<1>2. UpInv(P, R, N) /\ [Upd(P, R, t, tt, N, k)!Next]_(Upd(P, R, t, tt, N, k)!vars) => UpInv(P, R, N)'
  BY UpInduct
<1>3. UpInv(P, R, N) => Upd(P, R, t, tt, N, k)!UpdatesAreTrue
  BY UpInduct
<1>4. QED
  BY <1>1, <1>2, <1>3, PTL DEF Upd!Spec

-----------------------------------------------------------------------------
(* Commits, pushes and pull requests                                        *)

DlvCalls(F) ==
  [want : {"none", "commit", "both", "push", "pr"},
   at : {"none", "dirty", "add", "commit", "push", "create", "status"},
   paths : SUBSET F, message : BOOLEAN, asked : [F -> Nat],
   notice : {"none", "failed", "needs_commit", "committed", "pushed", "opened"}]
DlvTyped(F) ==
  /\ x1 \in [F -> Nat] /\ x2 \in [F -> Nat] /\ x3 \in [F -> Nat] /\ x4 \in [F -> Nat]
  /\ x6 \in [bar : DlvCalls(F), pane : DlvCalls(F), dirty : BOOLEAN]

Covers(a, b, fs) == \A f \in fs : a[f] >= b[f]

(* What is pushed was committed, what is committed staged, what is staged   *)
(* edited.                                                                  *)
InTurn(F, T, I, H, R) == Covers(T, I, F) /\ Covers(I, H, F) /\ Covers(H, R, F)

(* How far a call has come, and what it has told its caller.                *)
CallIsSo(F, T, I, H, R, call) ==
  /\ Covers(T, call.asked, F)
  /\ call.want = "pr" => call.paths = F
  /\ call.at = "commit" => Covers(I, call.asked, call.paths)
  /\ call.at = "push" => Covers(H, call.asked, F)
  /\ call.at = "create" => Covers(R, call.asked, F)
  /\ call.notice = "committed" => Covers(H, call.asked, call.paths)
  /\ call.notice \in {"pushed", "opened"} => Covers(R, call.asked, F)

DlvInv(F) ==
  /\ DlvTyped(F) /\ InTurn(F, x1, x2, x3, x4)
  /\ \A c \in {"bar", "pane"} : CallIsSo(F, x1, x2, x3, x4, x6[c])

(* Nothing is taken back.                                                   *)
Grew(F, a, b) == a \in [F -> Nat] /\ b \in [F -> Nat] /\ Covers(b, a, F)

LEMMA CoversOn ==
  ASSUME NEW F, NEW a \in [F -> Nat], NEW b \in [F -> Nat], Grew(F, a, b), NEW w \in [F -> Nat],
         NEW fs \in SUBSET F, Covers(a, w, fs)
  PROVE  Covers(b, w, fs)
BY DEF Grew, Covers

LEMMA CallStays ==
  ASSUME NEW F, NEW T, NEW I, NEW H, NEW R, NEW TT, NEW II, NEW HH, NEW RR,
         Grew(F, T, TT), Grew(F, I, II), Grew(F, H, HH), Grew(F, R, RR),
         NEW call \in DlvCalls(F), CallIsSo(F, T, I, H, R, call)
  PROVE  CallIsSo(F, TT, II, HH, RR, call)
<1>1. call.asked \in [F -> Nat] /\ call.paths \in SUBSET F /\ F \in SUBSET F
  BY DEF DlvCalls
<1>2. /\ T \in [F -> Nat] /\ I \in [F -> Nat] /\ H \in [F -> Nat] /\ R \in [F -> Nat]
      /\ TT \in [F -> Nat] /\ II \in [F -> Nat] /\ HH \in [F -> Nat] /\ RR \in [F -> Nat]
  BY DEF Grew
<1>3. QED
  BY <1>1, <1>2, CoversOn DEF CallIsSo

LEMMA DlvStarts ==
  ASSUME NEW F, NEW n, NEW m, Dlv(F, n, m)!Init
  PROVE  DlvInv(F)
<1>1. DlvTyped(F)
  BY DEF Dlv!Init, Dlv!NoFiles, Dlv!Idle, DlvTyped, DlvCalls
<1>2. InTurn(F, x1, x2, x3, x4)
  BY DEF Dlv!Init, Dlv!NoFiles, InTurn, Covers
<1>3. \A c \in {"bar", "pane"} : CallIsSo(F, x1, x2, x3, x4, x6[c])
  BY DEF Dlv!Init, Dlv!NoFiles, Dlv!Idle, CallIsSo, Covers
<1>4. QED
  BY <1>1, <1>2, <1>3 DEF DlvInv

LEMMA AgentDelivers ==
  ASSUME NEW F, NEW n, NEW m, DlvInv(F), Dlv(F, n, m)!Agent
  PROVE  DlvInv(F)'
<1> USE DEF DlvInv
<1>t. /\ x1 \in [F -> Nat] /\ x2 \in [F -> Nat] /\ x3 \in [F -> Nat] /\ x4 \in [F -> Nat]
      /\ InTurn(F, x1, x2, x3, x4) /\ DlvTyped(F)
  BY DEF DlvTyped
<1>0. x6' = x6
  BY DEF Dlv!Agent, Dlv!TurnStarts, Dlv!TurnEnds, Dlv!Edits, Dlv!Stages, Dlv!AgentCommits
<1>s. ASSUME Grew(F, x1, x1'), Grew(F, x2, x2'), Grew(F, x3, x3'), Grew(F, x4, x4'),
             InTurn(F, x1', x2', x3', x4')
      PROVE  DlvInv(F)'
  <2>1. \A c \in {"bar", "pane"} : x6[c] \in DlvCalls(F)
    BY DEF DlvTyped
  <2>2. ASSUME NEW c \in {"bar", "pane"} PROVE CallIsSo(F, x1', x2', x3', x4', x6'[c])
    <3>1. CallIsSo(F, x1, x2, x3, x4, x6[c])
      OBVIOUS
    <3>2. QED
      BY <3>1, <2>1, <1>s, <1>0, CallStays
  <2>3. DlvTyped(F)'
    BY <1>s, <1>0, <1>t DEF DlvTyped, Grew
  <2>4. QED
    BY <2>2, <2>3, <1>s
<1>g. Grew(F, x1, x1) /\ Grew(F, x2, x2) /\ Grew(F, x3, x3) /\ Grew(F, x4, x4)
  BY <1>t DEF Grew, Covers
<1>1. CASE UNCHANGED <<x1, x2, x3, x4>>
  BY <1>1, <1>g, <1>s, <1>t
<1>2. ASSUME NEW f \in F, Dlv(F, n, m)!Edits(f) PROVE DlvInv(F)'
  <2>1. x1' = [x1 EXCEPT ![f] = @ + 1] /\ UNCHANGED <<x2, x3, x4>>
    BY <1>2 DEF Dlv!Edits
  <2>2. Grew(F, x1, x1') /\ InTurn(F, x1', x2', x3', x4')
    BY <2>1, <1>t DEF Grew, InTurn, Covers
  <2>3. QED
    BY <2>1, <2>2, <1>g, <1>s
<1>3. ASSUME Dlv(F, n, m)!Stages PROVE DlvInv(F)'
  <2>1. x2' = x1 /\ UNCHANGED <<x1, x3, x4>>
    BY <1>3 DEF Dlv!Stages
  <2>2. Grew(F, x2, x2') /\ InTurn(F, x1', x2', x3', x4')
    BY <2>1, <1>t DEF Grew, InTurn, Covers
  <2>3. QED
    BY <2>1, <2>2, <1>g, <1>s
<1>4. ASSUME Dlv(F, n, m)!AgentCommits PROVE DlvInv(F)'
  <2>1. x3' = x2 /\ UNCHANGED <<x1, x2, x4>>
    BY <1>4 DEF Dlv!AgentCommits
  <2>2. Grew(F, x3, x3') /\ InTurn(F, x1', x2', x3', x4')
    BY <2>1, <1>t DEF Grew, InTurn, Covers
  <2>3. QED
    BY <2>1, <2>2, <1>g, <1>s
<1>5. QED
  BY <1>1, <1>2, <1>3, <1>4 DEF Dlv!Agent, Dlv!TurnStarts, Dlv!TurnEnds

(* The call of c becomes r, while the trees grow.                           *)
CallIs(F, c, r) ==
  /\ x6' = [x6 EXCEPT ![c] = r] \/ \E d \in BOOLEAN : x6' = [x6 EXCEPT !.dirty = d, ![c] = r]
  /\ r \in DlvCalls(F)
  /\ Grew(F, x1, x1') /\ Grew(F, x2, x2') /\ Grew(F, x3, x3') /\ Grew(F, x4, x4')
  /\ InTurn(F, x1', x2', x3', x4')
  /\ CallIsSo(F, x1', x2', x3', x4', r)

LEMMA CallKeeps ==
  ASSUME NEW F, NEW c \in {"bar", "pane"}, NEW r, DlvInv(F), CallIs(F, c, r)
  PROVE  DlvInv(F)'
<1> USE DEF DlvInv
<1>1. x6 \in [bar : DlvCalls(F), pane : DlvCalls(F), dirty : BOOLEAN]
  BY DEF DlvTyped
<1>2. /\ x6' \in [bar : DlvCalls(F), pane : DlvCalls(F), dirty : BOOLEAN]
      /\ x6'[c] = r /\ \A d \in {"bar", "pane"} : d # c => x6'[d] = x6[d]
  BY <1>1 DEF CallIs
<1>3. ASSUME NEW d \in {"bar", "pane"} PROVE CallIsSo(F, x1', x2', x3', x4', x6'[d])
  <2>1. CASE d = c
    BY <2>1, <1>2 DEF CallIs
  <2>2. CASE d # c
    <3>1. x6[d] \in DlvCalls(F) /\ CallIsSo(F, x1, x2, x3, x4, x6[d])
      BY <1>1
    <3>2. CallIsSo(F, x1', x2', x3', x4', x6[d])
      BY <3>1, CallStays DEF CallIs
    <3>3. QED
      BY <3>2, <2>2, <1>2
  <2>3. QED
    BY <2>1, <2>2
<1>4. DlvTyped(F)'
  BY <1>2 DEF CallIs, Grew, DlvTyped
<1>5. QED
  BY <1>3, <1>4 DEF CallIs


(* A click, and the answer that is read.                                    *)
LEMMA WindowDelivers ==
  ASSUME NEW F, NEW n, NEW m, DlvInv(F),
         \/ Dlv(F, n, m)!Clicks \/ Dlv(F, n, m)!AsksStatus
         \/ \E c \in {"bar", "pane"} : Dlv(F, n, m)!Refreshes(c)
  PROVE  DlvInv(F)'
<1> USE DEF DlvInv
<1>t. /\ x1 \in [F -> Nat] /\ x2 \in [F -> Nat] /\ x3 \in [F -> Nat] /\ x4 \in [F -> Nat]
      /\ InTurn(F, x1, x2, x3, x4) /\ DlvTyped(F)
      /\ x6 \in [bar : DlvCalls(F), pane : DlvCalls(F), dirty : BOOLEAN]
      /\ \A c \in {"bar", "pane"} : x6[c] \in DlvCalls(F)
  BY DEF DlvTyped
<1>g. Grew(F, x1, x1) /\ Grew(F, x2, x2) /\ Grew(F, x3, x3) /\ Grew(F, x4, x4)
  BY <1>t DEF Grew, Covers
<1>d. (Dlv(F, n, m)!Dirty) \in BOOLEAN
  BY DEF Dlv!Dirty
<1>i. PICK idle : idle = Dlv(F, n, m)!Idle
  OBVIOUS
<1>j. idle \in DlvCalls(F) /\ idle.at = "none" /\ idle.want = "none" /\ idle.notice = "none"
      /\ idle.asked = [f \in F |-> 0]
  BY <1>i DEF Dlv!Idle, Dlv!NoFiles, DlvCalls
<1>z. ASSUME NEW notice \in {"failed", "needs_commit"}, NEW r, r = [idle EXCEPT !.notice = notice]
      PROVE  r \in DlvCalls(F) /\ CallIsSo(F, x1, x2, x3, x4, r)
  <2>1. /\ r \in DlvCalls(F) /\ r.at = "none" /\ r.want = "none" /\ r.notice = notice
        /\ r.asked = [f \in F |-> 0]
    BY <1>j, <1>z DEF DlvCalls
  <2>2. QED
    BY <2>1, <1>t DEF CallIsSo, Covers
<1>1. ASSUME NEW c \in {"bar", "pane"}, NEW want \in {"commit", "both", "push", "pr"},
             NEW ps \in SUBSET F, NEW msg \in BOOLEAN, want = "pr" => ps = F,
             Dlv(F, n, m)!Calls(c, want, ps, msg)
      PROVE  DlvInv(F)'
  <2>0. UNCHANGED <<x1, x2, x3, x4>>
    BY <1>1 DEF Dlv!Calls
  <2>1. CASE x6' = [x6 EXCEPT ![c] = [idle EXCEPT !.notice = "failed"]]
    <3>r. PICK r : r = [idle EXCEPT !.notice = "failed"]
      OBVIOUS
    <3>1. CallIs(F, c, r)
      BY <2>0, <2>1, <3>r, <1>t, <1>g, <1>z DEF CallIs
    <3>2. QED
      BY <3>1, CallKeeps
  <2>2. CASE x6' = [x6 EXCEPT ![c] = [want |-> want, at |-> "dirty", paths |-> ps, message |-> msg,
                                     asked |-> x1, notice |-> "none"]]
    <3>r. PICK r : r = [want |-> want, at |-> "dirty", paths |-> ps, message |-> msg,
                        asked |-> x1, notice |-> "none"]
      OBVIOUS
    <3>1. r \in DlvCalls(F)
      BY <3>r, <1>t DEF DlvCalls
    <3>2. CallIsSo(F, x1, x2, x3, x4, r)
      BY <3>r, <1>1, <1>t DEF CallIsSo, Covers
    <3>3. CallIs(F, c, r)
      BY <2>0, <2>2, <3>r, <3>1, <3>2, <1>t, <1>g DEF CallIs
    <3>4. QED
      BY <3>3, CallKeeps
  <2>3. QED
    BY <1>1, <1>i, <2>1, <2>2 DEF Dlv!Calls
<1>2. ASSUME Dlv(F, n, m)!Clicks PROVE DlvInv(F)'
  <2>1. ASSUME Dlv(F, n, m)!CommitsTicked PROVE DlvInv(F)'
    BY <2>1, <1>1 DEF Dlv!CommitsTicked
  <2>2. ASSUME Dlv(F, n, m)!CommitsAll \/ Dlv(F, n, m)!Pushes \/ Dlv(F, n, m)!OpensPr
        PROVE  DlvInv(F)'
    BY <2>2, <1>1 DEF Dlv!CommitsAll, Dlv!Pushes, Dlv!OpensPr
  <2>3. QED
    BY <1>2, <2>1, <2>2 DEF Dlv!Clicks
<1>3. ASSUME NEW c \in {"bar", "pane"}, Dlv(F, n, m)!Refreshes(c) PROVE DlvInv(F)'
  <2>0. UNCHANGED <<x1, x2, x3, x4>> /\ x6[c].at = "status"
    BY <1>3 DEF Dlv!Refreshes
  <2>c. x6[c] \in DlvCalls(F) /\ CallIsSo(F, x1, x2, x3, x4, x6[c])
    BY <1>t
  <2>r. PICK r : r = IF x6[c].want = "both" /\ x6[c].notice = "committed"
                     THEN IF x5 THEN [idle EXCEPT !.notice = "failed"]
                          ELSE [x6[c] EXCEPT !.want = "push", !.at = "dirty", !.notice = "none"]
                     ELSE IF x6[c].notice \in {"failed", "needs_commit"}
                          THEN [idle EXCEPT !.notice = x6[c].notice]
                          ELSE [x6[c] EXCEPT !.at = "none"]
    OBVIOUS
  <2>1. \E d \in BOOLEAN : x6' = [x6 EXCEPT !.dirty = d, ![c] = r]
    BY <1>3, <1>i, <1>d, <2>r DEF Dlv!Refreshes
  <2>2. CASE r = [x6[c] EXCEPT !.want = "push", !.at = "dirty", !.notice = "none"]
    <3>1. /\ r \in DlvCalls(F) /\ r.want = "push" /\ r.at = "dirty" /\ r.notice = "none"
          /\ r.asked = x6[c].asked
      BY <2>2, <2>c DEF DlvCalls
    <3>2. CallIsSo(F, x1, x2, x3, x4, r)
      BY <3>1, <2>c DEF CallIsSo
    <3>3. CallIs(F, c, r)
      BY <3>1, <3>2, <2>0, <2>1, <1>t, <1>g DEF CallIs
    <3>4. QED
      BY <3>3, CallKeeps
  <2>3. CASE r = [x6[c] EXCEPT !.at = "none"]
    <3>1. /\ r \in DlvCalls(F) /\ r.want = x6[c].want /\ r.at = "none" /\ r.notice = x6[c].notice
          /\ r.asked = x6[c].asked /\ r.paths = x6[c].paths
      BY <2>3, <2>c DEF DlvCalls
    <3>2. CallIsSo(F, x1, x2, x3, x4, r)
      BY <3>1, <2>c DEF CallIsSo
    <3>3. CallIs(F, c, r)
      BY <3>1, <3>2, <2>0, <2>1, <1>t, <1>g DEF CallIs
    <3>4. QED
      BY <3>3, CallKeeps
  <2>4. CASE \E notice \in {"failed", "needs_commit"} : r = [idle EXCEPT !.notice = notice]
    <3>1. r \in DlvCalls(F) /\ CallIsSo(F, x1, x2, x3, x4, r)
      BY <2>4, <1>z
    <3>2. CallIs(F, c, r)
      BY <3>1, <2>0, <2>1, <1>t, <1>g DEF CallIs
    <3>3. QED
      BY <3>2, CallKeeps
  <2>5. QED
    BY <2>r, <2>2, <2>3, <2>4
<1>4. ASSUME Dlv(F, n, m)!AsksStatus PROVE DlvInv(F)'
  <2>1. UNCHANGED <<x1, x2, x3, x4>> /\ \E d \in BOOLEAN : x6' = [x6 EXCEPT !.dirty = d]
    BY <1>4, <1>d DEF Dlv!AsksStatus
  <2>2. /\ x6' \in [bar : DlvCalls(F), pane : DlvCalls(F), dirty : BOOLEAN]
        /\ x6'.bar = x6.bar /\ x6'.pane = x6.pane
    BY <2>1, <1>t
  <2>3. DlvTyped(F)' /\ InTurn(F, x1', x2', x3', x4')
    BY <2>1, <2>2, <1>t DEF DlvTyped
  <2>4. \A c \in {"bar", "pane"} : CallIsSo(F, x1', x2', x3', x4', x6'[c])
    <3>1. ASSUME NEW c \in {"bar", "pane"} PROVE x6'[c] = x6[c]
      BY <2>2
    <3>2. QED
      BY <3>1, <2>1
  <2>5. QED
    BY <2>3, <2>4
<1>5. QED
  BY <1>2, <1>3, <1>4

LEMMA DaemonDelivers ==
  ASSUME NEW F, NEW n, NEW m, DlvInv(F), NEW c \in {"bar", "pane"}, Dlv(F, n, m)!Daemon(c)
  PROVE  DlvInv(F)'
<1> USE DEF DlvInv
<1>t. /\ x1 \in [F -> Nat] /\ x2 \in [F -> Nat] /\ x3 \in [F -> Nat] /\ x4 \in [F -> Nat]
      /\ InTurn(F, x1, x2, x3, x4) /\ DlvTyped(F)
      /\ x6 \in [bar : DlvCalls(F), pane : DlvCalls(F), dirty : BOOLEAN]
      /\ x6[c] \in DlvCalls(F) /\ CallIsSo(F, x1, x2, x3, x4, x6[c])
  BY DEF DlvTyped
<1>g. Grew(F, x1, x1) /\ Grew(F, x2, x2) /\ Grew(F, x3, x3) /\ Grew(F, x4, x4)
  BY <1>t DEF Grew, Covers
<1>k. x6[c].asked \in [F -> Nat] /\ x6[c].paths \in SUBSET F
  BY <1>t DEF DlvCalls
(* The call goes on to its next await, or is answered.                      *)
<1>p. ASSUME NEW at \in {"add", "commit", "push", "create"}, Dlv(F, n, m)!Proceeds(c, at),
             Grew(F, x1, x1'), Grew(F, x2, x2'), Grew(F, x3, x3'), Grew(F, x4, x4'),
             InTurn(F, x1', x2', x3', x4'),
             at = "commit" => Covers(x2', x6[c].asked, x6[c].paths),
             at = "push" => Covers(x3', x6[c].asked, F),
             at = "create" => Covers(x4', x6[c].asked, F)
      PROVE  DlvInv(F)'
  <2>r. PICK r : r = [x6[c] EXCEPT !.at = at]
    OBVIOUS
  <2>1. /\ r \in DlvCalls(F) /\ r.want = x6[c].want /\ r.at = at /\ r.notice = x6[c].notice
        /\ r.asked = x6[c].asked /\ r.paths = x6[c].paths
    BY <2>r, <1>t DEF DlvCalls
  <2>2. CallIsSo(F, x1', x2', x3', x4', x6[c])
    BY <1>p, <1>t, CallStays
  <2>3. CallIsSo(F, x1', x2', x3', x4', r)
    BY <1>p, <2>1, <2>2 DEF CallIsSo
  <2>4. x6' = [x6 EXCEPT ![c] = r]
    BY <1>p, <1>t, <2>r DEF Dlv!Proceeds
  <2>5. QED
    BY <1>p, <2>1, <2>3, <2>4, CallKeeps DEF CallIs
<1>a. ASSUME NEW notice \in {"failed", "needs_commit", "committed", "pushed", "opened"},
             Dlv(F, n, m)!Answers(c, notice),
             Grew(F, x1, x1'), Grew(F, x2, x2'), Grew(F, x3, x3'), Grew(F, x4, x4'),
             InTurn(F, x1', x2', x3', x4'),
             notice = "committed" => Covers(x3', x6[c].asked, x6[c].paths),
             notice \in {"pushed", "opened"} => Covers(x4', x6[c].asked, F)
      PROVE  DlvInv(F)'
  <2>r. PICK r : r = [x6[c] EXCEPT !.at = "status", !.notice = notice]
    OBVIOUS
  <2>1. /\ r \in DlvCalls(F) /\ r.want = x6[c].want /\ r.at = "status" /\ r.notice = notice
        /\ r.asked = x6[c].asked /\ r.paths = x6[c].paths
    BY <2>r, <1>t DEF DlvCalls
  <2>2. CallIsSo(F, x1', x2', x3', x4', x6[c])
    BY <1>a, <1>t, CallStays
  <2>3. CallIsSo(F, x1', x2', x3', x4', r)
    BY <1>a, <2>1, <2>2 DEF CallIsSo
  <2>4. x6' = [x6 EXCEPT ![c] = r]
    BY <1>a, <1>t, <2>r DEF Dlv!Answers
  <2>5. QED
    BY <1>a, <2>1, <2>3, <2>4, CallKeeps DEF CallIs
<1>1. ASSUME Dlv(F, n, m)!ChecksDirty(c) PROVE DlvInv(F)'
  <2>0. UNCHANGED <<x1, x2, x3, x4>>
    BY <1>1 DEF Dlv!ChecksDirty
  <2>1. CASE Dlv(F, n, m)!Proceeds(c, "add")
    BY <2>0, <2>1, <1>p, <1>g, <1>t
  <2>2. CASE \E notice \in {"failed", "needs_commit"} : Dlv(F, n, m)!Answers(c, notice)
    BY <2>0, <2>2, <1>a, <1>g, <1>t
  <2>3. CASE Dlv(F, n, m)!Proceeds(c, "push") /\ ~Dlv(F, n, m)!Dirty
    <3>1. Covers(x3, x6[c].asked, F)
      BY <2>3, <1>t DEF Dlv!Dirty, CallIsSo
    <3>2. QED
      BY <3>1, <2>0, <2>3, <1>p, <1>g, <1>t
  <2>4. QED
    BY <1>1, <2>1, <2>2, <2>3 DEF Dlv!ChecksDirty
<1>2. ASSUME Dlv(F, n, m)!Adds(c) PROVE DlvInv(F)'
  <2>1. /\ x2' = [f \in F |-> IF f \in x6[c].paths THEN x1[f] ELSE x2[f]]
        /\ Dlv(F, n, m)!Proceeds(c, "commit") /\ UNCHANGED <<x1, x3, x4>>
    BY <1>2 DEF Dlv!Adds
  <2>2. Grew(F, x2, x2') /\ InTurn(F, x1', x2', x3', x4')
    BY <2>1, <1>t DEF Grew, InTurn, Covers
  <2>3. Covers(x2', x6[c].asked, x6[c].paths)
    BY <2>1, <1>t, <1>k DEF CallIsSo, Covers
  <2>4. QED
    BY <2>1, <2>2, <2>3, <1>p, <1>g
<1>3. ASSUME Dlv(F, n, m)!CommitsStaged(c) PROVE DlvInv(F)'
  <2>1. /\ x6[c].at = "commit" /\ x3' = x2 /\ UNCHANGED <<x1, x2, x4>>
        /\ \/ Dlv(F, n, m)!Answers(c, "failed") \/ Dlv(F, n, m)!Answers(c, "committed")
           \/ x6[c].want = "pr" /\ Dlv(F, n, m)!Proceeds(c, "push")
    BY <1>3 DEF Dlv!CommitsStaged
  <2>2. Grew(F, x3, x3') /\ InTurn(F, x1', x2', x3', x4')
    BY <2>1, <1>t DEF Grew, InTurn, Covers
  <2>3. Covers(x3', x6[c].asked, x6[c].paths) /\ (x6[c].want = "pr" => x6[c].paths = F)
    BY <2>1, <1>t DEF CallIsSo
  <2>4. QED
    BY <2>1, <2>2, <2>3, <1>p, <1>a, <1>g
<1>4. ASSUME Dlv(F, n, m)!PushesHead(c) PROVE DlvInv(F)'
  <2>1. /\ x6[c].at = "push" /\ x4' = x3 /\ UNCHANGED <<x1, x2, x3>>
        /\ Dlv(F, n, m)!Answers(c, "pushed") \/ Dlv(F, n, m)!Proceeds(c, "create")
    BY <1>4 DEF Dlv!PushesHead
  <2>2. Grew(F, x4, x4') /\ InTurn(F, x1', x2', x3', x4')
    BY <2>1, <1>t DEF Grew, InTurn, Covers
  <2>3. Covers(x4', x6[c].asked, F)
    BY <2>1, <1>t DEF CallIsSo
  <2>4. QED
    BY <2>1, <2>2, <2>3, <1>p, <1>a, <1>g
<1>5. ASSUME Dlv(F, n, m)!Creates(c) PROVE DlvInv(F)'
  <2>1. x6[c].at = "create" /\ UNCHANGED <<x1, x2, x3, x4>> /\ Dlv(F, n, m)!Answers(c, "opened")
    BY <1>5 DEF Dlv!Creates
  <2>2. Covers(x4, x6[c].asked, F)
    BY <2>1, <1>t DEF CallIsSo
  <2>3. QED
    BY <2>1, <2>2, <1>a, <1>g, <1>t
<1>6. ASSUME Dlv(F, n, m)!Fails(c) PROVE DlvInv(F)'
  <2>1. UNCHANGED <<x1, x2, x3, x4>> /\ Dlv(F, n, m)!Answers(c, "failed")
    BY <1>6 DEF Dlv!Fails
  <2>2. QED
    BY <2>1, <1>a, <1>g, <1>t
<1>7. QED
  BY <1>1, <1>2, <1>3, <1>4, <1>5, <1>6 DEF Dlv!Daemon

LEMMA DlvInduct ==
  ASSUME NEW F, NEW n, NEW m
  PROVE  /\ Dlv(F, n, m)!Init => DlvInv(F)
         /\ DlvInv(F) /\ [Dlv(F, n, m)!Next]_(Dlv(F, n, m)!vars) => DlvInv(F)'
         /\ DlvInv(F) => Dlv(F, n, m)!DeliveredIsThere
<1>1. DlvInv(F) /\ UNCHANGED Dlv(F, n, m)!vars => DlvInv(F)'
  BY DEF Dlv!vars, DlvInv, DlvTyped
<1>2. DlvInv(F) /\ Dlv(F, n, m)!Next => DlvInv(F)'
  BY AgentDelivers, WindowDelivers, DaemonDelivers DEF Dlv!Next, Dlv!Callers
<1>3. DlvInv(F) => Dlv(F, n, m)!DeliveredIsThere
  BY DEF DlvInv, CallIsSo, Covers, Dlv!DeliveredIsThere, Dlv!Holds, Dlv!Callers
<1>4. QED
  BY <1>1, <1>2, <1>3, DlvStarts

(* What a window reports as committed is committed, and as pushed or opened *)
(* on the remote, of any files and for any number of edits and calls.       *)
THEOREM DeliveredThere ==
  ASSUME NEW CONSTANT F, NEW CONSTANT n, NEW CONSTANT m
  PROVE  Dlv(F, n, m)!Spec => []Dlv(F, n, m)!DeliveredIsThere
<1>1. Dlv(F, n, m)!Init => DlvInv(F)
  BY DlvInduct
<1>2. DlvInv(F) /\ [Dlv(F, n, m)!Next]_(Dlv(F, n, m)!vars) => DlvInv(F)'
  BY DlvInduct
<1>3. DlvInv(F) => Dlv(F, n, m)!DeliveredIsThere
  BY DlvInduct
<1>4. QED
  BY <1>1, <1>2, <1>3, PTL DEF Dlv!Spec

-----------------------------------------------------------------------------
(* The panes                                                                *)

PanNoFile == [of |-> "nobody", path |-> "none", text |-> 0, saved |-> 0]
PanClosed == [tree |-> {}, file |-> PanNoFile]
PanFiles(T, P) == [of : T, path : P, text : Nat, saved : Nat] \cup {PanNoFile}
PanAsks(T, P) ==
  {a \in [what : {"snap", "diff", "status", "restore", "marks", "commit", "list", "read", "write",
                  "left"},
          of : T, path : P \cup {"none"}, text : Nat, served : BOOLEAN] :
     a.what \in {"read", "write", "left", "marks"} => a.path \in P}
PanPanels(T, P) ==
  [shows : {"none", "changes", "files"}, changes : T \cup {"nobody"}, status : T \cup {"nobody"},
   focus : P \cup {"none"}]
PanTyped(T, P) ==
  /\ x1 \in T /\ x2 \in PanPanels(T, P) /\ x3 \in [tree : SUBSET T, file : PanFiles(T, P)]
  /\ x4 \subseteq PanAsks(T, P) /\ x5 \in [T -> [P -> Nat]]

(* A file pane that is closed holds nothing and waits for nothing.          *)
ClosedIsEmpty ==
  x2.shows # "files" => x3 = PanClosed /\ \A a \in x4 : a.what \notin {"list", "read", "write"}

(* What is shown and what is asked for, but for snapshots, is of the open   *)
(* thread.                                                                  *)
AllOfOpen ==
  /\ x2.changes \in {x1, "nobody"} /\ x2.status \in {x1, "nobody"}
  /\ x3.file = PanNoFile \/ x3.file.of = x1
  /\ x3.tree \subseteq {x1}
  /\ \A a \in x4 : a.what # "snap" => a.of = x1

Crossed(A) == /\ \E a \in A : a.what \in {"write", "left"}
              /\ \E a \in A : a.what \in {"read", "marks"}

(* Of one file, either its text is being saved or it is being read.         *)
EditorIsSaved ==
  /\ ~Crossed(x4)
  /\ \A a \in x4 : a.served /\ a.what \in {"read", "write"} => x5[a.of][a.path] = a.text
  /\ \A a \in x4 : a.what = "write" =>
       /\ x3.file # PanNoFile
       /\ a.of = x3.file.of /\ a.path = x3.file.path /\ a.text = x3.file.text
  /\ \A a \in x4 : a.what = "left" => x3.file = PanNoFile
  /\ x3.file.saved <= x3.file.text
  /\ x3.file # PanNoFile /\ x3.file.text = x3.file.saved =>
       (\E a \in x4 : a.what = "write") \/ x5[x3.file.of][x3.file.path] = x3.file.text

PanInv(T, P) ==
  /\ PanTyped(T, P) /\ ClosedIsEmpty
  /\ "switched" \notin x7 => AllOfOpen
  /\ x7 = {} => EditorIsSaved

LEMMA PanStarts ==
  ASSUME NEW T, NEW f \in T, NEW P, NEW n, NEW k, Pan(T, f, P, n, k)!Init
  PROVE  PanInv(T, P)
BY DEF Pan!Init, Pan!Unmounted, Pan!NoFile, Pan!Nobody, Pan!NoPath, PanInv, PanTyped, PanPanels,
       PanFiles, PanAsks, PanNoFile, PanClosed, ClosedIsEmpty, AllOfOpen, EditorIsSaved, Crossed

(* A step that asks for N: it leaves the pane alone and drops no save.      *)
AsksMore(T, P, N) ==
  /\ UNCHANGED <<x1, x3, x5>>
  /\ x4' \subseteq x4 \cup N /\ \A a \in x4 : a.what = "write" => a \in x4'
  /\ N \subseteq PanAsks(T, P) /\ \A a \in N : ~a.served /\ a.what # "left"
  /\ x2' \in PanPanels(T, P) /\ (x2.shows = "files" => x2'.shows = "files")
  /\ \A a \in N : a.what \in {"list", "read", "write"} => x2'.shows = "files"
  /\ \A a \in N : a.what = "write" =>
       x3.file # PanNoFile /\ a.of = x1 /\ a.path = x3.file.path /\ a.text = x3.file.text
  /\ "switched" \notin x7' => "switched" \notin x7
  /\ "switched" \notin x7' /\ AllOfOpen =>
       /\ x2'.changes \in {x1, "nobody"} /\ x2'.status \in {x1, "nobody"}
       /\ \A a \in N : a.what # "snap" => a.of = x1
  /\ x7' = {} => /\ x7 = {}
                 /\ ~Crossed(x4') \/ \A a \in N : a.what \notin {"write", "read", "marks"}

LEMMA MoreKeeps ==
  ASSUME NEW T, NEW P, PanInv(T, P), NEW N, AsksMore(T, P, N)
  PROVE  PanInv(T, P)'
<1> USE DEF PanInv
<1>1. PanTyped(T, P)'
  BY DEF AsksMore, PanTyped
<1>2. ClosedIsEmpty'
  BY DEF AsksMore, ClosedIsEmpty, PanTyped, PanPanels
<1>3. ASSUME "switched" \notin x7' PROVE AllOfOpen'
  BY <1>3 DEF AsksMore, AllOfOpen
<1>4. ASSUME x7' = {} PROVE EditorIsSaved'
  <2>0. UNCHANGED <<x1, x3, x5>> /\ x7 = {} /\ EditorIsSaved /\ AllOfOpen
    BY <1>4 DEF AsksMore
  <2>1. ~Crossed(x4')
    BY <1>4, <2>0 DEF AsksMore, EditorIsSaved, Crossed
  <2>2. \A a \in x4' : a.served /\ a.what \in {"read", "write"} => x5'[a.of][a.path] = a.text
    BY <2>0 DEF AsksMore, EditorIsSaved
  <2>3. \A a \in x4' : a.what = "write" =>
          /\ x3'.file # PanNoFile
          /\ a.of = x3'.file.of /\ a.path = x3'.file.path /\ a.text = x3'.file.text
    BY <2>0 DEF AsksMore, EditorIsSaved, AllOfOpen
  <2>4. \A a \in x4' : a.what = "left" => x3'.file = PanNoFile
    BY <2>0 DEF AsksMore, EditorIsSaved
  <2>5. x3'.file # PanNoFile /\ x3'.file.text = x3'.file.saved =>
          (\E a \in x4' : a.what = "write") \/ x5'[x3'.file.of][x3'.file.path] = x3'.file.text
    BY <2>0 DEF AsksMore, EditorIsSaved
  <2>6. QED
    BY <2>0, <2>1, <2>2, <2>3, <2>4, <2>5 DEF EditorIsSaved
<1>5. QED
  BY <1>1, <1>2, <1>3, <1>4

LEMMA PanNoted ==
  ASSUME NEW T, NEW f, NEW P, NEW n, NEW k, NEW A, x7' = Pan(T, f, P, n, k)!Noted(A)
  PROVE  /\ "switched" \notin x7' => "switched" \notin x7
         /\ x7' = {} => x7 = {} /\ ~Crossed(A)
BY DEF Pan!Noted, Pan!Crosses, Crossed

(* A step that puts something else in the place of the file pane.           *)
Closes(T, P, N) ==
  /\ UNCHANGED <<x1, x5, x7>> /\ x3' = PanClosed
  /\ \A a \in x4' \ N : /\ \E b \in x4 : /\ b.what \notin {"list", "read"}
                                         /\ a = IF b.what = "write" THEN [b EXCEPT !.what = "left"] ELSE b
  /\ N \subseteq PanAsks(T, P) /\ \A a \in N : a.what \in {"diff", "status"} /\ a.of = x1
  /\ x2' \in PanPanels(T, P) /\ x2'.shows # "files"
  /\ x2'.changes \in {x2.changes, "nobody"} /\ x2'.status = x2.status

LEMMA CloseKeeps ==
  ASSUME NEW T, NEW P, PanInv(T, P), NEW N, Closes(T, P, N)
  PROVE  PanInv(T, P)'
<1> USE DEF PanInv
<1>1. ASSUME NEW a \in x4'
      PROVE  \/ a \in N
             \/ \E b \in x4 : /\ a \in PanAsks(T, P) /\ a.what \notin {"list", "read", "write"}
                              /\ a.of = b.of
                              /\ IF b.what = "write" THEN a.what = "left" ELSE a.what = b.what
  <2>1. CASE a \notin N
    <3>1. PICK b \in x4 : /\ b.what \notin {"list", "read"}
                          /\ a = IF b.what = "write" THEN [b EXCEPT !.what = "left"] ELSE b
      BY <2>1 DEF Closes
    <3>2. b \in PanAsks(T, P)
      BY DEF PanTyped
    <3>3. QED
      BY <3>1, <3>2 DEF PanAsks
  <2>2. QED
    BY <2>1
<1>2. PanTyped(T, P)'
  BY <1>1 DEF Closes, PanTyped, PanClosed, PanFiles
<1>3. ClosedIsEmpty'
  BY <1>1 DEF Closes, ClosedIsEmpty
<1>4. ASSUME "switched" \notin x7' PROVE AllOfOpen'
  <2>1. \A a \in x4' : a.what # "snap" => a.of = x1
    BY <1>1, <1>4 DEF Closes, AllOfOpen
  <2>2. QED
    BY <1>4, <2>1 DEF Closes, AllOfOpen, PanClosed
<1>5. ASSUME x7' = {} PROVE EditorIsSaved'
  <2>1. EditorIsSaved /\ x3' = PanClosed
    BY <1>5 DEF Closes
  <2>2. ~Crossed(x4')
    BY <1>1, <2>1 DEF EditorIsSaved, Crossed, Closes
  <2>3. \A a \in x4' : a.what \notin {"read", "write"}
    BY <1>1 DEF Closes
  <2>4. QED
    BY <2>1, <2>2, <2>3 DEF EditorIsSaved, PanClosed, PanNoFile
<1>6. QED
  BY <1>2, <1>3, <1>4, <1>5

(* The clicks that only ask for something more.                             *)
LEMMA ClicksKeep ==
  ASSUME NEW T, NEW f, NEW P, NEW n, NEW k, PanInv(T, P),
         \/ Pan(T, f, P, n, k)!Restore \/ Pan(T, f, P, n, k)!Commit \/ Pan(T, f, P, n, k)!DiffReady
         \/ Pan(T, f, P, n, k)!Save \/ \E p \in P : Pan(T, f, P, n, k)!OpenFile(p)
  PROVE  PanInv(T, P)'
<1> USE DEF PanInv
<1>t. /\ x1 \in T /\ x2 \in PanPanels(T, P) /\ x3 \in [tree : SUBSET T, file : PanFiles(T, P)]
      /\ x4 \subseteq PanAsks(T, P)
  BY DEF PanTyped
<1>1. ASSUME NEW what \in {"restore", "commit", "status"},
             x4' = x4 \cup {Pan(T, f, P, n, k)!Asked(what, x1)}, UNCHANGED <<x1, x2, x3, x5, x7>>
      PROVE  PanInv(T, P)'
  <2>a. PICK a : a = Pan(T, f, P, n, k)!Ask(what, x1, "none", 0)
    OBVIOUS
  <2>b. a \in PanAsks(T, P) /\ a.what = what /\ a.of = x1 /\ ~a.served
    BY <2>a, <1>t DEF Pan!Ask, PanAsks
  <2>n. PICK N : N = {a}
    OBVIOUS
  <2>1. x4' = x4 \cup N /\ \A b \in N : b \in PanAsks(T, P) /\ b.what = what /\ b.of = x1 /\ ~b.served
    BY <1>1, <2>a, <2>b, <2>n DEF Pan!Asked, Pan!NoPath
  <2>2. AsksMore(T, P, N)
    BY <1>1, <2>1, <1>t DEF AsksMore, AllOfOpen
  <2>3. QED
    BY <2>2, MoreKeeps
<1>2. ASSUME NEW p \in P, Pan(T, f, P, n, k)!OpenFile(p) PROVE PanInv(T, P)'
  <2>a. PICK a : a = Pan(T, f, P, n, k)!Ask("read", x1, p, 0)
    OBVIOUS
  <2>n. PICK N : N = {a}
    OBVIOUS
  <2>b. a \in PanAsks(T, P) /\ a.what = "read" /\ a.of = x1 /\ ~a.served
    BY <2>a, <1>t DEF Pan!Ask, PanAsks
  <2>1. \A b \in N : b \in PanAsks(T, P) /\ b.what = "read" /\ b.of = x1 /\ ~b.served
    BY <2>n, <2>b
  <2>2. /\ x4' = x4 \cup N /\ x7' = Pan(T, f, P, n, k)!Noted(x4') /\ UNCHANGED <<x1, x2, x3, x5>>
        /\ x3.tree # {}
    BY <1>2, <2>a, <2>n DEF Pan!OpenFile
  <2>3. x2.shows = "files"
    BY <2>2 DEF ClosedIsEmpty, PanClosed
  <2>4. AsksMore(T, P, N)
    BY <2>1, <2>2, <2>3, <1>t, PanNoted DEF AsksMore, AllOfOpen
  <2>5. QED
    BY <2>4, MoreKeeps
<1>3. ASSUME Pan(T, f, P, n, k)!Save PROVE PanInv(T, P)'
  <2>a. PICK a : a = Pan(T, f, P, n, k)!Ask("write", x1, x3.file.path, x3.file.text)
    OBVIOUS
  <2>n. PICK N : N = {a}
    OBVIOUS
  <2>2. /\ x4' = x4 \cup N /\ x7' = Pan(T, f, P, n, k)!Noted(x4') /\ UNCHANGED <<x1, x2, x3, x5>>
        /\ x3.file # PanNoFile
    BY <1>3, <2>a, <2>n DEF Pan!Save, Pan!NoFile, Pan!Nobody, Pan!NoPath, PanNoFile
  <2>c. x3.file.path \in P /\ x3.file.text \in Nat
    BY <2>2, <1>t DEF PanFiles
  <2>b. /\ a \in PanAsks(T, P) /\ a.what = "write" /\ a.of = x1 /\ ~a.served
        /\ a.path = x3.file.path /\ a.text = x3.file.text
    BY <2>a, <2>c, <1>t DEF Pan!Ask, PanAsks
  <2>1. \A b \in N : /\ b \in PanAsks(T, P) /\ b.what = "write" /\ b.of = x1 /\ ~b.served
                     /\ b.path = x3.file.path /\ b.text = x3.file.text
    BY <2>n, <2>b
  <2>3. x2.shows = "files"
    BY <2>2 DEF ClosedIsEmpty, PanClosed
  <2>4. AsksMore(T, P, N)
    BY <2>1, <2>2, <2>3, <1>t, PanNoted DEF AsksMore, AllOfOpen
  <2>5. QED
    BY <2>4, MoreKeeps
<1>4. QED
  BY <1>1, <1>2, <1>3 DEF Pan!Restore, Pan!Commit, Pan!DiffReady

(* The file pane opens, or turns to a file.                                 *)
LEMMA MountsKeep ==
  ASSUME NEW T, NEW f, NEW P, NEW n, NEW k, PanInv(T, P),
         Pan(T, f, P, n, k)!OpenFiles \/ \E p \in P : Pan(T, f, P, n, k)!OpenChangedFile(p)
  PROVE  PanInv(T, P)'
<1> USE DEF PanInv
<1>t. /\ x1 \in T /\ x2 \in PanPanels(T, P) /\ x4 \subseteq PanAsks(T, P)
  BY DEF PanTyped
<1>1. ASSUME NEW p \in P \cup {"none"}, NEW N, Pan(T, f, P, n, k)!Mount(p), UNCHANGED <<x1, x5>>,
             x4' = x4 \cup N, x7' = Pan(T, f, P, n, k)!Noted(x4'),
             \A a \in N : /\ a \in PanAsks(T, P) /\ a.what \in {"list", "read", "marks"}
                          /\ a.of = x1 /\ ~a.served
      PROVE  PanInv(T, P)'
  <2>1. /\ x2' = [x2 EXCEPT !.shows = "files", !.focus = p]
        /\ x3' = IF x2.shows = "files" THEN x3 ELSE PanClosed
    BY <1>1 DEF Pan!Mount, Pan!Unmounted, Pan!NoFile, Pan!Nobody, Pan!NoPath, PanNoFile, PanClosed
  <2>2. x3' = x3
    BY <2>1 DEF ClosedIsEmpty
  <2>3. x2' \in PanPanels(T, P) /\ x2'.shows = "files" /\ x2'.changes = x2.changes /\ x2'.status = x2.status
    BY <2>1, <1>t DEF PanPanels
  <2>4. AsksMore(T, P, N)
    BY <1>1, <2>2, <2>3, PanNoted DEF AsksMore, AllOfOpen
  <2>5. QED
    BY <2>4, MoreKeeps
<1>2. \A p \in P \cup {"none"} : \A a \in Pan(T, f, P, n, k)!Reads(p) :
        a \in PanAsks(T, P) /\ a.what = "read" /\ a.of = x1 /\ ~a.served
  <2>1. ASSUME NEW p \in P \cup {"none"}, p # "none"
        PROVE  \A a \in Pan(T, f, P, n, k)!Reads(p) :
                 a \in PanAsks(T, P) /\ a.what = "read" /\ a.of = x1 /\ ~a.served
    <3>1. PICK a : a = Pan(T, f, P, n, k)!Ask("read", x1, p, 0)
      OBVIOUS
    <3>2. a \in PanAsks(T, P) /\ a.what = "read" /\ a.of = x1 /\ ~a.served
      BY <3>1, <2>1, <1>t DEF Pan!Ask, PanAsks
    <3>3. \A b \in Pan(T, f, P, n, k)!Reads(p) : b = a
      BY <3>1 DEF Pan!Reads
    <3>4. QED
      BY <3>2, <3>3
  <2>2. ASSUME NEW p, p = "none" PROVE Pan(T, f, P, n, k)!Reads(p) = {}
    BY <2>2 DEF Pan!Reads, Pan!NoPath
  <2>3. QED
    BY <2>1, <2>2
<1>3. PICK l : l = Pan(T, f, P, n, k)!Asked("list", x1)
  OBVIOUS
<1>4. l \in PanAsks(T, P) /\ l.what = "list" /\ l.of = x1 /\ ~l.served
  BY <1>3, <1>t DEF Pan!Asked, Pan!Ask, Pan!NoPath, PanAsks
<1>5. ASSUME Pan(T, f, P, n, k)!OpenFiles PROVE PanInv(T, P)'
  <2>n. PICK N : N = {l} \cup Pan(T, f, P, n, k)!Reads(x2.focus)
    OBVIOUS
  <2>1. /\ x4' = x4 \cup N /\ x7' = Pan(T, f, P, n, k)!Noted(x4') /\ UNCHANGED <<x1, x5>>
        /\ Pan(T, f, P, n, k)!Mount(x2.focus)
    BY <1>5, <1>3, <2>n DEF Pan!OpenFiles
  <2>2. x2.focus \in P \cup {"none"}
    BY <1>t DEF PanPanels
  <2>3. \A a \in N : /\ a \in PanAsks(T, P) /\ a.what \in {"list", "read", "marks"}
                     /\ a.of = x1 /\ ~a.served
    BY <2>n, <2>2, <1>2, <1>4
  <2>4. QED
    BY <2>1, <2>2, <2>3, <1>1
<1>6. ASSUME NEW p \in P, Pan(T, f, P, n, k)!OpenChangedFile(p) PROVE PanInv(T, P)'
  <2>m. PICK m : m = Pan(T, f, P, n, k)!Ask("marks", x1, p, 0)
    OBVIOUS
  <2>k. m \in PanAsks(T, P) /\ m.what = "marks" /\ m.of = x1 /\ ~m.served
    BY <2>m, <1>t DEF Pan!Ask, PanAsks
  <2>n. PICK N : N = {m} \cup Pan(T, f, P, n, k)!Reads(p) \cup (IF x2.shows = "files" THEN {} ELSE {l})
    OBVIOUS
  <2>1. /\ x4' = x4 \cup N /\ x7' = Pan(T, f, P, n, k)!Noted(x4') /\ UNCHANGED <<x1, x5>>
        /\ Pan(T, f, P, n, k)!Mount(p)
    BY <1>6, <1>3, <2>m, <2>n DEF Pan!OpenChangedFile
  <2>3. \A a \in N : /\ a \in PanAsks(T, P) /\ a.what \in {"list", "read", "marks"}
                     /\ a.of = x1 /\ ~a.served
    BY <2>n, <2>k, <1>2, <1>4
  <2>4. QED
    BY <2>1, <2>3, <1>1
<1>7. QED
  BY <1>5, <1>6

(* A surface takes the place of the file pane, or none.                     *)
LEMMA ClosesKeep ==
  ASSUME NEW T, NEW f, NEW P, NEW n, NEW k, PanInv(T, P),
         Pan(T, f, P, n, k)!CloseRight \/ Pan(T, f, P, n, k)!OpenChanges
  PROVE  PanInv(T, P)'
<1> USE DEF PanInv
<1>t. /\ x1 \in T /\ x2 \in PanPanels(T, P) /\ x4 \subseteq PanAsks(T, P)
  BY DEF PanTyped
<1>1. ASSUME NEW a \in Pan(T, f, P, n, k)!Others
      PROVE  \E b \in x4 : /\ b.what \notin {"list", "read"}
                           /\ a = IF b.what = "write" THEN [b EXCEPT !.what = "left"] ELSE b
  BY DEF Pan!Others, Pan!Left
<1>2. ASSUME Pan(T, f, P, n, k)!CloseRight PROVE PanInv(T, P)'
  <2>1. /\ x2' = [x2 EXCEPT !.shows = "none", !.changes = "nobody"] /\ UNCHANGED <<x1, x5, x7>>
        /\ x4' = Pan(T, f, P, n, k)!Others /\ x3' = PanClosed
    BY <1>2 DEF Pan!CloseRight, Pan!Unmounted, Pan!NoFile, Pan!Nobody, Pan!NoPath, PanClosed, PanNoFile
  <2>2. /\ x2' \in PanPanels(T, P) /\ x2'.shows # "files" /\ x2'.changes = "nobody"
        /\ x2'.status = x2.status
    BY <2>1, <1>t DEF PanPanels
  <2>3. Closes(T, P, {})
    BY <2>1, <2>2, <1>1 DEF Closes
  <2>4. QED
    BY <2>3, CloseKeeps
<1>3. ASSUME NEW N, \A a \in N : /\ a \in PanAsks(T, P) /\ a.what \in {"diff", "status"}
                                 /\ a.of = x1 /\ ~a.served,
             Pan(T, f, P, n, k)!Shows("changes", N), UNCHANGED <<x1, x5, x7>>
      PROVE  PanInv(T, P)'
  <2>1. /\ x2' = [x2 EXCEPT !.shows = "changes"]
        /\ IF x2.shows = "files" THEN x3' = PanClosed /\ x4' = Pan(T, f, P, n, k)!Others \cup N
           ELSE x3' = x3 /\ x4' = x4 \cup N
    BY <1>3 DEF Pan!Shows, Pan!Unmounted, Pan!NoFile, Pan!Nobody, Pan!NoPath, PanClosed, PanNoFile
  <2>2. /\ x2' \in PanPanels(T, P) /\ x2'.shows = "changes" /\ x2'.changes = x2.changes
        /\ x2'.status = x2.status
    BY <2>1, <1>t DEF PanPanels
  <2>3. CASE x2.shows = "files"
    <3>1. Closes(T, P, N)
      BY <2>1, <2>2, <2>3, <1>1, <1>3 DEF Closes
    <3>2. QED
      BY <3>1, CloseKeeps
  <2>4. CASE x2.shows # "files"
    <3>1. AsksMore(T, P, N)
      BY <2>1, <2>2, <2>4, <1>3 DEF AsksMore, AllOfOpen
    <3>2. QED
      BY <3>1, MoreKeeps
  <2>5. QED
    BY <2>3, <2>4
<1>4. ASSUME Pan(T, f, P, n, k)!OpenChanges PROVE PanInv(T, P)'
  <2>1. PICK d, s : d = Pan(T, f, P, n, k)!Asked("diff", x1) /\ s = Pan(T, f, P, n, k)!Asked("status", x1)
    OBVIOUS
  <2>2. /\ d \in PanAsks(T, P) /\ d.what = "diff" /\ d.of = x1 /\ ~d.served
        /\ s \in PanAsks(T, P) /\ s.what = "status" /\ s.of = x1 /\ ~s.served
    BY <2>1, <1>t DEF Pan!Asked, Pan!Ask, Pan!NoPath, PanAsks
  <2>3. UNCHANGED <<x1, x5, x7>> /\ \E N \in {{d, s}, {d}} : Pan(T, f, P, n, k)!Shows("changes", N)
    BY <1>4, <2>1 DEF Pan!OpenChanges
  <2>4. QED
    BY <2>2, <2>3, <1>3
<1>5. QED
  BY <1>2, <1>4

(* A thread is opened.                                                      *)
LEMMA OpensKeep ==
  ASSUME NEW T, NEW f, NEW P, NEW n, NEW k, PanInv(T, P), NEW t \in T, Pan(T, f, P, n, k)!OpenThread(t)
  PROVE  PanInv(T, P)'
<1> USE DEF PanInv
<1>t. /\ x1 \in T /\ x2 \in PanPanels(T, P) /\ x3 \in [tree : SUBSET T, file : PanFiles(T, P)]
      /\ x4 \subseteq PanAsks(T, P) /\ x5 \in [T -> [P -> Nat]]
  BY DEF PanTyped
<1>a. PICK s, l : s = Pan(T, f, P, n, k)!Asked("snap", t) /\ l = Pan(T, f, P, n, k)!Asked("list", t)
  OBVIOUS
<1>b. /\ s \in PanAsks(T, P) /\ s.what = "snap" /\ s.of = t /\ ~s.served
      /\ l \in PanAsks(T, P) /\ l.what = "list" /\ l.of = t /\ ~l.served
  BY <1>a, <1>t DEF Pan!Asked, Pan!Ask, Pan!NoPath, PanAsks
<1>o. PICK other \in BOOLEAN : other = (t # x1 /\ x2.shows = "files")
  OBVIOUS
<1>n. PICK N : N = {s} \cup (IF other THEN {l} ELSE {})
  OBVIOUS
<1>1. /\ x1' = t /\ x2' = [x2 EXCEPT !.changes = "nobody", !.status = "nobody"] /\ x5' = x5
      /\ x3' = IF other THEN PanClosed ELSE x3
      /\ x4' = x4 \cup N
      /\ x7' = IF t # x1 /\ \E a \in x4 : a.what # "snap" THEN x7 \cup {"switched"} ELSE x7
  <2>1. x4' = x4 \cup {s} \cup (IF other THEN {l} ELSE {})
    BY <1>a, <1>o DEF Pan!OpenThread
  <2>2. x4' = x4 \cup N
    BY <2>1, <1>n
  <2>3. QED
    BY <2>2, <1>o DEF Pan!OpenThread, Pan!Unmounted, Pan!NoFile, Pan!Nobody, Pan!NoPath, PanClosed, PanNoFile
<1>2. x2' \in PanPanels(T, P) /\ x2'.shows = x2.shows /\ x2'.changes = "nobody" /\ x2'.status = "nobody"
  BY <1>1, <1>t DEF PanPanels
<1>3. CASE t = x1
  <2>1. AsksMore(T, P, N)
    BY <1>1, <1>2, <1>3, <1>n, <1>o, <1>b DEF AsksMore, AllOfOpen
  <2>2. QED
    BY <2>1, MoreKeeps
<1>4. CASE t # x1
  <2>1. x3' = PanClosed
    BY <1>1, <1>4, <1>o DEF ClosedIsEmpty
  <2>2. \A a \in x4' : a \in x4 \/ a = s \/ (a = l /\ x2.shows = "files")
    BY <1>1, <1>n, <1>o
  <2>3. PanTyped(T, P)'
    BY <1>1, <1>2, <1>t, <1>b, <2>1, <2>2 DEF PanTyped, PanClosed, PanFiles
  <2>4. ClosedIsEmpty'
    BY <1>2, <1>b, <2>1, <2>2 DEF ClosedIsEmpty
  <2>5. ASSUME "switched" \notin x7' PROVE \A a \in x4 : a.what = "snap"
    BY <2>5, <1>1, <1>4
  <2>6. ASSUME "switched" \notin x7' PROVE AllOfOpen'
    BY <2>5, <2>6, <1>1, <1>2, <1>b, <2>1, <2>2 DEF AllOfOpen, PanClosed
  <2>7. ASSUME x7' = {} PROVE EditorIsSaved'
    <3>1. \A a \in x4' : a.what \in {"snap", "list"}
      BY <2>5, <2>7, <1>b, <2>2
    <3>2. QED
      BY <3>1, <2>1 DEF EditorIsSaved, Crossed, PanClosed, PanNoFile
  <2>8. QED
    BY <2>3, <2>4, <2>6, <2>7
<1>5. QED
  BY <1>3, <1>4

LEMMA TypesKeep ==
  ASSUME NEW T, NEW f, NEW P, NEW n, NEW k, PanInv(T, P), NEW text \in Nat,
         Pan(T, f, P, n, k)!Type(text)
  PROVE  PanInv(T, P)'
<1> USE DEF PanInv
<1>t. /\ x3 \in [tree : SUBSET T, file : PanFiles(T, P)]
  BY DEF PanTyped
<1>1. /\ x3.file # PanNoFile /\ text > x3.file.text /\ x3' = [x3 EXCEPT !.file.text = text]
      /\ x7' = IF \E a \in x4 : a.what = "write" THEN x7 \cup {"typed"} ELSE x7
      /\ UNCHANGED <<x1, x2, x4, x5>>
  BY DEF Pan!Type, Pan!Waits, Pan!NoFile, Pan!Nobody, Pan!NoPath, PanNoFile
<1>2. x3.file \in [of : T, path : P, text : Nat, saved : Nat]
  BY <1>1, <1>t DEF PanFiles
<1>3. /\ x3'.tree = x3.tree /\ x3'.file \in [of : T, path : P, text : Nat, saved : Nat]
      /\ x3' \in [tree : SUBSET T, file : PanFiles(T, P)]
      /\ x3'.file.of = x3.file.of /\ x3'.file.path = x3.file.path /\ x3'.file.text = text
      /\ x3'.file.saved = x3.file.saved /\ x3'.file # PanNoFile
  BY <1>1, <1>2, <1>t DEF PanFiles, PanNoFile
<1>4. PanTyped(T, P)'
  BY <1>1, <1>3 DEF PanTyped
<1>5. ClosedIsEmpty'
  BY <1>1, <1>3 DEF ClosedIsEmpty, PanClosed
<1>6. ASSUME "switched" \notin x7' PROVE AllOfOpen'
  BY <1>1, <1>3, <1>6 DEF AllOfOpen
<1>7. ASSUME x7' = {} PROVE EditorIsSaved'
  <2>1. EditorIsSaved /\ \A a \in x4 : a.what # "write"
    BY <1>1, <1>7
  <2>2. x3'.file.saved < x3'.file.text
    BY <1>1, <1>2, <1>3, <2>1 DEF EditorIsSaved
  <2>3. \A a \in x4 : a.what # "left"
    BY <1>1, <2>1 DEF EditorIsSaved
  <2>4. ~Crossed(x4') /\ \A a \in x4' : a.served /\ a.what \in {"read", "write"} => x5'[a.of][a.path] = a.text
    BY <1>1, <2>1 DEF EditorIsSaved
  <2>5. x3'.file.saved <= x3'.file.text /\ x3'.file.text # x3'.file.saved
    BY <1>3, <2>2
  <2>6. QED
    BY <1>1, <2>1, <2>3, <2>4, <2>5 DEF EditorIsSaved
<1>8. QED
  BY <1>4, <1>5, <1>6, <1>7

(* The daemon reads or writes a file.                                       *)
LEMMA ServesKeep ==
  ASSUME NEW T, NEW f, NEW P, NEW n, NEW k, PanInv(T, P), NEW a \in x4,
         Pan(T, f, P, n, k)!FileRead(a) \/ Pan(T, f, P, n, k)!FileWrite(a)
  PROVE  PanInv(T, P)'
<1> USE DEF PanInv
<1>t. /\ x3 \in [tree : SUBSET T, file : PanFiles(T, P)] /\ x5 \in [T -> [P -> Nat]]
      /\ a \in PanAsks(T, P) /\ x4 \subseteq PanAsks(T, P)
  BY DEF PanTyped
<1>p. a.of \in T /\ a.path \in P /\ a.text \in Nat
  BY <1>t DEF PanAsks, Pan!FileRead, Pan!FileWrite
<1>s. ASSUME NEW b, b \in PanAsks(T, P), b.what = a.what, b.of = a.of, b.path = a.path,
             x4' = (x4 \ {a}) \cup {b}, UNCHANGED <<x1, x2, x3, x7>>, x5' \in [T -> [P -> Nat]]
      PROVE  /\ PanTyped(T, P)' /\ ClosedIsEmpty' /\ ("switched" \notin x7' => AllOfOpen')
             /\ x7' = {} => ~Crossed(x4')
  <2>1. PanTyped(T, P)'
    BY <1>s, <1>t DEF PanTyped
  <2>2. \A c \in x4' : \E d \in x4 : c.what = d.what /\ c.of = d.of
    BY <1>s
  <2>3. ClosedIsEmpty' /\ ("switched" \notin x7' => AllOfOpen')
    BY <1>s, <2>2 DEF ClosedIsEmpty, AllOfOpen
  <2>4. x7' = {} => ~Crossed(x4')
    BY <1>s, <2>2 DEF EditorIsSaved, Crossed
  <2>5. QED
    BY <2>1, <2>3, <2>4
<1>1. ASSUME Pan(T, f, P, n, k)!FileRead(a) PROVE PanInv(T, P)'
  <2>v. PICK v : v = x5[a.of][a.path]
    OBVIOUS
  <2>b. PICK b : b = [a EXCEPT !.served = TRUE, !.text = v]
    OBVIOUS
  <2>1. /\ a.what = "read" /\ x4' = (x4 \ {a}) \cup {b} /\ UNCHANGED <<x1, x2, x3, x5, x7>>
    BY <1>1, <2>b, <2>v DEF Pan!FileRead
  <2>2. v \in Nat
    BY <2>v, <1>t, <1>p
  <2>3. /\ b \in PanAsks(T, P) /\ b.what = "read" /\ b.of = a.of /\ b.path = a.path
        /\ b.text = v
    BY <2>b, <2>1, <2>2, <1>t DEF PanAsks
  <2>4. ASSUME x7' = {} PROVE EditorIsSaved'
    <3>1. \A c \in x4' : c \in x4 \/ c = b
      BY <2>1
    <3>2. EditorIsSaved /\ ~Crossed(x4') /\ \A c \in x4 : c.what # "write" /\ c.what # "left"
      BY <2>1, <2>3, <2>4, <1>s, <1>t DEF EditorIsSaved, Crossed
    <3>3. QED
      BY <2>1, <2>3, <2>v, <3>1, <3>2 DEF EditorIsSaved
  <2>5. QED
    BY <2>1, <2>3, <2>4, <1>s, <1>t
<1>2. ASSUME Pan(T, f, P, n, k)!FileWrite(a) PROVE PanInv(T, P)'
  <2>b. PICK b : b = [a EXCEPT !.served = TRUE]
    OBVIOUS
  <2>1. /\ a.what \in {"write", "left"} /\ x4' = (x4 \ {a}) \cup {b} /\ UNCHANGED <<x1, x2, x3, x7>>
        /\ x5' = [x5 EXCEPT ![a.of][a.path] = a.text]
    BY <1>2, <2>b DEF Pan!FileWrite
  <2>3. /\ b \in PanAsks(T, P) /\ b.what = a.what /\ b.of = a.of /\ b.path = a.path
        /\ b.text = a.text
    BY <2>b, <1>t DEF PanAsks
  <2>2. x5' \in [T -> [P -> Nat]] /\ x5'[a.of][a.path] = a.text
    BY <2>1, <1>t, <1>p
  <2>4. ASSUME x7' = {} PROVE EditorIsSaved'
    <3>1. \A c \in x4' : c \in x4 \/ c = b
      BY <2>1
    <3>2. EditorIsSaved /\ ~Crossed(x4') /\ \A c \in x4 : c.what # "read"
      BY <2>1, <2>2, <2>3, <2>4, <1>s, <1>t DEF EditorIsSaved, Crossed
    <3>3. CASE a.what = "left"
      <4>1. x3.file = PanNoFile /\ \A c \in x4 : c.what # "write"
        BY <3>2, <3>3 DEF EditorIsSaved
      <4>2. QED
        BY <2>1, <2>3, <3>1, <3>2, <3>3, <4>1 DEF EditorIsSaved
    <3>4. CASE a.what = "write"
      <4>1. /\ x3.file # PanNoFile /\ a.of = x3.file.of /\ a.path = x3.file.path
            /\ a.text = x3.file.text
        BY <3>2, <3>4 DEF EditorIsSaved
      <4>2. \A c \in x4' : c.what # "left" /\ c.what # "read"
        BY <2>3, <3>1, <3>2, <3>4, <4>1 DEF EditorIsSaved
      <4>3. \A c \in x4' : c.what = "write" =>
              /\ x3'.file # PanNoFile /\ c.of = x3'.file.of /\ c.path = x3'.file.path
              /\ c.text = x3'.file.text
        BY <2>1, <2>3, <3>1, <3>2, <4>1 DEF EditorIsSaved
      <4>4. x5'[x3'.file.of][x3'.file.path] = x3'.file.text
        BY <2>1, <2>2, <4>1
      <4>5. \A c \in x4' : c.served /\ c.what \in {"read", "write"} => x5'[c.of][c.path] = c.text
        BY <4>2, <4>3, <4>4
      <4>6. QED
        BY <2>1, <3>2, <4>2, <4>3, <4>4, <4>5 DEF EditorIsSaved
    <3>5. QED
      BY <2>1, <3>3, <3>4
  <2>5. QED
    BY <2>1, <2>2, <2>3, <2>4, <1>s, <1>t
<1>3. QED
  BY <1>1, <1>2

(* An answer comes.                                                         *)
LEMMA AnswersKeep ==
  ASSUME NEW T, NEW f, NEW P, NEW n, NEW k, PanInv(T, P), NEW a \in x4, Pan(T, f, P, n, k)!Answered(a)
  PROVE  PanInv(T, P)'
<1> USE DEF PanInv
<1>t. /\ x1 \in T /\ x2 \in PanPanels(T, P) /\ x3 \in [tree : SUBSET T, file : PanFiles(T, P)]
      /\ x5 \in [T -> [P -> Nat]] /\ a \in PanAsks(T, P) /\ x4 \subseteq PanAsks(T, P)
  BY DEF PanTyped
<1>1. /\ a.what \in {"read", "write", "left"} => a.served
      /\ UNCHANGED <<x1, x5>> /\ x7' = Pan(T, f, P, n, k)!Noted(x4')
      /\ x2' = Pan(T, f, P, n, k)!Shown(a) /\ x3' = Pan(T, f, P, n, k)!InPane(a)
      /\ x4' = (x4 \ {a}) \cup Pan(T, f, P, n, k)!Then(a)
  BY DEF Pan!Answered, Pan!Served
<1>2. /\ "switched" \notin x7' => "switched" \notin x7
      /\ x7' = {} => x7 = {} /\ ~Crossed(x4')
  BY <1>1, PanNoted
<1>3. ASSUME a.what \notin {"list", "read", "write"} PROVE PanInv(T, P)'
  <2>1. x3' = x3
    BY <1>3, <1>1 DEF Pan!InPane
  <2>2. /\ x2' \in PanPanels(T, P) /\ x2'.shows = x2.shows
        /\ x2'.changes \in {x2.changes, a.of, "nobody"} /\ x2'.status \in {x2.status, a.of}
        /\ a.what = "snap" => x2'.changes = x2.changes /\ x2'.status = x2.status
    <3>0. a.of \in T /\ (a.what = "marks" => a.path \in P)
      BY <1>t DEF PanAsks
    <3>1. CASE a.what = "diff"
      BY <3>0, <3>1, <1>1, <1>t DEF Pan!Shown, PanPanels
    <3>2. CASE a.what = "status"
      BY <3>0, <3>2, <1>1, <1>t DEF Pan!Shown, PanPanels
    <3>3. CASE a.what = "restore"
      BY <3>0, <3>3, <1>1, <1>t DEF Pan!Shown, Pan!Nobody, PanPanels
    <3>4. CASE a.what = "marks"
      BY <3>0, <3>4, <1>1, <1>t DEF Pan!Shown, PanPanels
    <3>5. CASE a.what \notin {"diff", "status", "restore", "marks"}
      BY <3>5, <1>1, <1>t DEF Pan!Shown
    <3>6. QED
      BY <3>1, <3>2, <3>3, <3>4, <3>5
  <2>n. PICK N : N = Pan(T, f, P, n, k)!Then(a)
    OBVIOUS
  <2>3. \A b \in N : /\ b \in PanAsks(T, P) /\ b.of = x1 /\ ~b.served
                     /\ b.what \in {"status", "diff", "read"}
                     /\ b.what = "read" => x2.shows = "files"
    <3>1. CASE a.what = "snap" /\ a.of = x1
      <4>a. PICK b : b = Pan(T, f, P, n, k)!Asked("status", x1)
        OBVIOUS
      <4>1. b \in PanAsks(T, P) /\ b.what = "status" /\ b.of = x1 /\ ~b.served
        BY <4>a, <1>t DEF Pan!Asked, Pan!Ask, Pan!NoPath, PanAsks
      <4>2. N = {b}
        BY <2>n, <3>1, <4>a DEF Pan!Then
      <4>3. QED
        BY <4>1, <4>2
    <3>2. CASE a.what = "commit"
      <4>a. PICK b, c : b = Pan(T, f, P, n, k)!Asked("status", x1) /\ c = Pan(T, f, P, n, k)!Asked("diff", x1)
        OBVIOUS
      <4>1. /\ b \in PanAsks(T, P) /\ b.what = "status" /\ b.of = x1 /\ ~b.served
            /\ c \in PanAsks(T, P) /\ c.what = "diff" /\ c.of = x1 /\ ~c.served
        BY <4>a, <1>t DEF Pan!Asked, Pan!Ask, Pan!NoPath, PanAsks
      <4>2. N = {b, c}
        BY <2>n, <3>2, <4>a DEF Pan!Then
      <4>3. QED
        BY <4>1, <4>2
    <3>3. CASE a.what = "marks" /\ x2.shows = "files"
      <4>a. PICK b : b = Pan(T, f, P, n, k)!Ask("read", x1, a.path, 0)
        OBVIOUS
      <4>0. a.path \in P
        BY <3>3, <1>t DEF PanAsks
      <4>1. b \in PanAsks(T, P) /\ b.what = "read" /\ b.of = x1 /\ ~b.served
        BY <4>a, <4>0, <1>t DEF Pan!Ask, PanAsks
      <4>2. N = {b}
        BY <2>n, <3>3, <4>a DEF Pan!Then
      <4>3. QED
        BY <4>1, <4>2, <3>3
    <3>4. CASE /\ ~(a.what = "snap" /\ a.of = x1) /\ a.what # "commit"
               /\ ~(a.what = "marks" /\ x2.shows = "files")
      BY <3>4, <2>n DEF Pan!Then
    <3>5. QED
      BY <3>1, <3>2, <3>3, <3>4
  <2>4. AsksMore(T, P, N)
    BY <1>1, <1>2, <1>3, <2>1, <2>2, <2>3, <2>n DEF AsksMore, AllOfOpen
  <2>5. QED
    BY <2>4, MoreKeeps
<1>4. ASSUME a.what \in {"list", "read", "write"}
      PROVE  /\ x2' = x2 /\ x4' = x4 \ {a} /\ x2.shows = "files"
             /\ ClosedIsEmpty' /\ \A b \in x4' : b \in x4
  <2>1. x2' = x2 /\ Pan(T, f, P, n, k)!Then(a) = {}
    BY <1>4, <1>1 DEF Pan!Shown, Pan!Then
  <2>2. x2.shows = "files"
    BY <1>4 DEF ClosedIsEmpty
  <2>3. QED
    BY <2>1, <2>2, <1>1 DEF ClosedIsEmpty
<1>5. CASE a.what = "list"
  <2>0. a.of \in T
    BY <1>t DEF PanAsks
  <2>1. x3' = [x3 EXCEPT !.tree = @ \cup {a.of}]
    BY <1>5, <1>1 DEF Pan!InPane
  <2>2. /\ x3' \in [tree : SUBSET T, file : PanFiles(T, P)] /\ x3'.file = x3.file
        /\ x3'.tree = x3.tree \cup {a.of}
    BY <2>0, <2>1, <1>t
  <2>3. PanTyped(T, P)'
    BY <2>2, <1>1, <1>4, <1>5, <1>t DEF PanTyped
  <2>4. ASSUME "switched" \notin x7' PROVE AllOfOpen'
    BY <2>2, <2>4, <1>1, <1>2, <1>4, <1>5 DEF AllOfOpen
  <2>5. ASSUME x7' = {} PROVE EditorIsSaved'
    <3>1. EditorIsSaved /\ ~Crossed(x4')
      BY <2>5, <1>2
    <3>2. \A b \in x4 : b.what = "write" => b \in x4'
      BY <1>4, <1>5
    <3>3. QED
      BY <3>1, <3>2, <2>2, <1>1, <1>4, <1>5 DEF EditorIsSaved
  <2>6. QED
    BY <2>3, <2>4, <2>5, <1>4, <1>5
<1>6. CASE a.what = "read"
  <2>0. a.of \in T /\ a.path \in P /\ a.text \in Nat
    BY <1>6, <1>t DEF PanAsks
  <2>f. PICK file : file = [of |-> a.of, path |-> a.path, text |-> a.text, saved |-> a.text]
    OBVIOUS
  <2>1. x3' = [x3 EXCEPT !.file = file]
    BY <1>6, <1>1, <2>f DEF Pan!InPane
  <2>2. /\ file \in PanFiles(T, P) /\ file.of = a.of /\ file.path = a.path /\ file.text = a.text
        /\ file.saved = a.text
    BY <2>0, <2>f DEF PanFiles
  <2>3. /\ x3' \in [tree : SUBSET T, file : PanFiles(T, P)] /\ x3'.file = file
        /\ x3'.tree = x3.tree
    BY <2>2, <2>1, <1>t
  <2>4. PanTyped(T, P)'
    BY <2>3, <1>1, <1>4, <1>6, <1>t DEF PanTyped
  <2>5. ASSUME "switched" \notin x7' PROVE AllOfOpen'
    BY <2>2, <2>3, <2>5, <1>1, <1>2, <1>4, <1>6 DEF AllOfOpen
  <2>6. ASSUME x7' = {} PROVE EditorIsSaved'
    <3>1. EditorIsSaved /\ ~Crossed(x4')
      BY <2>6, <1>2
    <3>2. /\ \A b \in x4 : b.what # "write" /\ b.what # "left"
          /\ x5[a.of][a.path] = a.text
      BY <3>1, <1>1, <1>6 DEF EditorIsSaved, Crossed
    <3>3. a.text <= a.text
      BY <2>0
    <3>4. QED
      BY <3>1, <3>2, <3>3, <2>2, <2>3, <1>1, <1>4, <1>6 DEF EditorIsSaved
  <2>7. QED
    BY <2>4, <2>5, <2>6, <1>4, <1>6
<1>7. CASE a.what = "write"
  <2>1. x3' = IF x3.file = PanNoFile THEN x3 ELSE [x3 EXCEPT !.file.saved = x3.file.text]
    BY <1>7, <1>1 DEF Pan!InPane, Pan!SavedNow, Pan!NoFile, Pan!Nobody, Pan!NoPath, PanNoFile
  <2>2. CASE x3.file = PanNoFile
    <3>1. x3' = x3
      BY <2>1, <2>2
    <3>2. PanTyped(T, P)' /\ ("switched" \notin x7' => AllOfOpen')
      BY <3>1, <1>1, <1>2, <1>4, <1>7, <1>t DEF PanTyped, AllOfOpen
    <3>3. x7' = {} => EditorIsSaved'
      BY <2>2, <3>1, <1>1, <1>2, <1>4, <1>7 DEF EditorIsSaved
    <3>4. QED
      BY <3>2, <3>3, <1>4, <1>7
  <2>3. CASE x3.file # PanNoFile
    <3>0. x3.file \in [of : T, path : P, text : Nat, saved : Nat]
      BY <2>3, <1>t DEF PanFiles
    <3>1. /\ x3'.tree = x3.tree /\ x3'.file \in [of : T, path : P, text : Nat, saved : Nat]
          /\ x3' \in [tree : SUBSET T, file : PanFiles(T, P)]
          /\ x3'.file.of = x3.file.of /\ x3'.file.path = x3.file.path
          /\ x3'.file.text = x3.file.text /\ x3'.file.saved = x3.file.text
      BY <2>1, <2>3, <3>0, <1>t DEF PanFiles
    <3>2. PanTyped(T, P)' /\ ("switched" \notin x7' => AllOfOpen')
      BY <3>1, <2>3, <1>1, <1>2, <1>4, <1>7, <1>t DEF PanTyped, AllOfOpen
    <3>3. ASSUME x7' = {} PROVE EditorIsSaved'
      <4>1. EditorIsSaved /\ ~Crossed(x4')
        BY <3>3, <1>2
      <4>2. /\ a.of = x3.file.of /\ a.path = x3.file.path /\ a.text = x3.file.text
            /\ x5[a.of][a.path] = a.text /\ \A b \in x4 : b.what # "left"
        BY <4>1, <1>1, <1>7, <2>3 DEF EditorIsSaved
      <4>3. x3'.file # PanNoFile
        BY <4>1, <4>2, <3>0, <3>1, <2>3, <1>7 DEF EditorIsSaved, PanNoFile
      <4>4. x3'.file.saved <= x3'.file.text /\ x5'[x3'.file.of][x3'.file.path] = x3'.file.text
        BY <4>2, <3>0, <3>1, <1>1
      <4>5. \A b \in x4' : b.what = "write" =>
              b.of = x3'.file.of /\ b.path = x3'.file.path /\ b.text = x3'.file.text
        BY <4>1, <3>1, <1>4, <1>7 DEF EditorIsSaved
      <4>6. \A b \in x4' : b.served /\ b.what \in {"read", "write"} => x5'[b.of][b.path] = b.text
        BY <4>1, <1>1, <1>4, <1>7 DEF EditorIsSaved
      <4>7. QED
        BY <4>1, <4>2, <4>3, <4>4, <4>5, <4>6, <1>4, <1>7 DEF EditorIsSaved
    <3>4. QED
      BY <3>2, <3>3, <1>4, <1>7
  <2>4. QED
    BY <2>2, <2>3
<1>8. QED
  BY <1>3, <1>5, <1>6, <1>7

LEMMA PanInduct ==
  ASSUME NEW T, NEW f \in T, NEW P, NEW n \in Nat, NEW k
  PROVE  /\ Pan(T, f, P, n, k)!Init => PanInv(T, P)
         /\ PanInv(T, P) /\ [Pan(T, f, P, n, k)!Next]_(Pan(T, f, P, n, k)!vars) => PanInv(T, P)'
         /\ PanInv(T, P) => Pan(T, f, P, n, k)!PanesTellTruth
<1>1. PanInv(T, P) /\ UNCHANGED Pan(T, f, P, n, k)!vars => PanInv(T, P)'
  BY DEF Pan!vars, PanInv, PanTyped, ClosedIsEmpty, AllOfOpen, EditorIsSaved, Crossed
<1>2. PanInv(T, P) /\ Pan(T, f, P, n, k)!Next => PanInv(T, P)'
  <2>1. PanInv(T, P) /\ (\E text \in 1..n : Pan(T, f, P, n, k)!Type(text)) => PanInv(T, P)'
    BY TypesKeep
  <2>2. QED
    BY <2>1, ClicksKeep, MountsKeep, ClosesKeep, OpensKeep, ServesKeep, AnswersKeep
    DEF Pan!Next, Pan!Window
<1>3. PanInv(T, P) => Pan(T, f, P, n, k)!PanesTellTruth
  <2>1. ASSUME PanInv(T, P) PROVE Pan(T, f, P, n, k)!ShowsOpenThread
    BY <2>1 DEF PanInv, AllOfOpen, PanNoFile, Pan!ShowsOpenThread, Pan!Nobody
  <2>2. ASSUME PanInv(T, P) PROVE Pan(T, f, P, n, k)!UnmarkedIsSaved
    BY <2>2 DEF PanInv, EditorIsSaved, PanNoFile, Pan!UnmarkedIsSaved, Pan!Waits, Pan!NoFile,
                Pan!Nobody, Pan!NoPath
  <2>3. QED
    BY <2>1, <2>2 DEF Pan!PanesTellTruth
<1>4. QED
  BY <1>1, <1>2, <1>3, PanStarts

(* The panes show the thread that is open, unless it was left in haste, and *)
(* an editor without the mark of an unsaved text the text of its file,      *)
(* unless the user typed during a save, let a save and a read cross or left *)
(* the thread: for any threads, files, texts and number of clicks, and in   *)
(* whatever order the answers come.                                         *)
THEOREM PanesTrue ==
  ASSUME NEW CONSTANT T, NEW CONSTANT f \in T, NEW CONSTANT P, NEW CONSTANT n \in Nat, NEW CONSTANT k
  PROVE  Pan(T, f, P, n, k)!Spec => []Pan(T, f, P, n, k)!PanesTellTruth
<1>1. Pan(T, f, P, n, k)!Init => PanInv(T, P)
  BY PanInduct
<1>2. PanInv(T, P) /\ [Pan(T, f, P, n, k)!Next]_(Pan(T, f, P, n, k)!vars) => PanInv(T, P)'
  BY PanInduct
<1>3. PanInv(T, P) => Pan(T, f, P, n, k)!PanesTellTruth
  BY PanInduct
<1>4. QED
  BY <1>1, <1>2, <1>3, PTL DEF Pan!Spec

-----------------------------------------------------------------------------
(* The welcome screen and the dialog                                        *)

WelCalls(F) ==
  {c \in [what : {"none", "adopt", "start", "add", "clone"}, folder : F \cup {"none"},
          project : Nat, gen : Nat,
          at : {"no", "asked", "spawned", "cloning", "created", "sent", "done", "failed"},
          heard : {"no", "waits", "error", "done"}, late : BOOLEAN, early : BOOLEAN,
          turn : BOOLEAN] :
     c.what \in {"adopt", "add", "clone"} => c.folder \in F}
WelWins ==
  [open : BOOLEAN, known : Nat, ready : BOOLEAN, dismissed : BOOLEAN, forced : BOOLEAN,
   dialog : Nat, dialogs : Nat, adding : BOOLEAN]
WelObs ==
  [gen : Nat, step : {"welcome", "providers", "project", "first-prompt"}, project : Nat,
   ready : BOOLEAN, busy : BOOLEAN, hasty : BOOLEAN]
WelTyped(F, N) ==
  /\ x1 \in [F -> {"absent", "part", "here"}] /\ x2 \in Seq(1..N) /\ x3 \in [1..N -> WelCalls(F)]
  /\ x4 \in WelWins /\ x5 \in WelObs

MadeOf(c) == \E i \in 1..Len(x2) : x2[i] = c

(* How far a call may have come, and what it has left behind.               *)
WelFits(c) ==
  /\ x3[c].what = "none" => x3[c].at = "no" /\ x3[c].heard = "no"
  /\ x3[c].at \in {"spawned", "cloning"} => x3[c].what = "clone"
  /\ x3[c].at = "cloning" => x1[x3[c].folder] = "part"
  /\ x3[c].at = "done" /\ x3[c].what # "start" => Len(x2) > 0
  /\ x3[c].turn => x3[c].what = "start" /\ x3[c].at = "done"
  /\ x3[c].early => x3[c].what # "clone"
  /\ MadeOf(c) => /\ x3[c].at = "done" /\ x3[c].what \in {"adopt", "add", "clone"}
                  /\ x1[x3[c].folder] = "here" \/ x3[c].early
Clones(c, d) ==
  /\ x3[c].what = "clone" /\ x3[d].what = "clone" /\ x3[c].folder = x3[d].folder
  /\ (x3[c].at = "cloning" /\ x3[d].at = "cloning") \/ (MadeOf(c) /\ MadeOf(d))
ClonesOnce(N) == \A c, d \in 1..N : Clones(c, d) => c = d

(* The calls of the welcome screen that is there: none when there is none,  *)
(* one when the user waits for answers.                                     *)
ShownOf(w) == w.open /\ (w.forced \/ (~w.dismissed /\ w.known = 0))
Own(C, o, c) == C[c].what \in {"adopt", "start"} /\ C[c].gen = o.gen
ScreenFits(C, w, o, N, L) ==
  /\ w.known <= L
  /\ o.project # 0 \/ o.step = "first-prompt" => w.known > 0
  /\ \A c \in 1..N : C[c].what \in {"adopt", "start"} =>
       C[c].gen <= o.gen /\ (ShownOf(w) \/ C[c].gen < o.gen)
  /\ ~ShownOf(w) => ~o.busy
  /\ o.busy => \E c \in 1..N : Own(C, o, c) /\ C[c].heard = "waits"
  /\ \A c, d \in 1..N :
       Own(C, o, c) /\ C[c].heard = "waits" /\ Own(C, o, d) /\ C[d].heard = "waits" =>
         o.hasty \/ (c = d /\ o.busy)
  /\ \A c \in 1..N :
       Own(C, o, c) /\ C[c].what = "start" =>
         C[c].heard = "waits" \/ (C[c].heard = "error" /\ (C[c].late \/ C[c].at = "failed"))

WelInv(F, N) ==
  /\ WelTyped(F, N) /\ \A c \in 1..N : WelFits(c)
  /\ ClonesOnce(N) /\ ScreenFits(x3, x4, x5, N, Len(x2))

LEMMA WelStarts ==
  ASSUME NEW F, NEW N, NEW K, Wel(F, N, K)!Init
  PROVE  WelInv(F, N)
<1> USE DEF Wel!Init, Wel!Calls, Wel!NoCall, Wel!NoProject, Wel!Fresh
<1>1. x3 = [c \in 1..N |-> Wel(F, N, K)!NoCall] /\ x2 = <<>>
  BY DEF Wel!Init, Wel!Calls
<1>2. WelTyped(F, N)
  BY DEF WelTyped, WelCalls, WelWins, WelObs
<1>3. \A c \in 1..N : /\ x3[c].what = "none" /\ x3[c].at = "no" /\ x3[c].heard = "no"
                      /\ ~x3[c].turn /\ ~x3[c].early /\ ~MadeOf(c)
  BY <1>1 DEF MadeOf
<1>4. \A c \in 1..N : WelFits(c)
  BY <1>3 DEF WelFits
<1>5. ClonesOnce(N)
  BY <1>3 DEF ClonesOnce, Clones
<1>6. ScreenFits(x3, x4, x5, N, Len(x2))
  <2>1. x4.known = 0 /\ x5.project = 0 /\ x5.step = "welcome" /\ ~x5.busy /\ Len(x2) = 0
    OBVIOUS
  <2>2. QED
    BY <1>3, <2>1 DEF ScreenFits, Own
<1>7. QED
  BY <1>2, <1>4, <1>5, <1>6 DEF WelInv

-----------------------------------------------------------------------------
(* What the daemon does on a call: it goes from one stage to the next.      *)
WelGoes(F, N, c, r) ==
  /\ UNCHANGED <<x4, x5>> /\ x3' = [x3 EXCEPT ![c] = r] /\ r \in WelCalls(F)
  /\ x3[c].at \notin {"no", "failed"}
  /\ r.what = x3[c].what /\ r.folder = x3[c].folder /\ r.gen = x3[c].gen
  /\ r.heard = x3[c].heard /\ r.late = x3[c].late

LEMMA ScreenStays ==
  ASSUME NEW F, NEW N, WelInv(F, N), NEW c \in 1..N, NEW r, WelGoes(F, N, c, r), Len(x2') >= Len(x2),
         x2' \in Seq(1..N)
  PROVE  ScreenFits(x3', x4', x5', N, Len(x2'))
<1>1. /\ x3 \in [1..N -> WelCalls(F)] /\ x4 \in WelWins /\ Len(x2) \in Nat /\ Len(x2') \in Nat
      /\ ScreenFits(x3, x4, x5, N, Len(x2))
  BY DEF WelInv, WelTyped
<1>2. \A d \in 1..N : /\ x3'[d].what = x3[d].what /\ x3'[d].gen = x3[d].gen
                      /\ x3'[d].heard = x3[d].heard /\ x3'[d].late = x3[d].late
                      /\ x3[d].at = "failed" => x3'[d].at = "failed"
  BY <1>1 DEF WelGoes
<1>3. x4' = x4 /\ x5' = x5 /\ x4.known \in Nat
  BY <1>1 DEF WelGoes, WelWins
<1>4. QED
  BY <1>1, <1>2, <1>3 DEF ScreenFits, Own

LEMMA AddsMade ==
  ASSUME NEW N, x2 \in Seq(1..N), NEW c \in 1..N, x2' = Append(x2, c)
  PROVE  x2' \in Seq(1..N) /\ Len(x2') = Len(x2) + 1 /\ \A d : MadeOf(d)' <=> MadeOf(d) \/ d = c
<1>1. x2' \in Seq(1..N) /\ Len(x2') = Len(x2) + 1 /\ Len(x2) \in Nat
  OBVIOUS
<1>2. x2'[Len(x2) + 1] = c /\ \A i \in 1..Len(x2) : x2'[i] = x2[i]
  OBVIOUS
<1>3. \A i \in 1..Len(x2) + 1 : i = Len(x2) + 1 \/ i \in 1..Len(x2)
  BY <1>1
<1>4. ASSUME NEW d PROVE MadeOf(d)' <=> MadeOf(d) \/ d = c
  BY <1>1, <1>2, <1>3 DEF MadeOf
<1>5. QED
  BY <1>1, <1>4

(* A stage that leaves the folders and the projects alone.                  *)
LEMMA StageKeeps ==
  ASSUME NEW F, NEW N, WelInv(F, N), NEW c \in 1..N, NEW r, WelGoes(F, N, c, r), UNCHANGED <<x1, x2>>,
         x3[c].at # "done", r.at # "cloning", r.at = "spawned" => r.what = "clone",
         r.at = "done" => r.what = "start", r.turn => r.what = "start" /\ r.at = "done",
         r.early = x3[c].early
  PROVE  WelInv(F, N)'
<1> USE DEF WelInv
<1>1. /\ x3 \in [1..N -> WelCalls(F)] /\ x2 \in Seq(1..N) /\ WelTyped(F, N) /\ Len(x2) \in Nat
      /\ WelFits(c) /\ ~MadeOf(c) /\ x3[c].what # "none"
  BY DEF WelTyped, WelFits, WelGoes
<1>2. x3'[c] = r /\ \A d \in 1..N : d # c => x3'[d] = x3[d]
  BY <1>1 DEF WelGoes
<1>3. WelTyped(F, N)'
  BY <1>1 DEF WelGoes, WelTyped
<1>4. \A d \in 1..N : MadeOf(d)' <=> MadeOf(d)
  BY DEF MadeOf
<1>5. \A d \in 1..N : WelFits(d)'
  BY <1>1, <1>2, <1>4 DEF WelFits, WelGoes
<1>6. ClonesOnce(N)'
  <2>1. \A d, e \in 1..N : Clones(d, e)' => Clones(d, e)
    BY <1>1, <1>2, <1>4 DEF Clones, WelGoes
  <2>2. QED
    BY <2>1 DEF ClonesOnce
<1>7. Len(x2') >= Len(x2) /\ x2' \in Seq(1..N)
  BY <1>1
<1>8. ScreenFits(x3', x4', x5', N, Len(x2'))
  BY <1>7, ScreenStays
<1>9. QED
  BY <1>3, <1>5, <1>6, <1>8

(* A project is made, of a folder that was there or is cloned.              *)
LEMMA MadeKeeps ==
  ASSUME NEW F, NEW N, WelInv(F, N), NEW c \in 1..N, NEW r, WelGoes(F, N, c, r),
         x2' = Append(x2, c), x3[c].at # "done", r.at = "done", ~r.turn,
         r.what \in {"adopt", "add", "clone"}, r.what = "clone" <=> x3[c].at = "cloning",
         IF r.what = "clone" THEN x1' = [x1 EXCEPT ![r.folder] = "here"] /\ ~r.early
         ELSE x1' = x1 /\ x1[r.folder] # "absent" /\ r.early = (x1[r.folder] = "part")
  PROVE  WelInv(F, N)'
<1> USE DEF WelInv
<1>1. /\ x3 \in [1..N -> WelCalls(F)] /\ x2 \in Seq(1..N) /\ x1 \in [F -> {"absent", "part", "here"}]
      /\ WelTyped(F, N) /\ Len(x2) \in Nat
      /\ WelFits(c) /\ ~MadeOf(c) /\ x3[c].what # "none"
  BY DEF WelTyped, WelFits, WelGoes
<1>f. r.folder \in F /\ r \in WelCalls(F) /\ r.folder = x3[c].folder /\ r.what = x3[c].what
  BY DEF WelGoes, WelCalls
<1>2. x3'[c] = r /\ \A d \in 1..N : d # c => x3'[d] = x3[d]
  BY <1>1 DEF WelGoes
<1>4. x2' \in Seq(1..N) /\ Len(x2') = Len(x2) + 1 /\ \A d : MadeOf(d)' <=> MadeOf(d) \/ d = c
  BY <1>1, AddsMade
<1>x. /\ x1' \in [F -> {"absent", "part", "here"}]
      /\ \A g \in F : x1'[g] = IF g = r.folder /\ r.what = "clone" THEN "here" ELSE x1[g]
  BY <1>1, <1>f
<1>3. WelTyped(F, N)'
  BY <1>1, <1>4, <1>x DEF WelGoes, WelTyped
<1>5. ASSUME NEW d \in 1..N PROVE WelFits(d)'
  <2>1. CASE d = c
    <3>1. x3'[c] = r /\ Len(x2') > 0
      BY <1>1, <1>2, <1>4
    <3>2. x1'[r.folder] = "here" \/ r.early
      <4>1. CASE r.what = "clone"
        BY <4>1, <1>f, <1>x
      <4>2. CASE r.what # "clone"
        BY <4>2, <1>1, <1>f
      <4>3. QED
        BY <4>1, <4>2
    <3>3. r.early => r.what # "clone"
      BY <1>f
    <3>4. QED
      BY <2>1, <3>1, <3>2, <3>3 DEF WelFits
  <2>2. CASE d # c
    <3>1. WelFits(d) /\ x3'[d] = x3[d] /\ (MadeOf(d)' <=> MadeOf(d)) /\ x3[d] \in WelCalls(F)
      BY <2>2, <1>1, <1>2, <1>4
    <3>2. x3[d].at = "cloning" => x1'[x3[d].folder] = "part"
      <4>1. ASSUME x3[d].at = "cloning" PROVE x3[d].what = "clone" /\ x3[d].folder \in F
        BY <3>1, <4>1 DEF WelFits, WelCalls
      <4>2. ASSUME x3[d].at = "cloning", x3[d].folder = r.folder, r.what = "clone" PROVE FALSE
        BY <4>1, <4>2, <2>2, <1>f DEF ClonesOnce, Clones
      <4>3. QED
        BY <3>1, <4>1, <4>2, <1>x DEF WelFits
    <3>3. MadeOf(d) => x1'[x3[d].folder] = "here" \/ x3[d].early
      <4>1. ASSUME MadeOf(d) PROVE x3[d].folder \in F
        BY <3>1, <4>1 DEF WelFits, WelCalls
      <4>2. QED
        BY <3>1, <4>1, <1>x DEF WelFits
    <3>4. QED
      BY <3>1, <3>2, <3>3, <1>1, <1>4 DEF WelFits
  <2>3. QED
    BY <2>1, <2>2
<1>6. ClonesOnce(N)'
  <2>1. ASSUME r.what = "clone", NEW d \in 1..N, d # c, x3[d].what = "clone", x3[d].folder = r.folder
        PROVE  ~MadeOf(d)
    <3>1. x1[r.folder] = "part"
      BY <2>1, <1>1, <1>f DEF WelFits
    <3>2. WelFits(d)
      OBVIOUS
    <3>3. QED
      BY <2>1, <3>1, <3>2 DEF WelFits
  <2>2. ASSUME NEW d \in 1..N, NEW e \in 1..N, Clones(d, e)', d # e PROVE FALSE
    <3>1. CASE d # c /\ e # c
      <4>1. Clones(d, e)
        BY <2>2, <3>1, <1>2, <1>4 DEF Clones
      <4>2. QED
        BY <4>1, <2>2 DEF ClonesOnce
    <3>2. CASE d = c
      <4>1. r.what = "clone" /\ x3[e].what = "clone" /\ x3[e].folder = r.folder /\ MadeOf(e)
        BY <2>2, <3>2, <1>2, <1>4 DEF Clones
      <4>2. QED
        BY <4>1, <2>1, <2>2, <3>2
    <3>3. CASE e = c
      <4>1. r.what = "clone" /\ x3[d].what = "clone" /\ x3[d].folder = r.folder /\ MadeOf(d)
        BY <2>2, <3>3, <1>2, <1>4 DEF Clones
      <4>2. QED
        BY <4>1, <2>1, <2>2, <3>3
    <3>4. QED
      BY <3>1, <3>2, <3>3
  <2>3. QED
    BY <2>2 DEF ClonesOnce
<1>7. Len(x2') >= Len(x2)
  BY <1>1, <1>4
<1>8. ScreenFits(x3', x4', x5', N, Len(x2'))
  BY <1>4, <1>7, ScreenStays
<1>9. QED
  BY <1>3, <1>5, <1>6, <1>8

(* A clone takes a folder that is not there, or gives it up.                *)
LEMMA CloneKeeps ==
  ASSUME NEW F, NEW N, WelInv(F, N), NEW c \in 1..N, NEW r, WelGoes(F, N, c, r), x2' = x2,
         r.what = "clone", ~r.turn, ~r.early,
         \/ /\ x3[c].at = "spawned" /\ r.at = "cloning" /\ x1[r.folder] = "absent"
            /\ x1' = [x1 EXCEPT ![r.folder] = "part"]
         \/ /\ x3[c].at = "cloning" /\ r.at = "failed"
            /\ x1' = [x1 EXCEPT ![r.folder] = "absent"]
  PROVE  WelInv(F, N)'
<1> USE DEF WelInv
<1>1. /\ x3 \in [1..N -> WelCalls(F)] /\ x2 \in Seq(1..N) /\ x1 \in [F -> {"absent", "part", "here"}]
      /\ WelTyped(F, N) /\ Len(x2) \in Nat /\ WelFits(c) /\ ~MadeOf(c)
  BY DEF WelTyped, WelFits
<1>f. r.folder \in F /\ r \in WelCalls(F) /\ r.folder = x3[c].folder /\ x3[c].what = "clone"
  BY DEF WelGoes, WelCalls
<1>2. x3'[c] = r /\ \A d \in 1..N : d # c => x3'[d] = x3[d]
  BY <1>1 DEF WelGoes
<1>4. \A d \in 1..N : MadeOf(d)' <=> MadeOf(d)
  BY DEF MadeOf
<1>x. /\ x1' \in [F -> {"absent", "part", "here"}] /\ \A g \in F : g # r.folder => x1'[g] = x1[g]
      /\ r.at = "cloning" => x1'[r.folder] = "part"
      /\ x1[r.folder] = IF x3[c].at = "spawned" THEN "absent" ELSE "part"
  BY <1>1, <1>f DEF WelFits
<1>3. WelTyped(F, N)'
  BY <1>1, <1>x DEF WelGoes, WelTyped
<1>5. ASSUME NEW d \in 1..N PROVE WelFits(d)'
  <2>1. CASE d = c
    BY <2>1, <1>1, <1>2, <1>4, <1>f, <1>x DEF WelFits
  <2>2. CASE d # c
    <3>1. WelFits(d) /\ x3'[d] = x3[d] /\ (MadeOf(d)' <=> MadeOf(d)) /\ x3[d] \in WelCalls(F)
      BY <2>2, <1>1, <1>2, <1>4
    <3>2. x3[d].at = "cloning" => x1'[x3[d].folder] = "part"
      <4>1. ASSUME x3[d].at = "cloning" PROVE x3[d].what = "clone" /\ x3[d].folder \in F
        BY <3>1, <4>1 DEF WelFits, WelCalls
      <4>2. ASSUME x3[d].at = "cloning", x3[d].folder = r.folder PROVE x3[c].at # "cloning"
        BY <4>1, <4>2, <2>2, <1>f DEF ClonesOnce, Clones
      <4>3. QED
        BY <3>1, <4>1, <4>2, <1>x DEF WelFits
    <3>3. MadeOf(d) => x1'[x3[d].folder] = "here" \/ x3[d].early
      <4>1. ASSUME MadeOf(d) PROVE x3[d].folder \in F
        BY <3>1, <4>1 DEF WelFits, WelCalls
      <4>2. QED
        BY <3>1, <4>1, <1>x DEF WelFits
    <3>4. QED
      BY <3>1, <3>2, <3>3 DEF WelFits
  <2>3. QED
    BY <2>1, <2>2
<1>6. ClonesOnce(N)'
  <2>1. ASSUME r.at = "cloning", NEW d \in 1..N, d # c, x3[d].what = "clone", x3[d].folder = r.folder
        PROVE  x3[d].at # "cloning"
    <3>1. WelFits(d)
      OBVIOUS
    <3>2. QED
      BY <2>1, <3>1, <1>x DEF WelFits
  <2>2. ASSUME NEW d \in 1..N, NEW e \in 1..N, Clones(d, e)', d # e PROVE FALSE
    <3>1. CASE d # c /\ e # c
      <4>1. Clones(d, e)
        BY <2>2, <3>1, <1>2, <1>4 DEF Clones
      <4>2. QED
        BY <4>1, <2>2 DEF ClonesOnce
    <3>2. CASE d = c
      <4>1. r.at = "cloning" /\ x3[e].what = "clone" /\ x3[e].folder = r.folder /\ x3[e].at = "cloning"
        BY <2>2, <3>2, <1>1, <1>2, <1>4 DEF Clones
      <4>2. QED
        BY <4>1, <2>1, <2>2, <3>2
    <3>3. CASE e = c
      <4>1. r.at = "cloning" /\ x3[d].what = "clone" /\ x3[d].folder = r.folder /\ x3[d].at = "cloning"
        BY <2>2, <3>3, <1>1, <1>2, <1>4 DEF Clones
      <4>2. QED
        BY <4>1, <2>1, <2>2, <3>3
    <3>4. QED
      BY <3>1, <3>2, <3>3
  <2>3. QED
    BY <2>2 DEF ClonesOnce
<1>7. Len(x2') >= Len(x2) /\ x2' \in Seq(1..N)
  BY <1>1
<1>8. ScreenFits(x3', x4', x5', N, Len(x2'))
  BY <1>7, ScreenStays
<1>9. QED
  BY <1>3, <1>5, <1>6, <1>8

LEMMA CreatesKeep ==
  ASSUME NEW F, NEW N, NEW K, WelInv(F, N), NEW c \in 1..N, Wel(F, N, K)!CreateProject(c)
  PROVE  WelInv(F, N)'
<1>1. /\ x3 \in [1..N -> WelCalls(F)] /\ x2 \in Seq(1..N) /\ x1 \in [F -> {"absent", "part", "here"}]
      /\ WelFits(c) /\ x3[c] \in WelCalls(F) /\ Len(x2) \in Nat
  BY DEF WelInv, WelTyped
<1>2. /\ x3[c].at = "asked" /\ x3[c].what \in {"adopt", "add"} /\ x3[c].folder \in F
      /\ ~x3[c].turn /\ UNCHANGED <<x1, x4, x5>>
  BY <1>1 DEF Wel!CreateProject, WelFits, WelCalls
<1>3. CASE x1[x3[c].folder] = "absent"
  <2>1. PICK r : r = [x3[c] EXCEPT !.at = "failed"]
    OBVIOUS
  <2>2. r \in WelCalls(F) /\ r.at = "failed" /\ r.what = x3[c].what /\ r.folder = x3[c].folder
        /\ r.gen = x3[c].gen /\ r.heard = x3[c].heard /\ r.late = x3[c].late
        /\ r.early = x3[c].early /\ r.turn = x3[c].turn
    BY <1>1, <2>1 DEF WelCalls
  <2>3. x3' = [x3 EXCEPT ![c] = r] /\ x2' = x2
    BY <1>1, <1>3, <2>1 DEF Wel!CreateProject, Wel!Did
  <2>4. WelGoes(F, N, c, r)
    BY <1>2, <2>2, <2>3 DEF WelGoes
  <2>5. QED
    BY <1>2, <2>2, <2>3, <2>4, StageKeeps
<1>4. CASE x1[x3[c].folder] # "absent"
  <2>e. PICK e \in BOOLEAN : e = (x1[x3[c].folder] = "part")
    OBVIOUS
  <2>n. PICK n \in Nat : n = Len(x2) + 1
    BY <1>1
  <2>1. PICK r : r = [x3[c] EXCEPT !.at = "done", !.project = n, !.early = e]
    OBVIOUS
  <2>2. r \in WelCalls(F) /\ r.at = "done" /\ r.what = x3[c].what /\ r.folder = x3[c].folder
        /\ r.gen = x3[c].gen /\ r.heard = x3[c].heard /\ r.late = x3[c].late
        /\ r.early = e /\ r.turn = x3[c].turn
    BY <1>1, <2>1 DEF WelCalls
  <2>3. x3' = [x3 EXCEPT ![c] = r] /\ x2' = Append(x2, c)
    BY <1>1, <1>4, <2>1, <2>e, <2>n DEF Wel!CreateProject
  <2>4. WelGoes(F, N, c, r)
    BY <1>2, <2>2, <2>3 DEF WelGoes
  <2>5. QED
    BY <1>2, <1>4, <2>2, <2>3, <2>4, <2>e, MadeKeeps
<1>5. QED
  BY <1>3, <1>4

(* A step of a call that only says where it is.                             *)
LEMMA DidKeeps ==
  ASSUME NEW F, NEW N, WelInv(F, N), NEW c \in 1..N, UNCHANGED <<x1, x2, x4, x5>>,
         x3[c].at \notin {"no", "done", "failed"},
         NEW a \in {"spawned", "created", "sent", "done", "failed"}, NEW u \in BOOLEAN,
         x3' = [x3 EXCEPT ![c] = [x3[c] EXCEPT !.at = a, !.turn = u]],
         a = "spawned" => x3[c].what = "clone", a = "done" => x3[c].what = "start",
         u => x3[c].what = "start" /\ a = "done"
  PROVE  WelInv(F, N)'
<1>1. x3 \in [1..N -> WelCalls(F)] /\ x3[c] \in WelCalls(F)
  BY DEF WelInv, WelTyped
<1>2. PICK r : r = [x3[c] EXCEPT !.at = a, !.turn = u]
  OBVIOUS
<1>3. r \in WelCalls(F) /\ r.at = a /\ r.what = x3[c].what /\ r.folder = x3[c].folder
      /\ r.gen = x3[c].gen /\ r.heard = x3[c].heard /\ r.late = x3[c].late
      /\ r.early = x3[c].early /\ r.turn = u
  BY <1>1, <1>2 DEF WelCalls
<1>4. WelGoes(F, N, c, r)
  BY <1>2, <1>3 DEF WelGoes
<1>5. QED
  BY <1>3, <1>4, StageKeeps

LEMMA ChecksKeep ==
  ASSUME NEW F, NEW N, NEW K, WelInv(F, N), NEW c \in 1..N,
         Wel(F, N, K)!CheckClone(c) \/ Wel(F, N, K)!StartThread(c)
  PROVE  WelInv(F, N)'
<1>1. /\ x3 \in [1..N -> WelCalls(F)] /\ x3[c] \in WelCalls(F) /\ WelFits(c)
  BY DEF WelInv, WelTyped
<1>2. \A a : [x3[c] EXCEPT !.at = a] = [x3[c] EXCEPT !.at = a, !.turn = x3[c].turn]
  BY <1>1 DEF WelCalls
<1>3. x3[c].turn \in BOOLEAN /\ (x3[c].at # "done" => ~x3[c].turn)
  BY <1>1 DEF WelCalls, WelFits
<1>4. CASE Wel(F, N, K)!CheckClone(c)
  <2>1. PICK a \in {"spawned", "failed"} : x3' = [x3 EXCEPT ![c] = [x3[c] EXCEPT !.at = a]]
    BY <1>4, <1>1 DEF Wel!CheckClone, Wel!Did
  <2>2. x3[c].at = "asked" /\ x3[c].what = "clone" /\ UNCHANGED <<x1, x2, x4, x5>>
    BY <1>4 DEF Wel!CheckClone
  <2>3. x3' = [x3 EXCEPT ![c] = [x3[c] EXCEPT !.at = a, !.turn = x3[c].turn]]
    BY <2>1, <1>2
  <2>4. QED
    BY <1>3, <2>2, <2>3, DidKeeps
<1>5. CASE Wel(F, N, K)!StartThread(c)
  <2>1. x3[c].what = "start" /\ UNCHANGED <<x1, x2, x4, x5>> /\ x3[c].at \in {"asked", "created", "sent"}
    BY <1>5 DEF Wel!StartThread, Wel!Did
  <2>2. CASE \E a \in {"created", "sent", "failed"} : x3' = [x3 EXCEPT ![c] = [x3[c] EXCEPT !.at = a]]
    <3>1. PICK a \in {"created", "sent", "failed"} : x3' = [x3 EXCEPT ![c] = [x3[c] EXCEPT !.at = a]]
      BY <2>2
    <3>2. x3' = [x3 EXCEPT ![c] = [x3[c] EXCEPT !.at = a, !.turn = x3[c].turn]]
      BY <3>1, <1>2
    <3>3. QED
      BY <1>3, <2>1, <3>2, DidKeeps
  <2>3. CASE x3' = [x3 EXCEPT ![c] = [x3[c] EXCEPT !.at = "done", !.turn = TRUE]]
    BY <2>1, <2>3, DidKeeps
  <2>4. QED
    BY <1>5, <1>1, <2>2, <2>3 DEF Wel!StartThread, Wel!Did
<1>6. QED
  BY <1>4, <1>5

LEMMA GitKeeps ==
  ASSUME NEW F, NEW N, NEW K, WelInv(F, N), NEW c \in 1..N,
         Wel(F, N, K)!GitBegins(c) \/ Wel(F, N, K)!GitEnds(c)
  PROVE  WelInv(F, N)'
<1>1. /\ x3 \in [1..N -> WelCalls(F)] /\ x2 \in Seq(1..N) /\ x1 \in [F -> {"absent", "part", "here"}]
      /\ WelFits(c) /\ x3[c] \in WelCalls(F) /\ Len(x2) \in Nat
  BY DEF WelInv, WelTyped
<1>2. /\ x3[c].at \in {"spawned", "cloning"} /\ x3[c].what = "clone" /\ x3[c].folder \in F
      /\ ~x3[c].turn /\ ~x3[c].early /\ UNCHANGED <<x4, x5>>
  BY <1>1 DEF Wel!GitBegins, Wel!GitEnds, WelFits, WelCalls
<1>r. ASSUME NEW a \in {"cloning", "failed"}, NEW r, r = [x3[c] EXCEPT !.at = a]
      PROVE  r \in WelCalls(F) /\ r.at = a /\ r.what = x3[c].what /\ r.folder = x3[c].folder
             /\ r.gen = x3[c].gen /\ r.heard = x3[c].heard /\ r.late = x3[c].late
             /\ r.early = x3[c].early /\ r.turn = x3[c].turn
  BY <1>1, <1>r DEF WelCalls
<1>3. CASE Wel(F, N, K)!GitBegins(c) /\ x1[x3[c].folder] = "absent"
  <2>1. PICK r : r = [x3[c] EXCEPT !.at = "cloning"]
    OBVIOUS
  <2>2. /\ x3[c].at = "spawned" /\ x3' = [x3 EXCEPT ![c] = r] /\ x2' = x2
        /\ x1' = [x1 EXCEPT ![x3[c].folder] = "part"]
    BY <1>1, <1>3, <2>1 DEF Wel!GitBegins, Wel!Did
  <2>3. r \in WelCalls(F) /\ r.at = "cloning" /\ r.what = x3[c].what /\ r.folder = x3[c].folder
             /\ r.gen = x3[c].gen /\ r.heard = x3[c].heard /\ r.late = x3[c].late
             /\ r.early = x3[c].early /\ r.turn = x3[c].turn
    BY <2>1, <1>r
  <2>4. WelGoes(F, N, c, r)
    BY <1>2, <2>2, <2>3 DEF WelGoes
  <2>5. QED
    BY <1>2, <1>3, <2>2, <2>3, <2>4, CloneKeeps
<1>4. CASE Wel(F, N, K)!GitBegins(c) /\ x1[x3[c].folder] # "absent"
  <2>1. PICK r : r = [x3[c] EXCEPT !.at = "failed"]
    OBVIOUS
  <2>2. x3[c].at = "spawned" /\ x3' = [x3 EXCEPT ![c] = r] /\ UNCHANGED <<x1, x2>>
    BY <1>1, <1>4, <2>1 DEF Wel!GitBegins, Wel!Did
  <2>3. r \in WelCalls(F) /\ r.at = "failed" /\ r.what = x3[c].what /\ r.folder = x3[c].folder
             /\ r.gen = x3[c].gen /\ r.heard = x3[c].heard /\ r.late = x3[c].late
             /\ r.early = x3[c].early /\ r.turn = x3[c].turn
    BY <2>1, <1>r
  <2>4. WelGoes(F, N, c, r)
    BY <1>2, <2>2, <2>3 DEF WelGoes
  <2>5. QED
    BY <1>2, <2>2, <2>3, <2>4, StageKeeps
<1>5. CASE Wel(F, N, K)!GitEnds(c) /\ x2' # x2
  <2>n. PICK n \in Nat : n = Len(x2) + 1
    BY <1>1
  <2>1. PICK r : r = [x3[c] EXCEPT !.at = "done", !.project = n]
    OBVIOUS
  <2>2. /\ x3[c].at = "cloning" /\ x3' = [x3 EXCEPT ![c] = r] /\ x2' = Append(x2, c)
        /\ x1' = [x1 EXCEPT ![x3[c].folder] = "here"]
    BY <1>1, <1>5, <2>1, <2>n DEF Wel!GitEnds
  <2>3. r \in WelCalls(F) /\ r.at = "done" /\ r.what = x3[c].what /\ r.folder = x3[c].folder
             /\ r.gen = x3[c].gen /\ r.heard = x3[c].heard /\ r.late = x3[c].late
             /\ r.early = x3[c].early /\ r.turn = x3[c].turn
    BY <1>1, <2>1 DEF WelCalls
  <2>4. WelGoes(F, N, c, r)
    BY <1>2, <2>2, <2>3 DEF WelGoes
  <2>5. QED
    BY <1>2, <2>2, <2>3, <2>4, MadeKeeps
<1>6. CASE Wel(F, N, K)!GitEnds(c) /\ x2' = x2
  <2>1. PICK r : r = [x3[c] EXCEPT !.at = "failed"]
    OBVIOUS
  <2>2. /\ x3[c].at = "cloning" /\ x3' = [x3 EXCEPT ![c] = r]
        /\ x1' = [x1 EXCEPT ![x3[c].folder] = "absent"]
    <3>1. Append(x2, c) # x2
      <4>1. Len(Append(x2, c)) = Len(x2) + 1
        BY <1>1
      <4>2. QED
        BY <4>1, <1>1
    <3>2. QED
      BY <1>1, <1>6, <2>1, <3>1 DEF Wel!GitEnds, Wel!Did
  <2>3. r \in WelCalls(F) /\ r.at = "failed" /\ r.what = x3[c].what /\ r.folder = x3[c].folder
             /\ r.gen = x3[c].gen /\ r.heard = x3[c].heard /\ r.late = x3[c].late
             /\ r.early = x3[c].early /\ r.turn = x3[c].turn
    BY <2>1, <1>r
  <2>4. WelGoes(F, N, c, r)
    BY <1>2, <2>2, <2>3 DEF WelGoes
  <2>5. QED
    BY <1>2, <1>6, <2>2, <2>3, <2>4, CloneKeeps
<1>7. QED
  BY <1>3, <1>4, <1>5, <1>6

-----------------------------------------------------------------------------
(* What the window does.  The daemon's side of the calls stays as it is.    *)
LEMMA HearsKeep ==
  ASSUME NEW F, NEW N, WelInv(F, N), UNCHANGED <<x1, x2>>,
         x3' \in [1..N -> WelCalls(F)], x4' \in WelWins, x5' \in WelObs,
         \A c \in 1..N :
           /\ x3'[c].what = x3[c].what /\ x3'[c].folder = x3[c].folder /\ x3'[c].at = x3[c].at
           /\ x3'[c].turn = x3[c].turn /\ x3'[c].early = x3[c].early
           /\ x3[c].heard = "no" => x3'[c].heard = "no",
         ScreenFits(x3', x4', x5', N, Len(x2))
  PROVE  WelInv(F, N)'
<1>1. WelTyped(F, N)'
  BY DEF WelInv, WelTyped
<1>2. \A c : MadeOf(c)' <=> MadeOf(c)
  BY DEF MadeOf
<1>3. \A c \in 1..N : WelFits(c)'
  BY <1>2 DEF WelInv, WelFits
<1>4. ClonesOnce(N)'
  <2>1. \A c, d \in 1..N : Clones(c, d)' => Clones(c, d)
    BY <1>2 DEF Clones
  <2>2. QED
    BY <2>1 DEF WelInv, ClonesOnce
<1>5. QED
  BY <1>1, <1>3, <1>4 DEF WelInv

(* A call the window makes.                                                 *)
LEMMA AsksKeep ==
  ASSUME NEW F, NEW N, WelInv(F, N), UNCHANGED <<x1, x2>>, NEW c \in 1..N, NEW r \in WelCalls(F),
         x3[c].what = "none", r.what # "none", r.at = "asked", ~r.turn, ~r.early,
         x3' = [x3 EXCEPT ![c] = r], x4' \in WelWins, x5' \in WelObs,
         ScreenFits(x3', x4', x5', N, Len(x2))
  PROVE  WelInv(F, N)'
<1>1. x3 \in [1..N -> WelCalls(F)] /\ WelFits(c)
  BY DEF WelInv, WelTyped
<1>2. WelTyped(F, N)'
  BY <1>1 DEF WelInv, WelTyped
<1>3. x3'[c] = r /\ \A d \in 1..N : d # c => x3'[d] = x3[d]
  BY <1>1
<1>4. (\A d : MadeOf(d)' <=> MadeOf(d)) /\ ~MadeOf(c)
  BY <1>1 DEF MadeOf, WelFits
<1>5. \A d \in 1..N : WelFits(d)'
  BY <1>3, <1>4 DEF WelInv, WelFits
<1>6. ClonesOnce(N)'
  <2>1. \A d, e \in 1..N : Clones(d, e)' => Clones(d, e)
    BY <1>3, <1>4 DEF Clones
  <2>2. QED
    BY <2>1 DEF WelInv, ClonesOnce
<1>7. QED
  BY <1>2, <1>5, <1>6 DEF WelInv

(* The screen is the same one, or it is mounted again, with no call yet.    *)
LEMMA ScreenSame ==
  ASSUME NEW N, NEW L \in Nat, NEW C, NEW w, NEW o, ScreenFits(C, w, o, N, L),
         NEW w1, NEW o1, ShownOf(w1) = ShownOf(w), w1.known <= L,
         o1.gen = o.gen, o1.busy = o.busy, o1.hasty = o.hasty,
         o1.project # 0 \/ o1.step = "first-prompt" => w1.known > 0
  PROVE  ScreenFits(C, w1, o1, N, L)
BY DEF ScreenFits, Own

LEMMA BecomesFits ==
  ASSUME NEW F, NEW N, NEW k, WelInv(F, N), NEW w \in WelWins, NEW o, Wel(F, N, k)!Becomes(w, o),
         w.known <= Len(x2), \A c \in 1..N : x3'[c].what = x3[c].what /\ x3'[c].gen = x3[c].gen,
         ShownOf(w) = ShownOf(x4) => o \in WelObs /\ ScreenFits(x3', w, o, N, Len(x2))
  PROVE  x4' \in WelWins /\ x5' \in WelObs /\ ScreenFits(x3', x4', x5', N, Len(x2))
<1>1. x4' = w /\ x5' = IF ShownOf(w) = ShownOf(x4) THEN o
                       ELSE [Wel(F, N, k)!Fresh(x5.gen + 1, Wel(F, N, k)!First(w)) EXCEPT !.ready = w.ready]
  BY DEF Wel!Becomes, Wel!Shown, ShownOf
<1>2. CASE ShownOf(w) = ShownOf(x4)
  BY <1>1, <1>2
<1>3. CASE ShownOf(w) # ShownOf(x4)
  <2>1. x5 \in WelObs /\ x3 \in [1..N -> WelCalls(F)] /\ ScreenFits(x3, x4, x5, N, Len(x2))
    BY DEF WelInv, WelTyped
  <2>2. PICK g \in Nat : g = x5.gen + 1
    BY <2>1 DEF WelObs
  <2>3. w.known \in Nat /\ w.ready \in BOOLEAN /\ x5.gen \in Nat
    BY <2>1 DEF WelWins, WelObs
  <2>4. PICK p \in Nat : p = Wel(F, N, k)!First(w)
    BY DEF Wel!First, Wel!NoProject
  <2>5. p # 0 => w.known > 0
    BY <2>3, <2>4 DEF Wel!First, Wel!NoProject
  <2>6. x5' = [gen |-> g, step |-> "welcome", project |-> p, ready |-> w.ready, busy |-> FALSE,
               hasty |-> FALSE]
    BY <1>1, <1>3, <2>2, <2>4 DEF Wel!Fresh
  <2>7. x5' \in WelObs
    BY <2>3, <2>6 DEF WelObs
  <2>8. \A c \in 1..N : x3'[c].what \in {"adopt", "start"} => x3'[c].gen < g
    <3>1. ASSUME NEW c \in 1..N, x3'[c].what \in {"adopt", "start"} PROVE x3'[c].gen < g
      <4>1. x3[c].gen <= x5.gen /\ x3'[c].gen = x3[c].gen
        BY <2>1, <3>1 DEF ScreenFits
      <4>2. x3[c].gen \in Nat
        BY <2>1 DEF WelCalls
      <4>3. QED
        BY <4>1, <4>2, <2>2, <2>3
    <3>2. QED
      BY <3>1
  <2>9. \A c \in 1..N : x3'[c].gen \in Nat
    BY <2>1 DEF WelCalls
  <2>10. x5'.gen = g /\ ~x5'.busy /\ x5'.project = p /\ x5'.step = "welcome"
    BY <2>6
  <2>11. \A c \in 1..N : x3'[c].gen < g => x3'[c].gen <= g /\ x3'[c].gen # g
    BY <2>9
  <2>12. ScreenFits(x3', w, x5', N, Len(x2))
    BY <2>5, <2>8, <2>10, <2>11 DEF ScreenFits, Own
  <2>13. QED
    BY <1>1, <2>7, <2>12
<1>4. QED
  BY <1>2, <1>3

(* The flags, and the steps of the screen.                                  *)
LEMMA FlagKeeps ==
  ASSUME NEW F, NEW N, NEW k, WelInv(F, N), UNCHANGED <<x1, x2, x3>>,
         NEW w \in WelWins, w.known >= x4.known, w.known <= Len(x2), Wel(F, N, k)!Becomes(w, x5)
  PROVE  WelInv(F, N)'
<1>1. /\ x3 \in [1..N -> WelCalls(F)] /\ x4 \in WelWins /\ x5 \in WelObs /\ Len(x2) \in Nat
      /\ ScreenFits(x3, x4, x5, N, Len(x2)) /\ x4.known \in Nat /\ w.known \in Nat
  BY DEF WelInv, WelTyped, WelWins
<1>2. ShownOf(w) = ShownOf(x4) => x5 \in WelObs /\ ScreenFits(x3', w, x5, N, Len(x2))
  <2>1. x5.project # 0 \/ x5.step = "first-prompt" => w.known > 0
    BY <1>1 DEF ScreenFits
  <2>2. QED
    BY <1>1, <2>1, ScreenSame
<1>3. x4' \in WelWins /\ x5' \in WelObs /\ ScreenFits(x3', x4', x5', N, Len(x2))
  BY <1>2, BecomesFits
<1>4. QED
  BY <1>1, <1>3, HearsKeep

LEMMA FlagsKeep ==
  ASSUME NEW F, NEW N, NEW K, WelInv(F, N),
         \/ Wel(F, N, K)!Connect \/ Wel(F, N, K)!Refresh \/ Wel(F, N, K)!Skip \/ Wel(F, N, K)!Replay
  PROVE  WelInv(F, N)'
<1>1. /\ x4 \in WelWins /\ Len(x2) \in Nat /\ x4.known \in Nat /\ x4.known <= Len(x2)
  BY DEF WelInv, WelTyped, WelWins, ScreenFits
<1>2. UNCHANGED <<x1, x2, x3>>
  BY DEF Wel!Connect, Wel!Refresh, Wel!Skip, Wel!Replay
<1>3. CASE Wel(F, N, K)!Connect
  <2>1. PICK w : w = [x4 EXCEPT !.open = TRUE]
    OBVIOUS
  <2>2. w \in WelWins /\ w.known = x4.known
    BY <1>1, <2>1 DEF WelWins
  <2>3. Wel(F, N, K)!Becomes(w, x5)
    BY <1>3, <2>1 DEF Wel!Connect
  <2>4. w.known >= x4.known /\ w.known <= Len(x2)
    BY <1>1, <1>3, <2>2
  <2>5. QED
    BY <1>2, <2>2, <2>3, <2>4, FlagKeeps
<1>4. CASE Wel(F, N, K)!Refresh
  <2>1. PICK w : w = [x4 EXCEPT !.known = Len(x2)]
    OBVIOUS
  <2>2. w \in WelWins /\ w.known = Len(x2)
    BY <1>1, <2>1 DEF WelWins
  <2>3. Wel(F, N, K)!Becomes(w, x5)
    BY <1>4, <2>1 DEF Wel!Refresh
  <2>4. w.known >= x4.known /\ w.known <= Len(x2)
    BY <1>1, <1>4, <2>2 DEF Wel!Refresh
  <2>5. QED
    BY <1>2, <2>2, <2>3, <2>4, FlagKeeps
<1>5. CASE Wel(F, N, K)!Skip
  <2>1. PICK w : w = [x4 EXCEPT !.dismissed = TRUE, !.forced = FALSE]
    OBVIOUS
  <2>2. w \in WelWins /\ w.known = x4.known
    BY <1>1, <2>1 DEF WelWins
  <2>3. Wel(F, N, K)!Becomes(w, x5)
    BY <1>5, <2>1 DEF Wel!Skip
  <2>4. w.known >= x4.known /\ w.known <= Len(x2)
    BY <1>1, <1>5, <2>2
  <2>5. QED
    BY <1>2, <2>2, <2>3, <2>4, FlagKeeps
<1>6. CASE Wel(F, N, K)!Replay
  <2>1. PICK w : w = [x4 EXCEPT !.dismissed = FALSE, !.forced = TRUE]
    OBVIOUS
  <2>2. w \in WelWins /\ w.known = x4.known
    BY <1>1, <2>1 DEF WelWins
  <2>3. Wel(F, N, K)!Becomes(w, x5)
    BY <1>6, <2>1 DEF Wel!Replay
  <2>4. w.known >= x4.known /\ w.known <= Len(x2)
    BY <1>1, <1>6, <2>2
  <2>5. QED
    BY <1>2, <2>2, <2>3, <2>4, FlagKeeps
<1>7. QED
  BY <1>3, <1>4, <1>5, <1>6

LEMMA DetectKeeps ==
  ASSUME NEW F, NEW N, NEW K, WelInv(F, N), Wel(F, N, K)!Detect
  PROVE  WelInv(F, N)'
<1>1. /\ x3 \in [1..N -> WelCalls(F)] /\ x4 \in WelWins /\ x5 \in WelObs /\ Len(x2) \in Nat
      /\ ScreenFits(x3, x4, x5, N, Len(x2)) /\ UNCHANGED <<x1, x2, x3>>
  BY DEF WelInv, WelTyped, Wel!Detect
<1>2. PICK w : w = [x4 EXCEPT !.ready = TRUE]
  OBVIOUS
<1>3. PICK o : o = [x5 EXCEPT !.ready = TRUE]
  OBVIOUS
<1>4. w \in WelWins /\ w.known = x4.known /\ ShownOf(w) = ShownOf(x4)
  BY <1>1, <1>2 DEF WelWins, ShownOf
<1>5. /\ o \in WelObs /\ o.gen = x5.gen /\ o.busy = x5.busy /\ o.hasty = x5.hasty
      /\ o.project = x5.project /\ o.step = x5.step
  BY <1>1, <1>3 DEF WelObs
<1>6. w.known <= Len(x2) /\ (o.project # 0 \/ o.step = "first-prompt" => w.known > 0)
  BY <1>1, <1>4, <1>5 DEF ScreenFits
<1>7. ScreenFits(x3', w, o, N, Len(x2))
  BY <1>1, <1>4, <1>5, <1>6, ScreenSame
<1>8. Wel(F, N, K)!Becomes(w, o)
  BY <1>2, <1>3 DEF Wel!Detect
<1>9. x4' \in WelWins /\ x5' \in WelObs /\ ScreenFits(x3', x4', x5', N, Len(x2))
  BY <1>1, <1>4, <1>5, <1>6, <1>7, <1>8, BecomesFits
<1>10. QED
  BY <1>1, <1>9, HearsKeep

LEMMA StepsKeep ==
  ASSUME NEW F, NEW N, NEW K, WelInv(F, N),
         Wel(F, N, K)!Begin \/ Wel(F, N, K)!Continue \/ Wel(F, N, K)!PickProject
  PROVE  WelInv(F, N)'
<1>1. /\ x3 \in [1..N -> WelCalls(F)] /\ x4 \in WelWins /\ x5 \in WelObs /\ Len(x2) \in Nat
      /\ ScreenFits(x3, x4, x5, N, Len(x2)) /\ x4.known \in Nat
  BY DEF WelInv, WelTyped, WelWins
<1>u. UNCHANGED <<x1, x2, x3, x4>>
  BY DEF Wel!Begin, Wel!Continue, Wel!PickProject
<1>2. x4.known <= Len(x2) /\ (x5.project # 0 => x4.known > 0)
  BY <1>1 DEF ScreenFits
<1>3. PICK s \in {"providers", "project", "first-prompt"}, p \in Nat :
        /\ x5' = [x5 EXCEPT !.step = s, !.project = p]
        /\ p # 0 \/ s = "first-prompt" => x4.known > 0
  <2>1. x5.project \in Nat /\ \A s : [x5 EXCEPT !.step = s] = [x5 EXCEPT !.step = s, !.project = x5.project]
    BY <1>1 DEF WelObs
  <2>2. CASE Wel(F, N, K)!Begin \/ Wel(F, N, K)!Continue
    <3>1. PICK s \in {"providers", "project", "first-prompt"} :
            x5' = [x5 EXCEPT !.step = s] /\ (s = "first-prompt" => x4.known > 0)
      BY <1>1, <1>2, <2>2 DEF Wel!Begin, Wel!Continue, Wel!AfterAgents, Wel!NoProject
    <3>2. QED
      BY <2>1, <3>1, <1>2
  <2>3. CASE Wel(F, N, K)!PickProject
    <3>1. PICK p \in 1..x4.known : x5' = [x5 EXCEPT !.project = p, !.step = "first-prompt"]
      BY <2>3 DEF Wel!PickProject
    <3>2. [x5 EXCEPT !.project = p, !.step = "first-prompt"] = [x5 EXCEPT !.step = "first-prompt", !.project = p]
      BY <1>1 DEF WelObs
    <3>3. p \in Nat /\ x4.known > 0
      BY <1>1, <3>1
    <3>4. QED
      BY <3>1, <3>2, <3>3
  <2>4. QED
    BY <2>2, <2>3
<1>4. /\ x5' \in WelObs /\ x5'.gen = x5.gen /\ x5'.busy = x5.busy /\ x5'.hasty = x5.hasty
      /\ x5'.project = p /\ x5'.step = s
  BY <1>1, <1>3 DEF WelObs
<1>5. ScreenFits(x3', x4', x5', N, Len(x2))
  BY <1>1, <1>u, <1>2, <1>3, <1>4, ScreenSame
<1>6. QED
  BY <1>1, <1>u, <1>4, <1>5, HearsKeep

(* What the window has heard of a call.                                     *)
LEMMA HeardIs ==
  ASSUME NEW F, NEW r \in WelCalls(F), NEW h \in {"no", "waits", "error", "done"}, NEW l \in BOOLEAN,
         NEW q, q = [r EXCEPT !.heard = h, !.late = l]
  PROVE  /\ q \in WelCalls(F) /\ q.what = r.what /\ q.folder = r.folder /\ q.at = r.at
         /\ q.turn = r.turn /\ q.early = r.early /\ q.gen = r.gen /\ q.heard = h /\ q.late = l
BY DEF WelCalls

LEMMA DropKeeps ==
  ASSUME NEW F, NEW N, NEW K, WelInv(F, N), Wel(F, N, K)!Drop
  PROVE  WelInv(F, N)'
<1>1. /\ x3 \in [1..N -> WelCalls(F)] /\ x4 \in WelWins /\ x5 \in WelObs /\ Len(x2) \in Nat
      /\ ScreenFits(x3, x4, x5, N, Len(x2))
  BY DEF WelInv, WelTyped
<1>2. /\ UNCHANGED <<x1, x2>>
      /\ x3' = [c \in 1..N |-> IF x3[c].heard = "waits" THEN [x3[c] EXCEPT !.heard = "error"] ELSE x3[c]]
  BY DEF Wel!Drop, Wel!Calls, Wel!Waits
<1>3. ASSUME NEW c \in 1..N
      PROVE  /\ x3'[c] \in WelCalls(F)
             /\ x3'[c].what = x3[c].what /\ x3'[c].folder = x3[c].folder /\ x3'[c].at = x3[c].at
             /\ x3'[c].turn = x3[c].turn /\ x3'[c].early = x3[c].early /\ x3'[c].gen = x3[c].gen
             /\ x3[c].heard = "no" => x3'[c].heard = "no"
  <2>1. x3[c] \in WelCalls(F)
    BY <1>1
  <2>2. CASE x3[c].heard = "waits"
    <3>1. x3'[c] = [x3[c] EXCEPT !.heard = "error"]
      BY <1>2, <2>2
    <3>2. PICK l \in BOOLEAN : l = x3[c].late
      BY <2>1 DEF WelCalls
    <3>3. x3'[c] = [x3[c] EXCEPT !.heard = "error", !.late = l]
      BY <2>1, <3>1, <3>2 DEF WelCalls
    <3>4. PICK r, q : r \in WelCalls(F) /\ r = x3[c] /\ q = [r EXCEPT !.heard = "error", !.late = l]
      BY <2>1
    <3>6. /\ q \in WelCalls(F) /\ q.what = r.what /\ q.folder = r.folder /\ q.at = r.at
          /\ q.turn = r.turn /\ q.early = r.early /\ q.gen = r.gen /\ q.heard = "error"
      BY <3>4 DEF WelCalls
    <3>7. QED
      BY <2>2, <3>3, <3>4, <3>6
  <2>3. CASE x3[c].heard # "waits"
    BY <1>2, <2>1, <2>3
  <2>4. QED
    BY <2>2, <2>3
<1>4. PICK w : w = [x4 EXCEPT !.open = FALSE, !.adding = FALSE]
  OBVIOUS
<1>5. w \in WelWins /\ w.known = x4.known /\ ~ShownOf(w) /\ Wel(F, N, K)!Becomes(w, x5)
  BY <1>1, <1>4 DEF WelWins, ShownOf, Wel!Drop
<1>6. ASSUME ShownOf(w) = ShownOf(x4) PROVE ScreenFits(x3', w, x5, N, Len(x2))
  <2>1. ~x5.busy /\ \A c \in 1..N : x3'[c].what \in {"adopt", "start"} => x3'[c].gen < x5.gen
    BY <1>1, <1>3, <1>5, <1>6 DEF ScreenFits
  <2>2. x5.gen \in Nat /\ \A c \in 1..N : x3'[c].gen \in Nat
    BY <1>1, <1>3 DEF WelObs, WelCalls
  <2>3. \A c \in 1..N : x3'[c].gen < x5.gen => x3'[c].gen <= x5.gen /\ x3'[c].gen # x5.gen
    BY <2>2
  <2>4. QED
    BY <1>1, <1>5, <2>1, <2>3 DEF ScreenFits, Own
<1>7. w.known <= Len(x2)
  BY <1>1, <1>5 DEF ScreenFits
<1>8. x4' \in WelWins /\ x5' \in WelObs /\ ScreenFits(x3', x4', x5', N, Len(x2))
  BY <1>1, <1>3, <1>5, <1>6, <1>7, BecomesFits
<1>9. x3' \in [1..N -> WelCalls(F)]
  BY <1>2, <1>3
<1>10. QED
  BY <1>2, <1>3, <1>8, <1>9, HearsKeep

LEMMA DialogsKeep ==
  ASSUME NEW F, NEW N, NEW K, WelInv(F, N), Wel(F, N, K)!OpenDialog \/ Wel(F, N, K)!CloseDialog
  PROVE  WelInv(F, N)'
<1>1. /\ x3 \in [1..N -> WelCalls(F)] /\ x4 \in WelWins /\ x5 \in WelObs /\ Len(x2) \in Nat
      /\ ScreenFits(x3, x4, x5, N, Len(x2))
  BY DEF WelInv, WelTyped
<1>2. UNCHANGED <<x1, x2, x3, x5>>
  BY DEF Wel!OpenDialog, Wel!CloseDialog
<1>3. x4' \in WelWins /\ x4'.known = x4.known /\ ShownOf(x4') = ShownOf(x4)
  <2>1. CASE Wel(F, N, K)!OpenDialog
    <3>1. PICK n \in Nat : n = x4.dialogs + 1
      BY <1>1 DEF WelWins
    <3>2. x4' = [x4 EXCEPT !.dialog = n, !.dialogs = n, !.adding = FALSE]
      BY <1>1, <2>1, <3>1 DEF Wel!OpenDialog, WelWins
    <3>3. QED
      BY <1>1, <3>2 DEF WelWins, ShownOf
  <2>2. CASE Wel(F, N, K)!CloseDialog
    BY <1>1, <2>2 DEF Wel!CloseDialog, WelWins, ShownOf
  <2>3. QED
    BY <2>1, <2>2
<1>4. ScreenFits(x3', x4', x5', N, Len(x2))
  BY <1>1, <1>2, <1>3 DEF ScreenFits, Own
<1>5. QED
  BY <1>1, <1>2, <1>3, <1>4, HearsKeep

(* A call of the dialog, or of the welcome screen.                          *)
Asks(F, N, c, r, a, g) ==
  /\ c \in 1..N /\ r \in WelCalls(F) /\ x3[c].what = "none" /\ r.what = a /\ r.at = "asked"
  /\ ~r.turn /\ ~r.early /\ r.gen = g /\ r.heard = "waits" /\ x3' = [x3 EXCEPT ![c] = r]

LEMMA CallingIs ==
  ASSUME NEW F, NEW N, NEW K, NEW f, NEW p \in Nat, NEW g \in Nat,
         NEW a \in {"adopt", "start", "add", "clone"}, f \in F \/ (a = "start" /\ f = "none"),
         Wel(F, N, K)!Calling(a, f, p, g)
  PROVE  \E c, r : Asks(F, N, c, r, a, g)
<1>1. PICK n : n = Wel(F, N, K)!NoCall
  OBVIOUS
<1>2. PICK c \in 1..N : /\ x3[c] = n
                        /\ x3' = [x3 EXCEPT ![c] = [n EXCEPT !.what = a, !.folder = f,
                             !.project = p, !.gen = g, !.at = "asked", !.heard = "waits"]]
  BY <1>1 DEF Wel!Calling, Wel!Calls
<1>3. PICK r : r = [n EXCEPT !.what = a, !.folder = f, !.project = p, !.gen = g,
                             !.at = "asked", !.heard = "waits"]
  OBVIOUS
<1>4. n = [what |-> "none", folder |-> "none", project |-> 0, gen |-> 0, at |-> "no",
           heard |-> "no", late |-> FALSE, early |-> FALSE, turn |-> FALSE]
  BY <1>1 DEF Wel!NoCall, Wel!NoProject
<1>5. /\ r \in WelCalls(F) /\ r.what = a /\ r.at = "asked"
      /\ ~r.turn /\ ~r.early /\ r.gen = g /\ r.heard = "waits"
  BY <1>3, <1>4 DEF WelCalls
<1>6. x3[c].what = "none"
  BY <1>2, <1>4
<1>7. Asks(F, N, c, r, a, g)
  BY <1>2, <1>3, <1>5, <1>6 DEF Asks
<1>8. QED
  BY <1>7

LEMMA SubmitKeeps ==
  ASSUME NEW F, NEW N, NEW K, WelInv(F, N), Wel(F, N, K)!Submit
  PROVE  WelInv(F, N)'
<1>1. /\ x3 \in [1..N -> WelCalls(F)] /\ x4 \in WelWins /\ x5 \in WelObs /\ Len(x2) \in Nat
      /\ ScreenFits(x3, x4, x5, N, Len(x2)) /\ x4.dialog \in Nat
  BY DEF WelInv, WelTyped, WelWins
<1>2. UNCHANGED <<x1, x2, x5>> /\ x4' = [x4 EXCEPT !.adding = TRUE]
  BY DEF Wel!Submit
<1>g. PICK g \in Nat : g = x4.dialog
  BY <1>1
<1>3. PICK f \in F, a \in {"add", "clone"} : Wel(F, N, K)!Calling(a, f, 0, g)
  BY <1>g DEF Wel!Submit, Wel!NoProject
<1>c. PICK c, r : Asks(F, N, c, r, a, g)
  <2>1. a \in {"adopt", "start", "add", "clone"} /\ 0 \in Nat
    OBVIOUS
  <2>2. QED
    BY <1>3, <2>1, CallingIs
<1>4. /\ c \in 1..N /\ r \in WelCalls(F) /\ x3[c].what = "none" /\ r.what = a /\ r.at = "asked"
      /\ ~r.turn /\ ~r.early /\ r.gen = g /\ r.heard = "waits" /\ x3' = [x3 EXCEPT ![c] = r]
  BY <1>c DEF Asks
<1>5. x4' \in WelWins /\ x4'.known = x4.known /\ ShownOf(x4') = ShownOf(x4)
  BY <1>1, <1>2 DEF WelWins, ShownOf
<1>6. x3'[c] = r /\ \A d \in 1..N : d # c => x3'[d] = x3[d]
  BY <1>1, <1>4
<1>7. ScreenFits(x3', x4', x5', N, Len(x2))
  <2>1. ASSUME NEW d \in 1..N, x3'[d].what \in {"adopt", "start"} PROVE x3'[d] = x3[d]
    BY <1>3, <1>4, <1>6, <2>1
  <2>2. ASSUME NEW d \in 1..N, x3[d].what \in {"adopt", "start"} PROVE x3'[d] = x3[d]
    BY <1>4, <1>6, <2>2
  <2>3. x5' = x5 /\ ScreenFits(x3, x4, x5, N, Len(x2))
    BY <1>1, <1>2
  <2>4. QED
    BY <1>5, <2>1, <2>2, <2>3 DEF ScreenFits, Own
<1>8. QED
  BY <1>1, <1>2, <1>3, <1>4, <1>5, <1>7, AsksKeep

LEMMA AskedKeeps ==
  ASSUME NEW F, NEW N, WelInv(F, N), NEW c, NEW r, NEW a \in {"adopt", "start"}, NEW g,
         Asks(F, N, c, r, a, g), g = x5.gen, ShownOf(x4), UNCHANGED <<x1, x2, x4>>,
         x5' = [x5 EXCEPT !.busy = TRUE, !.hasty = @ \/ x5.busy]
  PROVE  WelInv(F, N)'
<1>1. /\ x3 \in [1..N -> WelCalls(F)] /\ x4 \in WelWins /\ x5 \in WelObs /\ Len(x2) \in Nat
      /\ ScreenFits(x3, x4, x5, N, Len(x2)) /\ x5.gen \in Nat
  BY DEF WelInv, WelTyped, WelObs
<1>4. /\ c \in 1..N /\ r \in WelCalls(F) /\ x3[c].what = "none" /\ r.what = a /\ r.at = "asked"
      /\ ~r.turn /\ ~r.early /\ r.gen = g /\ r.heard = "waits" /\ x3' = [x3 EXCEPT ![c] = r]
  BY DEF Asks
<1>h. PICK h \in BOOLEAN : h = (x5.hasty \/ x5.busy)
  OBVIOUS
<1>5. /\ x5' \in WelObs /\ x5'.gen = x5.gen /\ x5'.busy = TRUE /\ x5'.hasty = h
      /\ x5'.project = x5.project /\ x5'.step = x5.step
  <2>1. x5' = [x5 EXCEPT !.busy = TRUE, !.hasty = h]
    BY <1>1, <1>h DEF WelObs
  <2>2. QED
    BY <1>1, <2>1 DEF WelObs
<1>6. x3'[c] = r /\ \A d \in 1..N : d # c => x3'[d] = x3[d]
  BY <1>1, <1>4
<1>7. ScreenFits(x3', x4', x5', N, Len(x2))
  <2>1. x4' = x4 /\ x4.known <= Len(x2) /\ (x5'.project # 0 \/ x5'.step = "first-prompt" => x4.known > 0)
    BY <1>1, <1>5 DEF ScreenFits
  <2>2. \A d \in 1..N : x3'[d].what \in {"adopt", "start"} => x3'[d].gen <= x5'.gen
    BY <1>1, <1>4, <1>5, <1>6 DEF ScreenFits
  <2>3. Own(x3', x5', c) /\ x3'[c].heard = "waits"
    BY <1>4, <1>5, <1>6 DEF Own
  <2>4. \A d \in 1..N : d # c /\ Own(x3', x5', d) => Own(x3, x5, d) /\ x3'[d] = x3[d]
    BY <1>5, <1>6 DEF Own
  <2>5. ASSUME NEW d \in 1..N, NEW e \in 1..N, Own(x3', x5', d), x3'[d].heard = "waits",
               Own(x3', x5', e), x3'[e].heard = "waits", ~x5'.hasty
        PROVE  d = e
    <3>1. ~x5.hasty /\ ~x5.busy
      BY <1>h, <1>5, <2>5
    <3>2. \A i \in 1..N : ~(Own(x3, x5, i) /\ x3[i].heard = "waits")
      BY <1>1, <3>1 DEF ScreenFits
    <3>3. d = c /\ e = c
      BY <2>4, <2>5, <3>2
    <3>4. QED
      BY <3>3
  <2>6. ASSUME NEW d \in 1..N, Own(x3', x5', d), x3'[d].what = "start"
        PROVE  x3'[d].heard = "waits" \/ (x3'[d].heard = "error" /\ (x3'[d].late \/ x3'[d].at = "failed"))
    <3>1. CASE d = c
      BY <3>1, <2>3
    <3>2. CASE d # c
      BY <3>2, <2>4, <2>6, <1>1 DEF ScreenFits
    <3>3. QED
      BY <3>1, <3>2
  <2>7. \E d \in 1..N : Own(x3', x5', d) /\ x3'[d].heard = "waits"
    BY <1>4, <2>3
  <2>8. x4'.known <= Len(x2) /\ ShownOf(x4') /\ x5'.busy
    BY <1>5, <2>1
  <2>9. QED
    BY <2>1, <2>2, <2>5, <2>6, <2>7, <2>8 DEF ScreenFits
<1>8. QED
  <2>1. r.what # "none" /\ x4' \in WelWins
    BY <1>1, <1>4
  <2>2. QED
    BY <1>4, <1>5, <1>7, <2>1, AsksKeep

LEMMA CallsKeep ==
  ASSUME NEW F, NEW N, NEW K, WelInv(F, N), Wel(F, N, K)!Adopt \/ Wel(F, N, K)!Start
  PROVE  WelInv(F, N)'
<1>1. PICK g \in Nat, q \in Nat : g = x5.gen /\ q = x5.project
  BY DEF WelInv, WelTyped, WelObs
<1>2. UNCHANGED <<x1, x2, x4>> /\ x5' = [x5 EXCEPT !.busy = TRUE, !.hasty = @ \/ x5.busy] /\ ShownOf(x4)
  BY DEF Wel!Adopt, Wel!Start, Wel!Shown, ShownOf
<1>3. CASE Wel(F, N, K)!Adopt
  <2>1. PICK f \in F : Wel(F, N, K)!Calling("adopt", f, 0, g)
    BY <1>1, <1>3 DEF Wel!Adopt, Wel!NoProject
  <2>2. PICK c, r : Asks(F, N, c, r, "adopt", g)
    BY <2>1, CallingIs
  <2>3. QED
    BY <1>1, <1>2, <2>2, AskedKeeps
<1>4. CASE Wel(F, N, K)!Start
  <2>1. Wel(F, N, K)!Calling("start", "none", q, g)
    BY <1>1, <1>4 DEF Wel!Start
  <2>2. PICK c, r : Asks(F, N, c, r, "start", g)
    BY <2>1, CallingIs
  <2>3. QED
    BY <1>1, <1>2, <2>2, AskedKeeps
<1>5. QED
  BY <1>3, <1>4

(* The window hears of a call of its own, or of one before.                 *)
LEMMA OwnsKeep ==
  ASSUME NEW N, NEW C, NEW D, NEW w, NEW o, NEW L \in Nat, ScreenFits(C, w, o, N, L),
         NEW c \in 1..N, C[c].heard = "waits", NEW w1, NEW o1, ShownOf(w1) = ShownOf(w), w1.known <= L,
         \A d \in 1..N : d # c => D[d] = C[d],
         D[c].what = C[c].what, D[c].gen = C[c].gen, D[c].at = C[c].at,
         D[c].heard = "done" \/ (D[c].heard = "error" /\ (D[c].late \/ D[c].at = "failed")),
         o1.gen = o.gen, o1.hasty = o.hasty, o1.busy <=> o.busy /\ ~Own(C, o, c),
         Own(C, o, c) /\ C[c].what = "start" => D[c].heard = "error",
         o1.project # 0 \/ o1.step = "first-prompt" => w1.known > 0
  PROVE  ScreenFits(D, w1, o1, N, L)
<1>1. \A d \in 1..N : /\ Own(D, o1, d) <=> Own(C, o, d)
                      /\ D[d].what = C[d].what /\ D[d].gen = C[d].gen /\ D[d].at = C[d].at
                      /\ D[d].heard = "waits" => d # c /\ C[d].heard = "waits"
  BY DEF Own
<1>2. \A d \in 1..N : D[d].what \in {"adopt", "start"} =>
       D[d].gen <= o1.gen /\ (ShownOf(w1) \/ D[d].gen < o1.gen)
  BY <1>1 DEF ScreenFits
<1>3. o1.busy => \E d \in 1..N : Own(D, o1, d) /\ D[d].heard = "waits"
  <2>1. ASSUME o1.busy PROVE \E d \in 1..N : Own(D, o1, d) /\ D[d].heard = "waits"
    <3>1. o.busy /\ ~Own(C, o, c)
      BY <2>1
    <3>2. PICK d \in 1..N : Own(C, o, d) /\ C[d].heard = "waits"
      BY <3>1 DEF ScreenFits
    <3>3. d # c /\ Own(D, o1, d) /\ D[d].heard = "waits"
      BY <3>1, <3>2, <1>1
    <3>4. QED
      BY <3>3
  <2>2. QED
    BY <2>1
<1>4. ASSUME NEW d \in 1..N, NEW e \in 1..N, Own(D, o1, d), D[d].heard = "waits",
             Own(D, o1, e), D[e].heard = "waits"
      PROVE  o1.hasty \/ (d = e /\ o1.busy)
  <2>1. /\ Own(C, o, d) /\ Own(C, o, e) /\ d # c /\ e # c
        /\ C[d].heard = "waits" /\ C[e].heard = "waits"
    BY <1>1, <1>4
  <2>2. o.hasty \/ (d = e /\ o.busy)
    BY <2>1 DEF ScreenFits
  <2>3. ASSUME ~o.hasty PROVE ~Own(C, o, c)
    BY <2>1, <2>3 DEF ScreenFits
  <2>4. QED
    BY <2>2, <2>3
<1>5. ASSUME NEW d \in 1..N, Own(D, o1, d), D[d].what = "start"
      PROVE  D[d].heard = "waits" \/ (D[d].heard = "error" /\ (D[d].late \/ D[d].at = "failed"))
  <2>1. Own(C, o, d) /\ C[d].what = "start"
    BY <1>1, <1>5
  <2>2. CASE d = c
    BY <2>1, <2>2
  <2>3. CASE d # c
    BY <2>1, <2>3 DEF ScreenFits
  <2>4. QED
    BY <2>2, <2>3
<1>6. ~ShownOf(w1) => ~o1.busy
  BY DEF ScreenFits
<1>7. QED
  BY <1>2, <1>3, <1>4, <1>5, <1>6 DEF ScreenFits

LEMMA RejectsKeep ==
  ASSUME NEW F, NEW N, NEW K, WelInv(F, N), NEW c \in 1..N,
         Wel(F, N, K)!TimesOut(c) \/ Wel(F, N, K)!Refused(c)
  PROVE  WelInv(F, N)'
<1>1. /\ x3 \in [1..N -> WelCalls(F)] /\ x4 \in WelWins /\ x5 \in WelObs /\ Len(x2) \in Nat
      /\ ScreenFits(x3, x4, x5, N, Len(x2)) /\ x3[c] \in WelCalls(F)
  BY DEF WelInv, WelTyped
<1>2. PICK l \in BOOLEAN : /\ Wel(F, N, K)!Rejects(c, l) /\ x3[c].heard = "waits"
                           /\ l \/ x3[c].at = "failed"
  BY DEF Wel!TimesOut, Wel!Refused, Wel!Waits
<1>3. PICK r : r = [x3[c] EXCEPT !.heard = "error", !.late = l]
  OBVIOUS
<1>4. /\ r \in WelCalls(F) /\ r.what = x3[c].what /\ r.folder = x3[c].folder /\ r.at = x3[c].at
      /\ r.turn = x3[c].turn /\ r.early = x3[c].early /\ r.gen = x3[c].gen /\ r.heard = "error" /\ r.late = l
  BY <1>1, <1>3 DEF WelCalls
<1>5. UNCHANGED <<x1, x2>> /\ x3' = [x3 EXCEPT ![c] = r]
  BY <1>1, <1>2, <1>3 DEF Wel!Rejects
<1>6. x3' \in [1..N -> WelCalls(F)] /\ x3'[c] = r /\ \A d \in 1..N : d # c => x3'[d] = x3[d]
  BY <1>1, <1>4, <1>5
<1>7. x4' \in WelWins /\ x4'.known = x4.known /\ ShownOf(x4') = ShownOf(x4)
  BY <1>1, <1>2 DEF Wel!Rejects, WelWins, ShownOf
<1>8. /\ x5' \in WelObs /\ x5'.gen = x5.gen /\ x5'.hasty = x5.hasty /\ x5'.project = x5.project
      /\ x5'.step = x5.step /\ (x5'.busy <=> x5.busy /\ ~Own(x3, x5, c))
  <2>1. x5' = IF Own(x3, x5, c) THEN [x5 EXCEPT !.busy = FALSE] ELSE x5
    BY <1>2 DEF Wel!Rejects, Wel!OfScreen, Own
  <2>2. CASE Own(x3, x5, c)
    BY <1>1, <2>1, <2>2 DEF WelObs
  <2>3. CASE ~Own(x3, x5, c)
    <3>1. x5' = x5 /\ x5.busy \in BOOLEAN
      BY <1>1, <2>1, <2>3 DEF WelObs
    <3>2. QED
      BY <1>1, <2>3, <3>1
  <2>4. QED
    BY <2>2, <2>3
<1>9. ScreenFits(x3', x4', x5', N, Len(x2))
  <2>1. x4'.known <= Len(x2) /\ (x5'.project # 0 \/ x5'.step = "first-prompt" => x4'.known > 0)
    BY <1>1, <1>7, <1>8 DEF ScreenFits
  <2>2. /\ x3'[c].what = x3[c].what /\ x3'[c].gen = x3[c].gen /\ x3'[c].at = x3[c].at
        /\ x3'[c].heard = "error" /\ (x3'[c].late \/ x3'[c].at = "failed")
    BY <1>2, <1>4, <1>6
  <2>3. /\ Len(x2) \in Nat /\ ScreenFits(x3, x4, x5, N, Len(x2)) /\ x3[c].heard = "waits"
        /\ ShownOf(x4') = ShownOf(x4) /\ \A d \in 1..N : d # c => x3'[d] = x3[d]
    BY <1>1, <1>2, <1>6, <1>7
  <2>4. /\ x5'.gen = x5.gen /\ x5'.hasty = x5.hasty
        /\ (x5'.busy <=> x5.busy /\ ~Own(x3, x5, c))
    BY <1>8
  <2>5. QED
    BY <2>1, <2>2, <2>3, <2>4, OwnsKeep
<1>10. \A d \in 1..N :
           /\ x3'[d].what = x3[d].what /\ x3'[d].folder = x3[d].folder /\ x3'[d].at = x3[d].at
           /\ x3'[d].turn = x3[d].turn /\ x3'[d].early = x3[d].early
           /\ x3[d].heard = "no" => x3'[d].heard = "no"
  BY <1>2, <1>4, <1>6
<1>11. QED
  BY <1>5, <1>6, <1>7, <1>8, <1>9, <1>10, HearsKeep

LEMMA AnswersKeepScreen ==
  ASSUME NEW F, NEW N, NEW k, WelInv(F, N), NEW c \in 1..N, x3[c].heard = "waits",
         NEW r \in WelCalls(F), r = [x3[c] EXCEPT !.heard = "done"], x3' = [x3 EXCEPT ![c] = r],
         UNCHANGED <<x1, x2>>, NEW w \in WelWins, NEW o \in WelObs, Wel(F, N, k)!Becomes(w, o),
         w.known <= Len(x2), o.gen = x5.gen, o.hasty = x5.hasty,
         ShownOf(w) = ShownOf(x4) =>
           /\ o.busy <=> x5.busy /\ ~Own(x3, x5, c)
           /\ ~(Own(x3, x5, c) /\ x3[c].what = "start")
           /\ o.project # 0 \/ o.step = "first-prompt" => w.known > 0
  PROVE  WelInv(F, N)'
<1>1. /\ x3 \in [1..N -> WelCalls(F)] /\ Len(x2) \in Nat /\ x3[c] \in WelCalls(F)
      /\ ScreenFits(x3, x4, x5, N, Len(x2))
  BY DEF WelInv, WelTyped
<1>2. /\ r.what = x3[c].what /\ r.folder = x3[c].folder /\ r.at = x3[c].at
      /\ r.turn = x3[c].turn /\ r.early = x3[c].early /\ r.gen = x3[c].gen /\ r.heard = "done"
  BY <1>1 DEF WelCalls
<1>3. x3' \in [1..N -> WelCalls(F)] /\ x3'[c] = r /\ \A d \in 1..N : d # c => x3'[d] = x3[d]
  BY <1>1
<1>4. ASSUME ShownOf(w) = ShownOf(x4) PROVE ScreenFits(x3', w, o, N, Len(x2))
  <2>1. /\ o.busy <=> x5.busy /\ ~Own(x3, x5, c)
        /\ ~(Own(x3, x5, c) /\ x3[c].what = "start")
        /\ o.project # 0 \/ o.step = "first-prompt" => w.known > 0
    BY <1>4
  <2>2. /\ x3'[c].what = x3[c].what /\ x3'[c].gen = x3[c].gen /\ x3'[c].at = x3[c].at
        /\ (x3'[c].heard = "done" \/ (x3'[c].heard = "error" /\ (x3'[c].late \/ x3'[c].at = "failed")))
    BY <1>2, <1>3
  <2>3. /\ Len(x2) \in Nat /\ ScreenFits(x3, x4, x5, N, Len(x2)) /\ x3[c].heard = "waits"
        /\ ShownOf(w) = ShownOf(x4) /\ \A d \in 1..N : d # c => x3'[d] = x3[d]
    BY <1>1, <1>3, <1>4
  <2>4. Own(x3, x5, c) /\ x3[c].what = "start" => x3'[c].heard = "error"
    BY <2>1
  <2>5. PICK C, D : C = x3 /\ D = x3'
    OBVIOUS
  <2>6. /\ ScreenFits(C, x4, x5, N, Len(x2)) /\ C[c].heard = "waits"
        /\ \A d \in 1..N : d # c => D[d] = C[d]
        /\ D[c].what = C[c].what /\ D[c].gen = C[c].gen /\ D[c].at = C[c].at
        /\ (D[c].heard = "done" \/ (D[c].heard = "error" /\ (D[c].late \/ D[c].at = "failed")))
        /\ (Own(C, x5, c) /\ C[c].what = "start" => D[c].heard = "error")
        /\ (o.busy <=> x5.busy /\ ~Own(C, x5, c))
    BY <2>1, <2>2, <2>3, <2>4, <2>5
  <2>7. ScreenFits(D, w, o, N, Len(x2))
    BY <1>4, <2>1, <2>3, <2>6, OwnsKeep
  <2>8. QED
    BY <2>5, <2>7
<1>5. \A d \in 1..N :
           /\ x3'[d].what = x3[d].what /\ x3'[d].folder = x3[d].folder /\ x3'[d].at = x3[d].at
           /\ x3'[d].turn = x3[d].turn /\ x3'[d].early = x3[d].early /\ x3'[d].gen = x3[d].gen
           /\ x3[d].heard = "no" => x3'[d].heard = "no"
  BY <1>2, <1>3
<1>6. x4' \in WelWins /\ x5' \in WelObs /\ ScreenFits(x3', x4', x5', N, Len(x2))
  BY <1>4, <1>5, BecomesFits
<1>7. QED
  BY <1>3, <1>5, <1>6, HearsKeep

LEMMA AnswersKeepCall ==
  ASSUME NEW F, NEW N, NEW K, WelInv(F, N), NEW c \in 1..N, Wel(F, N, K)!Answered(c)
  PROVE  WelInv(F, N)'
<1>1. /\ x3 \in [1..N -> WelCalls(F)] /\ x4 \in WelWins /\ x5 \in WelObs /\ Len(x2) \in Nat
      /\ ScreenFits(x3, x4, x5, N, Len(x2)) /\ x3[c] \in WelCalls(F) /\ x4.known \in Nat
      /\ WelFits(c)
  BY DEF WelInv, WelTyped, WelWins
<1>2. /\ x3[c].heard = "waits" /\ x3[c].at = "done" /\ x3[c].what \in {"adopt", "start", "add", "clone"}
      /\ x4.open /\ x3' = [x3 EXCEPT ![c].heard = "done"] /\ UNCHANGED <<x1, x2>>
  BY <1>1 DEF Wel!Answered, Wel!Waits, WelFits, WelCalls
<1>3. x4.known <= Len(x2) /\ (x5.project # 0 \/ x5.step = "first-prompt" => x4.known > 0)
  BY <1>1 DEF ScreenFits
<1>4. PICK r \in WelCalls(F) : r = [x3[c] EXCEPT !.heard = "done"]
  BY <1>1 DEF WelCalls
<1>5. x3' = [x3 EXCEPT ![c] = r]
  BY <1>1, <1>2, <1>4
<1>6. ~Own(x3, x5, c) \/ ShownOf(x4)
  <2>1. ASSUME Own(x3, x5, c), ~ShownOf(x4) PROVE FALSE
    <3>1. x3[c].gen < x5.gen /\ x3[c].gen = x5.gen
      BY <2>1, <1>1 DEF ScreenFits, Own
    <3>2. x5.gen \in Nat
      BY <1>1 DEF WelObs
    <3>3. QED
      BY <3>1, <3>2
  <2>2. QED
    BY <2>1
<1>7. CASE x3[c].what = "start"
  <2>1. PICK w : w = [x4 EXCEPT !.dismissed = TRUE, !.forced = FALSE]
    OBVIOUS
  <2>2. w \in WelWins /\ w.known = x4.known /\ ~ShownOf(w)
    BY <1>1, <2>1 DEF WelWins, ShownOf
  <2>3. Wel(F, N, K)!Becomes(w, x5)
    BY <1>7, <2>1 DEF Wel!Answered
  <2>4. ShownOf(w) = ShownOf(x4) =>
           /\ x5.busy <=> x5.busy /\ ~Own(x3, x5, c)
           /\ ~(Own(x3, x5, c) /\ x3[c].what = "start")
           /\ x5.project # 0 \/ x5.step = "first-prompt" => w.known > 0
    BY <1>3, <1>6, <2>2
  <2>5. QED
    BY <1>1, <1>2, <1>3, <1>4, <1>5, <2>2, <2>3, <2>4, AnswersKeepScreen
<1>8. CASE x3[c].what = "adopt"
  <2>1. PICK w : w = [x4 EXCEPT !.known = Len(x2)]
    OBVIOUS
  <2>2. w \in WelWins /\ w.known = Len(x2) /\ w.known > 0 /\ w.known <= Len(x2)
    BY <1>1, <1>2, <1>8, <2>1 DEF WelWins, WelFits
  <2>3. PICK p \in Nat : p = x3[c].project
    BY <1>1 DEF WelCalls
  <2>4. CASE x3[c].gen = x5.gen
    <3>1. PICK o : o = [x5 EXCEPT !.project = p, !.step = "first-prompt", !.busy = FALSE]
      OBVIOUS
    <3>2. o \in WelObs /\ o.gen = x5.gen /\ o.hasty = x5.hasty /\ ~o.busy
      BY <1>1, <3>1 DEF WelObs
    <3>3. Wel(F, N, K)!Becomes(w, o)
      BY <1>8, <2>1, <2>3, <2>4, <3>1 DEF Wel!Answered
    <3>4. Own(x3, x5, c)
      BY <1>8, <2>4 DEF Own
    <3>5. /\ o.busy <=> x5.busy /\ ~Own(x3, x5, c)
          /\ ~(Own(x3, x5, c) /\ x3[c].what = "start")
          /\ o.project # 0 \/ o.step = "first-prompt" => w.known > 0
      BY <1>8, <2>2, <3>2, <3>4
    <3>6. QED
      BY <1>2, <1>4, <1>5, <2>2, <3>2, <3>3, <3>5, AnswersKeepScreen
  <2>5. CASE x3[c].gen # x5.gen
    <3>1. Wel(F, N, K)!Becomes(w, x5)
      BY <1>8, <2>1, <2>5 DEF Wel!Answered
    <3>2. ~Own(x3, x5, c)
      BY <2>5 DEF Own
    <3>3. /\ x5.busy <=> x5.busy /\ ~Own(x3, x5, c)
          /\ ~(Own(x3, x5, c) /\ x3[c].what = "start")
          /\ x5.project # 0 \/ x5.step = "first-prompt" => w.known > 0
      BY <2>2, <3>2
    <3>4. QED
      BY <1>1, <1>2, <1>4, <1>5, <2>2, <3>1, <3>3, AnswersKeepScreen
  <2>6. QED
    BY <2>4, <2>5
<1>9. CASE x3[c].what \in {"add", "clone"}
  <2>1. PICK w : w = [[x4 EXCEPT !.known = Len(x2)] EXCEPT !.dialog = 0, !.adding = FALSE]
    OBVIOUS
  <2>2. w \in WelWins /\ w.known = Len(x2)
    BY <1>1, <2>1 DEF WelWins
  <2>3. Wel(F, N, K)!Becomes(w, x5)
    BY <1>9, <2>1 DEF Wel!Answered
  <2>4. w.known > 0 /\ w.known <= Len(x2)
    BY <1>1, <1>2, <1>9, <2>2 DEF WelFits
  <2>5. ~Own(x3, x5, c)
    BY <1>9 DEF Own
  <2>6. /\ x5.busy <=> x5.busy /\ ~Own(x3, x5, c)
        /\ ~(Own(x3, x5, c) /\ x3[c].what = "start")
        /\ x5.project # 0 \/ x5.step = "first-prompt" => w.known > 0
    BY <2>4, <2>5
  <2>7. QED
    BY <1>1, <1>2, <1>4, <1>5, <2>2, <2>3, <2>4, <2>6, AnswersKeepScreen
<1>10. QED
  BY <1>2, <1>7, <1>8, <1>9

LEMMA WelGoesOn ==
  ASSUME NEW F, NEW N, NEW K, WelInv(F, N),
         Wel(F, N, K)!Next \/ UNCHANGED <<x1, x2, x3, x4, x5, x6>>
  PROVE  WelInv(F, N)'
<1>1. CASE UNCHANGED <<x1, x2, x3, x4, x5, x6>>
  <2>1. WelTyped(F, N)' = WelTyped(F, N) /\ \A c : MadeOf(c)' = MadeOf(c)
    BY <1>1 DEF WelTyped, MadeOf
  <2>2. (\A c : WelFits(c)' = WelFits(c)) /\ \A c, d : Clones(c, d)' = Clones(c, d)
    BY <1>1, <2>1 DEF WelFits, Clones
  <2>3. ClonesOnce(N)' = ClonesOnce(N)
    BY <2>2 DEF ClonesOnce
  <2>4. ScreenFits(x3', x4', x5', N, Len(x2')) = ScreenFits(x3, x4, x5, N, Len(x2))
    BY <1>1
  <2>5. QED
    BY <2>1, <2>2, <2>3, <2>4 DEF WelInv
<1>2. ASSUME NEW c \in 1..N,
             \/ Wel(F, N, K)!CreateProject(c) \/ Wel(F, N, K)!CheckClone(c) \/ Wel(F, N, K)!GitBegins(c)
             \/ Wel(F, N, K)!GitEnds(c) \/ Wel(F, N, K)!StartThread(c) \/ Wel(F, N, K)!TimesOut(c)
             \/ Wel(F, N, K)!Refused(c) \/ Wel(F, N, K)!Answered(c)
      PROVE  WelInv(F, N)'
  BY <1>2, CreatesKeep, ChecksKeep, GitKeeps, RejectsKeep, AnswersKeepCall
<1>3. CASE \/ Wel(F, N, K)!Connect \/ Wel(F, N, K)!Drop \/ Wel(F, N, K)!Refresh \/ Wel(F, N, K)!Detect
           \/ Wel(F, N, K)!Begin \/ Wel(F, N, K)!Continue \/ Wel(F, N, K)!PickProject
           \/ Wel(F, N, K)!Skip \/ Wel(F, N, K)!Replay
  BY <1>3, FlagsKeep, DropKeeps, DetectKeeps, StepsKeep
<1>4. CASE \/ Wel(F, N, K)!Adopt \/ Wel(F, N, K)!Start \/ Wel(F, N, K)!OpenDialog
           \/ Wel(F, N, K)!CloseDialog \/ Wel(F, N, K)!Submit
  BY <1>4, CallsKeep, DialogsKeep, SubmitKeeps
<1>5. QED
  BY <1>1, <1>2, <1>3, <1>4 DEF Wel!Next, Wel!Calls

LEMMA WelHolds ==
  ASSUME NEW F, NEW N, NEW K, WelInv(F, N)
  PROVE  Wel(F, N, K)!WelcomeIsTrue
<1>1. /\ x3 \in [1..N -> WelCalls(F)] /\ x2 \in Seq(1..N) /\ x4 \in WelWins
      /\ ScreenFits(x3, x4, x5, N, Len(x2)) /\ ClonesOnce(N) /\ \A c \in 1..N : WelFits(c)
  BY DEF WelInv, WelTyped
<1>2. \A c : Wel(F, N, K)!Made(c) <=> MadeOf(c)
  BY <1>1 DEF Wel!Made, MadeOf
<1>3. Wel(F, N, K)!ProjectsAreWhole
  BY <1>1, <1>2 DEF Wel!ProjectsAreWhole, Wel!Calls, WelFits, ClonesOnce, Clones
<1>4. Wel(F, N, K)!LastStepIsReplay
  <2>1. x5.step = "first-prompt" => x4.known # 0
    BY <1>1 DEF ScreenFits, WelWins
  <2>2. QED
    BY <2>1 DEF Wel!LastStepIsReplay, Wel!Shown
<1>5. Wel(F, N, K)!BusyHasCall
  BY <1>1 DEF Wel!BusyHasCall, Wel!Calls, Wel!Waits, Wel!OfScreen, ScreenFits, Own
<1>6. Wel(F, N, K)!StartsOnce
  <2>1. ASSUME NEW c \in 1..N, x3[c].turn, x3[c].gen = x5.gen, ~x3[c].late
        PROVE  Own(x3, x5, c) /\ x3[c].heard = "waits"
    <3>1. x3[c].what = "start" /\ x3[c].at = "done"
      BY <2>1, <1>1 DEF WelFits
    <3>2. Own(x3, x5, c)
      BY <2>1, <3>1 DEF Own
    <3>3. QED
      BY <2>1, <3>1, <3>2, <1>1 DEF ScreenFits
  <2>2. \A c, d \in 1..N :
          Own(x3, x5, c) /\ x3[c].heard = "waits" /\ Own(x3, x5, d) /\ x3[d].heard = "waits" =>
            x5.hasty \/ c = d
    BY <1>1 DEF ScreenFits
  <2>3. QED
    BY <2>1, <2>2 DEF Wel!StartsOnce, Wel!Calls
<1>7. QED
  BY <1>3, <1>4, <1>5, <1>6 DEF Wel!WelcomeIsTrue

LEMMA WelInduct ==
  ASSUME NEW F, NEW N, NEW K
  PROVE  /\ Wel(F, N, K)!Init => WelInv(F, N)
         /\ WelInv(F, N) /\ [Wel(F, N, K)!Next]_(Wel(F, N, K)!vars) => WelInv(F, N)'
         /\ WelInv(F, N) => Wel(F, N, K)!WelcomeIsTrue
<1>1. ASSUME WelInv(F, N), [Wel(F, N, K)!Next]_(Wel(F, N, K)!vars) PROVE WelInv(F, N)'
  BY <1>1, WelGoesOn DEF Wel!vars
<1>2. QED
  BY <1>1, WelStarts, WelHolds

(* A project has its folder, whole or added while it was being cloned; no   *)
(* folder is cloned twice; the last step of the welcome screen is seen only *)
(* by one who asked for it again; the screen waits for a call of its own,   *)
(* and starts one thread, unless the user or the window did not wait: for   *)
(* any folders and number of calls, and in whatever order they end.         *)
THEOREM WelcomeTrue ==
  ASSUME NEW CONSTANT F, NEW CONSTANT N, NEW CONSTANT K
  PROVE  Wel(F, N, K)!Spec => []Wel(F, N, K)!WelcomeIsTrue
<1>1. Wel(F, N, K)!Init => WelInv(F, N)
  BY WelInduct
<1>2. WelInv(F, N) /\ [Wel(F, N, K)!Next]_(Wel(F, N, K)!vars) => WelInv(F, N)'
  BY WelInduct
<1>3. WelInv(F, N) => Wel(F, N, K)!WelcomeIsTrue
  BY WelInduct
<1>4. QED
  BY <1>1, <1>2, <1>3, PTL DEF Wel!Spec
=============================================================================
