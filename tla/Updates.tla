-------------------------------- MODULE Updates --------------------------------
(***************************************************************************)
(* The notice that a CLI is behind (providers/cliUpdates.ts): what every   *)
(* window asks once per connection, what npm says, the file it is kept in  *)
(* for twelve hours and the toast.  Npm, the CLIs and the clock are        *)
(* external.                                                               *)
(*                                                                         *)
(* Releases of a package are numbered in the order they came; the code     *)
(* sees their version strings, of which it reads two numbers here and      *)
(* nothing of what follows a "-".                                          *)
(***************************************************************************)
EXTENDS Naturals, Sequences, FiniteSets

CONSTANTS
  Packages,
  Releases,     \* sequence of [core, pre]: the two numbers, whether "-beta" follows
  Ttl,          \* CACHE_TTL_MS
  MaxTime, MaxCalls, MaxClicks   \* bounds: time, requests, what people do

VARIABLES
  world,    \* the newest release of each package on npm, the one installed, the time
  cache,    \* cli-latest.json
  call,     \* the requests of the windows
  win,      \* the window: whether it is connected, its request, what it shows
  clicks

vars == <<world, cache, call, win, clicks>>

None == 0
Numbers == DOMAIN Releases
Stable == {n \in Numbers : ~Releases[n].pre}
Nothing == [p \in Packages |-> None]
NoCall == [at |-> "no", installed |-> Nothing, versions |-> Nothing, left |-> {},
           updates |-> {}]

Init ==
  /\ world = [latest |-> [p \in Packages |-> 1], installed |-> Nothing, now |-> 0,
              upgraded |-> {}]
  /\ cache = [at |-> None, versions |-> Nothing, there |-> FALSE]
  /\ call = [c \in 1..MaxCalls |-> NoCall]
  /\ win = [open |-> FALSE, asks |-> None, updates |-> {}, dismissed |-> {}]
  /\ clicks = 0

Clicks == clicks < MaxClicks /\ clicks' = clicks + 1

----------------------------------------------------------------------------
(* Npm, the CLIs and the clock.                                             *)
Publish(p) ==
  /\ Clicks
  /\ \E n \in Stable : n > world.latest[p] /\ world' = [world EXCEPT !.latest[p] = n]
  /\ UNCHANGED <<cache, call, win>>

Install(p) ==
  /\ Clicks
  /\ \E n \in Numbers \ {world.installed[p]} :
       /\ n <= world.latest[p] \/ Releases[n].pre
       /\ world' = [world EXCEPT !.installed[p] = n, !.upgraded = @ \cup {p}]
  /\ UNCHANGED <<cache, call, win>>

Time ==
  /\ world.now < MaxTime
  /\ world' = [world EXCEPT !.now = @ + 1]
  /\ UNCHANGED <<cache, call, win, clicks>>

----------------------------------------------------------------------------
(* isNewer, on what parseSemver keeps.                                      *)
Core(n) == Releases[n].core
IsNewer(n, m) ==
  IF Core(n)[1] # Core(m)[1] THEN Core(n)[1] > Core(m)[1] ELSE Core(n)[2] > Core(m)[2]

(* updatesFromVersions.                                                     *)
UpdatesFrom(installed, versions) ==
  {[of |-> p, to |-> versions[p]] :
     p \in {q \in Packages : /\ installed[q] # None /\ versions[q] # None
                             /\ IsNewer(versions[q], installed[q])}}

(* provider.updates: detect, then collectCliUpdates.                        *)
Needed(c) == {p \in Packages : call[c].installed[p] # None}
Answers(c, us) == call' = [call EXCEPT ![c].at = "answered", ![c].updates = us]

Detects(c) ==
  /\ call[c].at = "asked"
  /\ call' = [call EXCEPT ![c].at = "cache", ![c].installed = world.installed]
  /\ UNCHANGED <<world, cache, win, clicks>>

Fresh == cache.there /\ world.now - cache.at < Ttl

ReadCache(c) ==
  /\ call[c].at = "cache"
  /\ \/ Needed(c) = {} /\ Answers(c, {})
     \/ Needed(c) # {} /\ Fresh /\ Answers(c, UpdatesFrom(call[c].installed, cache.versions))
     \/ /\ Needed(c) # {} /\ ~Fresh
        /\ call' = [call EXCEPT ![c].at = "lookup", ![c].versions = cache.versions,
                                ![c].left = Needed(c)]
  /\ UNCHANGED <<world, cache, win, clicks>>

(* npm view: the version, or nothing after an error or the timeout.         *)
Lookup(c, p) ==
  /\ call[c].at = "lookup" /\ p \in call[c].left
  /\ \E v \in {call[c].versions[p], world.latest[p]} :
       call' = [call EXCEPT ![c].versions[p] = v, ![c].left = @ \ {p}]
  /\ UNCHANGED <<world, cache, win, clicks>>

(* writeCache, whose failure is logged.                                     *)
WriteCache(c) ==
  /\ call[c].at = "lookup" /\ call[c].left = {}
  /\ \/ cache' = [at |-> world.now, versions |-> call[c].versions, there |-> TRUE]
     \/ UNCHANGED cache
  /\ Answers(c, UpdatesFrom(call[c].installed, call[c].versions))
  /\ UNCHANGED <<world, win, clicks>>

----------------------------------------------------------------------------
(* The effect on the connection: it asks when the socket opens, and forgets *)
(* the answer when it closes.                                               *)
Connect ==
  /\ ~win.open
  /\ \E c \in 1..MaxCalls :
       /\ call[c].at = "no" /\ \A d \in 1..c - 1 : call[d].at # "no"
       /\ call' = [call EXCEPT ![c].at = "asked"]
       /\ win' = [win EXCEPT !.open = TRUE, !.asks = c]
  /\ world' = [world EXCEPT !.upgraded = {}]
  /\ UNCHANGED <<cache, clicks>>

Disconnect ==
  /\ win.open
  /\ win' = [win EXCEPT !.open = FALSE, !.asks = None, !.updates = {}]
  /\ UNCHANGED <<world, cache, call, clicks>>

Answered(c) ==
  /\ call[c].at = "answered"
  /\ win' = IF win.asks = c THEN [win EXCEPT !.updates = call[c].updates] ELSE win
  /\ call' = [call EXCEPT ![c].at = "over"]
  /\ UNCHANGED <<world, cache, clicks>>

(* UpdateToast: one dismissal for all it shows, each with its version.      *)
Visible == win.updates \ win.dismissed
Dismiss ==
  /\ Visible # {} /\ Clicks
  /\ win' = [win EXCEPT !.dismissed = @ \cup Visible]
  /\ UNCHANGED <<world, cache, call>>

Next ==
  \/ \E p \in Packages : Publish(p) \/ Install(p)
  \/ Time \/ Connect \/ Disconnect \/ Dismiss
  \/ \E c \in 1..MaxCalls :
       \/ Detects(c) \/ ReadCache(c) \/ WriteCache(c) \/ Answered(c)
       \/ \E p \in Packages : Lookup(c, p)

Spec == Init /\ [][Next]_vars

----------------------------------------------------------------------------
Updates == [of : Packages, to : Numbers]
Versions == [Packages -> Numbers \cup {None}]
TypeOK ==
  /\ world \in [latest : [Packages -> Stable], installed : Versions, now : 0..MaxTime,
                upgraded : SUBSET Packages]
  /\ cache \in [at : 0..MaxTime, versions : Versions, there : BOOLEAN]
  /\ call \in [1..MaxCalls -> [at : {"no", "asked", "cache", "lookup", "answered", "over"},
                               installed : Versions, versions : Versions,
                               left : SUBSET Packages, updates : SUBSET Updates]]
  /\ win \in [open : BOOLEAN, asks : 0..MaxCalls, updates : SUBSET Updates,
              dismissed : SUBSET Updates]

(* "True only when both parse and latest is strictly greater.  Never        *)
(* guessed": what a window offers came out, and later than what is          *)
(* installed, unless the CLI was changed since the window asked; however    *)
(* old the file is, whichever requests wrote it, and on its own connection. *)
OffersAreNewer ==
  \A u \in win.updates :
    /\ win.open /\ u.to <= world.latest[u.of]
    /\ u.of \in world.upgraded \/ u.to > world.installed[u.of]

(* A request that asked npm offers every CLI that is behind, but for one    *)
(* that is a pre-release of what came out: the code sees no difference.     *)
Behind(c, p) ==
  LET from == call[c].installed[p]
      to == call[c].versions[p] IN
    from # None /\ to > from /\ Releases[from].core # Releases[to].core
NothingHidden ==
  \A c \in 1..MaxCalls : \A p \in Packages :
    call[c].at \in {"answered", "over"} /\ Behind(c, p) =>
      \E u \in call[c].updates : u.of = p

UpdatesAreTrue == OffersAreNewer /\ NothingHidden
=============================================================================
