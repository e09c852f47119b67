-------------------------------- MODULE Sockets --------------------------------
(***************************************************************************)
(* Who may hold a socket, and the shells that belong to it.  A device       *)
(* pairs with a link that works once, connects with the token it got, and   *)
(* is cut off when it is revoked.  A shell is owned by the socket that      *)
(* opened it: it goes with the pane that shows it or with the socket.       *)
(*                                                                         *)
(* A drop is noticed by the device at once and by the daemon later, with    *)
(* the frames that were still under way before it.  Tokens are not          *)
(* guessed: a device presents the one it was given.                         *)
(***************************************************************************)
EXTENDS Naturals, Sequences, FiniteSets

CONSTANTS
  Devices,
  Local,        \* the window on this machine, which has the daemon's own token
  Links,
  Shells,
  NoShell,
  NoLink,
  Windows,      \* bound: the devices whose socket drops and that open panes
  MaxDrops,     \* bound: drops
  MaxPanes      \* bound: panes

VARIABLES
  link,     \* pairing_tokens
  client,   \* clients: the row a device was paired as
  device,   \* the window: its token, its socket, its pane
  open,     \* WsHub.clients
  up, down, \* frames under way, by socket and by device
  shell     \* TerminalManager.sessions and the processes

vars == <<link, client, device, open, up, down, shell>>

Sockets == Devices \X (0 .. MaxDrops)
Socket(d) == <<d, device[d].n>>
OwnerOf(k) == k[1]

Closed == [on |-> FALSE, shows |-> NoShell, asked |-> FALSE]

Init ==
  /\ link = [l \in Links |-> "none"]
  /\ client = [d \in Devices |-> [state |-> "none", by |-> NoLink]]
  /\ device = [d \in Devices |-> [token |-> d = Local, up |-> FALSE, n |-> 0,
                                  pane |-> Closed, asks |-> <<>>, panes |-> 0,
                                  gaveUp |-> FALSE]]
  /\ open = {}
  /\ up = [k \in Sockets |-> <<>>]
  /\ down = [d \in Devices |-> <<>>]
  /\ shell = [s \in Shells |-> [state |-> "none", of |-> <<Local, 0>>, owned |-> FALSE]]

----------------------------------------------------------------------------
(* Pairing *)

CreateLink(l) ==
  /\ link[l] = "none"
  /\ link' = [link EXCEPT ![l] = "open"]
  /\ UNCHANGED <<client, device, open, up, down, shell>>

Expire(l) ==
  /\ link[l] = "open"
  /\ link' = [link EXCEPT ![l] = "expired"]
  /\ UNCHANGED <<client, device, open, up, down, shell>>

(* Mutant: a used link pairs again.                                         *)
RedeemableAgain(l) == link[l] \in {"open", "used"}
Redeemable(l) == link[l] = "open"

(* Link and client change in one transaction; the answer with the token may *)
(* be lost on the way.                                                      *)
Redeem(d, l) ==
  /\ d # Local /\ client[d].state = "none" /\ Redeemable(l)
  /\ link' = [link EXCEPT ![l] = "used"]
  /\ client' = [client EXCEPT ![d] = [state |-> "paired", by |-> l]]
  /\ \E got \in BOOLEAN : device' = [device EXCEPT ![d].token = got]
  /\ UNCHANGED <<open, up, down, shell>>

(* verifyClientToken: the row is looked up at every handshake.              *)
Verified(d) == d = Local \/ client[d].state = "paired"

Connect(d) ==
  /\ device[d].token /\ ~device[d].up /\ Socket(d) \notin open /\ Verified(d)
  /\ device' = [device EXCEPT ![d].up = TRUE]
  /\ open' = open \cup {Socket(d)}
  /\ UNCHANGED <<link, client, up, down, shell>>

(* The device's side of a lost socket: what it waits for is rejected.       *)
CutOff(v) ==
  [v EXCEPT !.up = FALSE, !.n = v.n + 1, !.asks = <<>>, !.gaveUp = FALSE,
            !.pane = [v.pane EXCEPT !.asked = FALSE]]

LosesSocket(d) ==
  /\ device' = [device EXCEPT ![d] = CutOff(@)]
  /\ down' = [down EXCEPT ![d] = <<>>]

Drop(d) ==
  /\ d \in Windows /\ device[d].up /\ device[d].n < MaxDrops /\ LosesSocket(d)
  /\ UNCHANGED <<link, client, open, up, shell>>

Kill(S) ==
  shell' = [s \in Shells |->
              IF s \in S /\ shell[s].state = "running" THEN [shell[s] EXCEPT !.state = "dying"]
              ELSE shell[s]]

ShellsOf(k) == {s \in Shells : shell[s].owned /\ shell[s].of = k}

(* WsHub.close *)
SocketGone(k) ==
  /\ k \in open /\ (~device[OwnerOf(k)].up \/ Socket(OwnerOf(k)) # k)
  /\ Kill(ShellsOf(k))
  /\ open' = open \ {k}
  /\ up' = [up EXCEPT ![k] = <<>>]
  /\ UNCHANGED <<link, client, device, down>>

(* revokeClient closes the sockets of the client with it.                   *)
Revoke(d) ==
  LET mine == {k \in open : OwnerOf(k) = d} IN
    /\ client[d].state = "paired" /\ (device[d].up => device[d].n < MaxDrops)
    /\ client' = [client EXCEPT ![d].state = "revoked"]
    /\ Kill(UNION {ShellsOf(k) : k \in mine})
    /\ open' = open \ mine
    /\ up' = [k \in Sockets |-> IF k \in mine THEN <<>> ELSE up[k]]
    /\ IF device[d].up THEN LosesSocket(d)
       ELSE UNCHANGED <<device, down>>
    /\ UNCHANGED link

----------------------------------------------------------------------------
(* The pane of a window *)

Ask(d, frame) == up' = [up EXCEPT ![Socket(d)] = Append(@, frame)]

WithPane(v) ==
  [v EXCEPT !.pane = [on |-> TRUE, shows |-> NoShell, asked |-> TRUE],
            !.asks = Append(v.asks, "wanted"), !.panes = v.panes + 1]

OpenPane(d) ==
  /\ d \in Windows /\ device[d].up /\ ~device[d].pane.on /\ device[d].panes < MaxPanes
  /\ device' = [device EXCEPT ![d] = WithPane(@)]
  /\ Ask(d, NoShell)
  /\ UNCHANGED <<link, client, open, down, shell>>

Unwanted(asks) == [i \in DOMAIN asks |-> IF asks[i] = "wanted" THEN "disposed" ELSE asks[i]]

WithoutPane(v) == [v EXCEPT !.pane = Closed, !.asks = Unwanted(v.asks)]

(* The cleanup of the effect: a shell that is shown is closed, one that is  *)
(* still starting will be.                                                  *)
ClosePane(d) ==
  LET p == device[d].pane IN
    /\ p.on
    /\ device' = [device EXCEPT ![d] = WithoutPane(@)]
    /\ IF p.shows # NoShell /\ device[d].up THEN Ask(d, p.shows) ELSE UNCHANGED up
    /\ UNCHANGED <<link, client, open, down, shell>>

GivesUp(v) ==
  [v EXCEPT !.asks = [v.asks EXCEPT ![1] = "late"], !.gaveUp = TRUE,
            !.pane = [v.pane EXCEPT !.asked = v.pane.asked /\ Head(v.asks) # "wanted"]]

(* A request that takes too long is given up, not cancelled.                *)
TimesOut(d) ==
  /\ device[d].asks # <<>> /\ Head(device[d].asks) # "late"
  /\ device' = [device EXCEPT ![d] = GivesUp(@)]
  /\ UNCHANGED <<link, client, open, up, down, shell>>

Answered(v, s) ==
  [v EXCEPT !.asks = Tail(v.asks),
            !.pane = IF Head(v.asks) = "wanted" THEN [v.pane EXCEPT !.shows = s, !.asked = FALSE]
                     ELSE v.pane]

(* The answer to terminal.open.                                             *)
OnOpened(d) ==
  LET s == Head(down[d]) ask == Head(device[d].asks) IN
    /\ down[d] # <<>>
    /\ down' = [down EXCEPT ![d] = Tail(@)]
    /\ device' = [device EXCEPT ![d] = Answered(@, s)]
    /\ IF ask = "disposed" /\ s # NoShell THEN Ask(d, s) ELSE UNCHANGED up
    /\ UNCHANGED <<link, client, open, shell>>

----------------------------------------------------------------------------
(* The daemon *)

Reply(k, s) ==
  IF device[OwnerOf(k)].up /\ Socket(OwnerOf(k)) = k
  THEN down' = [down EXCEPT ![OwnerOf(k)] = Append(@, s)] ELSE UNCHANGED down

(* terminal.open: refused when the thread is gone or nothing can be spawned. *)
OpenTerminal(k) ==
  \/ \E s \in Shells :
       /\ shell[s].state = "none"
       /\ shell' = [shell EXCEPT ![s] = [state |-> "running", of |-> k, owned |-> TRUE]]
       /\ Reply(k, s)
  \/ Reply(k, NoShell) /\ UNCHANGED shell

(* terminal.close: refused for a shell the socket does not own.             *)
CloseTerminal(k, s) ==
  /\ shell' = IF s \notin ShellsOf(k) THEN shell
              ELSE [shell EXCEPT ![s].owned = FALSE,
                                 ![s].state = IF @ = "running" THEN "dying" ELSE @]
  /\ UNCHANGED down

OnFrame(k) ==
  /\ k \in open /\ up[k] # <<>>
  /\ up' = [up EXCEPT ![k] = Tail(@)]
  /\ IF Head(up[k]) = NoShell THEN OpenTerminal(k) ELSE CloseTerminal(k, Head(up[k]))
  /\ UNCHANGED <<link, client, device, open>>

(* The process ends, killed or by itself: terminalExit.                     *)
ShellExits(s) ==
  /\ shell[s].state \in {"running", "dying"}
  /\ shell' = [shell EXCEPT ![s].state = "dead", ![s].owned = FALSE]
  /\ UNCHANGED <<link, client, device, open, up, down>>

----------------------------------------------------------------------------
Next ==
  \/ \E l \in Links : CreateLink(l) \/ Expire(l) \/ \E d \in Devices : Redeem(d, l)
  \/ \E d \in Devices : \/ Connect(d) \/ Drop(d) \/ Revoke(d)
                        \/ OpenPane(d) \/ ClosePane(d) \/ TimesOut(d) \/ OnOpened(d)
  \/ \E k \in Sockets : SocketGone(k) \/ OnFrame(k)
  \/ \E s \in Shells : ShellExits(s)

Spec == Init /\ [][Next]_vars

----------------------------------------------------------------------------
PairingsTyped ==
  /\ link \in [Links -> {"none", "open", "used", "expired"}]
  /\ client \in [Devices -> [state : {"none", "paired", "revoked"}, by : Links \cup {NoLink}]]

TypeOK ==
  /\ PairingsTyped
  /\ \A d \in Devices : Len(device[d].asks) <= MaxPanes
  /\ open \subseteq Sockets
  /\ \A s \in Shells : shell[s].state \in {"none", "running", "dying", "dead"}

(* Every open socket belongs to this machine or to a device that is paired  *)
(* and not revoked; no link has paired two devices, and one that paired a   *)
(* device is used up.                                                       *)
OnlyPairedConnect ==
  /\ \A k \in open : OwnerOf(k) = Local \/ client[OwnerOf(k)].state = "paired"
  /\ \A d, e \in Devices : client[d].by = client[e].by /\ client[d].by # NoLink => d = e
  /\ \A d \in Devices : client[d].by # NoLink => link[client[d].by] = "used"

OnItsWay(d, s) ==
  \/ \E i \in DOMAIN down[d] : down[d][i] = s
  \/ \E i \in DOMAIN up[Socket(d)] : up[Socket(d)][i] = s

(* A shell that runs has an open socket, and is shown by its pane or about  *)
(* to be shown or closed, as long as no request was given up.  gaveUp is    *)
(* history: a request on this socket was.                                   *)
NoStrayShell ==
  \A s \in Shells : shell[s].state = "running" =>
    LET d == OwnerOf(shell[s].of) IN
      /\ shell[s].of \in open /\ shell[s].owned
      /\ \/ device[d].gaveUp \/ ~device[d].up \/ Socket(d) # shell[s].of
         \/ device[d].pane.shows = s \/ OnItsWay(d, s)
=============================================================================
