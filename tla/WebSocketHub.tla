---------------------------- MODULE WebSocketHub ----------------------------
(***************************************************************************)
(* The hub between the browsers and the controller                         *)
(* (src/server/websocket/websocket-hub.ts): which operators have a lease,  *)
(* which display a session has, and what the controller is told of it.     *)
(* Time is counted in heartbeat checks, one every second.                  *)
(***************************************************************************)
EXTENDS Naturals

CONSTANTS
  Operators, Displays,   \* connections of operator screens and of displays
  Sessions,
  SessionOf,             \* the session whose token each display carries
  Timeout,               \* heartbeatTimeoutMs, in checks
  Lag                    \* checks within which a browser that is there answers

Clients == Operators \union Displays

ASSUME ClientAssumption == Operators \intersect Displays = {}
ASSUME SessionAssumption == SessionOf \in [Displays -> Sessions]
ASSUME TimeAssumption == Timeout \in Nat /\ Lag \in 1 .. Timeout - 1

VARIABLES
  \* What the world knows.
  away,              \* connections from which nothing comes any more: the page
                     \* is closed, the browser hangs, or the network is cut
  \* The hub.
  closing,
  socket,            \* of each client; those in Members are in the map clients
  age,               \* checks since lastHeartbeatAt
  challenge,         \* challengeNonce: none, one the browser got, or one that
                     \* could not be sent because the socket was closing
  accepted,          \* leaseConfirmed of an operator, ready of a display
  \* The controller.
  lease,             \* operatorLeaseAvailable
  live,              \* the session exists, and its token with it
  connections,       \* readyDisplayConnections
  displayConnected

hubVars == <<closing, socket, age, challenge, accepted>>
controllerVars == <<lease, live, connections, displayConnected>>
vars == <<away, hubVars, controllerVars>>

TypeOK ==
  /\ away \subseteq Clients
  /\ closing \in BOOLEAN
  /\ socket \in [Clients -> {"new", "open", "closing", "gone"}]
  /\ age \in [Clients -> 0 .. Timeout]
  /\ challenge \in [Operators -> {"none", "sent", "unsent"}]
  /\ accepted \in [Clients -> BOOLEAN]
  /\ lease \in BOOLEAN
  /\ live \in [Sessions -> BOOLEAN]
  /\ connections \in [Sessions -> SUBSET Displays]
  /\ displayConnected \in [Sessions -> BOOLEAN]

Init ==
  /\ away = {}
  /\ closing = FALSE
  /\ socket = [c \in Clients |-> "new"]
  /\ age = [c \in Clients |-> 0]
  /\ challenge = [c \in Operators |-> "none"]
  /\ accepted = [c \in Clients |-> FALSE]
  /\ lease = FALSE
  /\ live = [s \in Sessions |-> TRUE]
  /\ connections = [s \in Sessions |-> {}]
  /\ displayConnected = [s \in Sessions |-> FALSE]

-----------------------------------------------------------------------------

Member(c) == socket[c] \in {"open", "closing"}
Leased == {c \in Operators : Member(c) /\ accepted[c]}

\* Mutant: an operator who leaves takes the lease along, whoever else has one.
AnyLease(gone) == Leased \intersect gone # {}

\* Mutant: an operator who is only connected keeps the lease of the last one.
LastOperator(gone) ==
  Leased \intersect gone # {} /\ {c \in Operators : Member(c)} \subseteq gone

\* The operators who leave had a lease, and leave nobody with one.
LastLease(gone) == Leased \intersect gone # {} /\ Leased \subseteq gone

\* The displays whose loss the controller is told of.
Dropped(gone) == {d \in gone \intersect Displays : accepted[d]}

\* A client that has been removed is garbage: nothing is remembered of it.
Drop(gone) ==
  /\ socket' = [c \in Clients |-> IF c \in gone THEN "gone" ELSE socket[c]]
  /\ accepted' = [c \in Clients |-> accepted[c] /\ c \notin gone]
  /\ away' = away \ gone

\* removeClient, of every client of gone, with what the controller does then.
Remove(gone) ==
  /\ Drop(gone)
  /\ lease' = (lease /\ ~LastLease(gone))
  /\ connections' =
       [s \in Sessions |->
          IF live[s] THEN connections[s] \ Dropped(gone) ELSE connections[s]]
  /\ displayConnected' =
       [s \in Sessions |->
          displayConnected[s] /\
            ((live[s] /\ \E d \in Dropped(gone) : SessionOf[d] = s) => connections'[s] # {})]

\* socket.close: the client stays in the map until the close event.
CloseSocket(c) == socket' = [socket EXCEPT ![c] = "closing"]

Beat(c) == age' = [age EXCEPT ![c] = 0]

\* handleConnection.
ConnectOperator(c) ==
  /\ ~closing /\ socket[c] = "new"
  /\ socket' = [socket EXCEPT ![c] = "open"]
  /\ challenge' = [challenge EXCEPT ![c] = "sent"]
  /\ UNCHANGED <<away, closing, age, accepted, controllerVars>>

ConnectDisplay(d) ==
  /\ ~closing /\ socket[d] = "new"
  /\ live[SessionOf[d]]
  /\ socket' = [socket EXCEPT ![d] = "open"]
  /\ UNCHANGED <<away, closing, age, challenge, accepted, controllerVars>>

\* handleMessage: the operator's browser returns the nonce.  What is on its way
\* arrives even if the socket is closing by now.
Answer(c) ==
  /\ Member(c) /\ c \notin away /\ challenge[c] = "sent"
  /\ challenge' = [challenge EXCEPT ![c] = "none"]
  /\ Beat(c)
  /\ accepted' = [accepted EXCEPT ![c] = TRUE]
  /\ lease' = (lease \/ ~accepted[c])
  /\ UNCHANGED <<away, closing, socket, live, connections, displayConnected>>

\* A message of another form ends a display's connection; an operator's only
\* when it is binary or too long.
InvalidMessage(c) ==
  /\ Member(c) /\ c \notin away
  /\ CloseSocket(c)
  /\ UNCHANGED <<away, closing, age, challenge, accepted, controllerVars>>

\* Mutant: a second display may be ready.
MayAllBeReady(d) == live[SessionOf[d]]

\* markDisplayReady: a session has one display.
MayBeReady(d) ==
  /\ live[SessionOf[d]]
  /\ connections[SessionOf[d]] \subseteq {d}

\* display.ready.
DisplayReady(d) ==
  /\ Member(d) /\ d \notin away
  /\ IF ~accepted[d] /\ MayBeReady(d)
     THEN /\ connections' = [connections EXCEPT ![SessionOf[d]] = @ \union {d}]
          /\ displayConnected' = [displayConnected EXCEPT ![SessionOf[d]] = TRUE]
          /\ accepted' = [accepted EXCEPT ![d] = TRUE]
          /\ Beat(d)
          /\ UNCHANGED socket
     ELSE /\ CloseSocket(d)
          /\ UNCHANGED <<age, accepted, connections, displayConnected>>
  /\ UNCHANGED <<away, closing, challenge, lease, live>>

\* display.heartbeat and display.fullscreenState.
Heartbeat(d) ==
  /\ Member(d) /\ d \notin away
  /\ IF accepted[d] /\ live[SessionOf[d]] /\ d \in connections[SessionOf[d]]
     THEN Beat(d) /\ UNCHANGED socket
     ELSE CloseSocket(d) /\ UNCHANGED age
  /\ UNCHANGED <<away, closing, challenge, accepted, controllerVars>>

\* Nothing comes from the client any more, and the hub does not know.  (That a
\* closing one is silent needs no event: it owes nothing.)
GoesAway(c) ==
  /\ socket[c] = "open" /\ c \notin away
  /\ away' = away \union {c}
  /\ UNCHANGED <<hubVars, controllerVars>>

\* The close or error event of a socket; that of a cut connection may never come.
SocketCloses(c) ==
  /\ Member(c) /\ (c \in away \/ socket[c] = "closing")
  /\ Remove({c})
  /\ Beat(c)
  /\ challenge' = [o \in Operators |-> IF o = c THEN "none" ELSE challenge[o]]
  /\ UNCHANGED <<closing, live>>

\* leaseIsActive: a display that never was ready does not expire.
Lapses(c) == c \in Operators \/ accepted[c]

\* The last heartbeat is older than the timeout.
Expires(c) == Lapses(c) /\ age[c] + 1 > Timeout

\* Mutant: the challenge is not repeated.
NeverAgain(c) == FALSE

NeedsChallenge(c) == challenge[c] = "none"

\* What a browser that is there owes the hub: an answer, or heartbeats.
Owes(c) ==
  /\ socket[c] = "open" /\ c \notin away
  /\ IF c \in Operators THEN challenge[c] = "sent" ELSE accepted[c]

\* expireStaleClients.  Browsers that are there have kept up.
Check ==
  LET stale == {c \in Clients : Member(c) /\ Expires(c)}
      Kept(c) == Member(c) /\ c \notin stale
  IN
  /\ ~closing
  /\ \A c \in Clients : Owes(c) => age[c] <= Lag
  /\ Remove(stale)
  /\ age' = [c \in Clients |-> IF Kept(c) /\ Lapses(c) THEN age[c] + 1 ELSE 0]
  /\ challenge' =
       [c \in Operators |->
          CASE ~Kept(c) -> "none"
            [] Kept(c) /\ NeedsChallenge(c) -> IF socket[c] = "open" THEN "sent" ELSE "unsent"
            [] OTHER -> challenge[c]]
  /\ UNCHANGED <<closing, live>>

\* SessionController.delete.
SessionDeleted(s) ==
  /\ live[s]
  /\ live' = [live EXCEPT ![s] = FALSE]
  /\ connections' = [connections EXCEPT ![s] = {}]
  /\ displayConnected' = [displayConnected EXCEPT ![s] = FALSE]
  /\ UNCHANGED <<away, hubVars, lease>>

\* close: the clients are forgotten, the controller is told nothing.
Close ==
  /\ ~closing
  /\ closing' = TRUE
  /\ Drop({c \in Clients : Member(c)})
  /\ age' = [c \in Clients |-> 0]
  /\ challenge' = [c \in Operators |-> "none"]
  /\ UNCHANGED controllerVars

Next ==
  \/ Check \/ Close
  \/ \E c \in Operators : ConnectOperator(c) \/ Answer(c)
  \/ \E d \in Displays : ConnectDisplay(d) \/ DisplayReady(d) \/ Heartbeat(d)
  \/ \E c \in Clients : InvalidMessage(c) \/ GoesAway(c) \/ SocketCloses(c)
  \/ \E s \in Sessions : SessionDeleted(s)

Spec == Init /\ [][Next]_vars

\* The interval timer runs, and browsers that are there answer challenges and
\* send heartbeats.  No event of a socket is promised.
FairSpec ==
  /\ Spec
  /\ WF_vars(Check)
  /\ \A c \in Operators : WF_vars(Answer(c))
  /\ \A d \in Displays : WF_vars(Heartbeat(d))

-----------------------------------------------------------------------------
(* Correctness.                                                            *)

\* The controller has a lease exactly while some operator's is confirmed,
\* whichever of several operators come, answer, expire and leave.
LeaseIsHeld == ~closing => (lease <=> Leased # {})

\* The controller's view of a session's display is the hub's: the connection it
\* knows is the one ready client of the session.
DisplayIsHeld ==
  ~closing =>
    \A s \in Sessions : live[s] =>
      /\ connections[s] = {d \in Displays : Member(d) /\ accepted[d] /\ SessionOf[d] = s}
      /\ displayConnected[s] <=> connections[s] # {}
      /\ \A d, e \in connections[s] : d = e

\* Slow is not gone: the hub does not drop a client that answers within Lag
\* checks, because it asks again after every answer.
PresentIsKept ==
  \A c \in Clients :
    socket[c] = "open" /\ c \notin away => socket'[c] # "gone" \/ closing'
PresentClientsKept == [][PresentIsKept]_vars

\* A cut connection lapses although no event tells of it: the lease is lost when
\* no operator who has it answers any more.
Unattended == \A c \in Leased : c \in away \/ socket[c] = "closing"
LeaseLapses == lease /\ Unattended ~> ~lease \/ ~Unattended \/ closing
=============================================================================
