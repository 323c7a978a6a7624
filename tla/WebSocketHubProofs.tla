------------------------- MODULE WebSocketHubProofs -------------------------
(***************************************************************************)
(* The hub and the controller agree on leases and displays, and the hub    *)
(* never drops a client that keeps up, for any number of connections and   *)
(* sessions and any timeout.                                               *)
(***************************************************************************)
EXTENDS WebSocketHub, TLAPS

\* Nobody is accepted before connecting.
Newcomers == \A c \in Clients : socket[c] = "new" => ~accepted[c]

\* An operator on an open connection has just answered, or has been asked.
Asked ==
  \A c \in Operators : socket[c] = "open" =>
    challenge[c] = "sent" \/ (challenge[c] = "none" /\ age[c] = 0)

HInv == TypeOK /\ LeaseIsHeld /\ DisplayIsHeld /\ Newcomers /\ Asked

LEMMA HubInit == Init => HInv
  <1> SUFFICES ASSUME Init PROVE HInv
    OBVIOUS
  <1>1. TypeOK
    <2>1. 0 \in 0 .. Timeout
      BY TimeAssumption
    <2>2. {} \subseteq Clients
      OBVIOUS
    <2>3. age \in [Clients -> 0 .. Timeout]
      BY <2>1 DEF Init
    <2> QED BY <2>2, <2>3 DEF Init, TypeOK
  <1>2. \A c \in Clients : ~Member(c)
    BY DEF Init, Member
  <1>3. LeaseIsHeld
    BY <1>2 DEF Init, LeaseIsHeld, Leased, Clients
  <1>4. DisplayIsHeld
    BY <1>2 DEF Init, DisplayIsHeld, Clients
  <1>5. Newcomers /\ Asked
    BY DEF Init, Newcomers, Asked, Clients
  <1> QED BY <1>1, <1>3, <1>4, <1>5 DEF HInv

\* Removing clients keeps the controller's view of leases and displays.
LEMMA RemoveAgrees ==
  ASSUME HInv, NEW gone \in SUBSET Clients, \A c \in gone : Member(c), Remove(gone), ~closing,
         UNCHANGED <<closing, live>>
  PROVE  /\ LeaseIsHeld' /\ DisplayIsHeld' /\ Newcomers'
         /\ socket' \in [Clients -> {"new", "open", "closing", "gone"}]
         /\ accepted' \in [Clients -> BOOLEAN] /\ away' \subseteq Clients
         /\ lease' \in BOOLEAN
         /\ connections' \in [Sessions -> SUBSET Displays]
         /\ displayConnected' \in [Sessions -> BOOLEAN]
  <1> USE DEF HInv, TypeOK
  <1>1. /\ socket' \in [Clients -> {"new", "open", "closing", "gone"}]
        /\ accepted' \in [Clients -> BOOLEAN] /\ away' \subseteq Clients
        /\ lease' \in BOOLEAN
        /\ connections' \in [Sessions -> SUBSET Displays]
        /\ displayConnected' \in [Sessions -> BOOLEAN]
    BY DEF Remove, Drop
  <1>2. \A c \in Clients : Member(c)' <=> Member(c) /\ c \notin gone
    BY DEF Remove, Drop, Member
  <1>3. Leased' = Leased \ gone
    BY <1>2 DEF Leased, Remove, Drop, Clients
  <1>4. LeaseIsHeld'
    BY <1>3 DEF LeaseIsHeld, Remove, LastLease, Leased
  <1>5. Newcomers'
    BY DEF Remove, Drop, Newcomers, Member
  <1>6. ASSUME NEW s \in Sessions, live'[s]
        PROVE  /\ connections'[s] =
                    {d \in Displays : Member(d)' /\ accepted'[d] /\ SessionOf[d] = s}
               /\ displayConnected'[s] <=> connections'[s] # {}
               /\ \A d, e \in connections'[s] : d = e
    <2>1. /\ live[s]
          /\ connections[s] = {d \in Displays : Member(d) /\ accepted[d] /\ SessionOf[d] = s}
          /\ displayConnected[s] <=> connections[s] # {}
          /\ \A d, e \in connections[s] : d = e
      BY <1>6 DEF DisplayIsHeld
    <2>2. connections'[s] = connections[s] \ Dropped(gone)
      BY <2>1 DEF Remove, Drop
    <2>3. connections'[s] =
            {d \in Displays : Member(d)' /\ accepted'[d] /\ SessionOf[d] = s}
      BY <2>1, <2>2, <1>2 DEF Dropped, Remove, Drop, Clients
    <2>4. displayConnected'[s] <=>
            displayConnected[s] /\
              ((\E d \in Dropped(gone) : SessionOf[d] = s) => connections'[s] # {})
      BY <2>1 DEF Remove, Drop
    <2>5. (\E d \in Dropped(gone) : SessionOf[d] = s) \/ connections'[s] = connections[s]
      BY <2>1, <2>2
    <2>6. displayConnected'[s] <=> connections'[s] # {}
      BY <2>1, <2>2, <2>4, <2>5
    <2> QED BY <2>1, <2>2, <2>3, <2>6
  <1>7. DisplayIsHeld'
    BY <1>6 DEF DisplayIsHeld, Member
  <1> QED BY <1>1, <1>4, <1>5, <1>7

\* What changes neither who is a member, nor who is accepted, nor the
\* controller's view, keeps both in agreement.
LEMMA QuietAgrees ==
  ASSUME HInv, UNCHANGED <<accepted, closing, controllerVars>>,
         \A c \in Clients : accepted[c] => (Member(c)' <=> Member(c))
  PROVE  LeaseIsHeld' /\ DisplayIsHeld'
  <1>1. Leased' = Leased
    BY DEF Leased, HInv, TypeOK, Clients
  <1>2. LeaseIsHeld'
    BY <1>1 DEF HInv, LeaseIsHeld, controllerVars
  <1>3. \A s \in Sessions :
          {d \in Displays : Member(d)' /\ accepted'[d] /\ SessionOf[d] = s} =
            {d \in Displays : Member(d) /\ accepted[d] /\ SessionOf[d] = s}
    BY DEF Clients
  <1>4. DisplayIsHeld'
    BY <1>3 DEF HInv, DisplayIsHeld, controllerVars, Member
  <1> QED BY <1>2, <1>4

\* The inductive step.
LEMMA HubStep == ASSUME HInv, [Next]_vars PROVE HInv'
  <1> USE TimeAssumption, SessionAssumption, ClientAssumption
  <1> USE DEF HInv, TypeOK, Clients, hubVars, controllerVars
  <1>1. CASE UNCHANGED vars
    <2>1. LeaseIsHeld' /\ DisplayIsHeld'
      BY <1>1, QuietAgrees DEF vars, Member
    <2> QED BY <1>1, <2>1 DEF vars, Newcomers, Asked
  <1>2. CASE Check
    <2> DEFINE stale == {c \in Clients : Member(c) /\ Expires(c)}
    <2>1. /\ LeaseIsHeld' /\ DisplayIsHeld' /\ Newcomers'
          /\ socket' \in [Clients -> {"new", "open", "closing", "gone"}]
          /\ accepted' \in [Clients -> BOOLEAN] /\ away' \subseteq Clients
          /\ lease' \in BOOLEAN
          /\ connections' \in [Sessions -> SUBSET Displays]
          /\ displayConnected' \in [Sessions -> BOOLEAN]
      <3>1. /\ stale \in SUBSET Clients /\ \A c \in stale : Member(c)
            /\ Remove(stale) /\ ~closing /\ UNCHANGED <<closing, live>>
        BY <1>2 DEF Check
      <3> HIDE DEF stale
      <3> QED BY <3>1, RemoveAgrees
    <2>2. age' \in [Clients -> 0 .. Timeout]
      BY <1>2 DEF Check, Expires
    <2>3. challenge' \in [Operators -> {"none", "sent", "unsent"}]
      BY <1>2 DEF Check
    <2>4. ASSUME NEW c \in Operators, socket'[c] = "open"
          PROVE  challenge'[c] = "sent"
      <3>1. socket[c] = "open" /\ c \notin stale
        BY <1>2, <2>4 DEF Check, Remove, Drop
      <3>2. challenge[c] = "sent" \/ challenge[c] = "none"
        BY <3>1 DEF Asked
      <3> QED BY <1>2, <3>1, <3>2 DEF Check, Member, NeedsChallenge
    <2> QED BY <1>2, <2>1, <2>2, <2>3, <2>4 DEF Check, Asked
  <1>3. CASE Close
    <2>1. LeaseIsHeld' /\ DisplayIsHeld'
      BY <1>3 DEF Close, LeaseIsHeld, DisplayIsHeld
    <2>2. TypeOK' /\ Newcomers' /\ Asked'
      BY <1>3 DEF Close, Drop, Newcomers, Asked, Member
    <2> QED BY <2>1, <2>2
  <1>4. ASSUME NEW c \in Operators, ConnectOperator(c) PROVE HInv'
    <2>1. LeaseIsHeld' /\ DisplayIsHeld'
      BY <1>4, QuietAgrees DEF ConnectOperator, Newcomers, Member
    <2> QED BY <1>4, <2>1 DEF ConnectOperator, Newcomers, Asked
  <1>5. ASSUME NEW c \in Operators, Answer(c) PROVE HInv'
    <2>1. Leased' = Leased \union {c}
      BY <1>5 DEF Answer, Leased, Member
    <2>2. LeaseIsHeld'
      BY <1>5, <2>1 DEF Answer, LeaseIsHeld, Leased
    <2>3. \A d \in Displays : Member(d)' = Member(d) /\ accepted'[d] = accepted[d]
      BY <1>5 DEF Answer, Member
    <2>4. DisplayIsHeld'
      <3>1. \A s \in Sessions :
              {d \in Displays : Member(d)' /\ accepted'[d] /\ SessionOf[d] = s} =
                {d \in Displays : Member(d) /\ accepted[d] /\ SessionOf[d] = s}
        BY <2>3
      <3> QED BY <1>5, <3>1 DEF Answer, DisplayIsHeld, Member
    <2>5. TypeOK' /\ Newcomers' /\ Asked'
      BY <1>5 DEF Answer, Beat, Newcomers, Asked, Member
    <2> QED BY <2>2, <2>4, <2>5
  <1>6. ASSUME NEW d \in Displays, ConnectDisplay(d) PROVE HInv'
    <2>1. LeaseIsHeld' /\ DisplayIsHeld'
      BY <1>6, QuietAgrees DEF ConnectDisplay, Newcomers, Member
    <2> QED BY <1>6, <2>1 DEF ConnectDisplay, Newcomers, Asked
  <1>7. ASSUME NEW d \in Displays, DisplayReady(d), ~accepted[d], MayBeReady(d) PROVE HInv'
    <2>0. /\ accepted' = [accepted EXCEPT ![d] = TRUE] /\ Beat(d) /\ Member(d)
          /\ connections' = [connections EXCEPT ![SessionOf[d]] = @ \union {d}]
          /\ displayConnected' = [displayConnected EXCEPT ![SessionOf[d]] = TRUE]
          /\ UNCHANGED <<away, closing, socket, challenge, lease, live>>
      BY <1>7 DEF DisplayReady
    <2>1. LeaseIsHeld'
      <3>1. Leased' = Leased BY <2>0 DEF Leased, Member
      <3> QED BY <2>0, <3>1 DEF LeaseIsHeld
    <2>2. ASSUME NEW s \in Sessions, live'[s], ~closing'
          PROVE  /\ connections'[s] =
                      {e \in Displays : Member(e)' /\ accepted'[e] /\ SessionOf[e] = s}
                 /\ displayConnected'[s] <=> connections'[s] # {}
                 /\ \A e, f \in connections'[s] : e = f
      <3>1. /\ connections[s] = {e \in Displays : Member(e) /\ accepted[e] /\ SessionOf[e] = s}
            /\ displayConnected[s] <=> connections[s] # {}
            /\ \A e, f \in connections[s] : e = f
        BY <2>0, <2>2 DEF DisplayIsHeld
      <3>2. CASE s = SessionOf[d]
        <4>1. connections[s] = {}
          BY <1>7, <3>1, <3>2 DEF MayBeReady
        <4>2. connections'[s] = {d} /\ displayConnected'[s]
          BY <2>0, <3>2, <4>1
        <4>3. {e \in Displays : Member(e)' /\ accepted'[e] /\ SessionOf[e] = s} = {d}
          BY <2>0, <3>1, <3>2, <4>1 DEF Member
        <4> QED BY <4>2, <4>3
      <3>3. CASE s # SessionOf[d]
        <4>1. connections'[s] = connections[s] /\ displayConnected'[s] = displayConnected[s]
          BY <2>0, <3>3
        <4>2. {e \in Displays : Member(e)' /\ accepted'[e] /\ SessionOf[e] = s} = connections[s]
          BY <2>0, <3>1, <3>3 DEF Member
        <4> QED BY <3>1, <4>1, <4>2
      <3> QED BY <3>2, <3>3
    <2>3. DisplayIsHeld'
      BY <2>2 DEF DisplayIsHeld, Member
    <2>4. TypeOK' /\ Newcomers' /\ Asked'
      BY <2>0 DEF Beat, Newcomers, Asked, Member
    <2> QED BY <2>1, <2>3, <2>4
  <1>8. ASSUME NEW c \in Clients, Member(c), CloseSocket(c),
               UNCHANGED <<away, closing, age, challenge, accepted, controllerVars>>
        PROVE  HInv'
    <2>1. LeaseIsHeld' /\ DisplayIsHeld'
      BY <1>8, QuietAgrees DEF CloseSocket, Member
    <2> QED BY <1>8, <2>1 DEF CloseSocket, Newcomers, Asked, Member
  <1>9. ASSUME NEW d \in Displays, Heartbeat(d) PROVE HInv'
    <2>1. CASE CloseSocket(d) /\ UNCHANGED age
      BY <1>8, <1>9, <2>1 DEF Heartbeat
    <2>2. CASE Beat(d) /\ UNCHANGED socket
      <3>1. LeaseIsHeld' /\ DisplayIsHeld'
        BY <1>9, <2>2, QuietAgrees DEF Heartbeat, Member
      <3> QED BY <1>9, <2>2, <3>1 DEF Heartbeat, Beat, Newcomers, Asked
    <2> QED BY <1>9, <2>1, <2>2 DEF Heartbeat
  <1>10. ASSUME NEW c \in Clients, GoesAway(c) PROVE HInv'
    <2>1. LeaseIsHeld' /\ DisplayIsHeld'
      BY <1>10, QuietAgrees DEF GoesAway, Member
    <2> QED BY <1>10, <2>1 DEF GoesAway, Newcomers, Asked
  <1>11. ASSUME NEW c \in Clients, SocketCloses(c), ~closing PROVE HInv'
    <2>1. /\ LeaseIsHeld' /\ DisplayIsHeld' /\ Newcomers'
          /\ socket' \in [Clients -> {"new", "open", "closing", "gone"}]
          /\ accepted' \in [Clients -> BOOLEAN] /\ away' \subseteq Clients
          /\ lease' \in BOOLEAN
          /\ connections' \in [Sessions -> SUBSET Displays]
          /\ displayConnected' \in [Sessions -> BOOLEAN]
      BY <1>11, RemoveAgrees DEF SocketCloses
    <2>2. Asked'
      BY <1>11 DEF SocketCloses, Remove, Drop, Beat, Asked
    <2> QED BY <1>11, <2>1, <2>2 DEF SocketCloses, Beat
  <1>12. ASSUME NEW c \in Clients, SocketCloses(c), closing PROVE HInv'
    BY <1>12 DEF SocketCloses, Remove, Drop, Beat, LeaseIsHeld, DisplayIsHeld, Newcomers, Asked, Member
  <1>13. ASSUME NEW s \in Sessions, SessionDeleted(s) PROVE HInv'
    <2>1. Leased' = Leased
      BY <1>13 DEF SessionDeleted, Leased, Member
    <2>2. LeaseIsHeld'
      BY <1>13, <2>1 DEF SessionDeleted, LeaseIsHeld
    <2>3. DisplayIsHeld'
      BY <1>13 DEF SessionDeleted, DisplayIsHeld, Member
    <2> QED BY <1>13, <2>2, <2>3 DEF SessionDeleted, Newcomers, Asked
  <1>14. ASSUME NEW d \in Displays, DisplayReady(d) PROVE HInv'
    BY <1>7, <1>8, <1>14 DEF DisplayReady
  <1>15. ASSUME NEW c \in Clients, InvalidMessage(c) PROVE HInv'
    BY <1>8, <1>15 DEF InvalidMessage
  <1> QED
    BY <1>1, <1>2, <1>3, <1>4, <1>5, <1>6, <1>9, <1>10, <1>11, <1>12, <1>13, <1>14, <1>15
    DEF Next

\* The controller has a lease exactly while a confirmed operator is connected,
\* and knows the one ready display of each session, whatever the connections do.
THEOREM HubAgrees == Spec => [](LeaseIsHeld /\ DisplayIsHeld)
  <1>1. HInv /\ [Next]_vars => HInv' BY HubStep
  <1>2. HInv => LeaseIsHeld /\ DisplayIsHeld BY DEF HInv
  <1> QED BY HubInit, <1>1, <1>2, PTL DEF Spec

\* Of these, what the displays make of it: the controller takes a display to be
\* there exactly while one is ready, and never has two of one session
\* (src/server/websocket/websocket-hub.ts).
THEOREM DisplaysHeld == Spec => []DisplayIsHeld
  <1>1. LeaseIsHeld /\ DisplayIsHeld => DisplayIsHeld OBVIOUS
  <1> QED BY HubAgrees, <1>1, PTL

\* A step of the hub drops nobody who keeps up.
LEMMA CheckKeeps ==
  ASSUME HInv, Check, NEW c \in Clients, socket[c] = "open", c \notin away
  PROVE  ~Expires(c)
  <1> USE TimeAssumption DEF HInv, TypeOK, Clients
  <1>1. CASE Owes(c)
    BY <1>1 DEF Check, Expires
  <1>2. CASE ~Owes(c)
    <2>1. c \in Operators => age[c] = 0
      BY <1>2 DEF Owes, Asked
    <2>2. c \notin Operators => ~accepted[c]
      BY <1>2 DEF Owes
    <2> QED BY <2>1, <2>2 DEF Expires, Lapses
  <1> QED BY <1>1, <1>2

\* The hub drops no client whose browser answers within Lag checks, for every
\* timeout longer than that.
THEOREM HubKeepsPresent == Spec => PresentClientsKept
  <1>1. ASSUME HInv, [Next]_vars PROVE PresentIsKept \/ UNCHANGED vars
    <2> SUFFICES ASSUME Next, NEW c \in Clients, socket[c] = "open", c \notin away,
                        ~closing'
                 PROVE  socket'[c] # "gone"
      BY <1>1 DEF PresentIsKept
    <2>1. CASE Check
      <3>1. ~Expires(c) BY <1>1, <2>1, CheckKeeps
      <3> QED BY <2>1, <3>1 DEF Check, Remove, Drop
    <2>2. CASE Close BY <2>2 DEF Close
    <2>3. ASSUME NEW e \in Clients, SocketCloses(e) PROVE socket'[c] # "gone"
      BY <2>3 DEF SocketCloses, Remove, Drop
    <2>4. CASE UNCHANGED socket BY <2>4
    <2>5. ASSUME NEW e \in Clients, socket' = [socket EXCEPT ![e] = "open"]
                 \/ socket' = [socket EXCEPT ![e] = "closing"]
          PROVE  socket'[c] # "gone"
      BY <1>1, <2>5 DEF HInv, TypeOK
    <2> QED
      BY <2>1, <2>2, <2>3, <2>4, <2>5
      DEF Next, ConnectOperator, Answer, ConnectDisplay, DisplayReady, Heartbeat, CloseSocket,
          InvalidMessage, GoesAway, SessionDeleted, hubVars, Clients
  <1>2. HInv /\ [Next]_vars => HInv' BY HubStep
  <1> QED BY HubInit, <1>1, <1>2, PTL DEF Spec, PresentClientsKept

=============================================================================
