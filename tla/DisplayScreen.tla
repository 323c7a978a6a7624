---------------------------- MODULE DisplayScreen ----------------------------
(***************************************************************************)
(* The participant's page (src/client/participant/, src/client/shared/     *)
(* realtime.ts), the hub's side of its connections, and the session it     *)
(* shows.  A page is loaded, asks for the session once over HTTP and then  *)
(* keeps a connection: it reconnects when one ends, and shows the run only *)
(* over one the server has taken as the session's display.                 *)
(***************************************************************************)
EXTENDS SessionService, FiniteSets

CONSTANTS
  Pages,        \* tabs with the session's display address
  Session,      \* that session
  Connections,  \* numbers of connections; one that is gone is used again
  Room,         \* snapshots that may be on their way to a page
  MaxMishaps    \* connections cut, requests failed and tabs closed

ASSUME ConnectionAssumption == 0 \notin Connections
ASSUME SessionAssumption == Session \in Sessions
ASSUME MishapAssumption == MaxMishaps \in Nat

VARIABLES
  \* The browser.
  page,         \* of each tab: its state; conn 0 is none
  fetch,        \* the answer to the request for the display
  inbox,        \* snapshots on their way, and those not yet handled
  \* The network and the hub.
  hub,          \* what the hub has of each connection; the display.ready of an
                \* "open" one is on its way
  cut,          \* connections nothing comes through any more
  mishaps,
  display,      \* readyDisplayConnections of the session
  \* Of the past.
  vouched       \* connections that were the display at a go-ahead of the staff

screenVars == <<page, fetch, inbox>>
linkVars == <<hub, cut, mishaps, display, vouched>>
displayVars == <<serviceVars, screenVars, linkVars>>

PublicSnapshot(x) == [step |-> x.step, phase |-> ShownPhase(x)]
NoSnapshot == [step |-> 0, phase |-> "recovery"]
NoFetch == [state |-> "none", snapshot |-> NoSnapshot]

Shut == [loaded |-> FALSE, socket |-> "none", conn |-> 0,
         synchronized |-> FALSE, snapshot |-> NoSnapshot]

Snapshots == [step : Nat, phase : Phases]

PageStates == [loaded : BOOLEAN, socket : {"none", "due", "connecting", "open"},
               conn : Connections \union {0}, synchronized : BOOLEAN, snapshot : Snapshots]
Fetches == [state : {"none", "asked", "answered", "failed"}, snapshot : Snapshots]

DisplayTypeOK ==
  /\ page \in [Pages -> PageStates]
  /\ fetch \in [Pages -> Fetches]
  /\ inbox \in [Pages -> Seq(Snapshots)]
  /\ hub \in [Connections -> {"none", "asked", "open", "ready", "closing"}]
  /\ cut \subseteq Connections /\ display \subseteq Connections /\ vouched \subseteq Connections
  /\ mishaps \in 0 .. MaxMishaps

DisplayUnopened ==
  /\ page = [p \in Pages |-> Shut]
  /\ fetch = [p \in Pages |-> NoFetch]
  /\ inbox = [p \in Pages |-> <<>>]
  /\ hub = [c \in Connections |-> "none"]
  /\ cut = {} /\ mishaps = 0
  /\ display = {}
  /\ vouched = {}

DisplayInit ==
  /\ session = [s \in Sessions |-> IF s = Session THEN Created ELSE Unborn]
  /\ active = Session /\ lease = TRUE /\ agreed = TRUE
  /\ DisplayUnopened

-----------------------------------------------------------------------------

Open(p) == page[p].socket # "none"

\* Whom the hub sends the events of the session: broadcastControllerEvent.
Receivers == {p \in Pages : page[p].conn # 0 /\ hub[page[p].conn] = "ready"
                              /\ page[p].conn \notin cut}

HasRoom == \A p \in Receivers : Len(inbox[p]) < Room

\* The event of a step: those who are ready get the snapshot after it.
Broadcast ==
  /\ HasRoom
  /\ inbox' = [p \in Pages |->
       IF p \in Receivers THEN Append(inbox[p], PublicSnapshot(session'[Session]))
       ELSE inbox[p]]

Mishap == mishaps < MaxMishaps /\ mishaps' = mishaps + 1

\* A connection neither side knows any more leaves nothing behind.
Forget ==
  LET known == {c \in Connections :
                  hub'[c] # "none" \/ \E p \in Pages : page'[p].conn = c}
  IN  /\ cut' = cut \intersect known
      /\ vouched' = vouched \intersect known

-----------------------------------------------------------------------------
(***************************************************************************)
(* The page.                                                               *)
(***************************************************************************)

\* Somebody opens the address: the first render starts the request, and the
\* connection waits for it.
Load(p) ==
  /\ ~Open(p)
  /\ page' = [page EXCEPT ![p] = [Shut EXCEPT !.socket = "due"]]
  /\ fetch' = [fetch EXCEPT ![p].state = "asked"]
  /\ UNCHANGED <<serviceVars, inbox, linkVars>>

\* GET /display/:token.
ServeDisplay(p) ==
  /\ fetch[p].state = "asked"
  /\ fetch' = [fetch EXCEPT ![p] =
       IF Exists(Session)
       THEN [state |-> "answered", snapshot |-> PublicSnapshot(session[Session])]
       ELSE [state |-> "failed", snapshot |-> NoSnapshot]]
  /\ UNCHANGED <<serviceVars, page, inbox, linkVars>>

FetchFails(p) ==
  /\ fetch[p].state \in {"asked", "answered"}
  /\ fetch' = [fetch EXCEPT ![p] = [state |-> "failed", snapshot |-> NoSnapshot]]
  /\ Mishap
  /\ UNCHANGED <<serviceVars, page, inbox, hub, cut, display, vouched>>

Fetched(p) ==
  /\ fetch[p].state \in {"answered", "failed"}
  /\ page' = [page EXCEPT
       ![p].loaded = TRUE,
       ![p].snapshot = IF fetch[p].state = "answered" THEN fetch[p].snapshot
                       ELSE [@ EXCEPT !.phase = "error"]]
  /\ fetch' = [fetch EXCEPT ![p] = NoFetch]
  /\ UNCHANGED <<serviceVars, inbox, linkVars>>

\* Mutant: the page connects while its request is still on its way.
MayConnectLoading(p) == page[p].socket = "due"

Unused == {c \in Connections : hub[c] = "none" /\ \A p \in Pages : page[p].conn # c}

\* The effect of useRealtime, or its retry timer.
MayConnect(p) == page[p].socket = "due" /\ page[p].loaded

Connect(p) ==
  /\ MayConnect(p)
  /\ Unused # {}
  /\ LET c == CHOOSE c \in Unused : TRUE
     IN  /\ page' = [page EXCEPT ![p].socket = "connecting", ![p].conn = c,
                                 ![p].synchronized = FALSE]
         /\ hub' = [hub EXCEPT ![c] = "asked"]
  /\ UNCHANGED <<serviceVars, fetch, inbox, cut, mishaps, display, vouched>>

\* handleConnection, and the open event: a page that is let in says it is ready.
SocketOpens(p) ==
  /\ page[p].socket = "connecting" /\ hub[page[p].conn] = "asked"
  /\ page' = [page EXCEPT ![p].socket = "open"]
  /\ hub' = [hub EXCEPT ![page[p].conn] = IF Exists(Session) THEN "open" ELSE "closing"]
  /\ UNCHANGED <<serviceVars, fetch, inbox, cut, mishaps, display, vouched>>

\* A message: the first snapshot synchronises the page.
Receive(p) ==
  /\ page[p].socket = "open" /\ inbox[p] # <<>>
  /\ page' = [page EXCEPT ![p].snapshot = Head(inbox[p]), ![p].synchronized = TRUE]
  /\ inbox' = [inbox EXCEPT ![p] = Tail(@)]
  /\ UNCHANGED <<serviceVars, fetch, linkVars>>

\* Mutant: a page whose connection ends does not try again.
GivesUp(p) == [page[p] EXCEPT !.socket = "lost", !.conn = 0, !.synchronized = FALSE]

\* The close event: the retry timer is set.
Disconnected(p) == [page[p] EXCEPT !.socket = "due", !.conn = 0, !.synchronized = FALSE]

\* The close event comes after an orderly close, a reset, or when the browser
\* gives up a cut connection; what was on its way may be lost.
SocketCloses(p) ==
  /\ page[p].socket \in {"connecting", "open"}
  /\ page[p].conn \in cut \/ hub[page[p].conn] \in {"closing", "none"}
  /\ page' = [page EXCEPT ![p] = Disconnected(p)]
  /\ inbox' = [inbox EXCEPT ![p] = <<>>]
  /\ UNCHANGED <<serviceVars, fetch, hub, mishaps, display>>
  /\ Forget

\* The tab is closed.
Unload(p) ==
  /\ Open(p)
  /\ page' = [page EXCEPT ![p] = Shut]
  /\ fetch' = [fetch EXCEPT ![p] = NoFetch]
  /\ inbox' = [inbox EXCEPT ![p] = <<>>]
  /\ Mishap
  /\ UNCHANGED <<serviceVars, hub, display>>
  /\ Forget

\* What the participant sees: nothing of the run unless it is live.
VisiblePhase(p) ==
  IF ~page[p].loaded \/ page[p].socket # "open" \/ ~page[p].synchronized
  THEN "recovery" ELSE page[p].snapshot.phase

\* ParticipantView.
Content(p) ==
  CASE VisiblePhase(p) \in {"idle", "setup", "intro"} -> "introduction"
    [] VisiblePhase(p) \in {"timed", "stimulus"} -> "presentation"
    [] VisiblePhase(p) = "response" -> "answer"
    [] VisiblePhase(p) = "summary" -> "summary"
    [] OTHER -> "message"

-----------------------------------------------------------------------------
(***************************************************************************)
(* The hub.                                                                *)
(***************************************************************************)

\* Mutant: a second connection of the session is taken as its display as well.
MayAllBeDisplay(c) == Exists(Session)

MayBeDisplay(c) == Exists(Session) /\ display \subseteq {c}

\* display.ready: the session's display, which gets its first snapshot now, or
\* one too many.
AcceptDisplay(c) ==
  /\ hub[c] = "open" /\ c \notin cut /\ MayBeDisplay(c)
  /\ GetDisplay(Session)
  /\ display' = display \union {c}
  /\ hub' = [hub EXCEPT ![c] = "ready"]
  /\ inbox' = [p \in Pages |->
       IF page[p].conn = c THEN <<PublicSnapshot(session'[Session])>> ELSE inbox[p]]
  /\ UNCHANGED <<page, fetch, cut, mishaps, vouched>>

RefuseDisplay(c) ==
  /\ hub[c] = "open" /\ c \notin cut /\ ~MayBeDisplay(c)
  /\ hub' = [hub EXCEPT ![c] = "closing"]
  /\ UNCHANGED <<serviceVars, screenVars, cut, mishaps, display, vouched>>

\* display.fullscreenState: every screen gets the snapshot again.
Fullscreen(p) ==
  /\ page[p].socket = "open" /\ page[p].synchronized
  /\ hub[page[p].conn] = "ready" /\ page[p].conn \in display \ cut
  /\ UNCHANGED session
  /\ Broadcast
  /\ UNCHANGED <<active, lease, agreed, page, fetch, linkVars>>

\* display.heartbeat of a connection whose session is gone.
BeatInVain(p) ==
  /\ page[p].socket = "open" /\ page[p].synchronized
  /\ hub[page[p].conn] = "ready" /\ page[p].conn \notin display \union cut
  /\ hub' = [hub EXCEPT ![page[p].conn] = "closing"]
  /\ UNCHANGED <<serviceVars, screenVars, cut, mishaps, display, vouched>>

\* removeClient, on the close event or when the heartbeats have stopped.
RemoveClient(c) ==
  /\ hub[c] # "none"
  /\ \/ hub[c] = "closing"
     \/ c \in cut
     \/ \A p \in Pages : page[p].conn # c
  /\ hub' = [hub EXCEPT ![c] = "none"]
  /\ display' = display \ {c}
  /\ IF c \in display /\ display' = {} /\ session[Session].attended
     THEN LoseDisplay(Session) ELSE UNCHANGED serviceVars
  /\ UNCHANGED <<screenVars, mishaps>>
  /\ Forget

\* The network cuts a connection; neither side is told.
Cut(c) ==
  /\ hub[c] \in {"open", "ready"} /\ c \notin cut
  /\ \E p \in Pages : page[p].conn = c
  /\ cut' = cut \union {c}
  /\ Mishap
  /\ UNCHANGED <<serviceVars, screenVars, hub, display, vouched>>

-----------------------------------------------------------------------------
(***************************************************************************)
(* The session, driven by the staff, its timers and its mishaps.           *)
(***************************************************************************)

\* What goes on only after the staff has looked at the display.
GoAhead == Prepare(Session) \/ Start(Session) \/ Resume(Session)

Confirmed ==
  /\ GoAhead /\ Broadcast
  /\ vouched' = vouched \union display
  /\ UNCHANGED <<page, fetch, hub, cut, mishaps, display>>

GoesOn ==
  /\ \/ Timer(Session) \/ Checkpoint(Session) \/ Handoff(Session)
     \/ Abort(Session) \/ Fail(Session) \/ FailureEnds(Session)
  /\ Broadcast
  /\ UNCHANGED <<page, fetch, linkVars>>

Released ==
  /\ active = Session /\ Over(Session)
  /\ Release(Session)
  /\ UNCHANGED <<screenVars, linkVars>>

\* Nobody is told of a deletion.
Deleted ==
  /\ Delete(Session)
  /\ display' = {}
  /\ UNCHANGED <<screenVars, hub, cut, mishaps, vouched>>

BrowserStep(p) ==
  \/ Load(p) \/ Fetched(p) \/ FetchFails(p) \/ Connect(p) \/ SocketOpens(p)
  \/ Receive(p) \/ SocketCloses(p) \/ Unload(p)

HubStep ==
  \/ \E p \in Pages : ServeDisplay(p) \/ Fullscreen(p) \/ BeatInVain(p)
  \/ \E c \in Connections :
       AcceptDisplay(c) \/ RefuseDisplay(c) \/ RemoveClient(c) \/ Cut(c)

DisplayNext ==
  \/ \E p \in Pages : BrowserStep(p)
  \/ HubStep
  \/ Confirmed \/ GoesOn \/ Released \/ Deleted

\* What the browser, the network and the hub do by themselves.
DisplayFairness ==
  /\ \A p \in Pages :
       /\ WF_displayVars(ServeDisplay(p)) /\ WF_displayVars(Fetched(p))
       /\ WF_displayVars(Connect(p)) /\ WF_displayVars(SocketOpens(p))
       /\ WF_displayVars(Receive(p)) /\ WF_displayVars(SocketCloses(p))
  /\ \A c \in Connections :
       /\ WF_displayVars(AcceptDisplay(c))
       /\ WF_displayVars(RefuseDisplay(c)) /\ WF_displayVars(RemoveClient(c))

-----------------------------------------------------------------------------

\* The contents that belong to a run.
RunContent == {"presentation", "answer", "summary"}

\* No participant sees a run on a screen the staff has not looked at since that
\* screen connected: after a display was lost, whichever tab comes back first
\* and however late the server learns of the loss, a page shows the run only
\* over a connection that was the session's display when the staff prepared,
\* started or resumed it (docs/EXPERIMENT_SPEC.md:483).
RunShownOnlyConfirmed ==
  \A p \in Pages : Content(p) \in RunContent => page[p].conn \in vouched

\* A page never goes back in the run: the answer to its own first request, the
\* first snapshot of a connection and the events that follow come one after the
\* other, whatever is late (enabled and synchronized, realtime.ts:63-124).
NeverGoesBack ==
  [][\A p \in Pages :
       Open(p) /\ Open(p)' =>
         page'[p].snapshot.step >= page[p].snapshot.step]_displayVars

\* While the session exists and a tab with its display is open, some tab always
\* becomes live again: no cut, no refused second tab and no late close leaves
\* all of them waiting.
ScreenComesBack ==
  []<>(\/ ~Exists(Session)
       \/ \A p \in Pages : ~Open(p)
       \/ \E p \in Pages : page[p].socket = "open" /\ page[p].synchronized)
=============================================================================
