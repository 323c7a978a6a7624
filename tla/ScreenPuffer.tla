---------------------------- MODULE ScreenPuffer ----------------------------
(***************************************************************************)
(* The puffer on the participant's screen                                  *)
(* (src/server/devices/screen-puffer-device.ts): a level that follows a    *)
(* ramp.  In real time a timer looks at it again and again; in the fast    *)
(* mode of the tests a microtask jumps to its end, and is not cancelled.   *)
(***************************************************************************)
EXTENDS PufferDevice

CONSTANT None    \* no motion

VARIABLES
  timing,        \* timingMode
  motion,        \* the active motion: where it goes and what it ends in
  ticks          \* the motions that timers or microtasks were scheduled for,
                 \* live while their generation is the present one

screenVars == <<timing, motion, ticks>>

Motions == [target : {0, Full}, final : {"holding", "idle"}, live : BOOLEAN]

ASSUME NoMotion == None \notin Motions

ScreenTypeOK ==
  /\ timing \in {"real-time", "fast"}
  /\ motion \in {None} \union Motions
  /\ ticks \subseteq Motions

ScreenInit ==
  /\ timing \in {"real-time", "fast"}
  /\ motion = None
  /\ ticks = {}

-----------------------------------------------------------------------------

Place(l, s, m) == [level |-> l, state |-> s, motion |-> m]
Arrived(m) == Place(m.target, m.final, None)

\* refreshMotion: the level follows the clock, between the present level and
\* the target, and the motion ends where it arrives.
Refreshed ==
  LET Between == IF motion.target >= level THEN level .. motion.target - 1
                                           ELSE motion.target + 1 .. level
  IN IF motion = None \/ timing = "fast"
     THEN {Place(level, state, motion)}
     ELSE {Arrived(motion)} \union {Place(l, state, motion) : l \in Between}

\* Mutant: the generation is not counted when a motion is cancelled.
TimersCleared == IF timing = "fast" THEN ticks ELSE {}

\* cancelMotion: a timer is cleared, a microtask is outdated.
Cancelled ==
  IF timing = "fast" THEN {[t EXCEPT !.live = FALSE] : t \in ticks} ELSE {}

GoTo(p, scheduled) ==
  level' = p.level /\ state' = p.state /\ motion' = p.motion /\ ticks' = scheduled

\* beginMotion.
BeginMotion(moving, target, final) ==
  \E r \in Refreshed :
    LET m == [target |-> target, final |-> final, live |-> TRUE] IN
    IF r.level = target
    THEN GoTo(Arrived(m), Cancelled)
    ELSE GoTo(Place(r.level, moving, m), Cancelled \union {m})

ScreenStop == \E r \in Refreshed : GoTo(Place(r.level, "stopped", None), Cancelled)

Read == \E r \in Refreshed : GoTo(r, IF r.motion = None THEN Cancelled ELSE ticks)

\* A call that does its work at once and returns.  connect does nothing when
\* the device is connected, everything else fails when it is not.
ScreenCall(c, op) ==
  /\ May(c, op)
  /\ connected <=> op # "connect"
  /\ CASE op = "connect" -> GoTo(Place(0, "idle", motion), ticks)
       [] op = "status" -> Read
       [] op = "inflate" -> BeginMotion("inflating", Full, "holding")
       [] op = "deflate" -> BeginMotion("deflating", 0, "idle")
       [] op = "stop" -> ScreenStop
  /\ connected' = TRUE
  /\ UNCHANGED <<call, fault, timing>>
  /\ BeginAndReturn(c, op, ConfirmedDeflated')

\* disconnect: STOP ...
ScreenDisconnectBegin ==
  /\ connected
  /\ Begin(Queue, "disconnect")
  /\ ScreenStop
  /\ UNCHANGED <<connected, fault, timing>>

\* ... then DEFLATE without a ramp, and off.
ScreenDisconnectEnds ==
  /\ call[Queue] = "disconnect"
  /\ connected' = FALSE
  /\ GoTo(Place(0, "disconnected", None), Cancelled)
  /\ Return(Queue, TRUE)
  /\ UNCHANGED <<fault, timing>>

\* scheduleMotionTick: what the timer or the microtask does.
ScreenTick(t) ==
  /\ CASE ~t.live -> GoTo(Place(level, state, motion), ticks \ {t})
       [] t.live /\ timing = "fast" -> GoTo(Arrived(t), ticks \ {t})
       [] OTHER -> \E r \in Refreshed : GoTo(r, IF r.motion = None THEN {} ELSE ticks)
  /\ UNCHANGED <<connected, fault, callVars, timing>>

ScreenNext ==
  \/ \E c \in Callers, op \in Commands \union {"connect"} : ScreenCall(c, op)
  \/ ScreenDisconnectBegin \/ ScreenDisconnectEnds
  \/ \E t \in ticks : ScreenTick(t)

=============================================================================
