------------------------- MODULE PufferDevicesProofs -------------------------
(***************************************************************************)
(* What the devices promise, for every level, every set of injections and  *)
(* mishaps, any number of mishaps and any length of the line. DevicesInv   *)
(* is inductive. The screen and the mock keep their word by what their     *)
(* timers may still do (ScreenInv, MockInv). The serial driver keeps it by *)
(* what is on the line: SerialBase says whom each command and answer is    *)
(* for and who waits; Stops, that nothing that moves the puffer follows a  *)
(* STOP, and no answer that shows it moving precedes the answer to it;     *)
(* Asks, that no air comes in between a status request and its answer;     *)
(* Halted, that a move the driver has lost sight of is followed by an      *)
(* emergency STOP. Whatever a step takes off the line, it leaves the rest  *)
(* in its order (Fewer), and what is said of the line survives that        *)
(* (Calmer).                                                               *)
(***************************************************************************)
EXTENDS PufferDevices, SequenceTheorems, TLAPS

\* The states in which a puffer moves or is held.
Shown == {"inflating", "holding", "deflating"}

-----------------------------------------------------------------------------
(* The calls and what is promised.                                         *)

USE CallerAssumption, LevelAssumption, NoMotion

\* What is found to disturb a call are moves.
LEMMA DisturbTypes ==
  ASSUME DeviceTypeOK, NEW c \in Callers, NEW op
  PROVE /\ Disturb(c, op) \in [Callers -> SUBSET Moves]
        /\ \A k \in Callers \ {c} : Disturb(c, op)[k] =
             IF call[k] = "none" THEN {} ELSE since[k] \union MovesOf(op)
        /\ Disturb(c, op)[c] = UNION {MovesOf(o) : o \in UnderWay(c, op)}
<1>1. \A o : MovesOf(o) \subseteq Moves
  BY DEF MovesOf, Moves
<1>2. \A k \in Callers : since[k] \subseteq Moves
  BY DEF DeviceTypeOK
<1>3. UNION {MovesOf(o) : o \in UnderWay(c, op)} \subseteq Moves
  BY <1>1
<1> QED
  BY <1>1, <1>2, <1>3 DEF Disturb

LEMMA Disturbing ==
  ASSUME DeviceTypeOK, NEW c \in Callers, NEW op, NEW k \in Callers \ {c}, call[k] # "none"
  PROVE /\ op \in Moves => op \in Disturb(c, op)[k]
        /\ call[k] \in Moves /\ op # "stop" => call[k] \in Disturb(c, op)[c]
        /\ since[k] \subseteq Disturb(c, op)[k]
        /\ call[k] = "disconnect" => "deflate" \in Disturb(c, op)[c]
        /\ op = "disconnect" => "deflate" \in Disturb(c, op)[k]
<1>1. Disturb(c, op)[k] = since[k] \union MovesOf(op)
  BY DisturbTypes
<1>2. op # "stop" \/ call[k] = "disconnect" => call[k] \in UnderWay(c, op)
  BY DEF UnderWay, Commands, Moves
<1>3. call[k] \in UnderWay(c, op) => MovesOf(call[k]) \subseteq Disturb(c, op)[c]
  BY DisturbTypes
<1>4. \A o : o \in Moves => o \in MovesOf(o)
  BY DEF MovesOf, Moves
<1>5. MovesOf("disconnect") = {"deflate"}
  BY DEF MovesOf
<1> QED
  BY <1>1, <1>2, <1>3, <1>4, <1>5

LEMMA Withdrawing ==
  ASSUME NEW op
  PROVE /\ "stopped" \in Withdrawn(op) <=> op \in {"inflate", "deflate", "disconnect"}
        /\ "flat" \in Withdrawn(op) <=> op = "inflate"
  BY DEF Withdrawn

LEMMA Telling ==
  ASSUME NEW op, NEW moves, NEW confirmed
  PROVE /\ Told(op, moves, confirmed) \subseteq {"stopped", "flat"}
        /\ "stopped" \in Told(op, moves, confirmed) => op = "stop" /\ moves = {}
        /\ "flat" \in Told(op, moves, confirmed) =>
             op \in {"status", "disconnect"} /\ "inflate" \notin moves /\ (op = "status" => confirmed)
  BY DEF Told

LEMMA Answering ==
  ASSUME DeviceTypeOK, NEW c \in Callers, NEW op, BeginAndReturn(c, op, ConfirmedDeflated')
  PROVE /\ promise' \subseteq {"stopped", "flat"} /\ since' \in [Callers -> SUBSET Moves]
        /\ "stopped" \in promise' =>
             \/ "stopped" \in promise /\ op \notin {"inflate", "deflate", "disconnect"}
             \/ op = "stop" /\ Disturb(c, op)[c] = {}
        /\ "flat" \in promise' =>
             \/ "flat" \in promise /\ op # "inflate"
             \/ /\ op \in {"status", "disconnect"} /\ "inflate" \notin Disturb(c, op)[c]
                /\ op = "status" => ConfirmedDeflated'
        /\ since' = [Disturb(c, op) EXCEPT ![c] = {}]
<1>1. promise \subseteq {"stopped", "flat"}
  BY DEF DeviceTypeOK
<1>2. PICK told :
        /\ promise' = (promise \ Withdrawn(op)) \union told
        /\ told \subseteq {"stopped", "flat"}
        /\ "stopped" \in told => op = "stop" /\ Disturb(c, op)[c] = {}
        /\ "flat" \in told =>
             /\ op \in {"status", "disconnect"} /\ "inflate" \notin Disturb(c, op)[c]
             /\ op = "status" => ConfirmedDeflated'
  <2> DEFINE told == Told(op, Disturb(c, op)[c], ConfirmedDeflated')
  <2>1. promise' = (promise \ Withdrawn(op)) \union told
    BY DEF BeginAndReturn
  <2>2. /\ told \subseteq {"stopped", "flat"}
        /\ "stopped" \in told => op = "stop" /\ Disturb(c, op)[c] = {}
        /\ "flat" \in told =>
             /\ op \in {"status", "disconnect"} /\ "inflate" \notin Disturb(c, op)[c]
             /\ op = "status" => ConfirmedDeflated'
    BY DEF Told
  <2> QED
    BY <2>1, <2>2
<1>3. since' \in [Callers -> SUBSET Moves]
  BY DisturbTypes DEF BeginAndReturn
<1> QED
  BY <1>1, <1>2, <1>3, Withdrawing DEF BeginAndReturn

LEMMA Beginning ==
  ASSUME DeviceTypeOK, NEW c \in Callers, NEW op \in Operations, Begin(c, op)
  PROVE /\ promise' \subseteq {"stopped", "flat"} /\ since' \in [Callers -> SUBSET Moves]
        /\ call' \in [Callers -> Operations \union {"none"}]
        /\ "stopped" \in promise' => "stopped" \in promise /\ op \notin {"inflate", "deflate", "disconnect"}
        /\ "flat" \in promise' => "flat" \in promise /\ op # "inflate"
<1>1. promise \subseteq {"stopped", "flat"} /\ call \in [Callers -> Operations \union {"none"}]
  BY DEF DeviceTypeOK
<1>2. promise' = promise \ Withdrawn(op) /\ call' = [call EXCEPT ![c] = op] /\ since' = Disturb(c, op)
  BY DEF Begin
<1> QED
  BY <1>1, <1>2, Withdrawing, DisturbTypes

LEMMA Returning ==
  ASSUME DeviceTypeOK, NEW c \in Callers, NEW ok, Return(c, ok)
  PROVE /\ promise' \subseteq {"stopped", "flat"} /\ since' \in [Callers -> SUBSET Moves]
        /\ call' \in [Callers -> Operations \union {"none"}]
        /\ "stopped" \in promise' => "stopped" \in promise \/ (ok /\ call[c] = "stop" /\ since[c] = {})
        /\ "flat" \in promise' =>
             \/ "flat" \in promise
             \/ /\ ok /\ call[c] \in {"status", "disconnect"} /\ "inflate" \notin since[c]
                /\ call[c] = "status" => ConfirmedDeflated
<1>1. /\ promise \subseteq {"stopped", "flat"} /\ call \in [Callers -> Operations \union {"none"}]
      /\ since \in [Callers -> SUBSET Moves]
  BY DEF DeviceTypeOK
<1>2. /\ promise' = promise \union IF ok THEN Told(call[c], since[c], ConfirmedDeflated) ELSE {}
      /\ call' = [call EXCEPT ![c] = "none"] /\ since' = [since EXCEPT ![c] = {}]
  BY DEF Return
<1> QED
  BY <1>1, <1>2, Telling

-----------------------------------------------------------------------------
(* The screen.                                                             *)

ScreenInv ==
  /\ DeviceTypeOK /\ ScreenTypeOK
  /\ \A t \in ticks : t.live => t = motion
  /\ motion # None => connected /\ state \in {"inflating", "deflating"}
  /\ call[Queue] \in {"none", "disconnect"} /\ call[Direct] = "none"
  /\ call[Queue] = "disconnect" => connected
  /\ "stopped" \in promise => motion = None /\ state \notin Shown
  /\ "flat" \in promise => level = 0 /\ (motion # None => motion.target = 0)
  /\ fault = "none"

LEMMA DeviceAtFirst == DeviceInit => DeviceTypeOK
<1> SUFFICES ASSUME DeviceInit PROVE DeviceTypeOK
  OBVIOUS
<1>1. call \in [Callers -> Operations \union {"none"}] /\ since \in [Callers -> SUBSET Moves]
  BY DEF DeviceInit
<1>2. connected \in BOOLEAN
  BY DEF DeviceInit
<1>3. level \in 0 .. Full /\ promise \subseteq {"stopped", "flat"}
  BY DEF DeviceInit
<1>4. state \in States /\ fault = "none"
  BY DEF DeviceInit, States
<1> QED
  BY <1>1, <1>2, <1>3, <1>4 DEF DeviceTypeOK

LEMMA ScreenAtFirst == Init /\ mode = "screen" => ScreenInv
<1> SUFFICES ASSUME Init, mode = "screen" PROVE ScreenInv
  OBVIOUS
<1>1. DeviceTypeOK /\ DeviceInit /\ ScreenInit
  BY DeviceAtFirst DEF Init
<1> QED
  BY <1>1 DEF DeviceInit, ScreenInit, ScreenInv, ScreenTypeOK, Callers

\* Where the motion is when it is looked at.
LEMMA RefreshedIs ==
  ASSUME ScreenInv, NEW r \in Refreshed
  PROVE /\ r.level \in 0 .. Full
        /\ \/ r.motion = motion /\ r.state = state
           \/ motion # None /\ r = Arrived(motion)
        /\ motion = None => r.level = level
        /\ motion # None /\ motion.target = 0 /\ level = 0 => r.level = 0
<1>1. motion = None \/ motion \in Motions
  BY DEF ScreenInv, ScreenTypeOK
<1>2. level \in 0 .. Full
  BY DEF ScreenInv, DeviceTypeOK
<1>3. CASE motion = None \/ timing = "fast"
  BY <1>2, <1>3 DEF Refreshed, Place
<1>4. CASE motion # None /\ timing # "fast"
  <2>1. motion.target = 0 \/ motion.target = Full
    BY <1>1, <1>4 DEF Motions
  <2>2. CASE r = Arrived(motion)
    BY <1>2, <1>4, <2>1, <2>2 DEF Arrived, Place
  <2>3. CASE \E l \in motion.target + 1 .. level : r = Place(l, state, motion)
    BY <1>2, <1>4, <2>1, <2>3 DEF Place
  <2>4. CASE motion.target >= level /\ \E l \in level .. motion.target - 1 : r = Place(l, state, motion)
    BY <1>2, <1>4, <2>1, <2>4 DEF Place
  <2> QED
    BY <1>4, <2>1, <2>2, <2>3, <2>4 DEF Refreshed
<1> QED
  BY <1>3, <1>4

\* What a step of the screen's device leaves.
ScreenStands ==
  /\ level' \in 0 .. Full /\ state' \in States /\ motion' \in {None} \union Motions
  /\ ticks' \subseteq Motions
  /\ \A t \in ticks' : t.live => t = motion'
  /\ motion' # None => state' \in {"inflating", "deflating"}

LEMMA CancelledIs ==
  ASSUME ScreenInv
  PROVE Cancelled \subseteq Motions /\ \A t \in Cancelled : ~t.live
<1>1. \A t \in Motions : [t EXCEPT !.live = FALSE] \in Motions /\ ~[t EXCEPT !.live = FALSE].live
  BY DEF Motions
<1>2. ticks \subseteq Motions
  BY DEF ScreenInv, ScreenTypeOK
<1> QED
  BY <1>1, <1>2 DEF Cancelled

LEMMA BeginMotionLeads ==
  ASSUME ScreenInv, NEW moving \in {"inflating", "deflating"}, NEW target \in {0, Full},
         NEW final \in {"holding", "idle"}, BeginMotion(moving, target, final)
  PROVE /\ ScreenStands
        /\ motion' # None => motion'.target = target
        /\ motion' = None => level' = target
        /\ "flat" \in promise /\ target = 0 => level' = 0
<1>1. PICK r \in Refreshed :
        LET m == [target |-> target, final |-> final, live |-> TRUE] IN
        IF r.level = target
        THEN GoTo(Arrived(m), Cancelled)
        ELSE GoTo(Place(r.level, moving, m), Cancelled \union {m})
  BY DEF BeginMotion
<1> DEFINE m == [target |-> target, final |-> final, live |-> TRUE]
<1>2. m \in Motions /\ m.target = target /\ m.final = final
  BY DEF Motions
<1> HIDE DEF m
<1>3. r.level \in 0 .. Full /\ ("flat" \in promise => r.level = 0)
  BY RefreshedIs DEF ScreenInv
<1>4. target \in 0 .. Full /\ moving \in States /\ final \in States /\ m # None
  BY <1>2 DEF States
<1>5. CASE r.level = target /\ GoTo(Arrived(m), Cancelled)
  BY <1>2, <1>4, <1>5, CancelledIs DEF GoTo, Arrived, Place, ScreenStands
<1>6. CASE r.level # target /\ GoTo(Place(r.level, moving, m), Cancelled \union {m})
  BY <1>2, <1>3, <1>4, <1>6, CancelledIs DEF GoTo, Place, ScreenStands
<1> QED
  BY <1>1, <1>5, <1>6 DEF m

LEMMA StopLeads ==
  ASSUME ScreenInv, ScreenStop
  PROVE ScreenStands /\ motion' = None /\ state' = "stopped" /\ ("flat" \in promise => level' = 0)
<1>1. PICK r \in Refreshed : GoTo(Place(r.level, "stopped", None), Cancelled)
  BY DEF ScreenStop
<1>2. r.level \in 0 .. Full /\ ("flat" \in promise => r.level = 0)
  BY RefreshedIs DEF ScreenInv
<1> QED
  BY <1>1, <1>2, CancelledIs DEF GoTo, Place, ScreenStands, States

\* The motion goes on, or it arrives.
GoesOn ==
  /\ ScreenStands
  /\ \/ motion' = motion /\ state' = state
     \/ motion # None /\ motion' = None
  /\ motion = None => level' = level
  /\ "flat" \in promise => level' = 0

LEMMA LookLeads ==
  ASSUME ScreenInv, NEW r \in Refreshed, NEW scheduled,
         GoTo(r, scheduled), scheduled \subseteq Motions,
         \A t \in scheduled : t.live => t = r.motion
  PROVE GoesOn
<1>1. /\ r.level \in 0 .. Full
      /\ \/ r.motion = motion /\ r.state = state
         \/ motion # None /\ r = Arrived(motion)
      /\ motion = None => r.level = level
      /\ "flat" \in promise => r.level = 0
  BY RefreshedIs DEF ScreenInv
<1>2. CASE r.motion = motion /\ r.state = state
  BY <1>1, <1>2 DEF GoTo, GoesOn, ScreenStands, ScreenInv, DeviceTypeOK, ScreenTypeOK
<1>3. CASE motion # None /\ r = Arrived(motion)
  <2>1. motion \in Motions /\ motion.final \in States
    BY <1>3 DEF ScreenInv, ScreenTypeOK, Motions, States
  <2>2. r.motion = None /\ r.state = motion.final
    BY <1>3 DEF Arrived, Place
  <2> QED
    BY <1>1, <1>3, <2>1, <2>2 DEF GoTo, GoesOn, ScreenStands
<1> QED
  BY <1>1, <1>2, <1>3

LEMMA TickLeads ==
  ASSUME ScreenInv, NEW t \in ticks, ScreenTick(t)
  PROVE GoesOn
<1>0. ticks \subseteq Motions /\ \A u \in ticks : u.live => u = motion
  BY DEF ScreenInv, ScreenTypeOK
<1>1. CASE ~t.live
  <2>1. GoTo(Place(level, state, motion), ticks \ {t})
    BY <1>1 DEF ScreenTick
  <2> QED
    BY <1>0, <2>1 DEF GoTo, Place, GoesOn, ScreenStands, ScreenInv, DeviceTypeOK, ScreenTypeOK
<1>2. CASE t.live /\ timing = "fast"
  <2>1. GoTo(Arrived(t), ticks \ {t}) /\ t = motion /\ motion \in Motions
    BY <1>0, <1>2 DEF ScreenTick
  <2>2. motion.final \in States /\ motion.target \in 0 .. Full /\ motion # None
    BY <2>1 DEF Motions, States
  <2>3. "flat" \in promise => motion.target = 0
    BY <2>2 DEF ScreenInv
  <2> QED
    BY <1>0, <2>1, <2>2, <2>3 DEF GoTo, Arrived, Place, GoesOn, ScreenStands
<1>3. CASE t.live /\ timing # "fast"
  <2>1. PICK r \in Refreshed : GoTo(r, IF r.motion = None THEN {} ELSE ticks)
    BY <1>3 DEF ScreenTick
  <2>2. r.motion # None => r.motion = motion
    BY RefreshedIs DEF Arrived, Place
  <2> QED
    BY <1>0, <2>1, <2>2, LookLeads
<1> QED
  BY <1>1, <1>2, <1>3

LEMMA ReadLeads ==
  ASSUME ScreenInv, Read
  PROVE GoesOn
<1>0. ticks \subseteq Motions /\ \A u \in ticks : u.live => u = motion
  BY DEF ScreenInv, ScreenTypeOK
<1>1. PICK r \in Refreshed : GoTo(r, IF r.motion = None THEN Cancelled ELSE ticks)
  BY DEF Read
<1>2. r.motion # None => r.motion = motion
  BY RefreshedIs DEF Arrived, Place
<1> QED
  BY <1>0, <1>1, <1>2, LookLeads, CancelledIs

\* With a status and calls in order, the promises are what is left to show.
LEMMA ScreenStays ==
  ASSUME ScreenInv, ScreenStands, connected' \in BOOLEAN, fault' = fault, timing' = timing,
         call' \in [Callers -> Operations \union {"none"}], since' \in [Callers -> SUBSET Moves],
         promise' \subseteq {"stopped", "flat"},
         motion' # None => connected',
         call'[Queue] \in {"none", "disconnect"}, call'[Direct] = "none",
         call'[Queue] = "disconnect" => connected',
         "stopped" \in promise' => motion' = None /\ state' \notin Shown,
         "flat" \in promise' => level' = 0 /\ (motion' # None => motion'.target = 0)
  PROVE ScreenInv'
<1>1. DeviceTypeOK'
  BY DEF ScreenInv, DeviceTypeOK, ScreenStands
<1>2. ScreenTypeOK'
  BY DEF ScreenInv, ScreenTypeOK, ScreenStands
<1> QED
  BY <1>1, <1>2 DEF ScreenInv, ScreenStands

LEMMA ScreenCallKeeps ==
  ASSUME ScreenInv, NEW c \in Callers, NEW op \in Commands \union {"connect"}, ScreenCall(c, op)
  PROVE ScreenInv'
<1>1. /\ DeviceTypeOK /\ op \in Operations /\ connected' = TRUE /\ fault' = fault /\ timing' = timing
      /\ call' = call /\ BeginAndReturn(c, op, ConfirmedDeflated')
      /\ connected <=> op # "connect"
  BY DEF ScreenCall, ScreenInv, Operations
<1>2. /\ promise' \subseteq {"stopped", "flat"} /\ since' \in [Callers -> SUBSET Moves]
      /\ "stopped" \in promise' =>
           \/ "stopped" \in promise /\ op \notin {"inflate", "deflate"}
           \/ op = "stop"
      /\ "flat" \in promise' =>
           \/ "flat" \in promise /\ op # "inflate"
           \/ op = "status" /\ ConfirmedDeflated'
  BY <1>1, Answering DEF Commands, Moves
<1>3. /\ call' \in [Callers -> Operations \union {"none"}]
      /\ call'[Queue] \in {"none", "disconnect"} /\ call'[Direct] = "none"
      /\ "stopped" \in promise => motion = None /\ state \notin Shown
      /\ "flat" \in promise => level = 0 /\ (motion # None => motion.target = 0)
  BY <1>1 DEF ScreenInv, DeviceTypeOK
<1>4. CASE op = "connect"
  <2>1. motion = None /\ GoTo(Place(0, "idle", motion), ticks)
    BY <1>1, <1>4 DEF ScreenInv, ScreenCall
  <2>2. ScreenStands /\ level' = 0 /\ motion' = None /\ state' = "idle"
    BY <2>1 DEF GoTo, Place, ScreenStands, ScreenInv, ScreenTypeOK, States
  <2> QED
    BY <1>1, <1>2, <1>3, <1>4, <2>2, ScreenStays DEF Shown
<1>5. CASE op = "status"
  <2>1. GoesOn
    BY <1>5, ReadLeads DEF ScreenCall
  <2>2. ConfirmedDeflated' => level' = 0 /\ motion' = None
    BY <2>1 DEF GoesOn, ScreenStands, ConfirmedDeflated
  <2>3. "stopped" \in promise => motion' = None /\ state' \notin Shown
    BY <1>3, <2>1 DEF GoesOn
  <2>4. "flat" \in promise => level' = 0 /\ (motion' # None => motion'.target = 0)
    BY <1>3, <2>1 DEF GoesOn
  <2> QED
    BY <1>1, <1>2, <1>3, <1>5, <2>1, <2>2, <2>3, <2>4, ScreenStays DEF GoesOn
<1>6. CASE op = "inflate"
  <2>1. BeginMotion("inflating", Full, "holding")
    BY <1>6 DEF ScreenCall
  <2>2. ScreenStands
    BY <2>1, BeginMotionLeads
  <2> QED
    BY <1>1, <1>2, <1>3, <1>6, <2>2, ScreenStays
<1>7. CASE op = "deflate"
  <2>1. BeginMotion("deflating", 0, "idle")
    BY <1>7 DEF ScreenCall
  <2>2. /\ ScreenStands /\ (motion' # None => motion'.target = 0)
        /\ "flat" \in promise => level' = 0
    BY <2>1, BeginMotionLeads
  <2> QED
    BY <1>1, <1>2, <1>3, <1>7, <2>2, ScreenStays
<1>8. CASE op = "stop"
  <2>1. ScreenStop
    BY <1>8 DEF ScreenCall
  <2> QED
    BY <1>1, <1>2, <1>3, <1>8, <2>1, StopLeads, ScreenStays DEF Shown
<1> QED
  BY <1>4, <1>5, <1>6, <1>7, <1>8 DEF Commands, Moves

LEMMA ScreenKept == ScreenInv /\ ScreenNext => ScreenInv'
<1> SUFFICES ASSUME ScreenInv, ScreenNext PROVE ScreenInv'
  OBVIOUS
<1>0. /\ DeviceTypeOK /\ "disconnect" \in Operations /\ connected \in BOOLEAN
      /\ Queue \in Callers /\ Direct \in Callers
  BY DEF ScreenInv, Operations, Callers, DeviceTypeOK
<1>1. ASSUME NEW c \in Callers, NEW op \in Commands \union {"connect"}, ScreenCall(c, op)
      PROVE ScreenInv'
  BY <1>1, ScreenCallKeeps
<1>2. CASE ScreenDisconnectBegin
  <2>1. /\ connected /\ connected' = connected /\ fault' = fault /\ timing' = timing
        /\ Begin(Queue, "disconnect") /\ ScreenStop
    BY <1>2 DEF ScreenDisconnectBegin, ScreenStop
  <2>2. /\ promise' \subseteq {"stopped", "flat"} /\ since' \in [Callers -> SUBSET Moves]
        /\ call' \in [Callers -> Operations \union {"none"}]
        /\ "stopped" \notin promise' /\ ("flat" \in promise' => "flat" \in promise)
    BY <1>0, <2>1, Beginning
  <2>3. call'[Queue] = "disconnect" /\ call'[Direct] = "none"
    BY <1>0, <2>1 DEF Begin, ScreenInv, DeviceTypeOK
  <2> QED
    BY <1>0, <2>1, <2>2, <2>3, StopLeads, ScreenStays
<1>3. CASE ScreenDisconnectEnds
  <2>1. /\ connected' = FALSE /\ GoTo(Place(0, "disconnected", None), Cancelled)
        /\ Return(Queue, TRUE) /\ fault' = fault /\ timing' = timing /\ call[Queue] = "disconnect"
    BY <1>3 DEF ScreenDisconnectEnds
  <2>2. /\ promise' \subseteq {"stopped", "flat"} /\ since' \in [Callers -> SUBSET Moves]
        /\ call' \in [Callers -> Operations \union {"none"}]
    BY <1>0, <2>1, Returning
  <2>3. call'[Queue] = "none" /\ call'[Direct] = "none"
    BY <1>0, <2>1 DEF Return, ScreenInv, DeviceTypeOK
  <2>4. ScreenStands /\ level' = 0 /\ motion' = None /\ state' = "disconnected"
    BY <2>1, CancelledIs DEF GoTo, Place, ScreenStands, States
  <2> QED
    BY <2>1, <2>2, <2>3, <2>4, ScreenStays DEF Shown
<1>4. ASSUME NEW t \in ticks, ScreenTick(t)
      PROVE ScreenInv'
  <2>1. /\ GoesOn /\ connected' = connected /\ fault' = fault /\ timing' = timing
        /\ call' = call /\ since' = since /\ promise' = promise
    BY <1>4, TickLeads DEF ScreenTick, callVars
  <2>2. /\ promise' \subseteq {"stopped", "flat"} /\ since' \in [Callers -> SUBSET Moves]
        /\ call' \in [Callers -> Operations \union {"none"}]
    BY <1>0, <2>1 DEF DeviceTypeOK
  <2>3. /\ call'[Queue] \in {"none", "disconnect"} /\ call'[Direct] = "none"
        /\ call'[Queue] = "disconnect" => connected'
        /\ motion' # None => connected'
    BY <2>1 DEF ScreenInv, GoesOn
  <2>4. /\ "stopped" \in promise' => motion' = None /\ state' \notin Shown
        /\ "flat" \in promise' => level' = 0 /\ (motion' # None => motion'.target = 0)
    BY <2>1 DEF ScreenInv, GoesOn
  <2> QED
    BY <1>0, <2>1, <2>2, <2>3, <2>4, ScreenStays DEF GoesOn
<1> QED
  BY <1>1, <1>2, <1>3, <1>4 DEF ScreenNext

-----------------------------------------------------------------------------
(* The mock.                                                               *)

\* Only tests hold a command back, and the fast mode has no timers.
MockCalls ==
  /\ fast => timer = "none"
  /\ \A c \in Callers : call[c] # "none" => fast
  /\ \A c \in Callers : call[c] # "none" <=> delayed[c] # "no"
  /\ \A c \in Callers : call[c] \in Commands \union {"none"}
  /\ \A c, k \in Callers : c # k /\ call[c] # "none" /\ call[k] \in Moves => call[k] \in since[c]

MockInv ==
  /\ DeviceTypeOK /\ MockTypeOK /\ MockCalls
  /\ timer = "holding" => state = "inflating"
  /\ timer = "idle" => state = "deflating"
  /\ ~connected => timer = "none"
  /\ "stopped" \in promise =>
       timer = "none" /\ state \notin Shown /\ \A c \in Callers : call[c] \notin Moves
  /\ "flat" \in promise =>
       level = 0 /\ timer # "holding" /\ \A c \in Callers : call[c] # "inflate"
  /\ fault \in {"none", "device"}

LEMMA MockAtFirst == Init /\ mode = "mock" => MockInv
<1> SUFFICES ASSUME Init, mode = "mock" PROVE MockInv
  OBVIOUS
<1>1. DeviceTypeOK /\ DeviceInit /\ MockInit
  BY DeviceAtFirst DEF Init
<1>2. MockTypeOK
  BY <1>1 DEF MockInit, MockTypeOK
<1>3. MockCalls
  BY <1>1 DEF MockInit, DeviceInit, MockCalls, Moves, Commands
<1> QED
  BY <1>1, <1>2, <1>3 DEF DeviceInit, MockInit, MockInv

LEMMA RejectingIs ==
  ASSUME DeviceTypeOK, NEW gone, NEW c \in Callers, NEW op \in Operations \union {"none"},
         c \notin gone \/ op = "none"
  PROVE /\ Rejecting(gone, c, op) \in [Callers -> Operations \union {"none"}]
        /\ \A k \in Callers : Rejecting(gone, c, op)[k] =
             IF k = c THEN op ELSE IF k \in gone THEN "none" ELSE call[k]
<1>1. call \in [Callers -> Operations \union {"none"}]
  BY DEF DeviceTypeOK
<1>2. \A k \in Callers : Rejecting(gone, c, op)[k] =
         IF k = c THEN op ELSE IF k \in gone THEN "none" ELSE call[k]
  BY DEF Rejecting
<1>3. \A k \in Callers : Rejecting(gone, c, op)[k] \in Operations \union {"none"}
  BY <1>1, <1>2
<1> QED
  BY <1>2, <1>3 DEF Rejecting

\* What a step does to the calls when nobody waits but those who waited before.
LEMMA FewerWait ==
  ASSUME MockInv, fast' = fast, fast => timer' = "none", NEW gone \in SUBSET Callers,
         NEW c \in Callers, NEW op \in Operations, call[c] = "none",
         call' = Rejecting(gone, c, "none"), delayed' = Release(gone),
         since' = Disturb(c, op) \/ since' = [Disturb(c, op) EXCEPT ![c] = {}]
  PROVE /\ MockCalls'
        /\ \A k \in Callers : call'[k] # "none" => call'[k] = call[k]
        /\ call' \in [Callers -> Operations \union {"none"}]
        /\ delayed' \in [Callers -> {"no", "delay", "timeout"}]
<1>1. /\ \A k \in Callers : call'[k] = IF k = c \/ k \in gone THEN "none" ELSE call[k]
      /\ \A k \in Callers : delayed'[k] = IF k \in gone THEN "no" ELSE delayed[k]
  BY DEF Rejecting, Release
<1>2. DeviceTypeOK /\ MockCalls
  BY DEF MockInv
<1>3. call' \in [Callers -> Operations \union {"none"}] /\ delayed' \in [Callers -> {"no", "delay", "timeout"}]
  BY <1>2 DEF DeviceTypeOK, MockInv, MockTypeOK, Rejecting, Release
<1>4. Callers = {Queue, Direct}
  BY DEF Callers
<1>5. \A k, l \in Callers : k # l /\ call'[k] # "none" => call'[l] \notin Moves
  BY <1>1, <1>4 DEF Moves
<1> QED
  BY <1>1, <1>2, <1>3, <1>5 DEF MockCalls

\* What is left to show of a step.
LEMMA MockStays ==
  ASSUME MockInv, MockCalls', fast' = fast,
         connected' \in BOOLEAN, state' \in States, level' \in 0 .. Full, fault' \in {"none", "device"},
         call' \in [Callers -> Operations \union {"none"}], since' \in [Callers -> SUBSET Moves],
         promise' \subseteq {"stopped", "flat"},
         delayed' \in [Callers -> {"no", "delay", "timeout"}], timer' \in {"none", "holding", "idle"},
         timer' = "holding" => state' = "inflating",
         timer' = "idle" => state' = "deflating",
         ~connected' => timer' = "none",
         "stopped" \in promise' =>
           timer' = "none" /\ state' \notin Shown /\ \A c \in Callers : call'[c] \notin Moves,
         "flat" \in promise' =>
           level' = 0 /\ timer' # "holding" /\ \A c \in Callers : call'[c] # "inflate"
  PROVE MockInv'
<1>1. DeviceTypeOK'
  BY DEF DeviceTypeOK
<1>2. MockTypeOK'
  BY DEF MockTypeOK, MockInv
<1> QED
  BY <1>1, <1>2 DEF MockInv

\* An acknowledged command.
LEMMA AcknowledgeDoes ==
  ASSUME MockInv, NEW op \in Commands, connected, Acknowledge(op)
  PROVE /\ state' \in States /\ level' \in 0 .. Full /\ fault' \in {"none", "device"}
        /\ timer' \in {"none", "holding", "idle"}
        /\ fast => timer' = "none"
        /\ timer' = "holding" => state' = "inflating"
        /\ timer' = "idle" => state' = "deflating"
        /\ op = "stop" => timer' = "none" /\ state' = "stopped"
        /\ op # "inflate" => level' \in {0, level}
        /\ op = "status" => UNCHANGED <<state, level, fault, timer>>
        /\ op = "deflate" => timer' # "holding"
<1>1. /\ state \in States /\ level \in 0 .. Full /\ fault \in {"none", "device"}
      /\ timer \in {"none", "holding", "idle"} /\ fast \in BOOLEAN /\ (fast => timer = "none")
      /\ timer = "holding" => state = "inflating"
      /\ timer = "idle" => state = "deflating"
  BY DEF MockInv, DeviceTypeOK, MockTypeOK, MockCalls
<1>2. CASE op = "inflate"
  BY <1>1, <1>2 DEF Acknowledge, Schedule, MockShow, LevelOf, States
<1>3. CASE op = "deflate"
  BY <1>1, <1>3 DEF Acknowledge, Schedule, MockShow, LevelOf, States
<1>4. CASE op = "stop"
  BY <1>1, <1>4 DEF Acknowledge, Prepare, MockShow, States
<1>5. CASE op = "status"
  BY <1>1, <1>5 DEF Acknowledge
<1> QED
  BY <1>2, <1>3, <1>4, <1>5 DEF Commands, Moves

LEMMA AnsweredKeeps ==
  ASSUME MockInv, NEW c \in Callers, NEW op \in Commands, MockAnswered(c, op)
  PROVE MockInv'
<1>1. /\ connected /\ call[c] = "none" /\ Acknowledge(op) /\ connected' = connected /\ fast' = fast
      /\ call' = Rejecting(Gone(op), c, "none") /\ delayed' = Release(Gone(op))
      /\ BeginAndReturn(c, op, ConfirmedDeflated')
  BY DEF MockAnswered, May
<1>2. /\ DeviceTypeOK /\ MockCalls /\ connected \in BOOLEAN /\ op \in Operations /\ op # "disconnect"
      /\ Gone(op) \subseteq Callers
  BY DEF MockInv, DeviceTypeOK, Operations, Commands, Moves, Gone, Superseded
<1>3. /\ state' \in States /\ level' \in 0 .. Full /\ fault' \in {"none", "device"}
      /\ timer' \in {"none", "holding", "idle"}
      /\ fast => timer' = "none"
      /\ timer' = "holding" => state' = "inflating"
      /\ timer' = "idle" => state' = "deflating"
      /\ op = "stop" => timer' = "none" /\ state' = "stopped"
      /\ op # "inflate" => level' \in {0, level}
      /\ op = "status" => UNCHANGED <<state, level, fault, timer>>
      /\ op = "deflate" => timer' # "holding"
  BY <1>1, AcknowledgeDoes
<1>4. /\ promise' \subseteq {"stopped", "flat"} /\ since' \in [Callers -> SUBSET Moves]
      /\ "stopped" \in promise' =>
           \/ "stopped" \in promise /\ op \notin {"inflate", "deflate"}
           \/ op = "stop"
      /\ "flat" \in promise' =>
           \/ "flat" \in promise /\ op # "inflate"
           \/ op = "status" /\ "inflate" \notin Disturb(c, op)[c] /\ ConfirmedDeflated'
      /\ since' = [Disturb(c, op) EXCEPT ![c] = {}]
  BY <1>1, <1>2, Answering
<1>5. /\ MockCalls'
      /\ \A k \in Callers : call'[k] # "none" => call'[k] = call[k]
      /\ call' \in [Callers -> Operations \union {"none"}]
      /\ delayed' \in [Callers -> {"no", "delay", "timeout"}]
  BY <1>1, <1>2, <1>3, <1>4, FewerWait
<1>6. op \in {"stop", "deflate"} => \A k \in Callers : call'[k] \notin Moves \ {op}
  <2> SUFFICES ASSUME op \in {"stop", "deflate"}, NEW k \in Callers, call[k] \in Moves \ {op}
               PROVE call'[k] = "none"
    BY <1>5 DEF Moves
  <2>1. k \in Gone(op)
    BY <1>2 DEF Gone, Superseded, MockCalls, Moves
  <2> QED
    BY <1>1, <2>1 DEF Rejecting
<1>7. "stopped" \in promise' =>
        timer' = "none" /\ state' \notin Shown /\ \A k \in Callers : call'[k] \notin Moves
  <2>1. CASE op = "stop"
    BY <1>3, <1>6, <2>1 DEF Shown, Moves
  <2>2. CASE "stopped" \in promise /\ op = "status"
    BY <1>3, <1>5, <2>2 DEF MockInv, Moves
  <2> QED
    BY <1>4, <2>1, <2>2 DEF Commands, Moves
<1>8. "flat" \in promise' =>
        level' = 0 /\ timer' # "holding" /\ \A k \in Callers : call'[k] # "inflate"
  <2>1. CASE "flat" \in promise /\ op # "inflate"
    <3>1. level' = 0 /\ \A k \in Callers : call'[k] # "inflate"
      BY <1>3, <1>5, <2>1 DEF MockInv
    <3>2. timer' # "holding"
      BY <1>3, <2>1 DEF MockInv, Commands, Moves
    <3> QED
      BY <3>1, <3>2
  <2>2. CASE op = "status" /\ "inflate" \notin Disturb(c, op)[c] /\ ConfirmedDeflated'
    <3>1. level' = 0 /\ timer' # "holding"
      BY <1>3, <2>2 DEF ConfirmedDeflated
    <3>2. ASSUME NEW k \in Callers, call'[k] = "inflate" PROVE FALSE
      <4>1. call[k] = "inflate" /\ k # c
        BY <1>1, <1>5, <3>2
      <4> QED
        BY <1>2, <2>2, <4>1, Disturbing DEF Moves
    <3> QED
      BY <3>1, <3>2
  <2> QED
    BY <1>4, <2>1, <2>2
<1> QED
  BY <1>1, <1>2, <1>3, <1>4, <1>5, <1>7, <1>8, MockStays

LEMMA DelayedKeeps ==
  ASSUME MockInv, NEW c \in Callers, NEW op \in Commands, NEW kind, MockDelayed(c, op, kind)
  PROVE MockInv'
<1>1. /\ connected /\ call[c] = "none" /\ Prepare(op) /\ fast /\ fast' = fast
      /\ connected' = connected /\ state' = state /\ level' = level /\ fault' = fault
      /\ call' = Rejecting(Gone(op), c, op) /\ since' = Disturb(c, op)
      /\ delayed' = [Release(Gone(op)) EXCEPT ![c] = kind] /\ kind \in {"delay", "timeout"}
      /\ promise' = promise \ Withdrawn(op)
  BY DEF MockDelayed, May, statusVars
<1>2. /\ DeviceTypeOK /\ MockCalls /\ op \in Operations
      /\ Gone(op) \subseteq Callers /\ Callers = {Queue, Direct} /\ op # "none"
  BY DEF MockInv, Operations, Commands, Moves, Gone, Superseded, Callers
<1>3. timer = "none" /\ timer' = "none"
  BY <1>1, <1>2 DEF MockCalls, Prepare
<1>4. /\ \A k \in Callers : call'[k] = IF k = c THEN op ELSE IF k \in Gone(op) THEN "none" ELSE call[k]
      /\ \A k \in Callers : delayed'[k] = IF k = c THEN kind ELSE IF k \in Gone(op) THEN "no" ELSE delayed[k]
      /\ call' \in [Callers -> Operations \union {"none"}]
      /\ delayed' \in [Callers -> {"no", "delay", "timeout"}]
  <2>1. /\ delayed \in [Callers -> {"no", "delay", "timeout"}]
        /\ call \in [Callers -> Operations \union {"none"}]
    BY DEF DeviceTypeOK, MockInv, MockTypeOK
  <2>2. /\ Release(Gone(op)) \in [Callers -> {"no", "delay", "timeout"}]
        /\ \A k \in Callers : Release(Gone(op))[k] = IF k \in Gone(op) THEN "no" ELSE delayed[k]
    BY <2>1 DEF Release
  <2>3. /\ call' \in [Callers -> Operations \union {"none"}]
        /\ \A k \in Callers : call'[k] = IF k = c THEN op ELSE IF k \in Gone(op) THEN "none" ELSE call[k]
    <3>1. c \notin Gone(op)
      BY <1>1, <1>2 DEF Gone, Superseded, MockCalls
    <3> QED
      BY <1>1, <1>2, <3>1, RejectingIs
  <2>4. delayed' = [Release(Gone(op)) EXCEPT ![c] = kind] /\ kind \in {"no", "delay", "timeout"}
    BY <1>1
  <2>5. /\ delayed' \in [Callers -> {"no", "delay", "timeout"}]
        /\ \A k \in Callers : delayed'[k] = IF k = c THEN kind ELSE Release(Gone(op))[k]
    BY <2>2, <2>4
  <2> QED
    BY <2>2, <2>3, <2>5
<1>5. since' \in [Callers -> SUBSET Moves]
  BY <1>1, <1>2, DisturbTypes
<1>6. MockCalls'
  <2>1. ASSUME NEW k \in Callers, k # c, call'[k] # "none", op \in Moves PROVE op \in since'[k]
    <3>1. call[k] # "none"
      BY <1>4, <2>1
    <3> QED
      BY <1>1, <1>2, <2>1, <3>1, Disturbing
  <2>2. ASSUME NEW k \in Callers, k # c, call'[k] \in Moves PROVE call'[k] \in since'[c]
    <3>1. call[k] = call'[k] /\ k \notin Gone(op) /\ delayed[k] # "no"
      BY <1>2, <1>4, <2>2 DEF Moves, MockCalls
    <3>2. op # "stop"
      BY <3>1, <2>2 DEF Gone, Superseded, Moves
    <3> QED
      BY <1>1, <1>2, <2>2, <3>1, <3>2, Disturbing DEF Moves
  <2>3. \A k \in Callers : (call'[k] # "none" <=> delayed'[k] # "no") /\ call'[k] \in Commands \union {"none"}
    BY <1>1, <1>2, <1>4 DEF MockCalls
  <2>4. \A k, l \in Callers : k # l /\ call'[k] # "none" /\ call'[l] \in Moves => call'[l] \in since'[k]
    BY <1>2, <1>4, <2>1, <2>2
  <2> QED
    BY <1>1, <1>3, <2>3, <2>4 DEF MockCalls
<1>7. promise' \subseteq {"stopped", "flat"}
  BY <1>1, <1>2 DEF DeviceTypeOK
<1>8. "stopped" \in promise' => state' \notin Shown /\ \A k \in Callers : call'[k] \notin Moves
  BY <1>1, <1>4, Withdrawing DEF MockInv, Moves
<1>9. "flat" \in promise' => level' = 0 /\ \A k \in Callers : call'[k] # "inflate"
  BY <1>1, <1>4, Withdrawing DEF MockInv
<1>10. connected' \in BOOLEAN /\ state' \in States /\ level' \in 0 .. Full /\ fault' \in {"none", "device"}
  BY <1>1 DEF MockInv, DeviceTypeOK
<1> QED
  BY <1>1, <1>3, <1>4, <1>5, <1>6, <1>7, <1>8, <1>9, <1>10, MockStays

LEMMA BreaksKeeps ==
  ASSUME MockInv, NEW c \in Callers, NEW op \in Commands, NEW kind, MockBreaks(c, op, kind)
  PROVE MockInv'
<1>1. /\ connected /\ call[c] = "none" /\ Prepare(op) /\ fast /\ fast' = fast
      /\ level' = level /\ fault' \in {"device", fault}
      /\ \/ state' = "fault" /\ connected' = connected
         \/ state' = "disconnected" /\ connected' = FALSE
      /\ call' = Rejecting(Gone(op), c, "none") /\ since' = Disturb(c, op)
      /\ delayed' = Release(Gone(op)) /\ promise' = promise \ Withdrawn(op)
  BY DEF MockBreaks, May, MockShow
<1>2. /\ DeviceTypeOK /\ MockCalls /\ op \in Operations
      /\ Gone(op) \subseteq Callers
  BY DEF MockInv, Operations, Gone, Superseded
<1>3. timer = "none" /\ timer' = "none"
  BY <1>1, <1>2 DEF MockCalls, Prepare
<1>5. /\ MockCalls'
      /\ \A k \in Callers : call'[k] # "none" => call'[k] = call[k]
      /\ call' \in [Callers -> Operations \union {"none"}]
      /\ delayed' \in [Callers -> {"no", "delay", "timeout"}]
  BY <1>1, <1>2, <1>3, FewerWait
<1>6. since' \in [Callers -> SUBSET Moves] /\ promise' \subseteq {"stopped", "flat"}
  BY <1>1, <1>2, DisturbTypes DEF DeviceTypeOK
<1>8. "stopped" \in promise' => state' \notin Shown /\ \A k \in Callers : call'[k] \notin Moves
  BY <1>1, <1>5 DEF MockInv, Moves, Shown
<1>9. "flat" \in promise' => level' = 0 /\ \A k \in Callers : call'[k] # "inflate"
  BY <1>1, <1>5 DEF MockInv
<1>10. connected' \in BOOLEAN /\ state' \in States /\ level' \in 0 .. Full /\ fault' \in {"none", "device"}
  BY <1>1 DEF MockInv, DeviceTypeOK, States
<1> QED
  BY <1>1, <1>3, <1>5, <1>6, <1>8, <1>9, <1>10, MockStays

LEMMA ContinuesKeeps ==
  ASSUME MockInv, NEW c \in Callers, MockContinues(c)
  PROVE MockInv'
<1> DEFINE ok == delayed[c] = "delay" /\ connected
<1>1. /\ delayed[c] # "no" /\ delayed' = [delayed EXCEPT ![c] = "no"]
      /\ connected' = connected /\ fast' = fast /\ Return(c, ok)
  BY DEF MockContinues
<1>2. /\ DeviceTypeOK /\ MockCalls /\ MockTypeOK /\ connected \in BOOLEAN
      /\ call[c] # "none" /\ call[c] \in Commands /\ fast /\ timer = "none"
  BY <1>1 DEF MockInv, MockCalls, DeviceTypeOK
<1>3. \/ ok /\ Acknowledge(call[c])
      \/ ok /\ call[c] = "stop" /\ MockShow("stopped", level, fault) /\ timer' = timer
      \/ ~ok /\ UNCHANGED <<state, level, fault, timer>>
  BY DEF MockContinues
<1>4. /\ state' \in States /\ level' \in 0 .. Full /\ fault' \in {"none", "device"}
      /\ timer' = "none"
      /\ ok /\ call[c] = "stop" => state' = "stopped"
      /\ call[c] # "inflate" => level' \in {0, level}
      /\ call[c] = "status" \/ ~ok => UNCHANGED <<state, level, fault, timer>>
  <2>1. CASE ok /\ Acknowledge(call[c])
    BY <1>2, <2>1, AcknowledgeDoes
  <2>2. CASE ok /\ call[c] = "stop" /\ MockShow("stopped", level, fault) /\ timer' = timer
    BY <1>2, <2>2 DEF MockShow, MockInv, DeviceTypeOK, States
  <2>3. CASE ~ok /\ UNCHANGED <<state, level, fault, timer>>
    BY <1>2, <2>3 DEF MockInv, DeviceTypeOK
  <2> QED
    BY <1>3, <2>1, <2>2, <2>3
<1>5. /\ promise' \subseteq {"stopped", "flat"} /\ since' \in [Callers -> SUBSET Moves]
      /\ call' \in [Callers -> Operations \union {"none"}]
      /\ "stopped" \in promise' => "stopped" \in promise \/ (ok /\ call[c] = "stop" /\ since[c] = {})
      /\ "flat" \in promise' =>
           \/ "flat" \in promise
           \/ /\ ok /\ call[c] = "status" /\ "inflate" \notin since[c]
              /\ ConfirmedDeflated
  <2> HIDE DEF ok
  <2> QED
    BY <1>1, <1>2, Returning DEF Commands, Moves
<1>6. /\ call' = [call EXCEPT ![c] = "none"] /\ since' = [since EXCEPT ![c] = {}]
  BY <1>1 DEF Return
<1>7. /\ \A k \in Callers : call'[k] = IF k = c THEN "none" ELSE call[k]
      /\ \A k \in Callers \ {c} : since'[k] = since[k] /\ delayed'[k] = delayed[k]
      /\ delayed'[c] = "no" /\ delayed' \in [Callers -> {"no", "delay", "timeout"}]
  BY <1>1, <1>2, <1>6 DEF DeviceTypeOK, MockTypeOK
<1>8. MockCalls'
  BY <1>1, <1>2, <1>4, <1>7 DEF MockCalls, Moves
<1>9. "stopped" \in promise' =>
        state' \notin Shown /\ \A k \in Callers : call'[k] \notin Moves
  <2>1. CASE ok /\ call[c] = "stop" /\ since[c] = {}
    BY <1>2, <1>4, <1>7, <2>1 DEF Shown, MockCalls, Moves
  <2>2. CASE "stopped" \in promise
    <3>1. state \notin Shown /\ \A k \in Callers : call[k] \notin Moves
      BY <2>2 DEF MockInv
    <3>2. state' \in {state, "stopped"}
      BY <1>2, <1>4, <3>1 DEF Commands
    <3> QED
      BY <1>7, <3>1, <3>2 DEF Shown, Moves
  <2> QED
    BY <1>5, <2>1, <2>2
<1>10. "flat" \in promise' => level' = 0 /\ \A k \in Callers : call'[k] # "inflate"
  <2>1. CASE "flat" \in promise
    BY <1>4, <1>7, <2>1 DEF MockInv
  <2>2. CASE ok /\ call[c] = "status" /\ "inflate" \notin since[c] /\ ConfirmedDeflated
    BY <1>2, <1>4, <1>7, <2>2 DEF ConfirmedDeflated, MockCalls, Moves
  <2> QED
    BY <1>5, <2>1, <2>2
<1> HIDE DEF ok
<1> QED
  BY <1>1, <1>2, <1>4, <1>5, <1>7, <1>8, <1>9, <1>10, MockStays

LEMMA MockDisconnectKeeps ==
  ASSUME MockInv, NEW ok, MockDisconnect(ok)
  PROVE MockInv'
<1>1. /\ call[Queue] = "none" /\ fast' = fast
      /\ connected' = FALSE /\ timer' = "none" /\ state' = "disconnected" /\ fault' = fault
      /\ level' \in {0, level} /\ ("flat" \in promise' => "flat" \in promise \/ level' = 0)
      /\ call' = Rejecting({k \in Callers : delayed[k] # "no"}, Queue, "none")
      /\ since' = Disturb(Queue, "disconnect")
      /\ promise' \subseteq promise \union {"flat"}
      /\ delayed' = [k \in Callers |-> "no"]
  BY DEF MockDisconnect, MockShow, May
<1>2. DeviceTypeOK /\ MockCalls /\ Queue \in Callers
  BY DEF MockInv, Callers
<1>3. \A k \in Callers : call'[k] = "none" /\ delayed'[k] = "no"
  <2>1. \A k \in Callers : call'[k] =
          IF k = Queue THEN "none"
          ELSE IF k \in {m \in Callers : delayed[m] # "no"} THEN "none" ELSE call[k]
    BY <1>1, <1>2, RejectingIs
  <2> QED
    BY <1>1, <1>2, <2>1 DEF MockCalls
<1>4. call' \in [Callers -> Operations \union {"none"}] /\ delayed' \in [Callers -> {"no", "delay", "timeout"}]
  BY <1>1, <1>2, RejectingIs
<1>5. MockCalls'
  BY <1>1, <1>3 DEF MockCalls, Moves
<1>6. /\ since' \in [Callers -> SUBSET Moves] /\ promise' \subseteq {"stopped", "flat"}
      /\ connected' \in BOOLEAN /\ state' \in States /\ level' \in 0 .. Full /\ fault' \in {"none", "device"}
  <2>1. since' \in [Callers -> SUBSET Moves]
    BY <1>1, <1>2, DisturbTypes
  <2>2. promise \subseteq {"stopped", "flat"} /\ level \in 0 .. Full /\ fault \in {"none", "device"}
    BY DEF MockInv, DeviceTypeOK
  <2>3. level' \in 0 .. Full
    BY <1>1, <2>2
  <2> QED
    BY <1>1, <2>1, <2>2, <2>3 DEF States
<1>7. "flat" \in promise' => level' = 0
  BY <1>1 DEF MockInv
<1> QED
  BY <1>1, <1>3, <1>4, <1>5, <1>6, <1>7, MockStays DEF Shown, Moves

LEMMA MockKept == MockInv /\ MockNext => MockInv'
<1> SUFFICES ASSUME MockInv, MockNext PROVE MockInv'
  OBVIOUS
<1>0. /\ DeviceTypeOK /\ MockTypeOK /\ MockCalls
      /\ call \in [Callers -> Operations \union {"none"}] /\ since \in [Callers -> SUBSET Moves]
      /\ delayed \in [Callers -> {"no", "delay", "timeout"}]
      /\ connected \in BOOLEAN /\ state \in States /\ level \in 0 .. Full
      /\ promise \subseteq {"stopped", "flat"} /\ fault \in {"none", "device"}
  BY DEF MockInv, DeviceTypeOK, MockTypeOK
<1>1. CASE MockConnect
  <2>1. /\ ~connected /\ connected' = TRUE /\ state' = "idle" /\ level' = 0 /\ fault' = "none"
        /\ call' = call /\ since' = since /\ promise' = promise
        /\ fast' = fast /\ delayed' = delayed /\ timer' = timer
    BY <1>1 DEF MockConnect, MockShow, callVars, mockVars
  <2>2. timer = "none"
    BY <2>1 DEF MockInv
  <2>3. MockCalls'
    BY <1>0, <2>1 DEF MockCalls
  <2>4. state' \in States /\ level' \in 0 .. Full /\ connected' \in BOOLEAN /\ fault' \in {"none", "device"}
    BY <2>1 DEF States
  <2>5. /\ "stopped" \in promise' => \A c \in Callers : call'[c] \notin Moves
        /\ "flat" \in promise' => \A c \in Callers : call'[c] # "inflate"
    BY <2>1 DEF MockInv
  <2> QED
    BY <1>0, <2>1, <2>2, <2>3, <2>4, <2>5, MockStays DEF Shown
<1>2. CASE MockMotionEnds
  <2>1. /\ timer # "none" /\ state' = timer /\ level' = LevelOf(timer) /\ fault' = fault /\ timer' = "none"
        /\ call' = call /\ since' = since /\ promise' = promise /\ connected' = connected
        /\ fast' = fast /\ delayed' = delayed
    BY <1>2 DEF MockMotionEnds, MockShow, callVars
  <2>2. timer \in {"holding", "idle"}
    BY <2>1, <1>0 DEF MockTypeOK
  <2>3. MockCalls'
    BY <1>0, <2>1 DEF MockCalls
  <2>4. state' \in States /\ level' \in 0 .. Full /\ (timer # "holding" => level' = 0)
    BY <2>1, <2>2 DEF States, LevelOf
  <2>5. /\ "stopped" \notin promise'
        /\ "flat" \in promise' => timer # "holding" /\ \A c \in Callers : call'[c] # "inflate"
    BY <2>1 DEF MockInv
  <2> QED
    BY <1>0, <2>1, <2>3, <2>4, <2>5, MockStays
<1> QED
  BY <1>1, <1>2, AnsweredKeeps, DelayedKeeps, BreaksKeeps, ContinuesKeeps, MockDisconnectKeeps
  DEF MockNext

-----------------------------------------------------------------------------
(* What happens to the commands and the answers on the line.               *)

Sent == [cmd : Commands, for : Recipients]
Heard == [for : Recipients, ok : BOOLEAN, state : States, level : {0, Full}, measured : BOOLEAN]

\* The STOP that the driver writes by itself.
EmergencyStop == [cmd |-> "stop", for |-> "ignored"]

LEMMA Recipients3 ==
  /\ Queue \in Recipients /\ Direct \in Recipients /\ Callers \subseteq Recipients
  /\ "ignored" \in Recipients /\ "unknown" \in Recipients /\ "event" \in Recipients
  /\ "ignored" \notin Callers /\ "unknown" \notin Callers /\ "event" \notin Callers
  /\ Callers = {Queue, Direct} /\ Queue # Direct
  /\ EmergencyStop \in Sent
  /\ EmergencyStop.cmd = "stop" /\ EmergencyStop.for = "ignored"
  BY RecipientAssumption DEF Recipients, Callers, Sent, EmergencyStop, Commands, Moves

LEMMA AppendIs ==
  ASSUME NEW S, NEW s \in Seq(S), NEW e \in S
  PROVE /\ Append(s, e) \in Seq(S) /\ Len(Append(s, e)) = Len(s) + 1 /\ Len(s) \in Nat
        /\ DOMAIN Append(s, e) = 1 .. Len(s) + 1 /\ DOMAIN s = 1 .. Len(s)
        /\ \A i \in 1 .. Len(s) : Append(s, e)[i] = s[i]
        /\ Append(s, e)[Len(s) + 1] = e
  OBVIOUS

LEMMA TailIs ==
  ASSUME NEW S, NEW s \in Seq(S), s # <<>>
  PROVE /\ Tail(s) \in Seq(S) /\ Len(Tail(s)) = Len(s) - 1 /\ Len(s) \in Nat \ {0}
        /\ DOMAIN Tail(s) = 1 .. Len(s) - 1 /\ DOMAIN s = 1 .. Len(s)
        /\ \A i \in 1 .. Len(s) - 1 : Tail(s)[i] = s[i + 1]
        /\ Head(s) = s[1] /\ Head(s) \in S
  OBVIOUS

LEMMA PartIs ==
  ASSUME NEW S, NEW s \in Seq(S), NEW m \in 1 .. Len(s) + 1, NEW n \in m - 1 .. Len(s)
  PROVE /\ SubSeq(s, m, n) \in Seq(S) /\ Len(SubSeq(s, m, n)) = n - m + 1
        /\ DOMAIN SubSeq(s, m, n) = 1 .. n - m + 1
        /\ \A i \in 1 .. n - m + 1 : SubSeq(s, m, n)[i] = s[m + i - 1]
<1>1. Len(s) \in Nat /\ DOMAIN s = 1 .. Len(s) /\ \A i \in 1 .. Len(s) : s[i] \in S
  OBVIOUS
<1>2. m \in Int /\ n \in Int /\ \A i \in m .. n : s[i] \in S
  BY <1>1
<1>3. /\ SubSeq(s, m, n) \in Seq(S)
      /\ Len(SubSeq(s, m, n)) = IF m <= n THEN n - m + 1 ELSE 0
      /\ \A i \in 1 .. n - m + 1 : SubSeq(s, m, n)[i] = s[m + i - 1]
  BY <1>2, SubSeqProperties
<1>4. Len(SubSeq(s, m, n)) = n - m + 1
  BY <1>1, <1>3
<1> QED
  BY <1>3, <1>4

LEMMA FrontIs ==
  ASSUME NEW S, NEW s \in Seq(S), s # <<>>
  PROVE /\ SubSeq(s, 1, Len(s) - 1) \in Seq(S) /\ Len(SubSeq(s, 1, Len(s) - 1)) = Len(s) - 1
        /\ Len(s) \in Nat \ {0}
        /\ DOMAIN SubSeq(s, 1, Len(s) - 1) = 1 .. Len(s) - 1 /\ DOMAIN s = 1 .. Len(s)
        /\ \A i \in 1 .. Len(s) - 1 : SubSeq(s, 1, Len(s) - 1)[i] = s[i]
<1>1. Len(s) \in Nat \ {0} /\ DOMAIN s = 1 .. Len(s)
  OBVIOUS
<1>2. 1 \in 1 .. Len(s) + 1 /\ Len(s) - 1 \in 1 - 1 .. Len(s)
  BY <1>1
<1> QED
  BY <1>1, <1>2, PartIs

LEMMA WithoutIs ==
  ASSUME NEW S, NEW s \in Seq(S), NEW i \in DOMAIN s
  PROVE /\ Without(s, i) \in Seq(S) /\ Len(Without(s, i)) = Len(s) - 1 /\ Len(s) \in Nat \ {0}
        /\ DOMAIN Without(s, i) = 1 .. Len(s) - 1 /\ DOMAIN s = 1 .. Len(s)
        /\ \A j \in 1 .. Len(s) - 1 : Without(s, i)[j] = IF j < i THEN s[j] ELSE s[j + 1]
<1> DEFINE p == SubSeq(s, 1, i - 1)
           q == SubSeq(s, i + 1, Len(s))
<1>0. Len(s) \in Nat \ {0} /\ i \in 1 .. Len(s) /\ DOMAIN s = 1 .. Len(s)
  OBVIOUS
<1>1. p \in Seq(S) /\ Len(p) = i - 1 /\ \A j \in 1 .. i - 1 : p[j] = s[j]
  <2>1. 1 \in 1 .. Len(s) + 1 /\ i - 1 \in 1 - 1 .. Len(s)
    BY <1>0
  <2> QED
    BY <1>0, <2>1, PartIs
<1>2. q \in Seq(S) /\ Len(q) = Len(s) - i /\ \A j \in 1 .. Len(s) - i : q[j] = s[i + j]
  <2>1. i + 1 \in 1 .. Len(s) + 1 /\ Len(s) \in (i + 1) - 1 .. Len(s)
    BY <1>0
  <2> QED
    BY <1>0, <2>1, PartIs
<1> HIDE DEF p, q
<1>3. /\ p \o q \in Seq(S) /\ Len(p \o q) = Len(s) - 1
      /\ \A j \in 1 .. Len(s) - 1 : (p \o q)[j] = IF j <= i - 1 THEN p[j] ELSE q[j - (i - 1)]
  <2>1. /\ p \o q \in Seq(S) /\ Len(p \o q) = Len(p) + Len(q)
        /\ \A j \in 1 .. Len(p) + Len(q) : (p \o q)[j] = IF j <= Len(p) THEN p[j] ELSE q[j - Len(p)]
    BY <1>1, <1>2, ConcatProperties
  <2>2. Len(p) + Len(q) = Len(s) - 1
    BY <1>0, <1>1, <1>2
  <2> QED
    BY <1>1, <2>1, <2>2
<1>4. \A j \in 1 .. Len(s) - 1 : (p \o q)[j] = IF j < i THEN s[j] ELSE s[j + 1]
  <2> SUFFICES ASSUME NEW j \in 1 .. Len(s) - 1 PROVE (p \o q)[j] = IF j < i THEN s[j] ELSE s[j + 1]
    OBVIOUS
  <2>1. CASE j < i
    BY <1>0, <1>1, <1>3, <2>1
  <2>2. CASE ~(j < i)
    <3>1. j - (i - 1) \in 1 .. Len(s) - i /\ i + (j - (i - 1)) = j + 1
      BY <1>0, <2>2
    <3>2. q[j - (i - 1)] = s[j + 1]
      BY <1>2, <3>1
    <3> QED
      BY <1>0, <1>3, <2>2, <3>2
  <2> QED
    BY <2>1, <2>2
<1>5. DOMAIN (p \o q) = 1 .. Len(s) - 1
  <2> DEFINE r == p \o q
  <2>1. r \in Seq(S) /\ Len(r) = Len(s) - 1
    BY <1>3
  <2> HIDE DEF r
  <2>2. DOMAIN r = 1 .. Len(s) - 1
    BY <2>1
  <2> QED
    BY <2>2 DEF r
<1>6. Without(s, i) = p \o q
  BY DEF Without, p, q
<1> QED
  BY <1>0, <1>3, <1>4, <1>5, <1>6

LEMMA IgnoredSent ==
  ASSUME NEW w \in Seq(Sent), NEW cs
  PROVE /\ Ignored(w, cs) \in Seq(Sent) /\ Len(Ignored(w, cs)) = Len(w) /\ Len(w) \in Nat
        /\ DOMAIN Ignored(w, cs) = 1 .. Len(w) /\ DOMAIN w = 1 .. Len(w)
        /\ \A i \in 1 .. Len(w) :
             /\ Ignored(w, cs)[i].cmd = w[i].cmd
             /\ Ignored(w, cs)[i].for = IF w[i].for \in cs THEN "ignored" ELSE w[i].for
             /\ w[i].for \notin cs => Ignored(w, cs)[i] = w[i]
             /\ w[i] = EmergencyStop => Ignored(w, cs)[i] = w[i]
<1>0. Len(w) \in Nat /\ DOMAIN w = 1 .. Len(w) /\ \A i \in 1 .. Len(w) : w[i] \in Sent
  OBVIOUS
<1>1. ASSUME NEW e \in Sent
      PROVE /\ [e EXCEPT !.for = "ignored"] \in Sent
            /\ [e EXCEPT !.for = "ignored"].cmd = e.cmd /\ [e EXCEPT !.for = "ignored"].for = "ignored"
            /\ e = EmergencyStop => [e EXCEPT !.for = "ignored"] = e
  BY Recipients3 DEF Sent, EmergencyStop
<1>2. \A i \in 1 .. Len(w) :
        Ignored(w, cs)[i] = IF w[i].for \in cs THEN [w[i] EXCEPT !.for = "ignored"] ELSE w[i]
  BY <1>0 DEF Ignored
<1>3. \A i \in 1 .. Len(w) : Ignored(w, cs)[i] \in Sent
  BY <1>0, <1>1, <1>2
<1>4. Ignored(w, cs) \in [1 .. Len(w) -> Sent]
  BY <1>0, <1>3 DEF Ignored
<1>5. Ignored(w, cs) \in Seq(Sent) /\ Len(Ignored(w, cs)) = Len(w)
  BY <1>0, <1>4, SeqDef
<1> QED
  BY <1>0, <1>1, <1>2, <1>4, <1>5

LEMMA IgnoredHeard ==
  ASSUME NEW l \in Seq(Heard), NEW cs
  PROVE /\ Ignored(l, cs) \in Seq(Heard) /\ Len(Ignored(l, cs)) = Len(l) /\ Len(l) \in Nat
        /\ DOMAIN Ignored(l, cs) = 1 .. Len(l) /\ DOMAIN l = 1 .. Len(l)
        /\ \A i \in 1 .. Len(l) :
             /\ Ignored(l, cs)[i].ok = l[i].ok /\ Ignored(l, cs)[i].state = l[i].state
             /\ Ignored(l, cs)[i].level = l[i].level /\ Ignored(l, cs)[i].measured = l[i].measured
             /\ Ignored(l, cs)[i].for = IF l[i].for \in cs THEN "ignored" ELSE l[i].for
             /\ l[i].for \notin cs => Ignored(l, cs)[i] = l[i]
<1>0. Len(l) \in Nat /\ DOMAIN l = 1 .. Len(l) /\ \A i \in 1 .. Len(l) : l[i] \in Heard
  OBVIOUS
<1>1. ASSUME NEW e \in Heard
      PROVE /\ [e EXCEPT !.for = "ignored"] \in Heard
            /\ [e EXCEPT !.for = "ignored"].ok = e.ok
            /\ [e EXCEPT !.for = "ignored"].state = e.state
            /\ [e EXCEPT !.for = "ignored"].level = e.level
            /\ [e EXCEPT !.for = "ignored"].measured = e.measured
            /\ [e EXCEPT !.for = "ignored"].for = "ignored"
  BY Recipients3 DEF Heard
<1>2. \A i \in 1 .. Len(l) :
        Ignored(l, cs)[i] = IF l[i].for \in cs THEN [l[i] EXCEPT !.for = "ignored"] ELSE l[i]
  BY <1>0 DEF Ignored
<1>3. \A i \in 1 .. Len(l) : Ignored(l, cs)[i] \in Heard
  BY <1>0, <1>1, <1>2
<1>4. Ignored(l, cs) \in [1 .. Len(l) -> Heard]
  BY <1>0, <1>3 DEF Ignored
<1>5. Ignored(l, cs) \in Seq(Heard) /\ Len(Ignored(l, cs)) = Len(l)
  BY <1>0, <1>4, SeqDef
<1> QED
  BY <1>0, <1>1, <1>2, <1>4, <1>5

-----------------------------------------------------------------------------
(* Whom the commands and the answers on the line are for.                  *)

Pending == [Callers -> Commands \union {"none"}]

\* A caller has at most one command or answer on the line, while it waits for it.
Addressed(w, l, waits) ==
  /\ \A i \in DOMAIN w : w[i].for \in Callers \union {"ignored"}
  /\ \A i \in DOMAIN w : w[i].for \in Callers => waits[w[i].for] = w[i].cmd
  /\ \A i \in DOMAIN l : l[i].for \in Callers => waits[l[i].for] # "none"
  /\ \A i, j \in DOMAIN w : w[i].for = w[j].for /\ w[i].for \in Callers => i = j
  /\ \A i, j \in DOMAIN l : l[i].for = l[j].for /\ l[i].for \in Callers => i = j
  /\ \A i \in DOMAIN w, j \in DOMAIN l : w[i].for = l[j].for => w[i].for \notin Callers

\* What the puffer says, unless it was garbled.
Honest(l, waits, any) ==
  \A i \in DOMAIN l :
    /\ l[i].for = "event" => l[i].state \notin Shown
    /\ l[i].for = "unknown" => any
    /\ l[i].ok => l[i].state # "fault"
    /\ l[i].ok /\ l[i].for \in Callers => (waits[l[i].for] = "status" => l[i].measured)

Less(waits, cs) == [c \in Callers |-> IF c \in cs THEN "none" ELSE waits[c]]

LEMMA LessIs ==
  ASSUME NEW waits \in Pending, NEW cs
  PROVE /\ Less(waits, cs) \in Pending
        /\ \A c \in Callers : Less(waits, cs)[c] = IF c \in cs THEN "none" ELSE waits[c]
<1>1. \A c \in Callers : Less(waits, cs)[c] = IF c \in cs THEN "none" ELSE waits[c]
  BY DEF Less
<1>2. \A c \in Callers : Less(waits, cs)[c] \in Commands \union {"none"}
  BY <1>1 DEF Pending
<1> QED
  BY <1>1, <1>2 DEF Less, Pending

\* No command is "none".
LEMMA Commands4 == Commands = {"inflate", "deflate", "status", "stop"} /\ "none" \notin Commands
  BY DEF Commands, Moves

LEMMA Elements ==
  ASSUME NEW w \in Seq(Sent), NEW l \in Seq(Heard)
  PROVE /\ Len(w) \in Nat /\ DOMAIN w = 1 .. Len(w) /\ Len(l) \in Nat /\ DOMAIN l = 1 .. Len(l)
        /\ \A i \in 1 .. Len(w) : w[i].cmd \in Commands /\ w[i].for \in Recipients
        /\ \A i \in 1 .. Len(l) : /\ l[i].for \in Recipients /\ l[i].state \in States
                                  /\ l[i].level \in {0, Full}
                                  /\ l[i].ok \in BOOLEAN /\ l[i].measured \in BOOLEAN
<1>1. Len(w) \in Nat /\ DOMAIN w = 1 .. Len(w) /\ \A i \in 1 .. Len(w) : w[i] \in Sent
  OBVIOUS
<1>2. Len(l) \in Nat /\ DOMAIN l = 1 .. Len(l) /\ \A i \in 1 .. Len(l) : l[i] \in Heard
  OBVIOUS
<1>3. \A e \in Sent : e.cmd \in Commands /\ e.for \in Recipients
  BY DEF Sent
<1>4. \A e \in Heard : /\ e.for \in Recipients /\ e.state \in States /\ e.level \in {0, Full}
                       /\ e.ok \in BOOLEAN /\ e.measured \in BOOLEAN
  BY DEF Heard
<1> QED
  BY <1>1, <1>2, <1>3, <1>4

LEMMA AddressedDrop ==
  ASSUME NEW w \in Seq(Sent), NEW l \in Seq(Heard), NEW waits \in Pending, NEW cs \in SUBSET Callers,
         Addressed(w, l, waits)
  PROVE Addressed(Ignored(w, cs), Ignored(l, cs), Less(waits, cs))
<1> DEFINE x == Ignored(w, cs)
           y == Ignored(l, cs)
           z == Less(waits, cs)
<1>1. /\ DOMAIN x = 1 .. Len(w) /\ DOMAIN w = 1 .. Len(w)
      /\ \A i \in 1 .. Len(w) : /\ x[i].cmd = w[i].cmd
                                /\ x[i].for = IF w[i].for \in cs THEN "ignored" ELSE w[i].for
  BY IgnoredSent
<1>2. /\ DOMAIN y = 1 .. Len(l) /\ DOMAIN l = 1 .. Len(l)
      /\ \A i \in 1 .. Len(l) : y[i].for = IF l[i].for \in cs THEN "ignored" ELSE l[i].for
  BY IgnoredHeard
<1>3. \A c \in Callers : z[c] = IF c \in cs THEN "none" ELSE waits[c]
  BY LessIs
<1> HIDE DEF x, y, z
<1> SUFFICES Addressed(x, y, z)
  BY DEF x, y, z
<1> QED
  BY <1>1, <1>2, <1>3, Recipients3 DEF Addressed

LEMMA AddressedMore ==
  ASSUME NEW w \in Seq(Sent), NEW l \in Seq(Heard), NEW waits \in Pending, Addressed(w, l, waits),
         NEW e \in Sent, e.for = "ignored"
  PROVE Addressed(Append(w, e), l, waits)
<1> DEFINE x == Append(w, e)
<1>1. /\ DOMAIN x = 1 .. Len(w) + 1 /\ DOMAIN w = 1 .. Len(w) /\ Len(w) \in Nat
      /\ \A i \in 1 .. Len(w) : x[i] = w[i]
      /\ x[Len(w) + 1] = e
  BY AppendIs
<1> HIDE DEF x
<1> SUFFICES Addressed(x, l, waits)
  BY DEF x
<1>2. \A i \in DOMAIN x : (i \in DOMAIN w /\ x[i] = w[i]) \/ (i = Len(w) + 1 /\ x[i] = e)
  BY <1>1
<1> QED
  BY <1>1, <1>2, Recipients3 DEF Addressed

LEMMA AddressedSend ==
  ASSUME NEW w \in Seq(Sent), NEW l \in Seq(Heard), NEW waits \in Pending, Addressed(w, l, waits),
         NEW c \in Callers, NEW op \in Commands, waits[c] = "none"
  PROVE Addressed(Append(w, [cmd |-> op, for |-> c]), l, [waits EXCEPT ![c] = op])
<1> DEFINE e == [cmd |-> op, for |-> c]
           x == Append(w, e)
           z == [waits EXCEPT ![c] = op]
<1>0. e \in Sent /\ e.cmd = op /\ e.for = c
  BY Recipients3 DEF Sent
<1> HIDE DEF e
<1>1. /\ DOMAIN x = 1 .. Len(w) + 1 /\ DOMAIN w = 1 .. Len(w) /\ Len(w) \in Nat
      /\ \A i \in 1 .. Len(w) : x[i] = w[i]
      /\ x[Len(w) + 1] = e
  BY <1>0, AppendIs
<1>2. \A k \in Callers : z[k] = IF k = c THEN op ELSE waits[k]
  BY DEF Pending
<1> HIDE DEF x, z
<1> SUFFICES Addressed(x, l, z)
  BY DEF x, z, e
<1>3. \A i \in DOMAIN x : (i \in DOMAIN w /\ x[i] = w[i]) \/ (i = Len(w) + 1 /\ x[i] = e)
  BY <1>1
<1>4. (\A i \in DOMAIN w : w[i].for # c) /\ (\A i \in DOMAIN l : l[i].for # c)
  <2>1. \A i \in 1 .. Len(w) : w[i].cmd # "none"
    BY Elements, Commands4
  <2> QED
    BY <1>1, <2>1 DEF Addressed
<1>5. /\ \A i \in DOMAIN x : x[i].for \in Callers \union {"ignored"}
      /\ \A i \in DOMAIN x : x[i].for \in Callers => z[x[i].for] = x[i].cmd
  BY <1>0, <1>2, <1>3, <1>4 DEF Addressed
<1>6. \A i \in DOMAIN l : l[i].for \in Callers => z[l[i].for] # "none"
  BY <1>2, Commands4 DEF Addressed
<1>7. \A i, j \in DOMAIN x : x[i].for = x[j].for /\ x[i].for \in Callers => i = j
  BY <1>0, <1>3, <1>4 DEF Addressed
<1>8. \A i \in DOMAIN x, j \in DOMAIN l : x[i].for = l[j].for => x[i].for \notin Callers
  BY <1>0, <1>3, <1>4 DEF Addressed
<1> QED
  BY <1>5, <1>6, <1>7, <1>8 DEF Addressed

\* A command is taken away, with its caller's claim to an answer.
LEMMA AddressedWithout ==
  ASSUME NEW w \in Seq(Sent), NEW l \in Seq(Heard), NEW waits \in Pending, Addressed(w, l, waits),
         NEW i \in DOMAIN w, NEW c \in Callers, w[i].for = c
  PROVE Addressed(Without(w, i), l, Less(waits, {c}))
<1> DEFINE x == Without(w, i)
           z == Less(waits, {c})
<1>1. /\ DOMAIN x = 1 .. Len(w) - 1 /\ DOMAIN w = 1 .. Len(w) /\ Len(w) \in Nat \ {0}
      /\ \A j \in 1 .. Len(w) - 1 : x[j] = IF j < i THEN w[j] ELSE w[j + 1]
  BY WithoutIs
<1>2. \A k \in Callers : z[k] = IF k = c THEN "none" ELSE waits[k]
  BY LessIs
<1> HIDE DEF x, z
<1> SUFFICES Addressed(x, l, z)
  BY DEF x, z
<1> DEFINE o(j) == IF j < i THEN j ELSE j + 1
<1>3. /\ \A j \in DOMAIN x : o(j) \in DOMAIN w /\ x[j] = w[o(j)] /\ o(j) # i
      /\ \A j, k \in DOMAIN x : o(j) = o(k) => j = k
  BY <1>1
<1> HIDE DEF o
<1>4. (\A j \in DOMAIN x : x[j].for # c) /\ (\A j \in DOMAIN l : l[j].for # c)
  BY <1>3 DEF Addressed
<1>5. /\ \A j \in DOMAIN x : x[j].for \in Callers \union {"ignored"}
      /\ \A j \in DOMAIN x : x[j].for \in Callers => z[x[j].for] = x[j].cmd
  BY <1>2, <1>3, <1>4 DEF Addressed
<1>6. \A j \in DOMAIN l : l[j].for \in Callers => z[l[j].for] # "none"
  BY <1>2, <1>4 DEF Addressed
<1>7. \A j, k \in DOMAIN x : x[j].for = x[k].for /\ x[j].for \in Callers => j = k
  BY <1>3 DEF Addressed
<1>8. \A j \in DOMAIN x, k \in DOMAIN l : x[j].for = l[k].for => x[j].for \notin Callers
  BY <1>3 DEF Addressed
<1> QED
  BY <1>5, <1>6, <1>7, <1>8 DEF Addressed

LEMMA AddressedFront ==
  ASSUME NEW w \in Seq(Sent), NEW l \in Seq(Heard), NEW waits \in Pending, Addressed(w, l, waits),
         w # <<>>
  PROVE Addressed(SubSeq(w, 1, Len(w) - 1), l, waits)
<1> DEFINE x == SubSeq(w, 1, Len(w) - 1)
<1>1. /\ DOMAIN x = 1 .. Len(w) - 1 /\ DOMAIN w = 1 .. Len(w) /\ Len(w) \in Nat \ {0}
      /\ \A j \in 1 .. Len(w) - 1 : x[j] = w[j]
  BY FrontIs
<1> HIDE DEF x
<1> SUFFICES Addressed(x, l, waits)
  BY DEF x
<1>2. \A j \in DOMAIN x : j \in DOMAIN w /\ x[j] = w[j]
  BY <1>1
<1> QED
  BY <1>2 DEF Addressed

\* An answer is taken; if it is for a caller, that caller does not wait any more.
LEMMA AddressedHear ==
  ASSUME NEW w \in Seq(Sent), NEW l \in Seq(Heard), NEW waits \in Pending, Addressed(w, l, waits),
         l # <<>>
  PROVE /\ Addressed(w, Tail(l), waits)
        /\ Head(l).for \in Callers => Addressed(w, Tail(l), Less(waits, {Head(l).for}))
<1> DEFINE y == Tail(l)
<1>1. /\ DOMAIN y = 1 .. Len(l) - 1 /\ DOMAIN l = 1 .. Len(l) /\ Len(l) \in Nat \ {0}
      /\ \A j \in 1 .. Len(l) - 1 : y[j] = l[j + 1]
      /\ Head(l) = l[1]
  BY TailIs
<1> HIDE DEF y
<1>2. /\ \A j \in DOMAIN y : j + 1 \in DOMAIN l /\ y[j] = l[j + 1] /\ j + 1 # 1
      /\ \A j, k \in DOMAIN y : j + 1 = k + 1 => j = k
      /\ 1 \in DOMAIN l
  BY <1>1
<1>3. Addressed(w, y, waits)
  BY <1>2 DEF Addressed
<1>4. ASSUME l[1].for \in Callers PROVE Addressed(w, y, Less(waits, {l[1].for}))
  <2> DEFINE z == Less(waits, {l[1].for})
  <2>1. \A k \in Callers : z[k] = IF k = l[1].for THEN "none" ELSE waits[k]
    BY LessIs
  <2> HIDE DEF z
  <2>2. \A j \in DOMAIN y : y[j].for # l[1].for
    BY <1>2, <1>4 DEF Addressed
  <2>3. \A j \in DOMAIN w : w[j].for # l[1].for
    BY <1>2, <1>4 DEF Addressed
  <2>4. Addressed(w, y, z)
    BY <1>3, <2>1, <2>2, <2>3 DEF Addressed
  <2> QED
    BY <2>4 DEF z
<1> QED
  BY <1>1, <1>3, <1>4 DEF y

\* A command is executed, and may be answered.
LEMMA AddressedExecute ==
  ASSUME NEW w \in Seq(Sent), NEW l \in Seq(Heard), NEW waits \in Pending, Addressed(w, l, waits),
         w # <<>>
  PROVE /\ Addressed(Tail(w), l, waits)
        /\ \A a \in Heard : a.for = Head(w).for \/ a.for \notin Callers =>
             Addressed(Tail(w), Append(l, a), waits)
<1> DEFINE x == Tail(w)
<1>1. /\ DOMAIN x = 1 .. Len(w) - 1 /\ DOMAIN w = 1 .. Len(w) /\ Len(w) \in Nat \ {0}
      /\ \A j \in 1 .. Len(w) - 1 : x[j] = w[j + 1]
      /\ Head(w) = w[1]
  BY TailIs
<1> HIDE DEF x
<1>2. /\ \A j \in DOMAIN x : j + 1 \in DOMAIN w /\ x[j] = w[j + 1] /\ j + 1 # 1
      /\ \A j, k \in DOMAIN x : j + 1 = k + 1 => j = k
      /\ 1 \in DOMAIN w
  BY <1>1
<1>3. Addressed(x, l, waits)
  BY <1>2 DEF Addressed
<1>4. ASSUME NEW a \in Heard, a.for = w[1].for \/ a.for \notin Callers
      PROVE Addressed(x, Append(l, a), waits)
  <2> DEFINE y == Append(l, a)
  <2>1. /\ DOMAIN y = 1 .. Len(l) + 1 /\ DOMAIN l = 1 .. Len(l) /\ Len(l) \in Nat
        /\ \A j \in 1 .. Len(l) : y[j] = l[j]
        /\ y[Len(l) + 1] = a
    BY AppendIs
  <2> HIDE DEF y
  <2>2. \A j \in DOMAIN y : (j \in DOMAIN l /\ y[j] = l[j]) \/ (j = Len(l) + 1 /\ y[j] = a)
    BY <2>1
  <2>3. a.for \in Callers => waits[a.for] # "none"
    <3>1. w[1].cmd # "none"
      BY <1>1, Elements, Commands4
    <3> QED
      BY <1>2, <1>4, <3>1 DEF Addressed
  <2>4. a.for \in Callers => /\ \A j \in DOMAIN x : x[j].for # a.for
                             /\ \A j \in DOMAIN l : l[j].for # a.for
    BY <1>2, <1>4 DEF Addressed
  <2>5. \A i \in DOMAIN y : y[i].for \in Callers => waits[y[i].for] # "none"
    BY <1>3, <2>2, <2>3 DEF Addressed
  <2>6. \A i, j \in DOMAIN y : y[i].for = y[j].for /\ y[i].for \in Callers => i = j
    BY <1>3, <2>2, <2>4 DEF Addressed
  <2>7. \A i \in DOMAIN x, j \in DOMAIN y : x[i].for = y[j].for => x[i].for \notin Callers
    BY <1>3, <2>2, <2>4 DEF Addressed
  <2>8. Addressed(x, y, waits)
    BY <1>3, <2>5, <2>6, <2>7 DEF Addressed
  <2> QED
    BY <2>8 DEF y
<1> QED
  BY <1>1, <1>3, <1>4 DEF x

LEMMA AddressedEvent ==
  ASSUME NEW w \in Seq(Sent), NEW l \in Seq(Heard), NEW waits \in Pending, Addressed(w, l, waits),
         NEW a \in Heard, a.for \notin Callers
  PROVE Addressed(w, Append(l, a), waits)
<1> DEFINE y == Append(l, a)
<1>1. /\ DOMAIN y = 1 .. Len(l) + 1 /\ DOMAIN l = 1 .. Len(l) /\ Len(l) \in Nat
      /\ \A j \in 1 .. Len(l) : y[j] = l[j]
      /\ y[Len(l) + 1] = a
  BY AppendIs
<1> HIDE DEF y
<1>2. \A j \in DOMAIN y : (j \in DOMAIN l /\ y[j] = l[j]) \/ (j = Len(l) + 1 /\ y[j] = a)
  BY <1>1
<1>3. Addressed(w, y, waits)
  BY <1>2 DEF Addressed
<1> QED
  BY <1>3 DEF y

LEMMA HonestDrop ==
  ASSUME NEW l \in Seq(Heard), NEW waits \in Pending, NEW cs \in SUBSET Callers, NEW any,
         Honest(l, waits, any)
  PROVE Honest(Ignored(l, cs), Less(waits, cs), any)
<1> DEFINE y == Ignored(l, cs)
           z == Less(waits, cs)
<1>1. /\ DOMAIN y = 1 .. Len(l) /\ DOMAIN l = 1 .. Len(l)
      /\ \A i \in 1 .. Len(l) :
           /\ y[i].ok = l[i].ok /\ y[i].state = l[i].state /\ y[i].measured = l[i].measured
           /\ y[i].for = IF l[i].for \in cs THEN "ignored" ELSE l[i].for
  BY IgnoredHeard
<1>2. \A c \in Callers : z[c] = IF c \in cs THEN "none" ELSE waits[c]
  BY LessIs
<1> HIDE DEF y, z
<1> SUFFICES ASSUME NEW i \in DOMAIN y
             PROVE /\ y[i].for = "event" => y[i].state \notin Shown
                   /\ y[i].for = "unknown" => any
                   /\ y[i].ok => y[i].state # "fault"
                   /\ y[i].ok /\ y[i].for \in Callers => (z[y[i].for] = "status" => y[i].measured)
  BY DEF y, z, Honest
<1>3. /\ i \in DOMAIN l
      /\ l[i].for = "event" => l[i].state \notin Shown
      /\ l[i].for = "unknown" => any
      /\ l[i].ok => l[i].state # "fault"
      /\ l[i].ok /\ l[i].for \in Callers => (waits[l[i].for] = "status" => l[i].measured)
  BY <1>1 DEF Honest
<1>4. CASE l[i].for \in cs
  BY <1>1, <1>3, <1>4, Recipients3
<1>5. CASE l[i].for \notin cs
  BY <1>1, <1>2, <1>3, <1>5
<1> QED
  BY <1>4, <1>5

\* Of a caller that waits for another answer, or for none, no answer is on the line.
LEMMA HonestWaits ==
  ASSUME NEW l \in Seq(Heard), NEW waits, NEW others, NEW any, Honest(l, waits, any),
         \A c \in Callers : \/ others[c] = waits[c] \/ others[c] = "none"
                            \/ \A i \in DOMAIN l : l[i].for # c
  PROVE Honest(l, others, any)
<1> SUFFICES ASSUME NEW i \in DOMAIN l, l[i].ok, l[i].for \in Callers, others[l[i].for] = "status"
             PROVE l[i].measured
  BY DEF Honest
<1> QED
  BY DEF Honest

LEMMA HonestTail ==
  ASSUME NEW l \in Seq(Heard), NEW waits, NEW any, Honest(l, waits, any), l # <<>>
  PROVE Honest(Tail(l), waits, any)
<1> DEFINE y == Tail(l)
<1>1. /\ DOMAIN y = 1 .. Len(l) - 1 /\ DOMAIN l = 1 .. Len(l) /\ Len(l) \in Nat \ {0}
      /\ \A j \in 1 .. Len(l) - 1 : y[j] = l[j + 1]
  BY TailIs
<1>2. \A j \in DOMAIN y : j + 1 \in DOMAIN l /\ y[j] = l[j + 1]
  BY <1>1
<1> HIDE DEF y
<1>3. Honest(y, waits, any)
  BY <1>2 DEF Honest
<1> QED
  BY <1>3 DEF y

LEMMA HonestMore ==
  ASSUME NEW l \in Seq(Heard), NEW waits, NEW any, Honest(l, waits, any), NEW a \in Heard,
         a.for = "event" => a.state \notin Shown,
         a.for = "unknown" => any,
         a.ok => a.state # "fault",
         a.ok /\ a.for \in Callers => (waits[a.for] = "status" => a.measured)
  PROVE Honest(Append(l, a), waits, any)
<1> DEFINE y == Append(l, a)
<1>1. /\ DOMAIN y = 1 .. Len(l) + 1 /\ DOMAIN l = 1 .. Len(l) /\ Len(l) \in Nat
      /\ \A j \in 1 .. Len(l) : y[j] = l[j]
      /\ y[Len(l) + 1] = a
  BY AppendIs
<1> HIDE DEF y
<1>2. \A j \in DOMAIN y : (j \in DOMAIN l /\ y[j] = l[j]) \/ y[j] = a
  BY <1>1
<1>3. Honest(y, waits, any)
  BY <1>2 DEF Honest
<1> QED
  BY <1>3 DEF y

-----------------------------------------------------------------------------
(* The driver and its calls.                                               *)

PufferStates == {"idle", "inflating", "holding", "deflating", "stopped", "fault"}
Faults == {"none", "timeout", "invalid", "device", "write", "lost", "unstopped"}

DriverTypes ==
  /\ port \in {"none", "opening", "open", "shut"}
  /\ closing \in BOOLEAN /\ clean \in BOOLEAN /\ overruled \in BOOLEAN /\ garbled \in BOOLEAN
  /\ step \in {"none", "stop", "deflate", "confirm", "poll", "close"}
  /\ mishaps \in 0 .. MaxMishaps

LineTypes ==
  /\ pending \in Pending
  /\ reply \in [Callers -> {"none", "ok", "failed"}]
  /\ wire \in Seq(Sent) /\ line \in Seq(Heard)
  /\ puffer \in [state : PufferStates, level : {0, Full}]

\* A caller that waits, or whose answer has come, is in a call; disconnect goes
\* through its steps alone.
SerialCalls ==
  /\ \A c \in Callers : reply[c] # "none" => pending[c] = "none" /\ call[c] \notin {"none", "connect"}
  /\ \A c \in Callers : pending[c] # "none" => call[c] \in {pending[c], "disconnect"}
  /\ call[Direct] \in Commands \union {"none"} /\ call[Queue] # "stop"
  /\ step # "none" <=> call[Queue] = "disconnect"
  /\ step \in {"poll", "close"} => pending[Queue] = "none" /\ reply[Queue] = "none"
  /\ step = "confirm" => pending[Queue] \in {"status", "none"}
  /\ call[Queue] = "disconnect" =>
       /\ call[Direct] # "none" => "deflate" \in since[Direct]
       /\ call[Direct] # "inflate" /\ "stopped" \notin promise /\ "inflate" \notin since[Queue]
  /\ port = "opening" <=> call[Queue] = "connect"

OnLine ==
  /\ Addressed(wire, line, pending) /\ Honest(line, pending, garbled)
  /\ fault = "invalid" => garbled

SerialBase == DeviceTypeOK /\ DriverTypes /\ LineTypes /\ SerialCalls /\ OnLine

LEMMA SerialTypesHold == SerialBase => SerialTypeOK
<1> SUFFICES ASSUME SerialBase PROVE SerialTypeOK
  OBVIOUS
<1>1. (\A i \in DOMAIN wire : wire[i] \in Sent) /\ (\A i \in DOMAIN line : line[i] \in Heard)
  BY DEF SerialBase, LineTypes
<1>2. puffer \in [state : States, level : {0, Full}]
  BY DEF SerialBase, LineTypes, PufferStates, States
<1> QED
  BY <1>1, <1>2 DEF SerialTypeOK, SerialBase, LineTypes, DriverTypes, Sent, Heard, Pending

LEMMA SerialAtFirst == Init /\ mode = "serial" => SerialBase
<1> SUFFICES ASSUME Init, mode = "serial" PROVE SerialBase
  OBVIOUS
<1>1. DeviceTypeOK /\ DeviceInit /\ SerialInit
  BY DeviceAtFirst DEF Init
<1>2. DriverTypes
  <2>1. mishaps \in 0 .. MaxMishaps
    BY <1>1, BoundAssumption DEF SerialInit
  <2>2. closing \in BOOLEAN /\ clean \in BOOLEAN /\ overruled \in BOOLEAN /\ garbled \in BOOLEAN
    BY <1>1 DEF SerialInit
  <2> QED
    BY <1>1, <2>1, <2>2 DEF SerialInit, DriverTypes
<1>3. LineTypes
  <2>1. wire = <<>> /\ line = <<>> /\ puffer = [state |-> "idle", level |-> 0]
    BY <1>1 DEF SerialInit
  <2>2. wire \in Seq(Sent) /\ line \in Seq(Heard)
    BY <2>1
  <2>3. pending \in Pending /\ reply \in [Callers -> {"none", "ok", "failed"}]
    BY <1>1 DEF SerialInit, Pending
  <2> QED
    BY <2>1, <2>2, <2>3 DEF LineTypes, PufferStates
<1>4. SerialCalls
  BY <1>1, Recipients3 DEF SerialInit, DeviceInit, SerialCalls
<1>5. OnLine
  <2>1. DOMAIN wire = {} /\ DOMAIN line = {}
    BY <1>1 DEF SerialInit
  <2> QED
    BY <1>1, <2>1 DEF OnLine, Addressed, Honest, DeviceInit
<1> QED
  BY <1>1, <1>2, <1>3, <1>4, <1>5 DEF SerialBase

LEMMA SettleIs ==
  ASSUME LineTypes, NEW cs \in SUBSET Callers, NEW how \in {"ok", "failed"}, Settle(cs, how)
  PROVE /\ pending' = Less(pending, cs) /\ pending' \in Pending
        /\ reply' \in [Callers -> {"none", "ok", "failed"}]
        /\ \A c \in Callers : /\ pending'[c] = IF c \in cs THEN "none" ELSE pending[c]
                              /\ reply'[c] = IF c \in cs THEN how ELSE reply[c]
<1>1. pending' = Less(pending, cs)
  BY DEF Settle, Less
<1>2. \A c \in Callers : reply'[c] = IF c \in cs THEN how ELSE reply[c]
  BY DEF Settle
<1>3. \A c \in Callers : reply'[c] \in {"none", "ok", "failed"}
  BY <1>2 DEF LineTypes
<1>4. reply' \in [Callers -> {"none", "ok", "failed"}]
  BY <1>3 DEF Settle
<1> QED
  BY <1>1, <1>2, <1>4, LessIs DEF LineTypes

LEMMA EmergencyIs ==
  ASSUME NEW w \in Seq(Sent)
  PROVE /\ WithEmergencyStop(w) \in Seq(Sent)
        /\ port = "open" => WithEmergencyStop(w) = Append(w, EmergencyStop)
        /\ port # "open" => WithEmergencyStop(w) = w
  BY Recipients3 DEF WithEmergencyStop, EmergencyStop

LEMMA AddressedEmergency ==
  ASSUME NEW w \in Seq(Sent), NEW l \in Seq(Heard), NEW waits \in Pending, Addressed(w, l, waits)
  PROVE Addressed(WithEmergencyStop(w), l, waits)
  BY EmergencyIs, AddressedMore, Recipients3

\* What an alarm does.
LEMMA AlarmIs ==
  ASSUME SerialBase, NEW code \in Faults, NEW cs \in SUBSET Callers, NEW answers \in Seq(Heard),
         Alarm(code, cs, answers), Addressed(wire, answers, pending), Honest(answers, pending, garbled),
         garbled' = garbled
  PROVE /\ state' = "fault" /\ fault' = code /\ level' = level /\ connected' = connected
        /\ overruled' = FALSE
        /\ pending' = Less(pending, cs) /\ pending' \in Pending
        /\ reply' \in [Callers -> {"none", "ok", "failed"}]
        /\ \A c \in Callers : /\ pending'[c] = IF c \in cs THEN "none" ELSE pending[c]
                              /\ reply'[c] = IF c \in cs THEN "failed" ELSE reply[c]
        /\ wire' = WithEmergencyStop(Ignored(wire, cs)) /\ line' = Ignored(answers, cs)
        /\ wire' \in Seq(Sent) /\ line' \in Seq(Heard)
        /\ Addressed(wire', line', pending') /\ Honest(line', pending', garbled')
<1>1. LineTypes /\ Settle(cs, "failed")
  BY DEF SerialBase, Alarm
<1>2. /\ state' = "fault" /\ fault' = code /\ level' = level /\ connected' = connected
      /\ overruled' = FALSE
      /\ wire' = WithEmergencyStop(Ignored(wire, cs)) /\ line' = Ignored(answers, cs)
  BY DEF Alarm
<1>3. /\ pending' = Less(pending, cs) /\ pending' \in Pending
      /\ reply' \in [Callers -> {"none", "ok", "failed"}]
      /\ \A c \in Callers : /\ pending'[c] = IF c \in cs THEN "none" ELSE pending[c]
                            /\ reply'[c] = IF c \in cs THEN "failed" ELSE reply[c]
  BY <1>1, SettleIs
<1>4. wire \in Seq(Sent) /\ pending \in Pending
  BY <1>1 DEF LineTypes
<1>5. Ignored(wire, cs) \in Seq(Sent) /\ Ignored(answers, cs) \in Seq(Heard)
  BY <1>4, IgnoredSent, IgnoredHeard
<1>6. Addressed(Ignored(wire, cs), Ignored(answers, cs), Less(pending, cs))
  BY <1>4, AddressedDrop
<1>7. Honest(Ignored(answers, cs), Less(pending, cs), garbled)
  BY <1>4, HonestDrop
<1>8. Addressed(wire', line', pending') /\ wire' \in Seq(Sent) /\ line' \in Seq(Heard)
  BY <1>2, <1>3, <1>5, <1>6, AddressedEmergency, EmergencyIs
<1>9. Honest(line', pending', garbled')
  BY <1>2, <1>3, <1>7
<1> QED
  BY <1>2, <1>3, <1>8, <1>9

\* A command is sent by a caller that waits for nothing.
LEMMA SendIs ==
  ASSUME SerialBase, NEW c \in Callers, NEW op \in Commands, Send(c, op), pending[c] = "none",
         garbled' = garbled
  PROVE /\ \A k \in Callers :
             /\ pending'[k] = IF k = c THEN op ELSE IF k \in Overtaken(op) THEN "none" ELSE pending[k]
             /\ reply'[k] = IF k = c THEN "none" ELSE IF k \in Overtaken(op) THEN "failed" ELSE reply[k]
        /\ pending' \in Pending /\ reply' \in [Callers -> {"none", "ok", "failed"}]
        /\ wire' = Append(Ignored(wire, Overtaken(op)), [cmd |-> op, for |-> c])
        /\ line' = Ignored(line, Overtaken(op))
        /\ overruled' = (overruled \/ op \in Moves)
        /\ Overtaken(op) \subseteq Callers /\ c \notin Overtaken(op)
        /\ Ignored(wire, Overtaken(op)) \in Seq(Sent)
        /\ wire' \in Seq(Sent) /\ line' \in Seq(Heard) /\ [cmd |-> op, for |-> c] \in Sent
        /\ Addressed(wire', line', pending') /\ Honest(line', pending', garbled')
<1> DEFINE cs == Overtaken(op)
           e == [cmd |-> op, for |-> c]
<1>1. cs \subseteq Callers /\ c \notin cs
  BY DEF Overtaken, Waiting
<1>2. /\ wire' = Append(Ignored(wire, cs), e) /\ line' = Ignored(line, cs)
      /\ overruled' = (overruled \/ op \in Moves)
  BY DEF Send
<1>3. /\ wire \in Seq(Sent) /\ line \in Seq(Heard) /\ pending \in Pending
      /\ reply \in [Callers -> {"none", "ok", "failed"}]
      /\ Addressed(wire, line, pending) /\ Honest(line, pending, garbled)
  BY DEF SerialBase, LineTypes, OnLine
<1>4. /\ \A k \in Callers :
           /\ pending'[k] = IF k = c THEN op ELSE IF k \in cs THEN "none" ELSE pending[k]
           /\ reply'[k] = IF k = c THEN "none" ELSE IF k \in cs THEN "failed" ELSE reply[k]
      /\ pending' = [k \in Callers |-> pending'[k]] /\ reply' = [k \in Callers |-> reply'[k]]
  BY <1>1 DEF Send
<1>5. pending' \in Pending /\ reply' \in [Callers -> {"none", "ok", "failed"}]
  BY <1>3, <1>4 DEF Pending
<1>6. e \in Sent
  BY Recipients3 DEF Sent
<1> HIDE DEF cs
<1>7. Ignored(wire, cs) \in Seq(Sent) /\ Ignored(line, cs) \in Seq(Heard)
  BY <1>3, IgnoredSent, IgnoredHeard
<1>8. /\ Addressed(Ignored(wire, cs), Ignored(line, cs), Less(pending, cs))
      /\ Honest(Ignored(line, cs), Less(pending, cs), garbled)
  BY <1>1, <1>3, AddressedDrop, HonestDrop
<1>9. /\ Less(pending, cs) \in Pending
      /\ \A k \in Callers : Less(pending, cs)[k] = IF k \in cs THEN "none" ELSE pending[k]
  BY <1>3, LessIs
<1>10. pending' = [Less(pending, cs) EXCEPT ![c] = op]
  BY <1>1, <1>4, <1>9 DEF Pending
<1>11. Less(pending, cs)[c] = "none"
  BY <1>1, <1>9
<1>12. Addressed(wire', line', pending')
  BY <1>2, <1>7, <1>8, <1>9, <1>10, <1>11, AddressedSend
<1>13. Honest(line', pending', garbled')
  <2>1. \A i \in DOMAIN line' : line'[i].for # c
    BY <1>2, <1>8, <1>11 DEF Addressed
  <2>2. \A k \in Callers : pending'[k] = Less(pending, cs)[k] \/ k = c
    BY <1>4, <1>9
  <2> QED
    BY <1>2, <1>7, <1>8, <2>1, <2>2, HonestWaits
<1>14. wire' \in Seq(Sent)
  BY <1>2, <1>6, <1>7
<1> QED
  BY <1>1, <1>2, <1>4, <1>5, <1>6, <1>7, <1>12, <1>13, <1>14 DEF cs

-----------------------------------------------------------------------------
(* Every step keeps the driver, its calls and its line in order.           *)

LEMMA CallsKept ==
  ASSUME SerialBase, call' = call, since' = since, promise' = promise, step' = step,
         port' = "opening" <=> port = "opening",
         \A c \in Callers : /\ pending'[c] \in {pending[c], "none"}
                            /\ reply'[c] # "none" =>
                                 pending'[c] = "none" /\ (reply[c] # "none" \/ pending[c] # "none")
  PROVE SerialCalls'
<1>1. \A c \in Callers : pending[c] # "connect"
  BY DEF SerialBase, LineTypes, Pending, Commands, Moves
<1> QED
  BY <1>1, Recipients3 DEF SerialBase, SerialCalls

LEMMA StatusKept ==
  ASSUME DeviceTypeOK, call' = call, since' = since, promise' = promise,
         connected' \in BOOLEAN, state' \in States, level' \in 0 .. Full, fault' \in Faults
  PROVE DeviceTypeOK'
  BY DEF DeviceTypeOK, Faults

LEMMA TimeoutBase ==
  ASSUME SerialBase, NEW c \in Callers, SerialTimeout(c)
  PROVE SerialBase'
<1>1. /\ pending[c] # "none" /\ DeviceTypeOK /\ DriverTypes /\ LineTypes /\ OnLine
      /\ wire \in Seq(Sent) /\ line \in Seq(Heard) /\ pending \in Pending
      /\ Addressed(wire, line, pending) /\ Honest(line, pending, garbled)
      /\ connected \in BOOLEAN /\ state \in States /\ level \in 0 .. Full /\ fault \in Faults
  BY DEF SerialTimeout, SerialBase, LineTypes, OnLine, DeviceTypeOK, Faults
<1>2. /\ call' = call /\ since' = since /\ promise' = promise /\ port' = port /\ closing' = closing
      /\ step' = step /\ clean' = clean /\ puffer' = puffer /\ mishaps' = mishaps /\ garbled' = garbled
  BY DEF SerialTimeout, callVars
<1>3. CASE pending[c] = "stop"
  <2>1. /\ Settle({c}, "failed") /\ wire' = Ignored(wire, {c}) /\ line' = Ignored(line, {c})
        /\ connected' = connected /\ state' = state /\ level' = level /\ fault' = fault
        /\ overruled' = overruled
    BY <1>3 DEF SerialTimeout, statusVars
  <2>2. /\ pending' = Less(pending, {c}) /\ pending' \in Pending
        /\ reply' \in [Callers -> {"none", "ok", "failed"}]
        /\ \A k \in Callers : /\ pending'[k] = IF k \in {c} THEN "none" ELSE pending[k]
                              /\ reply'[k] = IF k \in {c} THEN "failed" ELSE reply[k]
    BY <1>1, <2>1, SettleIs
  <2>3. wire' \in Seq(Sent) /\ line' \in Seq(Heard)
    BY <1>1, <2>1, IgnoredSent, IgnoredHeard
  <2>4. Addressed(wire', line', pending') /\ Honest(line', pending', garbled')
    BY <1>1, <1>2, <2>1, <2>2, AddressedDrop, HonestDrop
  <2>5. DeviceTypeOK'
    BY <1>1, <1>2, <2>1, StatusKept
  <2>6. DriverTypes' /\ LineTypes'
    BY <1>1, <1>2, <2>1, <2>2, <2>3 DEF DriverTypes, LineTypes
  <2>7. SerialCalls'
    <3>1. \A k \in Callers : reply[k] # "none" => pending[k] = "none"
      BY DEF SerialBase, SerialCalls
    <3> QED
      BY <1>1, <1>2, <2>2, <3>1, CallsKept
  <2>8. OnLine'
    BY <1>1, <1>2, <2>1, <2>4 DEF OnLine
  <2> QED
    BY <2>5, <2>6, <2>7, <2>8 DEF SerialBase
<1>4. CASE pending[c] # "stop"
  <2>1. Alarm("timeout", {c}, line)
    BY <1>4 DEF SerialTimeout
  <2>2. "timeout" \in Faults /\ {c} \in SUBSET Callers
    BY DEF Faults
  <2>3. /\ state' = "fault" /\ fault' = "timeout" /\ level' = level /\ connected' = connected
        /\ overruled' = FALSE
        /\ pending' \in Pending /\ reply' \in [Callers -> {"none", "ok", "failed"}]
        /\ \A k \in Callers : /\ pending'[k] = IF k \in {c} THEN "none" ELSE pending[k]
                              /\ reply'[k] = IF k \in {c} THEN "failed" ELSE reply[k]
        /\ wire' \in Seq(Sent) /\ line' \in Seq(Heard)
        /\ Addressed(wire', line', pending') /\ Honest(line', pending', garbled')
    BY <1>1, <1>2, <2>1, <2>2, AlarmIs
  <2>5. DeviceTypeOK'
    BY <1>1, <1>2, <2>2, <2>3, StatusKept DEF States
  <2>6. DriverTypes' /\ LineTypes'
    BY <1>1, <1>2, <2>3 DEF DriverTypes, LineTypes
  <2>7. SerialCalls'
    <3>1. \A k \in Callers : reply[k] # "none" => pending[k] = "none"
      BY DEF SerialBase, SerialCalls
    <3> QED
      BY <1>1, <1>2, <2>3, <3>1, CallsKept
  <2>8. OnLine'
    BY <1>1, <1>2, <2>3 DEF OnLine
  <2> QED
    BY <2>5, <2>6, <2>7, <2>8 DEF SerialBase
<1> QED
  BY <1>3, <1>4

\* The requests of cs are settled, and nothing else happens to the calls.
LEMMA CallsSettled ==
  ASSUME SerialBase, call' = call, since' = since, promise' = promise, step' = step,
         port' = "opening" <=> port = "opening",
         NEW cs, NEW how, \A c \in cs : pending[c] # "none",
         \A c \in Callers : /\ pending'[c] = IF c \in cs THEN "none" ELSE pending[c]
                            /\ reply'[c] = IF c \in cs THEN how ELSE reply[c]
  PROVE SerialCalls'
<1>1. \A c \in Callers : reply[c] # "none" => pending[c] = "none"
  BY DEF SerialBase, SerialCalls
<1> QED
  BY <1>1, CallsKept

LEMMA CallsSame ==
  ASSUME SerialBase, call' = call, since' = since, promise' = promise, step' = step,
         port' = "opening" <=> port = "opening", pending' = pending, reply' = reply
  PROVE SerialCalls'
  BY DEF SerialBase, SerialCalls

LEMMA BaseIs ==
  ASSUME SerialBase
  PROVE /\ DeviceTypeOK /\ DriverTypes /\ LineTypes /\ OnLine /\ SerialCalls
        /\ wire \in Seq(Sent) /\ line \in Seq(Heard) /\ pending \in Pending
        /\ reply \in [Callers -> {"none", "ok", "failed"}]
        /\ puffer \in [state : PufferStates, level : {0, Full}]
        /\ Addressed(wire, line, pending) /\ Honest(line, pending, garbled)
        /\ connected \in BOOLEAN /\ state \in States /\ level \in 0 .. Full /\ fault \in Faults
        /\ mishaps \in 0 .. MaxMishaps
        /\ fault = "invalid" => garbled
  BY DEF SerialBase, LineTypes, DriverTypes, OnLine, DeviceTypeOK, Faults

LEMMA MishapIs ==
  ASSUME SerialBase, NEW kind, Mishap(kind)
  PROVE mishaps' \in 0 .. MaxMishaps
  BY BoundAssumption, BaseIs DEF Mishap

LEMMA WriteFailsBase ==
  ASSUME SerialBase, NEW c \in Callers, SerialWriteFails(c)
  PROVE SerialBase'
<1>1. PICK i \in DOMAIN wire :
        /\ wire[i].for = c /\ Mishap("write") /\ Settle({c}, "failed") /\ line' = line
        /\ connected' = connected /\ level' = level
        /\ \/ /\ pending[c] = "stop" /\ wire' = Without(wire, i)
              /\ state' = state /\ fault' = fault /\ overruled' = overruled
           \/ /\ pending[c] # "stop" /\ wire' = WithEmergencyStop(Without(wire, i))
              /\ state' = "fault" /\ fault' = "write" /\ overruled' = FALSE
        /\ call' = call /\ since' = since /\ promise' = promise /\ port' = port /\ closing' = closing
        /\ step' = step /\ clean' = clean /\ puffer' = puffer /\ garbled' = garbled
  BY DEF SerialWriteFails, callVars, statusVars
<1>2. /\ pending' = Less(pending, {c}) /\ pending' \in Pending
      /\ reply' \in [Callers -> {"none", "ok", "failed"}]
      /\ \A k \in Callers : /\ pending'[k] = IF k \in {c} THEN "none" ELSE pending[k]
                            /\ reply'[k] = IF k \in {c} THEN "failed" ELSE reply[k]
  BY <1>1, BaseIs, SettleIs
<1>3. Without(wire, i) \in Seq(Sent)
  BY BaseIs, WithoutIs
<1>4. Addressed(Without(wire, i), line, Less(pending, {c}))
  BY <1>1, BaseIs, AddressedWithout
<1>5. Addressed(wire', line', pending') /\ wire' \in Seq(Sent)
  BY <1>1, <1>2, <1>3, <1>4, BaseIs, AddressedEmergency, EmergencyIs
<1>6. Honest(line', pending', garbled')
  <2>1. \A k \in Callers : pending'[k] = pending[k] \/ pending'[k] = "none"
    BY <1>2
  <2>2. Honest(line, pending', garbled)
    BY <2>1, BaseIs, HonestWaits
  <2> QED
    BY <1>1, <2>2
<1>7. pending[c] # "none"
  <2>1. wire[i].cmd # "none"
    BY BaseIs, Elements, Commands4
  <2> QED
    BY <1>1, <2>1, BaseIs DEF Addressed
<1>8. DeviceTypeOK'
  BY <1>1, BaseIs, StatusKept DEF States, Faults
<1>9. DriverTypes' /\ LineTypes'
  BY <1>1, <1>2, <1>5, BaseIs, MishapIs DEF DriverTypes, LineTypes
<1>10. SerialCalls'
  BY <1>1, <1>2, <1>7, CallsSettled
<1>11. OnLine'
  BY <1>1, <1>5, <1>6, BaseIs DEF OnLine
<1> QED
  BY <1>8, <1>9, <1>10, <1>11 DEF SerialBase

LEMMA EmergencyFailsBase ==
  ASSUME SerialBase, EmergencyWriteFails
  PROVE SerialBase'
<1>1. /\ wire # <<>> /\ Mishap("write") /\ line' = line /\ wire' = SubSeq(wire, 1, Len(wire) - 1)
      /\ connected' = connected /\ level' = level /\ state' = "fault" /\ fault' = "unstopped"
      /\ call' = call /\ since' = since /\ promise' = promise /\ port' = port /\ closing' = closing
      /\ step' = step /\ clean' = clean /\ puffer' = puffer /\ garbled' = garbled
      /\ pending' = pending /\ reply' = reply /\ overruled' = overruled
  BY DEF EmergencyWriteFails, callVars, driverVars
<1>2. Addressed(wire', line', pending') /\ wire' \in Seq(Sent)
  BY <1>1, BaseIs, AddressedFront, FrontIs
<1>3. DeviceTypeOK'
  BY <1>1, BaseIs, StatusKept DEF States, Faults
<1>4. DriverTypes' /\ LineTypes'
  BY <1>1, <1>2, BaseIs, MishapIs DEF DriverTypes, LineTypes
<1>5. SerialCalls'
  BY <1>1, CallsSame
<1>6. OnLine'
  BY <1>1, <1>2, BaseIs DEF OnLine
<1> QED
  BY <1>3, <1>4, <1>5, <1>6 DEF SerialBase

\* What an answer or an event does to the driver.
LEMMA ReceiveIs ==
  ASSUME Receive
  PROVE LET a == Head(line)
            c == a.for
            Takes(how) == /\ Settle({c}, how)
                          /\ line' = Tail(line)
                          /\ state' = a.state
                          /\ level' = IF a.measured THEN a.level ELSE level
                          /\ UNCHANGED connected
        IN
        /\ line # <<>> /\ port = "open"
        /\ \/ /\ c = "event" /\ a.ok
              /\ state' = a.state /\ level' = a.level /\ fault' = "none"
              /\ line' = Tail(line)
              /\ UNCHANGED <<connected, pending, reply, wire, overruled>>
           \/ c = "event" /\ ~a.ok /\ Alarm("device", Waiting, Tail(line))
           \/ c = "ignored" /\ line' = Tail(line)
              /\ UNCHANGED <<statusVars, pending, reply, wire, overruled>>
           \/ c = "unknown" /\ Alarm("invalid", Waiting, Tail(line))
           \/ /\ c \in Callers /\ a.ok
              /\ Takes("ok")
              /\ fault' = "none"
              /\ UNCHANGED <<wire, overruled>>
           \/ /\ c \in Callers /\ ~a.ok
              /\ Takes("failed")
              /\ fault' = "device"
              /\ wire' = WithEmergencyStop(wire)
              /\ overruled' = FALSE
        /\ call' = call /\ since' = since /\ promise' = promise /\ port' = port /\ closing' = closing
        /\ step' = step /\ clean' = clean /\ puffer' = puffer /\ mishaps' = mishaps
        /\ garbled' = garbled
  BY DEF Receive, callVars

LEMMA ReceiveBase ==
  ASSUME SerialBase, Receive
  PROVE SerialBase'
<1> DEFINE a == Head(line)
           c == a.for
<1>0. /\ line # <<>> /\ Tail(line) \in Seq(Heard) /\ a \in Heard /\ a.state \in States
      /\ a.level \in {0, Full} /\ a.level \in 0 .. Full
      /\ call' = call /\ since' = since /\ promise' = promise /\ port' = port /\ closing' = closing
      /\ step' = step /\ clean' = clean /\ puffer' = puffer /\ mishaps' = mishaps
      /\ garbled' = garbled
  <2>1. line # <<>>
    BY ReceiveIs
  <2>2. Tail(line) \in Seq(Heard) /\ a \in Heard
    BY <2>1, BaseIs, TailIs
  <2>3. a.state \in States /\ a.level \in {0, Full}
    BY <2>2 DEF Heard
  <2> QED
    BY <2>1, <2>2, <2>3, ReceiveIs
<1>1. /\ Addressed(wire, Tail(line), pending) /\ Honest(Tail(line), pending, garbled)
      /\ c \in Callers => Addressed(wire, Tail(line), Less(pending, {c}))
  BY <1>0, BaseIs, AddressedHear, HonestTail
<1>2. c = "unknown" => garbled
  <2>1. 1 \in DOMAIN line /\ line[1] = a
    BY <1>0, BaseIs, TailIs
  <2> QED
    BY <2>1, BaseIs DEF Honest
<1>3. CASE /\ c = "event" /\ a.ok
           /\ state' = a.state /\ level' = a.level /\ fault' = "none"
           /\ line' = Tail(line)
           /\ UNCHANGED <<connected, pending, reply, wire, overruled>>
  <2>1. DeviceTypeOK'
    BY <1>0, <1>3, BaseIs, StatusKept DEF Faults
  <2>2. DriverTypes' /\ LineTypes'
    BY <1>0, <1>3, BaseIs DEF DriverTypes, LineTypes
  <2>3. SerialCalls'
    BY <1>0, <1>3, CallsSame
  <2>4. OnLine'
    BY <1>0, <1>1, <1>3 DEF OnLine
  <2> QED
    BY <2>1, <2>2, <2>3, <2>4 DEF SerialBase
<1>4. CASE c = "ignored" /\ line' = Tail(line) /\ UNCHANGED <<statusVars, pending, reply, wire, overruled>>
  <2>1. DeviceTypeOK'
    BY <1>0, <1>4, BaseIs, StatusKept DEF statusVars
  <2>2. DriverTypes' /\ LineTypes'
    BY <1>0, <1>4, BaseIs DEF DriverTypes, LineTypes
  <2>3. SerialCalls'
    BY <1>0, <1>4, CallsSame
  <2>4. OnLine'
    BY <1>0, <1>1, <1>4, BaseIs DEF OnLine, statusVars
  <2> QED
    BY <2>1, <2>2, <2>3, <2>4 DEF SerialBase
<1>5. ASSUME NEW code \in {"device", "invalid"}, Alarm(code, Waiting, Tail(line)), code = "invalid" => garbled
      PROVE SerialBase'
  <2>0. code \in Faults /\ Waiting \in SUBSET Callers /\ \A k \in Waiting : pending[k] # "none"
    BY DEF Faults, Waiting
  <2>1. /\ state' = "fault" /\ fault' = code /\ level' = level /\ connected' = connected
        /\ overruled' = FALSE
        /\ pending' \in Pending /\ reply' \in [Callers -> {"none", "ok", "failed"}]
        /\ \A k \in Callers : /\ pending'[k] = IF k \in Waiting THEN "none" ELSE pending[k]
                              /\ reply'[k] = IF k \in Waiting THEN "failed" ELSE reply[k]
        /\ wire' \in Seq(Sent) /\ line' \in Seq(Heard)
        /\ Addressed(wire', line', pending') /\ Honest(line', pending', garbled')
    BY <1>0, <1>1, <1>5, <2>0, AlarmIs
  <2>2. DeviceTypeOK'
    BY <1>0, <2>0, <2>1, BaseIs, StatusKept DEF States
  <2>3. DriverTypes' /\ LineTypes'
    BY <1>0, <2>1, BaseIs DEF DriverTypes, LineTypes
  <2>4. SerialCalls'
    BY <1>0, <2>0, <2>1, CallsSettled
  <2>5. OnLine'
    BY <1>0, <1>5, <2>1 DEF OnLine
  <2> QED
    BY <2>2, <2>3, <2>4, <2>5 DEF SerialBase
<1>6. ASSUME NEW how \in {"ok", "failed"}, c \in Callers, Settle({c}, how), line' = Tail(line), state' = a.state,
             level' = IF a.measured THEN a.level ELSE level, connected' = connected,
             fault' \in {"none", "device"}, wire' = wire \/ wire' = WithEmergencyStop(wire),
             overruled' \in BOOLEAN
      PROVE SerialBase'
  <2>1. /\ pending' = Less(pending, {c}) /\ pending' \in Pending
        /\ reply' \in [Callers -> {"none", "ok", "failed"}]
        /\ \A k \in Callers : /\ pending'[k] = IF k \in {c} THEN "none" ELSE pending[k]
                              /\ reply'[k] = IF k \in {c} THEN how ELSE reply[k]
    BY <1>6, BaseIs, SettleIs
  <2>2. DeviceTypeOK'
    <3>1. level' \in 0 .. Full /\ fault' \in Faults /\ state' \in States /\ connected' \in BOOLEAN
      BY <1>0, <1>6, BaseIs DEF Faults
    <3> QED
      BY <1>0, <3>1, BaseIs, StatusKept
  <2>3. wire' \in Seq(Sent) /\ Addressed(wire', line', pending')
    <3>1. Addressed(wire, Tail(line), pending') /\ line' = Tail(line)
      BY <1>1, <1>6, <2>1
    <3>2. Addressed(WithEmergencyStop(wire), Tail(line), pending')
      BY <1>0, <2>1, <3>1, BaseIs, AddressedEmergency
    <3>3. wire \in Seq(Sent) /\ WithEmergencyStop(wire) \in Seq(Sent)
      BY BaseIs, EmergencyIs
    <3>4. wire' = wire \/ wire' = WithEmergencyStop(wire)
      BY <1>6
    <3> QED
      BY <3>1, <3>2, <3>3, <3>4
  <2>4. Honest(line', pending', garbled')
    <3>1. \A k \in Callers : pending'[k] = pending[k] \/ pending'[k] = "none"
      BY <2>1
    <3>2. Honest(Tail(line), pending', garbled)
      BY <1>0, <1>1, <3>1, HonestWaits
    <3> QED
      BY <1>0, <1>6, <3>2
  <2>5. DriverTypes' /\ LineTypes'
    BY <1>0, <1>6, <2>1, <2>3, BaseIs DEF DriverTypes, LineTypes
  <2>6. SerialCalls'
    <3>1. pending[c] # "none"
      <4>1. 1 \in DOMAIN line /\ line[1] = a
        BY <1>0, BaseIs, TailIs
      <4> QED
        BY <1>6, <4>1, BaseIs DEF Addressed
    <3> HIDE DEF c
    <3>2. \A k \in {c} : pending[k] # "none"
      BY <3>1
    <3> QED
      BY <1>0, <2>1, <3>2, CallsSettled
  <2>7. OnLine'
    BY <1>6, <2>3, <2>4 DEF OnLine
  <2> QED
    BY <2>2, <2>5, <2>6, <2>7 DEF SerialBase
<1>7. overruled \in BOOLEAN
  BY BaseIs DEF DriverTypes
<1> QED
  BY <1>0, <1>2, <1>3, <1>4, <1>5, <1>6, <1>7, ReceiveIs

LEMMA ErrorBase ==
  ASSUME SerialBase, SerialError
  PROVE SerialBase'
<1>1. /\ Alarm("lost", Waiting, line) /\ Mishap("error")
      /\ call' = call /\ since' = since /\ promise' = promise /\ port' = port /\ closing' = closing
      /\ step' = step /\ clean' = clean /\ puffer' = puffer /\ garbled' = garbled
  BY DEF SerialError, callVars
<1>2. "lost" \in Faults /\ Waiting \in SUBSET Callers /\ \A k \in Waiting : pending[k] # "none"
  BY DEF Faults, Waiting
<1>3. /\ state' = "fault" /\ fault' = "lost" /\ level' = level /\ connected' = connected
      /\ overruled' = FALSE
      /\ pending' \in Pending /\ reply' \in [Callers -> {"none", "ok", "failed"}]
      /\ \A k \in Callers : /\ pending'[k] = IF k \in Waiting THEN "none" ELSE pending[k]
                            /\ reply'[k] = IF k \in Waiting THEN "failed" ELSE reply[k]
      /\ wire' \in Seq(Sent) /\ line' \in Seq(Heard)
      /\ Addressed(wire', line', pending') /\ Honest(line', pending', garbled')
  BY <1>1, <1>2, BaseIs, AlarmIs
<1>4. DeviceTypeOK'
  BY <1>1, <1>2, <1>3, BaseIs, StatusKept DEF States
<1>5. DriverTypes' /\ LineTypes'
  BY <1>1, <1>3, BaseIs, MishapIs DEF DriverTypes, LineTypes
<1>6. SerialCalls'
  BY <1>1, <1>2, <1>3, CallsSettled
<1>7. OnLine'
  BY <1>3 DEF OnLine
<1> QED
  BY <1>4, <1>5, <1>6, <1>7 DEF SerialBase

\* Nothing is on the line.
LEMMA Cleared ==
  ASSUME NEW waits, NEW any
  PROVE /\ Addressed(<<>>, <<>>, waits) /\ Honest(<<>>, waits, any)
        /\ <<>> \in Seq(Sent) /\ <<>> \in Seq(Heard)
  BY DEF Addressed, Honest

LEMMA UnpluggedBase ==
  ASSUME SerialBase, SerialUnplugged
  PROVE SerialBase'
<1>1. /\ port = "open" /\ Mishap("unplug") /\ port' = "shut"
      /\ connected' = FALSE /\ state' = "disconnected" /\ level' = level
      /\ wire' = <<>> /\ line' = <<>>
      /\ \/ fault' = fault /\ pending' = pending /\ reply' = reply
         \/ fault' = "lost" /\ Settle(Waiting, "failed")
      /\ call' = call /\ since' = since /\ promise' = promise /\ closing' = closing
      /\ step' = step /\ clean' = clean /\ overruled' = overruled /\ puffer' = puffer /\ garbled' = garbled
  BY DEF SerialUnplugged, callVars
<1>2. Waiting \in SUBSET Callers /\ \A k \in Waiting : pending[k] # "none"
  BY DEF Waiting
<1>3. /\ pending' \in Pending /\ reply' \in [Callers -> {"none", "ok", "failed"}]
      /\ SerialCalls'
  <2>1. CASE pending' = pending /\ reply' = reply
    BY <1>1, <2>1, BaseIs, CallsSame
  <2>2. CASE Settle(Waiting, "failed")
    <3>1. /\ pending' \in Pending /\ reply' \in [Callers -> {"none", "ok", "failed"}]
          /\ \A k \in Callers : /\ pending'[k] = IF k \in Waiting THEN "none" ELSE pending[k]
                                /\ reply'[k] = IF k \in Waiting THEN "failed" ELSE reply[k]
      BY <1>2, <2>2, BaseIs, SettleIs
    <3> QED
      BY <1>1, <1>2, <3>1, CallsSettled
  <2> QED
    BY <1>1, <2>1, <2>2
<1>4. DeviceTypeOK'
  BY <1>1, BaseIs, StatusKept DEF States, Faults
<1>5. DriverTypes' /\ LineTypes'
  BY <1>1, <1>3, BaseIs, MishapIs, Cleared DEF DriverTypes, LineTypes
<1>6. OnLine'
  BY <1>1, BaseIs, Cleared DEF OnLine
<1> QED
  BY <1>3, <1>4, <1>5, <1>6 DEF SerialBase

-----------------------------------------------------------------------------
(* The puffer at the other end.                                            *)

\* What a command does to the puffer.
LEMMA ObeyedIs ==
  ASSUME LineTypes, NEW op \in Commands
  PROVE /\ Obeyed(op) \in [state : PufferStates, level : {0, Full}]
        /\ puffer.state # "fault" => Obeyed(op).state # "fault"
        /\ op = "stop" => Obeyed(op).state = "stopped"
        /\ op = "status" => Obeyed(op) = puffer
        /\ op # "inflate" /\ puffer.level = 0 => Obeyed(op).level = 0
        /\ op \in {"status", "stop"} /\ puffer.state \notin Shown => Obeyed(op).state \notin Shown
        /\ op \in {"status", "stop"} /\ puffer.state \notin {"inflating", "deflating"} =>
             Obeyed(op).state \notin {"inflating", "deflating"}
<1>1. /\ puffer \in [state : PufferStates, level : {0, Full}]
      /\ puffer.state \in PufferStates /\ puffer.level \in {0, Full}
  BY DEF LineTypes
<1>2. CASE op = "inflate"
  BY <1>1, <1>2 DEF Obeyed, PufferStates
<1>3. CASE op = "deflate" /\ puffer.level = 0
  BY <1>1, <1>3 DEF Obeyed, PufferStates
<1>4. CASE op = "deflate" /\ puffer.level # 0
  BY <1>1, <1>4 DEF Obeyed, PufferStates
<1>5. CASE op = "stop"
  BY <1>1, <1>5 DEF Obeyed, PufferStates, Shown
<1>6. CASE op = "status"
  BY <1>1, <1>6 DEF Obeyed
<1> QED
  BY <1>2, <1>3, <1>4, <1>5, <1>6, Commands4

\* A command is read, and its answer, if it comes, is that of the puffer.
LEMMA ExecuteIs ==
  ASSUME SerialBase, Execute
  PROVE LET e == wire[1] IN
        /\ wire # <<>> /\ wire' = Tail(wire) /\ e = Head(wire) /\ 1 \in DOMAIN wire /\ e.cmd \in Commands
        /\ puffer' = IF puffer.state # "fault" THEN Obeyed(e.cmd) ELSE puffer
        /\ puffer' \in [state : PufferStates, level : {0, Full}]
        /\ \/ line' = line /\ garbled' = garbled
           \/ \E a \in Heard :
                /\ line' = Append(line, a) /\ a.level = puffer'.level
                /\ \/ /\ a.for = e.for /\ a.state = puffer'.state /\ a.ok = (puffer.state # "fault")
                      /\ a.measured = (e.cmd = "status") /\ garbled' = garbled
                   \/ a.for = "unknown" /\ a.state = "fault" /\ a.ok = FALSE /\ garbled' = TRUE
           \/ \E a \in Heard :
                /\ line' = Append(line, a)
                /\ a.for = "unknown" /\ a.state = "fault" /\ a.ok = FALSE /\ garbled' = TRUE
                /\ a.level = puffer.level
        /\ mishaps' \in 0 .. MaxMishaps
        /\ UNCHANGED <<statusVars, callVars, driverVars>>
<1> DEFINE e == wire[1]
           ok == puffer.state # "fault"
           next == IF ok THEN Obeyed(e.cmd) ELSE puffer
<1>1. /\ wire # <<>> /\ wire' = Tail(wire) /\ UNCHANGED <<statusVars, callVars, driverVars>>
  BY DEF Execute
<1>2. Head(wire) = e /\ 1 \in DOMAIN wire
  BY <1>1, BaseIs, TailIs
<1>3. e.cmd \in Commands /\ e.for \in Recipients
  BY <1>2, BaseIs, Elements
<1>4. next \in [state : PufferStates, level : {0, Full}]
  BY <1>3, BaseIs, ObeyedIs
<1>5. /\ puffer' = next
      /\ \/ /\ line' = Append(line, [Answer(e.for, ok, next.state, e.cmd = "status") EXCEPT !.level = next.level])
            /\ UNCHANGED <<mishaps, garbled>>
         \/ Mishap("lost") /\ UNCHANGED <<line, garbled>>
         \/ /\ Mishap("garbage") /\ garbled' = TRUE
            /\ line' = Append(line, Answer("unknown", FALSE, "fault", FALSE))
  BY <1>2 DEF Execute
<1> DEFINE a == [Answer(e.for, ok, next.state, e.cmd = "status") EXCEPT !.level = next.level]
           g == Answer("unknown", FALSE, "fault", FALSE)
<1>6. /\ a.for = e.for /\ a.state = next.state /\ a.ok = ok /\ a.level = next.level
      /\ a.measured = (e.cmd = "status") /\ a \in Heard
  <2>1. next.state \in States /\ next.level \in {0, Full}
    BY <1>4 DEF PufferStates, States
  <2> HIDE DEF next
  <2> QED
    BY <1>3, <2>1 DEF Answer, Heard
<1>7. g \in Heard /\ g.for = "unknown" /\ g.state = "fault" /\ g.ok = FALSE /\ g.level = puffer.level
  <2>1. puffer.level \in {0, Full}
    BY BaseIs
  <2> QED
    BY <2>1, Recipients3 DEF Answer, Heard, States
<1>8. mishaps' \in 0 .. MaxMishaps
  BY <1>5, BaseIs, MishapIs
<1> HIDE DEF a, g
<1> QED
  BY <1>1, <1>2, <1>3, <1>4, <1>5, <1>6, <1>7, <1>8 DEF a, g

LEMMA ExecuteBase ==
  ASSUME SerialBase, Execute
  PROVE SerialBase'
<1> DEFINE e == wire[1]
<1>1. /\ wire # <<>> /\ wire' = Tail(wire) /\ e = Head(wire) /\ 1 \in DOMAIN wire /\ e.cmd \in Commands
      /\ puffer' \in [state : PufferStates, level : {0, Full}]
      /\ mishaps' \in 0 .. MaxMishaps
      /\ UNCHANGED <<statusVars, callVars, driverVars>>
  BY ExecuteIs
<1>2. /\ connected' = connected /\ state' = state /\ level' = level /\ fault' = fault
      /\ call' = call /\ since' = since /\ promise' = promise
      /\ port' = port /\ closing' = closing /\ pending' = pending /\ reply' = reply /\ step' = step
      /\ clean' = clean /\ overruled' = overruled
  BY <1>1 DEF statusVars, callVars, driverVars
<1>3. wire' \in Seq(Sent) /\ Addressed(wire', line, pending)
  BY <1>1, BaseIs, TailIs, AddressedExecute
<1>4. e.for \in Callers \union {"ignored"} /\ (e.for \in Callers => pending[e.for] = e.cmd)
  BY <1>1, BaseIs DEF Addressed
<1> HIDE DEF e
<1>5. ASSUME line' = line, garbled' = garbled
      PROVE line' \in Seq(Heard) /\ garbled' \in BOOLEAN /\ OnLine'
  BY <1>2, <1>3, <1>5, BaseIs DEF OnLine, DriverTypes
<1>6. ASSUME NEW a \in Heard, line' = Append(line, a), garbled' = garbled,
             a.for = e.for, a.state = puffer'.state, a.ok = (puffer.state # "fault"),
             a.measured = (e.cmd = "status")
      PROVE line' \in Seq(Heard) /\ garbled' \in BOOLEAN /\ OnLine'
  <2>1. line' \in Seq(Heard)
    BY <1>6, BaseIs, AppendIs
  <2>2. Addressed(wire', line', pending')
    BY <1>1, <1>2, <1>4, <1>6, BaseIs, AddressedExecute
  <2>3. a.ok => a.state # "fault"
    <3>1. puffer.state # "fault" => puffer'.state # "fault"
      BY <1>1, BaseIs, ObeyedIs, ExecuteIs DEF e
    <3> QED
      BY <1>6, <3>1
  <2>4. a.ok /\ a.for \in Callers => (pending[a.for] = "status" => a.measured)
    BY <1>4, <1>6
  <2>5. a.for # "event" /\ a.for # "unknown"
    BY <1>4, <1>6, Recipients3
  <2>6. Honest(line', pending', garbled')
    BY <1>2, <1>6, <2>3, <2>4, <2>5, BaseIs, HonestMore
  <2> QED
    BY <1>2, <1>6, <2>1, <2>2, <2>6, BaseIs DEF OnLine, DriverTypes
<1>7. ASSUME NEW a \in Heard, line' = Append(line, a), garbled' = TRUE,
             a.for = "unknown", a.state = "fault", a.ok = FALSE
      PROVE line' \in Seq(Heard) /\ garbled' \in BOOLEAN /\ OnLine'
  <2>1. line' \in Seq(Heard)
    BY <1>7, BaseIs, AppendIs
  <2>2. Addressed(wire', line', pending')
    BY <1>1, <1>2, <1>7, BaseIs, Recipients3, AddressedExecute
  <2>3. Honest(line, pending, TRUE)
    BY BaseIs DEF Honest
  <2>4. Honest(Append(line, a), pending, TRUE)
    BY <1>7, <2>3, BaseIs, HonestMore, Recipients3
  <2> QED
    BY <1>2, <1>7, <2>1, <2>2, <2>4 DEF OnLine
<1>8. line' \in Seq(Heard) /\ garbled' \in BOOLEAN /\ OnLine'
  <2>1. garbled \in BOOLEAN /\ line \in Seq(Heard)
    BY BaseIs DEF DriverTypes
  <2> QED
    BY <1>5, <1>6, <1>7, <2>1, ExecuteIs DEF e
<1>9. DeviceTypeOK'
  BY <1>2, BaseIs, StatusKept
<1>10. DriverTypes' /\ LineTypes'
  BY <1>1, <1>2, <1>3, <1>8, BaseIs DEF DriverTypes, LineTypes
<1>11. SerialCalls'
  BY <1>2, CallsSame
<1> QED
  BY <1>8, <1>9, <1>10, <1>11 DEF SerialBase

\* The puffer comes to the end of a move.
LEMMA MovesBase ==
  ASSUME SerialBase, PufferMoves
  PROVE SerialBase'
<1>1. /\ connected' = connected /\ state' = state /\ level' = level /\ fault' = fault
      /\ call' = call /\ since' = since /\ promise' = promise
      /\ port' = port /\ closing' = closing /\ pending' = pending /\ reply' = reply /\ step' = step
      /\ clean' = clean /\ overruled' = overruled
      /\ wire' = wire /\ line' = line /\ mishaps' = mishaps /\ garbled' = garbled
      /\ \/ puffer' = [puffer EXCEPT !.state = "holding"]
         \/ puffer' = [state |-> "idle", level |-> 0]
  BY DEF PufferMoves, statusVars, callVars, driverVars
<1>2. puffer' \in [state : PufferStates, level : {0, Full}]
  BY <1>1, BaseIs DEF PufferStates
<1>3. DeviceTypeOK'
  BY <1>1, BaseIs, StatusKept
<1>4. DriverTypes' /\ LineTypes'
  BY <1>1, <1>2, BaseIs DEF DriverTypes, LineTypes
<1>5. SerialCalls'
  BY <1>1, CallsSame
<1>6. OnLine'
  BY <1>1, BaseIs DEF OnLine
<1> QED
  BY <1>3, <1>4, <1>5, <1>6 DEF SerialBase

\* The puffer stops where it is, in fault or because it starts again, and says so.
LEMMA SaysIs ==
  ASSUME SerialBase, PufferFaults \/ PufferRestarts
  PROVE /\ port = "open" /\ connected' = connected /\ state' = state /\ level' = level /\ fault' = fault
        /\ call' = call /\ since' = since /\ promise' = promise
        /\ port' = port /\ closing' = closing /\ pending' = pending /\ reply' = reply /\ step' = step
        /\ clean' = clean /\ overruled' = overruled /\ garbled' = garbled
        /\ mishaps' \in 0 .. MaxMishaps
        /\ wire' = wire \/ wire' = <<>>
        /\ puffer' \in [state : PufferStates, level : {0, Full}]
        /\ puffer'.level = puffer.level /\ puffer'.state \in {"fault", "idle", "stopped"}
        /\ \E a \in Heard : /\ line' = Append(line, a) /\ a.for = "event" /\ a.state = puffer'.state
                            /\ a.ok = (a.state # "fault") /\ a.level = puffer.level
<1>1. puffer \in [state : PufferStates, level : {0, Full}] /\ puffer.level \in {0, Full}
  BY BaseIs
<1>2. ASSUME NEW ok \in BOOLEAN, NEW s \in {"fault", "idle", "stopped"},
             line' = Append(line, Answer("event", ok, s, TRUE)), ok = (s # "fault"),
             puffer' = [puffer EXCEPT !.state = s]
      PROVE /\ puffer' \in [state : PufferStates, level : {0, Full}]
            /\ puffer'.level = puffer.level /\ puffer'.state = s
            /\ \E a \in Heard : /\ line' = Append(line, a) /\ a.for = "event" /\ a.state = puffer'.state
                                /\ a.ok = (a.state # "fault") /\ a.level = puffer.level
  <2> DEFINE a == Answer("event", ok, s, TRUE)
  <2>1. a \in Heard /\ a.for = "event" /\ a.state = s /\ a.ok = ok /\ a.level = puffer.level
    BY <1>1, Recipients3 DEF Answer, Heard, States
  <2>2. /\ puffer' \in [state : PufferStates, level : {0, Full}]
        /\ puffer'.level = puffer.level /\ puffer'.state = s
    BY <1>1, <1>2 DEF PufferStates
  <2> HIDE DEF a
  <2> QED
    BY <1>2, <2>1, <2>2 DEF a
<1>3. CASE PufferFaults
  <2>1. /\ port = "open" /\ wire' = wire /\ Mishap("fault")
        /\ puffer' = [puffer EXCEPT !.state = "fault"]
        /\ line' = Append(line, Answer("event", FALSE, "fault", TRUE))
        /\ connected' = connected /\ state' = state /\ level' = level /\ fault' = fault
        /\ call' = call /\ since' = since /\ promise' = promise
        /\ port' = port /\ closing' = closing /\ pending' = pending /\ reply' = reply /\ step' = step
        /\ clean' = clean /\ overruled' = overruled /\ garbled' = garbled
    BY <1>3 DEF PufferFaults, statusVars, callVars, driverVars
  <2> QED
    BY <1>2, <2>1, MishapIs
<1>4. CASE PufferRestarts
  <2>1. PICK s \in {"idle", "stopped"} :
        /\ port = "open" /\ wire' = <<>> /\ Mishap("restart")
        /\ puffer' = [puffer EXCEPT !.state = s]
        /\ line' = Append(line, Answer("event", TRUE, s, TRUE))
        /\ connected' = connected /\ state' = state /\ level' = level /\ fault' = fault
        /\ call' = call /\ since' = since /\ promise' = promise
        /\ port' = port /\ closing' = closing /\ pending' = pending /\ reply' = reply /\ step' = step
        /\ clean' = clean /\ overruled' = overruled /\ garbled' = garbled
    BY <1>4 DEF PufferRestarts, statusVars, callVars, driverVars
  <2>2. TRUE = (s # "fault")
    OBVIOUS
  <2> QED
    BY <1>2, <2>1, <2>2, MishapIs
<1> QED
  BY <1>3, <1>4

LEMMA SaysBase ==
  ASSUME SerialBase, PufferFaults \/ PufferRestarts
  PROVE SerialBase'
<1>1. PICK a \in Heard : /\ line' = Append(line, a) /\ a.for = "event" /\ a.state = puffer'.state
                         /\ a.ok = (a.state # "fault") /\ a.level = puffer.level
  BY SaysIs
<1>2. /\ connected' = connected /\ state' = state /\ level' = level /\ fault' = fault
      /\ call' = call /\ since' = since /\ promise' = promise
      /\ port' = port /\ closing' = closing /\ pending' = pending /\ reply' = reply /\ step' = step
      /\ clean' = clean /\ overruled' = overruled /\ garbled' = garbled
      /\ mishaps' \in 0 .. MaxMishaps
      /\ wire' = wire \/ wire' = <<>>
      /\ puffer' \in [state : PufferStates, level : {0, Full}]
      /\ puffer'.state \in {"fault", "idle", "stopped"}
  BY SaysIs
<1>3. Addressed(wire', line, pending) /\ wire' \in Seq(Sent)
  <2>1. Addressed(<<>>, line, pending) /\ <<>> \in Seq(Sent)
    <3>1. DOMAIN <<>> = {}
      OBVIOUS
    <3>2. \A i \in DOMAIN line : line[i].for \in Callers => pending[line[i].for] # "none"
      BY BaseIs DEF Addressed
    <3>3. \A i, j \in DOMAIN line : line[i].for = line[j].for /\ line[i].for \in Callers => i = j
      BY BaseIs DEF Addressed
    <3> QED
      BY <3>1, <3>2, <3>3 DEF Addressed
  <2> QED
    BY <1>2, <2>1, BaseIs
<1>4. Addressed(wire', line', pending') /\ line' \in Seq(Heard)
  BY <1>1, <1>2, <1>3, BaseIs, AddressedEvent, AppendIs, Recipients3
<1>5. Honest(line', pending', garbled')
  <2>1. a.state \notin Shown /\ a.for # "unknown" /\ a.for \notin Callers
    BY <1>1, <1>2, Recipients3 DEF Shown
  <2> QED
    BY <1>1, <1>2, <2>1, BaseIs, HonestMore
<1>6. DeviceTypeOK'
  BY <1>2, BaseIs, StatusKept
<1>7. DriverTypes' /\ LineTypes'
  BY <1>2, <1>3, <1>4, BaseIs DEF DriverTypes, LineTypes
<1>8. SerialCalls'
  BY <1>2, CallsSame
<1>9. OnLine'
  BY <1>2, <1>4, <1>5, BaseIs DEF OnLine
<1> QED
  BY <1>6, <1>7, <1>8, <1>9 DEF SerialBase


-----------------------------------------------------------------------------
(* The port is opened; calls begin and return.                             *)

LEMMA DeviceKept ==
  ASSUME connected' \in BOOLEAN, state' \in States, level' \in 0 .. Full, fault' \in Faults,
         call' \in [Callers -> Operations \union {"none"}], since' \in [Callers -> SUBSET Moves],
         promise' \subseteq {"stopped", "flat"}
  PROVE DeviceTypeOK'
  BY DEF DeviceTypeOK, Faults

\* Whose call has not begun waits for nothing.
LEMMA Idle ==
  ASSUME SerialBase, NEW c \in Callers, call[c] \notin Commands \union {"disconnect"}
  PROVE pending[c] = "none"
<1>1. pending[c] # "none" => call[c] \in {pending[c], "disconnect"}
  BY DEF SerialBase, SerialCalls
<1>2. pending[c] \in Commands \union {"none"}
  BY BaseIs DEF Pending
<1> QED
  BY <1>1, <1>2

\* A call that begins.
LEMMA BeginIs ==
  ASSUME SerialBase, NEW c \in Callers, NEW op \in Operations, Begin(c, op)
  PROVE /\ promise' \subseteq {"stopped", "flat"} /\ since' \in [Callers -> SUBSET Moves]
        /\ call' \in [Callers -> Operations \union {"none"}]
        /\ "stopped" \in promise' => "stopped" \in promise /\ op \notin {"inflate", "deflate", "disconnect"}
        /\ "flat" \in promise' => "flat" \in promise /\ op # "inflate"
        /\ call[c] = "none" /\ pending[c] = "none"
        /\ c = Queue => op # "stop"
        /\ c # Queue => op \in Commands
        /\ op = "inflate" => call[Queue] # "disconnect"
        /\ op = "disconnect" => call[Direct] # "inflate"
        /\ \A k \in Callers : call'[k] = IF k = c THEN op ELSE call[k]
        /\ \A k \in Callers \ {c} : since'[k] = IF call[k] = "none" THEN {} ELSE since[k] \union MovesOf(op)
        /\ \A k \in Callers \ {c} : call[k] = "none" => since'[c] = {}
        /\ \A k \in Callers \ {c} : /\ call[k] = "disconnect" => "deflate" \in since'[c]
                                    /\ call[k] \in Moves /\ op # "stop" => call[k] \in since'[c]
                                    /\ call[k] # "inflate" => "inflate" \notin since'[c]
<1>1. DeviceTypeOK /\ call \in [Callers -> Operations \union {"none"}]
  BY BaseIs DEF DeviceTypeOK
<1>2. /\ May(c, op) /\ call' = [call EXCEPT ![c] = op] /\ since' = Disturb(c, op)
  BY DEF Begin
<1>3. /\ promise' \subseteq {"stopped", "flat"} /\ since' \in [Callers -> SUBSET Moves]
      /\ call' \in [Callers -> Operations \union {"none"}]
      /\ "stopped" \in promise' => "stopped" \in promise /\ op \notin {"inflate", "deflate", "disconnect"}
      /\ "flat" \in promise' => "flat" \in promise /\ op # "inflate"
  BY <1>1, Beginning
<1>4. call[c] = "none" /\ pending[c] = "none"
  BY <1>2, Idle, Commands4 DEF May
<1>5. /\ \A k \in Callers \ {c} : since'[k] = IF call[k] = "none" THEN {} ELSE since[k] \union MovesOf(op)
      /\ since'[c] = UNION {MovesOf(o) : o \in UnderWay(c, op)}
  BY <1>1, <1>2, DisturbTypes
<1>6. ASSUME NEW k \in Callers \ {c} PROVE UnderWay(c, op) \subseteq {call[k]}
  BY <1>6 DEF UnderWay, Callers
<1>7. MovesOf("none") = {} /\ \A o : o # "inflate" => "inflate" \notin MovesOf(o)
  BY DEF MovesOf, Moves
<1>8. ASSUME NEW k \in Callers \ {c}
      PROVE /\ call[k] = "none" => since'[c] = {}
            /\ call[k] = "disconnect" => "deflate" \in since'[c]
            /\ call[k] \in Moves /\ op # "stop" => call[k] \in since'[c]
            /\ call[k] # "inflate" => "inflate" \notin since'[c]
  <2>1. /\ call[k] = "disconnect" => "deflate" \in since'[c]
        /\ call[k] \in Moves /\ op # "stop" => call[k] \in since'[c]
    BY <1>1, <1>2, Disturbing DEF Moves
  <2>2. \A o \in UnderWay(c, op) : o = call[k]
    BY <1>6
  <2>3. call[k] = "none" => \A o \in UnderWay(c, op) : MovesOf(o) = {}
    BY <1>7, <2>2
  <2>4. call[k] = "none" => since'[c] = {}
    BY <1>5, <2>3
  <2>5. call[k] # "inflate" => "inflate" \notin since'[c]
    BY <1>5, <1>7, <2>2
  <2> QED
    BY <2>1, <2>4, <2>5
<1>9. \A k \in Callers : call'[k] = IF k = c THEN op ELSE call[k]
  BY <1>1, <1>2
<1> QED
  BY <1>2, <1>3, <1>4, <1>5, <1>8, <1>9 DEF May

\* A call that returns.
LEMMA ReturnIs ==
  ASSUME SerialBase, NEW c \in Callers, NEW ok, Return(c, ok)
  PROVE /\ promise' \subseteq {"stopped", "flat"} /\ since' \in [Callers -> SUBSET Moves]
        /\ call' \in [Callers -> Operations \union {"none"}]
        /\ "stopped" \in promise' => "stopped" \in promise \/ (ok /\ call[c] = "stop" /\ since[c] = {})
        /\ "flat" \in promise' =>
             \/ "flat" \in promise
             \/ /\ ok /\ call[c] \in {"status", "disconnect"} /\ "inflate" \notin since[c]
                /\ call[c] = "status" => ConfirmedDeflated
        /\ \A k \in Callers : /\ call'[k] = IF k = c THEN "none" ELSE call[k]
                              /\ since'[k] = IF k = c THEN {} ELSE since[k]
<1>1. DeviceTypeOK /\ call \in [Callers -> Operations \union {"none"}] /\ since \in [Callers -> SUBSET Moves]
  BY BaseIs DEF DeviceTypeOK
<1>2. call' = [call EXCEPT ![c] = "none"] /\ since' = [since EXCEPT ![c] = {}]
  BY DEF Return
<1> QED
  BY <1>1, <1>2, Returning

\* The calls, caller by caller.
CallsOfEach ==
  /\ reply[Queue] # "none" => pending[Queue] = "none" /\ call[Queue] \notin {"none", "connect"}
  /\ reply[Direct] # "none" => pending[Direct] = "none" /\ call[Direct] # "none"
  /\ pending[Queue] # "none" => call[Queue] \in {pending[Queue], "disconnect"}
  /\ pending[Direct] # "none" => call[Direct] = pending[Direct]
  /\ call[Direct] \in Commands \union {"none"} /\ call[Queue] # "stop"
  /\ step # "none" <=> call[Queue] = "disconnect"
  /\ step \in {"poll", "close"} => pending[Queue] = "none" /\ reply[Queue] = "none"
  /\ step = "confirm" => pending[Queue] \in {"status", "none"}
  /\ call[Queue] = "disconnect" =>
       /\ call[Direct] # "none" => "deflate" \in since[Direct]
       /\ call[Direct] # "inflate" /\ "stopped" \notin promise /\ "inflate" \notin since[Queue]
  /\ port = "opening" <=> call[Queue] = "connect"

LEMMA CallsAre == SerialCalls <=> CallsOfEach
<1>1. SerialCalls => CallsOfEach
  BY Recipients3 DEF SerialCalls, CallsOfEach, Commands, Moves
<1>2. CallsOfEach => SerialCalls
  BY Recipients3 DEF SerialCalls, CallsOfEach, Commands, Moves
<1> QED
  BY <1>1, <1>2

LEMMA CallsAreNext == CallsOfEach' => SerialCalls'
  BY Recipients3 DEF SerialCalls, CallsOfEach, Commands, Moves

LEMMA CallsAreAfter == SerialCalls' => CallsOfEach'
  BY Recipients3 DEF SerialCalls, CallsOfEach, Commands, Moves

LEMMA ConnectBase ==
  ASSUME SerialBase, SerialConnect
  PROVE SerialBase'
<1>1. /\ Calm /\ Begin(Queue, "connect")
      /\ port' = "opening" /\ closing' = FALSE /\ state' = "connecting" /\ fault' = "none"
      /\ wire' = <<>> /\ line' = <<>>
      /\ connected' = connected /\ level' = level /\ pending' = pending /\ reply' = reply
      /\ step' = step /\ clean' = clean /\ overruled' = overruled /\ puffer' = puffer
      /\ mishaps' = mishaps /\ garbled' = garbled
  BY DEF SerialConnect
<1>2. Queue \in Callers /\ "connect" \in Operations
  BY Recipients3 DEF Operations, Callers
<1>3. DeviceTypeOK'
  BY <1>1, <1>2, BaseIs, BeginIs, DeviceKept DEF States, Faults
<1>4. DriverTypes' /\ LineTypes'
  BY <1>1, BaseIs, Cleared DEF DriverTypes, LineTypes
<1>5. SerialCalls'
  <2>1. /\ call[Queue] = "none" /\ pending[Queue] = "none"
        /\ call'[Queue] = "connect" /\ call'[Direct] = call[Direct]
    BY <1>1, <1>2, BeginIs, Recipients3
  <2>2. SerialCalls /\ \A c \in Callers : reply[c] = "none"
    BY <1>1, BaseIs DEF Calm
  <2> QED
    BY <1>1, <2>1, <2>2, Recipients3 DEF SerialCalls
<1>6. OnLine'
  BY <1>1, Cleared DEF OnLine
<1> QED
  BY <1>3, <1>4, <1>5, <1>6 DEF SerialBase

LEMMA OpensBase ==
  ASSUME SerialBase, SerialOpens \/ SerialOpenFails
  PROVE SerialBase'
<1>1. /\ port = "opening" /\ port' \in {"none", "open"} /\ (\E ok : Return(Queue, ok))
      /\ connected' \in BOOLEAN /\ state' \in {"idle", "disconnected"} /\ level' \in {0, level}
      /\ fault' = fault /\ mishaps' \in 0 .. MaxMishaps
      /\ closing' = closing /\ pending' = pending /\ reply' = reply /\ step' = step /\ clean' = clean
      /\ overruled' = overruled /\ wire' = wire /\ line' = line /\ puffer' = puffer /\ garbled' = garbled
  <2>1. CASE SerialOpens
    BY <2>1, BaseIs DEF SerialOpens, lineVars
  <2>2. CASE SerialOpenFails
    BY <2>2, BaseIs, MishapIs DEF SerialOpenFails
  <2> QED
    BY <2>1, <2>2
<1>2. Queue \in Callers
  BY DEF Callers
<1>3. DeviceTypeOK'
  BY <1>1, <1>2, BaseIs, ReturnIs, DeviceKept DEF States
<1>4. DriverTypes' /\ LineTypes'
  BY <1>1, BaseIs DEF DriverTypes, LineTypes
<1>5. SerialCalls'
  <2>1. /\ call'[Queue] = "none" /\ call'[Direct] = call[Direct]
    BY <1>1, <1>2, ReturnIs, Recipients3
  <2>2. SerialCalls /\ call[Queue] = "connect"
    BY <1>1, BaseIs DEF SerialCalls
  <2>3. pending[Queue] = "none" /\ reply[Queue] = "none"
    BY <1>2, <2>2, Idle DEF Commands, Moves, SerialCalls
  <2> QED
    BY <1>1, <2>1, <2>2, <2>3, Recipients3 DEF SerialCalls
<1>6. OnLine'
  BY <1>1, BaseIs DEF OnLine
<1> QED
  BY <1>3, <1>4, <1>5, <1>6 DEF SerialBase

LEMMA ReturnBase ==
  ASSUME SerialBase, NEW c \in Callers, SerialReturn(c)
  PROVE SerialBase'
<1>1. /\ reply[c] # "none" /\ call[c] # "disconnect" /\ Return(c, reply[c] = "ok")
      /\ reply' = [reply EXCEPT ![c] = "none"]
      /\ connected' = connected /\ state' = state /\ level' = level /\ fault' = fault
      /\ port' = port /\ closing' = closing /\ pending' = pending /\ step' = step
      /\ clean' = clean /\ overruled' = overruled
      /\ wire' = wire /\ line' = line /\ puffer' = puffer /\ mishaps' = mishaps /\ garbled' = garbled
  BY DEF SerialReturn, statusVars, lineVars
<1>2. DeviceTypeOK'
  BY <1>1, BaseIs, ReturnIs, DeviceKept
<1>3. DriverTypes' /\ LineTypes'
  BY <1>1, BaseIs DEF DriverTypes, LineTypes
<1>4. SerialCalls'
  <2>1. \A k \in Callers : /\ call'[k] = IF k = c THEN "none" ELSE call[k]
                           /\ since'[k] = IF k = c THEN {} ELSE since[k]
                           /\ reply'[k] = IF k = c THEN "none" ELSE reply[k]
    BY <1>1, ReturnIs, BaseIs
  <2>2. "stopped" \in promise' => "stopped" \in promise \/ (call[c] = "stop" /\ since[c] = {})
    BY <1>1, ReturnIs
  <2>3. SerialCalls /\ pending[c] = "none" /\ call[c] # "none" /\ call[c] # "connect"
    BY <1>1, BaseIs DEF SerialCalls
  <2>4. CASE c = Queue
    BY <1>1, <2>1, <2>2, <2>3, <2>4, Recipients3 DEF SerialCalls
  <2>5. CASE c = Direct
    BY <1>1, <2>1, <2>2, <2>3, <2>5, Recipients3 DEF SerialCalls
  <2> QED
    BY <2>4, <2>5, Recipients3
<1>5. OnLine'
  BY <1>1, BaseIs DEF OnLine
<1> QED
  BY <1>2, <1>3, <1>4, <1>5 DEF SerialBase


\* A command is sent; whom STOP overtakes has waited.
LEMMA CommandBase ==
  ASSUME SerialBase, NEW c \in Callers, NEW op \in Commands, SerialCommand(c, op)
  PROVE SerialBase'
<1>1. /\ Calm /\ port = "open" /\ Begin(c, op) /\ Send(c, op)
      /\ connected' = connected /\ state' = state /\ level' = level /\ fault' = fault
      /\ port' = port /\ closing' = closing /\ step' = step /\ clean' = clean
      /\ puffer' = puffer /\ mishaps' = mishaps /\ garbled' = garbled
  BY DEF SerialCommand, Online, statusVars
<1>2. op \in Operations
  BY DEF Operations
<1>3. pending[c] = "none" /\ call[c] = "none"
  BY <1>1, <1>2, BeginIs
<1>4. DeviceTypeOK'
  BY <1>1, <1>2, BaseIs, BeginIs, DeviceKept
<1>5. DriverTypes' /\ LineTypes'
  <2>1. /\ pending' \in Pending /\ reply' \in [Callers -> {"none", "ok", "failed"}]
        /\ wire' \in Seq(Sent) /\ line' \in Seq(Heard) /\ overruled' = (overruled \/ op \in Moves)
    BY <1>1, <1>3, SendIs
  <2>2. overruled' \in BOOLEAN
    BY <2>1
  <2> QED
    BY <1>1, <2>1, <2>2, BaseIs DEF DriverTypes, LineTypes
<1>6. SerialCalls'
  <2>1. \A k \in Callers :
          /\ pending'[k] = IF k = c THEN op ELSE IF k \in Overtaken(op) THEN "none" ELSE pending[k]
          /\ reply'[k] = IF k = c THEN "none" ELSE IF k \in Overtaken(op) THEN "failed" ELSE "none"
    <3>1. \A k \in Callers :
            /\ pending'[k] = IF k = c THEN op ELSE IF k \in Overtaken(op) THEN "none" ELSE pending[k]
            /\ reply'[k] = IF k = c THEN "none" ELSE IF k \in Overtaken(op) THEN "failed" ELSE reply[k]
      BY <1>1, <1>3, SendIs
    <3>2. \A k \in Callers : reply[k] = "none"
      BY <1>1 DEF Calm
    <3> QED
      BY <3>1, <3>2
  <2>2. \A k \in Callers : k \in Overtaken(op) => pending[k] # "none"
    BY DEF Overtaken, Waiting
  <2>3. /\ \A k \in Callers : call'[k] = IF k = c THEN op ELSE call[k]
        /\ "stopped" \in promise' => "stopped" \in promise
        /\ c = Queue => op # "stop"
        /\ op = "inflate" => call[Queue] # "disconnect"
    BY <1>1, <1>2, BeginIs
  <2>4. SerialCalls /\ op \notin {"none", "connect", "disconnect"}
    BY BaseIs DEF Commands, Moves
  <2>5. CASE c = Queue
    <3>1. call'[Queue] = op /\ call'[Direct] = call[Direct]
      BY <2>3, <2>5, Recipients3
    <3>2. step = "none"
      BY <1>3, <2>4, <2>5 DEF SerialCalls
    <3>3. Direct \in Callers /\ Queue \in Callers /\ Queue # Direct
      BY Recipients3
    <3>4. /\ pending'[Queue] = op /\ reply'[Queue] = "none"
          /\ \/ pending'[Direct] = pending[Direct] /\ reply'[Direct] = "none"
             \/ pending'[Direct] = "none" /\ reply'[Direct] = "failed" /\ pending[Direct] # "none"
      BY <2>1, <2>2, <2>5, <3>3
    <3> QED
      BY <1>1, <1>3, <2>3, <2>4, <2>5, <3>1, <3>2, <3>4, BaseIs, CallsAre, CallsAreNext DEF CallsOfEach, Commands, Moves
  <2>6. CASE c = Direct
    <3>1. call'[Queue] = call[Queue] /\ call'[Direct] = op
      BY <2>3, <2>6, Recipients3
    <3>2. call[Queue] = "disconnect" => "deflate" \in since'[Direct] /\ "inflate" \notin since'[Queue]
      <4>1. ASSUME call[Queue] = "disconnect" PROVE "deflate" \in since'[Direct]
        BY <1>1, <1>2, <2>6, <4>1, BeginIs, Recipients3
      <4>2. ASSUME call[Queue] = "disconnect" PROVE "inflate" \notin since'[Queue]
        <5>1. since'[Queue] = since[Queue] \union MovesOf(op) /\ op # "inflate"
          <6>1. Queue \in Callers \ {c} /\ call[Queue] # "none"
            BY <2>6, <4>2, Recipients3
          <6>2. \A k \in Callers \ {c} : since'[k] = IF call[k] = "none" THEN {} ELSE since[k] \union MovesOf(op)
            BY <1>1, <1>2, BeginIs
          <6> QED
            BY <2>3, <4>2, <6>1, <6>2
        <5>2. "inflate" \notin MovesOf(op)
          BY <5>1 DEF MovesOf
        <5> QED
          BY <2>4, <4>2, <5>1, <5>2 DEF SerialCalls
      <4> QED
        BY <4>1, <4>2
    <3>3. Direct \in Callers /\ Queue \in Callers /\ Queue # Direct
      BY Recipients3
    <3>4. /\ pending'[Direct] = op /\ reply'[Direct] = "none"
          /\ \/ pending'[Queue] = pending[Queue] /\ reply'[Queue] = "none"
             \/ pending'[Queue] = "none" /\ reply'[Queue] = "failed" /\ pending[Queue] # "none"
      BY <2>1, <2>2, <2>6, <3>3
    <3> QED
      BY <1>1, <1>3, <2>3, <2>4, <2>6, <3>1, <3>2, <3>4, BaseIs, CallsAre, CallsAreNext DEF CallsOfEach, Commands, Moves
  <2> QED
    BY <2>5, <2>6, Recipients3
<1>7. OnLine'
  BY <1>1, <1>3, BaseIs, SendIs DEF OnLine
<1> QED
  BY <1>4, <1>5, <1>6, <1>7 DEF SerialBase

-----------------------------------------------------------------------------
(* disconnect.                                                             *)

LEMMA DisconnectBase ==
  ASSUME SerialBase, SerialDisconnect
  PROVE SerialBase'
<1>0. Queue \in Callers /\ Direct \in Callers /\ Queue # Direct /\ "disconnect" \in Operations
      /\ "stop" \in Commands
  BY Recipients3, Commands4 DEF Operations
<1>1. /\ Calm /\ port # "none" /\ Begin(Queue, "disconnect")
      /\ connected' = connected /\ state' = state /\ level' = level /\ fault' = fault
      /\ port' = port /\ puffer' = puffer /\ mishaps' = mishaps /\ garbled' = garbled
      /\ clean' = Online
      /\ \/ Online /\ step' = "stop" /\ Send(Queue, "stop") /\ closing' = closing
         \/ /\ ~Online /\ step' = "close" /\ closing' = TRUE /\ Settle(Waiting, "failed")
            /\ wire' = Ignored(wire, Waiting) /\ line' = Ignored(line, Waiting)
            /\ overruled' = overruled
  BY DEF SerialDisconnect, statusVars
<1>2. /\ call[Queue] = "none" /\ pending[Queue] = "none" /\ call[Direct] # "inflate"
      /\ \A k \in Callers : call'[k] = IF k = Queue THEN "disconnect" ELSE call[k]
      /\ "stopped" \notin promise' /\ "inflate" \notin since'[Queue]
      /\ call[Direct] # "none" => "deflate" \in since'[Direct]
  <2>1. MovesOf("disconnect") = {"deflate"}
    BY DEF MovesOf
  <2>2. /\ call[Queue] = "none" /\ pending[Queue] = "none" /\ call[Direct] # "inflate"
        /\ \A k \in Callers : call'[k] = IF k = Queue THEN "disconnect" ELSE call[k]
        /\ "stopped" \notin promise'
    BY <1>0, <1>1, BeginIs
  <2>3. /\ call[Direct] # "none" => since'[Direct] = since[Direct] \union MovesOf("disconnect")
        /\ call[Direct] # "inflate" => "inflate" \notin since'[Queue]
    <3>1. Direct \in Callers \ {Queue}
      BY <1>0
    <3>2. \A k \in Callers \ {Queue} :
            since'[k] = IF call[k] = "none" THEN {} ELSE since[k] \union MovesOf("disconnect")
      BY <1>0, <1>1, BeginIs
    <3>3. \A k \in Callers \ {Queue} : call[k] # "inflate" => "inflate" \notin since'[Queue]
      BY <1>0, <1>1, BeginIs
    <3> QED
      BY <3>1, <3>2, <3>3
  <2> QED
    BY <2>1, <2>2, <2>3
<1>3. DeviceTypeOK'
  BY <1>0, <1>1, BaseIs, BeginIs, DeviceKept
<1>4. SerialCalls /\ port # "opening"
  BY <1>1, <1>2, BaseIs DEF SerialCalls
<1>5. CASE Online /\ step' = "stop" /\ Send(Queue, "stop") /\ closing' = closing
  <2>1. /\ \A k \in Callers :
             /\ pending'[k] = IF k = Queue THEN "stop" ELSE IF k \in Overtaken("stop") THEN "none" ELSE pending[k]
             /\ reply'[k] = IF k = Queue THEN "none" ELSE IF k \in Overtaken("stop") THEN "failed" ELSE "none"
        /\ pending' \in Pending /\ reply' \in [Callers -> {"none", "ok", "failed"}]
        /\ wire' \in Seq(Sent) /\ line' \in Seq(Heard)
        /\ overruled' = (overruled \/ "stop" \in Moves)
        /\ Addressed(wire', line', pending') /\ Honest(line', pending', garbled')
    <3>1. \A k \in Callers : reply[k] = "none"
      BY <1>1 DEF Calm
    <3>2. /\ \A k \in Callers :
             /\ pending'[k] = IF k = Queue THEN "stop" ELSE IF k \in Overtaken("stop") THEN "none" ELSE pending[k]
             /\ reply'[k] = IF k = Queue THEN "none" ELSE IF k \in Overtaken("stop") THEN "failed" ELSE reply[k]
          /\ pending' \in Pending /\ reply' \in [Callers -> {"none", "ok", "failed"}]
          /\ wire' \in Seq(Sent) /\ line' \in Seq(Heard)
          /\ overruled' = (overruled \/ "stop" \in Moves)
          /\ Addressed(wire', line', pending') /\ Honest(line', pending', garbled')
      BY <1>0, <1>1, <1>2, <1>5, SendIs
    <3> QED
      BY <3>1, <3>2
  <2>2. overruled' \in BOOLEAN /\ clean' \in BOOLEAN
    BY <1>1, <2>1, BaseIs DEF DriverTypes, Online, DeviceTypeOK
  <2>3. DriverTypes' /\ LineTypes'
    BY <1>1, <1>5, <2>1, <2>2, BaseIs DEF DriverTypes, LineTypes
  <2>4. SerialCalls'
    <3>1. \A k \in Callers : k \in Overtaken("stop") => pending[k] # "none"
      BY DEF Overtaken, Waiting
    <3> QED
      <4>1. /\ pending'[Queue] = "stop" /\ reply'[Queue] = "none"
            /\ \/ pending'[Direct] = pending[Direct] /\ reply'[Direct] = "none"
               \/ pending'[Direct] = "none" /\ reply'[Direct] = "failed" /\ pending[Direct] # "none"
        BY <1>0, <2>1, <3>1
      <4>2. call'[Queue] = "disconnect" /\ call'[Direct] = call[Direct]
        BY <1>0, <1>2
      <4> QED
        BY <1>1, <1>2, <1>4, <1>5, <4>1, <4>2, CallsAre, CallsAreNext DEF CallsOfEach
  <2>5. OnLine'
    BY <1>1, <2>1, BaseIs DEF OnLine
  <2> QED
    BY <1>3, <2>3, <2>4, <2>5 DEF SerialBase
<1>6. CASE /\ ~Online /\ step' = "close" /\ closing' = TRUE /\ Settle(Waiting, "failed")
           /\ wire' = Ignored(wire, Waiting) /\ line' = Ignored(line, Waiting)
           /\ overruled' = overruled
  <2>0. Waiting \in SUBSET Callers /\ \A k \in Callers : k \in Waiting <=> pending[k] # "none"
    BY DEF Waiting
  <2>1. /\ pending' = Less(pending, Waiting) /\ pending' \in Pending
        /\ reply' \in [Callers -> {"none", "ok", "failed"}]
        /\ \A k \in Callers : /\ pending'[k] = IF k \in Waiting THEN "none" ELSE pending[k]
                              /\ reply'[k] = IF k \in Waiting THEN "failed" ELSE reply[k]
    BY <1>6, <2>0, BaseIs, SettleIs
  <2>2. /\ wire' \in Seq(Sent) /\ line' \in Seq(Heard)
        /\ Addressed(wire', line', pending') /\ Honest(line', pending', garbled')
    BY <1>1, <1>6, <2>0, <2>1, BaseIs, IgnoredSent, IgnoredHeard, AddressedDrop, HonestDrop
  <2>3. clean' = FALSE
    BY <1>1, <1>6
  <2>4. DriverTypes' /\ LineTypes'
    BY <1>1, <1>6, <2>1, <2>2, <2>3, BaseIs DEF DriverTypes, LineTypes
  <2>5. SerialCalls'
    <3>1. reply[Queue] = "none" /\ \A k \in Callers : reply[k] = "none"
      BY <1>0, <1>1 DEF Calm
    <3> QED
      <4>1. /\ pending'[Queue] = "none" /\ reply'[Queue] = "none"
            /\ pending'[Direct] = "none"
            /\ reply'[Direct] = "none" \/ (reply'[Direct] = "failed" /\ pending[Direct] # "none")
        BY <1>0, <1>2, <2>0, <2>1, <3>1
      <4>2. call'[Queue] = "disconnect" /\ call'[Direct] = call[Direct]
        BY <1>0, <1>2
      <4> QED
        BY <1>1, <1>2, <1>4, <1>6, <4>1, <4>2, CallsAre, CallsAreNext DEF CallsOfEach
  <2>6. OnLine'
    BY <1>1, <2>2, BaseIs DEF OnLine
  <2> QED
    BY <1>3, <2>4, <2>5, <2>6 DEF SerialBase
<1> QED
  BY <1>1, <1>5, <1>6

\* What waits is rejected, and the port is going to be closed.
LEMMA ShutIs ==
  ASSUME SerialBase, NEW ok \in BOOLEAN, Shut(ok), garbled' = garbled, pending[Queue] = "none"
  PROVE /\ step' = "close" /\ closing' = TRUE /\ clean' = (clean /\ ok) /\ overruled' = overruled
        /\ pending' = Less(pending, Waiting) /\ pending' \in Pending
        /\ reply' \in [Callers -> {"none", "ok", "failed"}]
        /\ \A k \in Callers :
             /\ pending'[k] = "none"
             /\ reply'[k] = IF k = Queue THEN "none" ELSE IF pending[k] # "none" THEN "failed" ELSE reply[k]
        /\ wire' = Ignored(wire, Waiting) /\ line' = Ignored(line, Waiting)
        /\ wire' \in Seq(Sent) /\ line' \in Seq(Heard)
        /\ Addressed(wire', line', pending') /\ Honest(line', pending', garbled')
<1>1. /\ step' = "close" /\ closing' = TRUE /\ clean' = (clean /\ ok) /\ overruled' = overruled
      /\ wire' = Ignored(wire, Waiting) /\ line' = Ignored(line, Waiting)
      /\ pending' = [c \in Callers |-> "none"]
      /\ \A k \in Callers :
           reply'[k] = IF k = Queue THEN "none" ELSE IF pending[k] # "none" THEN "failed" ELSE reply[k]
      /\ reply' = [k \in Callers |-> reply'[k]]
  BY DEF Shut, Waiting
<1>2. \A k \in Callers : pending'[k] = "none" /\ Less(pending, Waiting)[k] = "none"
  BY <1>1 DEF Less, Waiting
<1>3. pending' = Less(pending, Waiting) /\ pending' \in Pending
  BY <1>1, <1>2 DEF Less, Pending
<1>4. reply' \in [Callers -> {"none", "ok", "failed"}]
  BY <1>1, BaseIs
<1>5. Waiting \in SUBSET Callers
  BY DEF Waiting
<1>6. /\ wire' \in Seq(Sent) /\ line' \in Seq(Heard)
      /\ Addressed(wire', line', pending') /\ Honest(line', pending', garbled')
  BY <1>1, <1>3, <1>5, BaseIs, IgnoredSent, IgnoredHeard, AddressedDrop, HonestDrop
<1> QED
  BY <1>1, <1>2, <1>3, <1>4, <1>6

LEMMA ShutBase ==
  ASSUME SerialBase, NEW ok \in BOOLEAN, Shut(ok), call[Queue] = "disconnect", pending[Queue] = "none",
         UNCHANGED <<statusVars, callVars, port, puffer, mishaps, garbled>>
  PROVE SerialBase'
<1>1. /\ connected' = connected /\ state' = state /\ level' = level /\ fault' = fault
      /\ call' = call /\ since' = since /\ promise' = promise
      /\ port' = port /\ puffer' = puffer /\ mishaps' = mishaps /\ garbled' = garbled
  BY DEF statusVars, callVars
<1>2. /\ step' = "close" /\ closing' = TRUE /\ clean' = (clean /\ ok) /\ overruled' = overruled
      /\ pending' \in Pending /\ reply' \in [Callers -> {"none", "ok", "failed"}]
      /\ \A k \in Callers :
           /\ pending'[k] = "none"
           /\ reply'[k] = IF k = Queue THEN "none" ELSE IF pending[k] # "none" THEN "failed" ELSE reply[k]
      /\ wire' \in Seq(Sent) /\ line' \in Seq(Heard)
      /\ Addressed(wire', line', pending') /\ Honest(line', pending', garbled')
  BY <1>1, ShutIs
<1>3. clean' \in BOOLEAN
  BY <1>2, BaseIs DEF DriverTypes
<1>4. DriverTypes' /\ LineTypes'
  BY <1>1, <1>2, <1>3, BaseIs DEF DriverTypes, LineTypes
<1>5. SerialCalls'
  <2>1. SerialCalls /\ \A k \in Callers : pending[k] # "connect"
    BY BaseIs DEF Pending, Commands, Moves
  <2> QED
    BY <1>1, <1>2, <2>1, Recipients3 DEF SerialCalls
<1>6. OnLine'
  BY <1>1, <1>2, BaseIs DEF OnLine
<1>7. DeviceTypeOK'
  BY <1>1, BaseIs, StatusKept
<1> QED
  BY <1>4, <1>5, <1>6, <1>7 DEF SerialBase


\* How disconnect goes on: it shuts the port, or commands the next step, or waits
\* until it asks again.
FollowUp ==
  \/ \E ok \in BOOLEAN : Shut(ok) /\ (ok => step = "confirm" /\ reply[Queue] = "ok" /\ ConfirmedDeflated)
  \/ /\ Send(Queue, "deflate") /\ port = "open" /\ step = "stop" /\ step' = "deflate"
     /\ closing' = closing /\ clean' = clean
  \/ /\ Send(Queue, "status") /\ port = "open" /\ step \in {"deflate", "poll"} /\ step' = "confirm"
     /\ closing' = closing /\ clean' = clean
  \/ /\ pending' = [pending EXCEPT ![Queue] = "deflate"] /\ reply' = [reply EXCEPT ![Queue] = "none"]
     /\ wire' = Append(WithEmergencyStop(wire), [cmd |-> "deflate", for |-> Queue]) /\ line' = line
     /\ port = "open" /\ step = "stop" /\ step' = "deflate"
     /\ clean' = FALSE /\ overruled' = TRUE /\ closing' = closing
  \/ /\ step = "confirm" /\ step' = "poll" /\ reply' = [reply EXCEPT ![Queue] = "none"]
     /\ pending' = pending /\ wire' = wire /\ line' = line /\ closing' = closing /\ clean' = clean
     /\ overruled' = overruled

LEMMA FollowIs ==
  ASSUME SerialBase, DisconnectContinues \/ DisconnectPolls \/ DisconnectGivesUp
  PROVE /\ call[Queue] = "disconnect" /\ pending[Queue] = "none"
        /\ UNCHANGED <<statusVars, callVars, port, puffer, mishaps, garbled>>
        /\ FollowUp
<1>1. SerialCalls /\ Queue \in Callers
  BY BaseIs, Recipients3
<1>2. TRUE \in BOOLEAN /\ FALSE \in BOOLEAN
  OBVIOUS
<1>3. CASE DisconnectContinues
  <2>1. call[Queue] = "disconnect" /\ pending[Queue] = "none"
    BY <1>1, <1>3 DEF DisconnectContinues, SerialCalls
  <2>2. UNCHANGED <<statusVars, callVars, port, puffer, mishaps, garbled>>
    BY <1>3 DEF DisconnectContinues
  <2> SUFFICES FollowUp
    BY <2>1, <2>2
  <2>3. CASE step = "stop" /\ reply[Queue] = "ok" /\ Proceed("deflate", "deflate")
    BY <2>3, <1>2 DEF Proceed, Online, FollowUp
  <2>4. CASE /\ step = "stop" /\ reply[Queue] = "failed"
             /\ IF Online
                THEN /\ pending' = [pending EXCEPT ![Queue] = "deflate"]
                     /\ reply' = [reply EXCEPT ![Queue] = "none"]
                     /\ wire' = Append(WithEmergencyStop(wire), [cmd |-> "deflate", for |-> Queue])
                     /\ step' = "deflate" /\ clean' = FALSE /\ overruled' = TRUE
                     /\ UNCHANGED <<closing, line>>
                ELSE Shut(FALSE)
    BY <2>4, <1>2 DEF Online, FollowUp
  <2>5. CASE step = "deflate" /\ reply[Queue] = "ok" /\ Proceed("confirm", "status")
    BY <2>5, <1>2 DEF Proceed, Online, FollowUp
  <2>6. CASE Shut(FALSE)
    BY <2>6, <1>2 DEF FollowUp
  <2>7. CASE step = "confirm" /\ reply[Queue] = "ok" /\ ConfirmedDeflated /\ Shut(TRUE)
    BY <2>7, <1>2 DEF FollowUp
  <2>8. CASE /\ step = "confirm" /\ step' = "poll"
             /\ reply' = [reply EXCEPT ![Queue] = "none"]
             /\ UNCHANGED <<pending, wire, line, closing, clean, overruled>>
    BY <2>8 DEF FollowUp
  <2> QED
    BY <1>3, <2>3, <2>4, <2>5, <2>6, <2>7, <2>8 DEF DisconnectContinues
<1>4. CASE DisconnectPolls
  <2>1. call[Queue] = "disconnect" /\ pending[Queue] = "none"
    BY <1>1, <1>4 DEF DisconnectPolls, SerialCalls
  <2>2. FollowUp
    BY <1>2, <1>4 DEF DisconnectPolls, Proceed, Online, FollowUp
  <2> QED
    BY <1>4, <2>1, <2>2 DEF DisconnectPolls
<1>5. CASE DisconnectGivesUp
  <2>1. call[Queue] = "disconnect" /\ pending[Queue] = "none"
    BY <1>1, <1>5 DEF DisconnectGivesUp, SerialCalls
  <2>2. FollowUp
    BY <1>2, <1>5 DEF DisconnectGivesUp, FollowUp
  <2> QED
    BY <1>5, <2>1, <2>2 DEF DisconnectGivesUp
<1> QED
  BY <1>3, <1>4, <1>5

\* STOP has failed: it is written once more, and DEFLATE is commanded all the same.
LEMMA StopFailedIs ==
  ASSUME SerialBase, pending[Queue] = "none", port = "open", line' = line, garbled' = garbled,
         pending' = [pending EXCEPT ![Queue] = "deflate"],
         reply' = [reply EXCEPT ![Queue] = "none"],
         wire' = Append(WithEmergencyStop(wire), [cmd |-> "deflate", for |-> Queue])
  PROVE /\ wire' = Append(Append(wire, EmergencyStop), [cmd |-> "deflate", for |-> Queue])
        /\ Append(wire, EmergencyStop) \in Seq(Sent) /\ [cmd |-> "deflate", for |-> Queue] \in Sent
        /\ wire' \in Seq(Sent) /\ pending' \in Pending
        /\ reply' \in [Callers -> {"none", "ok", "failed"}]
        /\ pending'[Queue] = "deflate" /\ pending'[Direct] = pending[Direct]
        /\ reply'[Queue] = "none" /\ reply'[Direct] = reply[Direct]
        /\ Addressed(wire', line', pending') /\ Honest(line', pending', garbled')
<1>1. Queue \in Callers /\ Direct \in Callers /\ Queue # Direct /\ "deflate" \in Commands
  BY Recipients3, Commands4
<1>2. WithEmergencyStop(wire) = Append(wire, EmergencyStop) /\ Append(wire, EmergencyStop) \in Seq(Sent)
  BY BaseIs, EmergencyIs
<1>3. [cmd |-> "deflate", for |-> Queue] \in Sent
  BY <1>1, Recipients3 DEF Sent
<1>4. Addressed(Append(wire, EmergencyStop), line, pending)
  <2>1. /\ Addressed(wire, line, pending) /\ wire \in Seq(Sent) /\ line \in Seq(Heard)
        /\ pending \in Pending
    BY BaseIs
  <2>2. Addressed(WithEmergencyStop(wire), line, pending)
    BY <2>1, AddressedEmergency
  <2> QED
    BY <1>2, <2>2
<1>5. Addressed(wire', line', pending')
  BY <1>1, <1>2, <1>4, BaseIs, AddressedSend
<1>6. /\ pending' \in Pending /\ reply' \in [Callers -> {"none", "ok", "failed"}]
      /\ pending'[Queue] = "deflate" /\ pending'[Direct] = pending[Direct]
      /\ reply'[Queue] = "none" /\ reply'[Direct] = reply[Direct]
  BY <1>1, BaseIs DEF Pending
<1>7. Honest(line', pending', garbled')
  <2>1. \A i \in DOMAIN line : line[i].for # Queue
    BY <1>1, BaseIs DEF Addressed
  <2>2. \A k \in Callers : \/ pending'[k] = pending[k] \/ pending'[k] = "none"
                           \/ \A i \in DOMAIN line : line[i].for # k
    BY <1>1, <1>6, <2>1, Recipients3
  <2>3. line \in Seq(Heard) /\ Honest(line, pending, garbled)
    BY BaseIs
  <2>4. Honest(line, pending', garbled)
    BY <2>2, <2>3, HonestWaits
  <2> QED
    BY <2>4
<1>8. wire' \in Seq(Sent)
  BY <1>2, <1>3, BaseIs, AppendIs
<1> QED
  BY <1>2, <1>3, <1>5, <1>6, <1>7, <1>8

\* Nothing is overtaken but by STOP.
LEMMA Overtaking ==
  /\ \A op : op # "stop" => Overtaken(op) = {}
  /\ \A op : Overtaken(op) \subseteq Callers
  /\ \A op : \A k \in Callers : k \in Overtaken(op) => pending[k] # "none" /\ pending[k] # "stop"
  BY DEF Overtaken, Waiting

LEMMA FollowBase ==
  ASSUME SerialBase, DisconnectContinues \/ DisconnectPolls \/ DisconnectGivesUp
  PROVE SerialBase'
<1>1. /\ call[Queue] = "disconnect" /\ pending[Queue] = "none"
      /\ UNCHANGED <<statusVars, callVars, port, puffer, mishaps, garbled>>
      /\ FollowUp
  BY FollowIs
<1>2. /\ connected' = connected /\ state' = state /\ level' = level /\ fault' = fault
      /\ call' = call /\ since' = since /\ promise' = promise
      /\ port' = port /\ puffer' = puffer /\ mishaps' = mishaps /\ garbled' = garbled
  BY <1>1 DEF statusVars, callVars
<1>3. DeviceTypeOK' /\ CallsOfEach
  BY <1>2, BaseIs, StatusKept, CallsAre
<1>4. ASSUME NEW ok \in BOOLEAN, Shut(ok) PROVE SerialBase'
  BY <1>1, <1>4, ShutBase
<1>5. ASSUME NEW op \in {"deflate", "status"}, Send(Queue, op), port = "open",
             step' = IF op = "deflate" THEN "deflate" ELSE "confirm",
             closing' = closing, clean' = clean
      PROVE SerialBase'
  <2>0. op \in Commands /\ Queue \in Callers /\ op # "stop"
    BY Commands4, Recipients3
  <2>1. /\ \A k \in Callers :
             /\ pending'[k] = IF k = Queue THEN op ELSE IF k \in Overtaken(op) THEN "none" ELSE pending[k]
             /\ reply'[k] = IF k = Queue THEN "none" ELSE IF k \in Overtaken(op) THEN "failed" ELSE reply[k]
        /\ pending' \in Pending /\ reply' \in [Callers -> {"none", "ok", "failed"}]
        /\ wire' \in Seq(Sent) /\ line' \in Seq(Heard)
        /\ overruled' = (overruled \/ op \in Moves)
        /\ Addressed(wire', line', pending') /\ Honest(line', pending', garbled')
    BY <1>1, <1>2, <1>5, <2>0, SendIs
  <2>2. /\ pending'[Queue] = op /\ reply'[Queue] = "none"
        /\ pending'[Direct] = pending[Direct] /\ reply'[Direct] = reply[Direct]
    BY <2>0, <2>1, Overtaking, Recipients3
  <2>3. overruled' \in BOOLEAN
    BY <2>1
  <2>4. step' \in {"deflate", "confirm"}
    BY <1>5
  <2>5. DriverTypes' /\ LineTypes'
    BY <1>2, <1>5, <2>1, <2>3, <2>4, BaseIs DEF DriverTypes, LineTypes
  <2>6. SerialCalls'
    BY <1>1, <1>2, <1>3, <1>5, <2>2, CallsAreNext DEF CallsOfEach
  <2>7. OnLine'
    BY <1>2, <2>1, BaseIs DEF OnLine
  <2> QED
    BY <1>3, <2>5, <2>6, <2>7 DEF SerialBase
<1>6. CASE /\ pending' = [pending EXCEPT ![Queue] = "deflate"] /\ reply' = [reply EXCEPT ![Queue] = "none"]
           /\ wire' = Append(WithEmergencyStop(wire), [cmd |-> "deflate", for |-> Queue]) /\ line' = line
           /\ port = "open" /\ step = "stop" /\ step' = "deflate"
           /\ clean' = FALSE /\ overruled' = TRUE /\ closing' = closing
  <2>1. /\ wire' \in Seq(Sent) /\ pending' \in Pending
        /\ reply' \in [Callers -> {"none", "ok", "failed"}]
        /\ pending'[Queue] = "deflate" /\ pending'[Direct] = pending[Direct]
        /\ reply'[Queue] = "none" /\ reply'[Direct] = reply[Direct]
        /\ Addressed(wire', line', pending') /\ Honest(line', pending', garbled')
    BY <1>1, <1>2, <1>6, StopFailedIs
  <2>2. DriverTypes' /\ LineTypes'
    BY <1>2, <1>6, <2>1, BaseIs DEF DriverTypes, LineTypes
  <2>3. SerialCalls'
    BY <1>1, <1>2, <1>3, <1>6, <2>1, CallsAreNext DEF CallsOfEach
  <2>4. OnLine'
    BY <1>2, <2>1, BaseIs DEF OnLine
  <2> QED
    BY <1>3, <2>2, <2>3, <2>4 DEF SerialBase
<1>7. CASE /\ step = "confirm" /\ step' = "poll" /\ reply' = [reply EXCEPT ![Queue] = "none"]
           /\ pending' = pending /\ wire' = wire /\ line' = line /\ closing' = closing /\ clean' = clean
           /\ overruled' = overruled
  <2>1. /\ reply' \in [Callers -> {"none", "ok", "failed"}]
        /\ reply'[Queue] = "none" /\ reply'[Direct] = reply[Direct]
    BY <1>7, BaseIs, Recipients3
  <2>2. DriverTypes' /\ LineTypes'
    BY <1>2, <1>7, <2>1, BaseIs DEF DriverTypes, LineTypes
  <2>3. SerialCalls'
    BY <1>1, <1>2, <1>3, <1>7, <2>1, CallsAreNext DEF CallsOfEach
  <2>4. OnLine'
    BY <1>2, <1>7, BaseIs DEF OnLine
  <2> QED
    BY <1>3, <2>2, <2>3, <2>4 DEF SerialBase
<1> QED
  BY <1>1, <1>4, <1>5, <1>6, <1>7 DEF FollowUp

LEMMA EndsBase ==
  ASSUME SerialBase, NEW ok \in BOOLEAN, DisconnectEnds(ok)
  PROVE SerialBase'
<1>1. /\ step = "close" /\ port' = "none" /\ step' = "none" /\ clean' = TRUE
      /\ connected' = FALSE /\ state' = "disconnected" /\ wire' = <<>> /\ line' = <<>>
      /\ Return(Queue, clean /\ ok)
      /\ level' = level /\ fault' = fault /\ closing' = closing /\ pending' = pending /\ reply' = reply
      /\ overruled' = overruled /\ puffer' = puffer /\ garbled' = garbled
      /\ mishaps' = mishaps \/ Mishap("error")
  BY DEF DisconnectEnds
<1>2. Queue \in Callers /\ CallsOfEach /\ call[Queue] = "disconnect"
  BY <1>1, BaseIs, CallsAre, Recipients3 DEF CallsOfEach
<1>3. mishaps' \in 0 .. MaxMishaps
  BY <1>1, BaseIs, MishapIs
<1>4. DeviceTypeOK'
  BY <1>1, <1>2, BaseIs, ReturnIs, DeviceKept DEF States
<1>5. DriverTypes' /\ LineTypes'
  BY <1>1, <1>3, BaseIs, Cleared DEF DriverTypes, LineTypes
<1>6. SerialCalls'
  <2>1. call'[Queue] = "none" /\ call'[Direct] = call[Direct]
    BY <1>1, <1>2, ReturnIs, Recipients3
  <2> QED
    BY <1>1, <1>2, <2>1, CallsAreNext DEF CallsOfEach
<1>7. OnLine'
  BY <1>1, BaseIs, Cleared DEF OnLine
<1> QED
  BY <1>4, <1>5, <1>6, <1>7 DEF SerialBase

LEMMA SerialBaseKept == SerialBase /\ SerialNext => SerialBase'
  BY ConnectBase, OpensBase, ReturnBase, TimeoutBase, WriteFailsBase, CommandBase, EmergencyFailsBase,
     ReceiveBase, ErrorBase, UnpluggedBase, DisconnectBase, FollowBase, EndsBase, ExecuteBase,
     MovesBase, SaysBase DEF SerialNext


-----------------------------------------------------------------------------
(* What is taken off the line leaves the rest in its order.                *)

\* w has some of the commands of v, and y some of the answers of x, in their
\* order; some of them are for nobody any more.
Fewer(w, v) ==
  \E o \in [DOMAIN w -> DOMAIN v] :
    /\ \A i \in DOMAIN w : w[i].cmd = v[o[i]].cmd /\ w[i].for \in {v[o[i]].for, "ignored"}
    /\ \A i, j \in DOMAIN w : i < j => o[i] < o[j]
FewerHeard(y, x) ==
  \E o \in [DOMAIN y -> DOMAIN x] :
    /\ \A i \in DOMAIN y : /\ y[i].state = x[o[i]].state /\ y[i].level = x[o[i]].level
                           /\ y[i].for \in {x[o[i]].for, "ignored"}
    /\ \A i, j \in DOMAIN y : i < j => o[i] < o[j]

LEMMA FewerSame ==
  /\ \A w \in Seq(Sent) : Fewer(w, w) /\ Fewer(<<>>, w)
  /\ \A l \in Seq(Heard) : FewerHeard(l, l) /\ FewerHeard(<<>>, l)
<1>1. ASSUME NEW w \in Seq(Sent) PROVE Fewer(w, w)
  <2> DEFINE o == [i \in DOMAIN w |-> i]
  <2>1. o \in [DOMAIN w -> DOMAIN w] /\ \A i \in DOMAIN w : o[i] = i
    OBVIOUS
  <2> HIDE DEF o
  <2> QED
    BY <2>1 DEF Fewer
<1>2. ASSUME NEW l \in Seq(Heard) PROVE FewerHeard(l, l)
  <2> DEFINE o == [i \in DOMAIN l |-> i]
  <2>1. o \in [DOMAIN l -> DOMAIN l] /\ \A i \in DOMAIN l : o[i] = i
    OBVIOUS
  <2> HIDE DEF o
  <2> QED
    BY <2>1 DEF FewerHeard
<1>3. ASSUME NEW w PROVE Fewer(<<>>, w) /\ FewerHeard(<<>>, w)
  <2> DEFINE o == [i \in DOMAIN <<>> |-> i]
  <2>1. DOMAIN <<>> = {}
    OBVIOUS
  <2>2. o \in [DOMAIN <<>> -> DOMAIN w]
    BY <2>1
  <2> HIDE DEF o
  <2> QED
    BY <2>1, <2>2 DEF Fewer, FewerHeard
<1> QED
  BY <1>1, <1>2, <1>3

LEMMA FewerIgnored ==
  ASSUME NEW w \in Seq(Sent), NEW l \in Seq(Heard), NEW cs
  PROVE Fewer(Ignored(w, cs), w) /\ FewerHeard(Ignored(l, cs), l)
<1>1. Fewer(Ignored(w, cs), w)
  <2> DEFINE x == Ignored(w, cs)
             o == [i \in DOMAIN x |-> i]
  <2>1. /\ DOMAIN x = DOMAIN w
        /\ \A i \in DOMAIN x : x[i].cmd = w[i].cmd /\ x[i].for \in {w[i].for, "ignored"}
    BY IgnoredSent
  <2> HIDE DEF x
  <2>2. o \in [DOMAIN x -> DOMAIN w] /\ \A i \in DOMAIN x : o[i] = i
    BY <2>1
  <2> HIDE DEF o
  <2> QED
    BY <2>1, <2>2 DEF Fewer, x
<1>2. FewerHeard(Ignored(l, cs), l)
  <2> DEFINE x == Ignored(l, cs)
             o == [i \in DOMAIN x |-> i]
  <2>1. /\ DOMAIN x = DOMAIN l
        /\ \A i \in DOMAIN x : /\ x[i].state = l[i].state /\ x[i].level = l[i].level
                               /\ x[i].for \in {l[i].for, "ignored"}
    BY IgnoredHeard
  <2> HIDE DEF x
  <2>2. o \in [DOMAIN x -> DOMAIN l] /\ \A i \in DOMAIN x : o[i] = i
    BY <2>1
  <2> HIDE DEF o
  <2> QED
    BY <2>1, <2>2 DEF FewerHeard, x
<1> QED
  BY <1>1, <1>2

LEMMA FewerTail ==
  /\ \A w \in Seq(Sent) : w # <<>> => Fewer(Tail(w), w) /\ Fewer(SubSeq(w, 1, Len(w) - 1), w)
  /\ \A l \in Seq(Heard) : l # <<>> => FewerHeard(Tail(l), l)
<1>1. ASSUME NEW w \in Seq(Sent), w # <<>> PROVE Fewer(Tail(w), w)
  <2> DEFINE x == Tail(w)
             o == [i \in DOMAIN x |-> i + 1]
  <2>1. DOMAIN x \subseteq Nat /\ \A i \in DOMAIN x : i + 1 \in DOMAIN w /\ x[i] = w[i + 1]
    BY <1>1, TailIs
  <2> HIDE DEF x
  <2>2. o \in [DOMAIN x -> DOMAIN w] /\ \A i \in DOMAIN x : o[i] = i + 1
    BY <2>1
  <2> HIDE DEF o
  <2> QED
    BY <2>1, <2>2 DEF Fewer, x
<1>2. ASSUME NEW w \in Seq(Sent), w # <<>> PROVE Fewer(SubSeq(w, 1, Len(w) - 1), w)
  <2> DEFINE x == SubSeq(w, 1, Len(w) - 1)
             o == [i \in DOMAIN x |-> i]
  <2>1. \A i \in DOMAIN x : i \in DOMAIN w /\ x[i] = w[i]
    BY <1>2, FrontIs
  <2> HIDE DEF x
  <2>2. o \in [DOMAIN x -> DOMAIN w] /\ \A i \in DOMAIN x : o[i] = i
    BY <2>1
  <2> HIDE DEF o
  <2> QED
    BY <2>1, <2>2 DEF Fewer, x
<1>3. ASSUME NEW l \in Seq(Heard), l # <<>> PROVE FewerHeard(Tail(l), l)
  <2> DEFINE x == Tail(l)
             o == [i \in DOMAIN x |-> i + 1]
  <2>1. DOMAIN x \subseteq Nat /\ \A i \in DOMAIN x : i + 1 \in DOMAIN l /\ x[i] = l[i + 1]
    BY <1>3, TailIs
  <2> HIDE DEF x
  <2>2. o \in [DOMAIN x -> DOMAIN l] /\ \A i \in DOMAIN x : o[i] = i + 1
    BY <2>1
  <2> HIDE DEF o
  <2>3. \A i, j \in DOMAIN x : i < j => o[i] < o[j]
    BY <2>1, <2>2
  <2>4. \A i \in DOMAIN x : x[i] = l[o[i]]
    BY <2>1, <2>2
  <2>5. FewerHeard(x, l)
    BY <2>2, <2>3, <2>4 DEF FewerHeard
  <2> QED
    BY <2>5 DEF x
<1> QED
  BY <1>1, <1>2, <1>3

LEMMA FewerWithout ==
  ASSUME NEW w \in Seq(Sent), NEW k \in DOMAIN w
  PROVE Fewer(Without(w, k), w)
<1> DEFINE x == Without(w, k)
           o == [i \in DOMAIN x |-> IF i < k THEN i ELSE i + 1]
<1>1. /\ DOMAIN x = 1 .. Len(w) - 1 /\ DOMAIN w = 1 .. Len(w) /\ Len(w) \in Nat \ {0}
      /\ \A i \in 1 .. Len(w) - 1 : x[i] = IF i < k THEN w[i] ELSE w[i + 1]
  BY WithoutIs
<1> HIDE DEF x
<1>2. \A i \in DOMAIN x : o[i] = IF i < k THEN i ELSE i + 1
  OBVIOUS
<1>3. \A i \in DOMAIN x : (IF i < k THEN i ELSE i + 1) \in DOMAIN w
  BY <1>1
<1>4. o \in [DOMAIN x -> DOMAIN w]
  BY <1>3
<1> HIDE DEF o
<1>5. \A i \in DOMAIN x : x[i] = w[o[i]]
  BY <1>1, <1>2
<1>6. \A i, j \in DOMAIN x : i < j => o[i] < o[j]
  BY <1>1, <1>2
<1> QED
  BY <1>4, <1>5, <1>6 DEF Fewer, x

-----------------------------------------------------------------------------
(* What holds of the line.                                                 *)

\* Nothing on the line makes the puffer move, or reports that it does.
Quiet(w) == \A i \in DOMAIN w : w[i].cmd \notin Moves
Settled(l) == \A i \in DOMAIN l : l[i].for \in Callers \union {"event"} => l[i].state \notin Shown

\* Nobody's answer comes before that to the STOP of Direct, and nothing moves the
\* puffer after it.
Coming(w, l) ==
  \A i \in DOMAIN w : w[i].for = Direct =>
    /\ \A j \in DOMAIN w : /\ j > i => w[j].cmd \notin Moves
                           /\ j < i => w[j].for \notin Callers
    /\ \A j \in DOMAIN l : l[j].for \notin Callers

\* The command of c is not followed by one that inflates.
NoInflate(w) == \A i \in DOMAIN w : w[i].cmd # "inflate"
NoneAfter(w, c) ==
  \A i, j \in DOMAIN w : w[i].for = c /\ i < j => w[j].cmd # "inflate"

\* An answer that reports no air is true at a puffer of the level n, from the
\* answer to c on.
Bears(l, n) == \A i \in DOMAIN l : l[i].level = 0 => n = 0
BearsFrom(l, c, n) ==
  \A i, j \in DOMAIN l : l[i].for = c /\ i <= j /\ l[j].level = 0 => n = 0
Awaits(l, c) == \E i \in DOMAIN l : l[i].for = c

LEMMA FewerRests ==
  ASSUME NEW w \in Seq(Sent), NEW v \in Seq(Sent), NEW y \in Seq(Heard), NEW x \in Seq(Heard),
         Fewer(w, v), FewerHeard(y, x)
  PROVE /\ Quiet(v) => Quiet(w)
        /\ Settled(x) => Settled(y)
        /\ Coming(v, x) => Coming(w, y)
        /\ NoInflate(v) => NoInflate(w)
        /\ \A c \in Callers : NoneAfter(v, c) => NoneAfter(w, c)
        /\ \A n : Bears(x, n) => Bears(y, n)
        /\ \A c \in Callers : \A n : BearsFrom(x, c, n) => BearsFrom(y, c, n)
        /\ \A c \in Callers : Awaits(y, c) => Awaits(x, c)
<1>1. PICK o \in [DOMAIN w -> DOMAIN v] :
        /\ \A i \in DOMAIN w : w[i].cmd = v[o[i]].cmd /\ w[i].for \in {v[o[i]].for, "ignored"}
        /\ \A i, j \in DOMAIN w : i < j => o[i] < o[j]
  BY DEF Fewer
<1>2. PICK p \in [DOMAIN y -> DOMAIN x] :
        /\ \A i \in DOMAIN y : /\ y[i].state = x[p[i]].state /\ y[i].level = x[p[i]].level
                               /\ y[i].for \in {x[p[i]].for, "ignored"}
        /\ \A i, j \in DOMAIN y : i < j => p[i] < p[j]
  BY DEF FewerHeard
<1>3. /\ DOMAIN w \subseteq Nat /\ DOMAIN v \subseteq Nat /\ DOMAIN y \subseteq Nat /\ DOMAIN x \subseteq Nat
      /\ \A i \in DOMAIN w : o[i] \in DOMAIN v
      /\ \A i \in DOMAIN y : p[i] \in DOMAIN x
  OBVIOUS
<1>4. "ignored" \notin Callers /\ Direct \in Callers
  BY Recipients3
<1>5. /\ \A i \in DOMAIN w : w[i].for \in Callers => v[o[i]].for = w[i].for
      /\ \A i \in DOMAIN y : y[i].for \in Callers \union {"event"} => x[p[i]].for = y[i].for
  BY <1>1, <1>2, <1>4
<1>6. Quiet(v) => Quiet(w)
  BY <1>1, <1>3 DEF Quiet
<1>7. Settled(x) => Settled(y)
  BY <1>2, <1>3, <1>5 DEF Settled
<1>8. Coming(v, x) => Coming(w, y)
  <2> SUFFICES ASSUME Coming(v, x), NEW i \in DOMAIN w, w[i].for = Direct
               PROVE /\ \A j \in DOMAIN w : /\ j > i => w[j].cmd \notin Moves
                                            /\ j < i => w[j].for \notin Callers
                     /\ \A j \in DOMAIN y : y[j].for \notin Callers
    BY DEF Coming
  <2>1. /\ v[o[i]].for = Direct /\ o[i] \in DOMAIN v
        /\ \A j \in DOMAIN v : /\ j > o[i] => v[j].cmd \notin Moves
                               /\ j < o[i] => v[j].for \notin Callers
        /\ \A j \in DOMAIN x : x[j].for \notin Callers
    BY <1>3, <1>4, <1>5 DEF Coming
  <2>2. ASSUME NEW j \in DOMAIN w, j > i PROVE w[j].cmd \notin Moves
    <3>1. o[i] < o[j] /\ o[j] \in DOMAIN v
      BY <1>1, <1>3, <2>2
    <3> QED
      BY <1>1, <1>3, <2>1, <3>1
  <2>3. ASSUME NEW j \in DOMAIN w, j < i PROVE w[j].for \notin Callers
    <3>1. o[j] < o[i] /\ o[j] \in DOMAIN v
      BY <1>1, <1>3, <2>3
    <3> QED
      BY <1>5, <2>1, <3>1
  <2>4. ASSUME NEW j \in DOMAIN y PROVE y[j].for \notin Callers
    BY <1>3, <1>5, <2>1
  <2> QED
    BY <2>2, <2>3, <2>4
<1>9. NoInflate(v) => NoInflate(w)
  BY <1>1, <1>3 DEF NoInflate
<1>10. ASSUME NEW c \in Callers, NoneAfter(v, c) PROVE NoneAfter(w, c)
  <2> SUFFICES ASSUME NEW i \in DOMAIN w, NEW j \in DOMAIN w, w[i].for = c, i < j
               PROVE w[j].cmd # "inflate"
    BY DEF NoneAfter
  <2>1. v[o[i]].for = c /\ o[i] \in DOMAIN v /\ o[j] \in DOMAIN v /\ o[i] < o[j]
    BY <1>1, <1>3, <1>5
  <2> QED
    BY <1>1, <1>10, <2>1 DEF NoneAfter
<1>11. ASSUME NEW n, Bears(x, n) PROVE Bears(y, n)
  BY <1>2, <1>3, <1>11 DEF Bears
<1>12. ASSUME NEW c \in Callers, NEW n, BearsFrom(x, c, n) PROVE BearsFrom(y, c, n)
  <2> SUFFICES ASSUME NEW i \in DOMAIN y, NEW j \in DOMAIN y, y[i].for = c, i <= j, y[j].level = 0
               PROVE n = 0
    BY DEF BearsFrom
  <2>1. x[p[i]].for = c /\ x[p[j]].level = 0 /\ p[i] \in DOMAIN x /\ p[j] \in DOMAIN x
    BY <1>2, <1>3, <1>5
  <2>2. p[i] <= p[j]
    <3>1. i \in Nat /\ j \in Nat /\ p[i] \in Nat /\ p[j] \in Nat
      BY <1>3
    <3>2. i < j => p[i] < p[j]
      BY <1>2
    <3> QED
      BY <3>1, <3>2
  <2> QED
    BY <1>12, <2>1, <2>2 DEF BearsFrom
<1>13. \A c \in Callers : Awaits(y, c) => Awaits(x, c)
  BY <1>3, <1>5 DEF Awaits
<1> QED
  BY <1>6, <1>7, <1>8, <1>9, <1>10, <1>11, <1>12, <1>13

\* A command is added.
LEMMA MoreRests ==
  ASSUME NEW w \in Seq(Sent), NEW l, NEW e \in Sent
  PROVE /\ Quiet(w) /\ e.cmd \notin Moves => Quiet(Append(w, e))
        /\ Coming(w, l) /\ e.cmd \notin Moves /\ e.for # Direct => Coming(Append(w, e), l)
        /\ NoInflate(w) /\ e.cmd # "inflate" => NoInflate(Append(w, e))
        /\ \A c : NoneAfter(w, c) /\ e.cmd # "inflate" => NoneAfter(Append(w, e), c)
        /\ \A c : (\A i \in DOMAIN w : w[i].for # c) => NoneAfter(Append(w, e), c)
<1> DEFINE v == Append(w, e)
<1>1. /\ DOMAIN v = 1 .. Len(w) + 1 /\ DOMAIN w = 1 .. Len(w) /\ Len(w) \in Nat
      /\ \A i \in 1 .. Len(w) : v[i] = w[i]
      /\ v[Len(w) + 1] = e
  BY AppendIs
<1> HIDE DEF v
<1>2. /\ DOMAIN v \subseteq Nat
      /\ \A i \in DOMAIN v : (i \in DOMAIN w /\ v[i] = w[i]) \/ (i = Len(w) + 1 /\ v[i] = e)
      /\ \A i, j \in DOMAIN v : i < j => i \in DOMAIN w /\ v[i] = w[i]
  BY <1>1
<1>3. Quiet(w) /\ e.cmd \notin Moves => Quiet(v)
  BY <1>2 DEF Quiet
<1>4. Coming(w, l) /\ e.cmd \notin Moves /\ e.for # Direct => Coming(v, l)
  BY <1>2 DEF Coming
<1>5. NoInflate(w) /\ e.cmd # "inflate" => NoInflate(v)
  BY <1>2 DEF NoInflate
<1>6. \A c : NoneAfter(w, c) /\ e.cmd # "inflate" => NoneAfter(v, c)
  BY <1>2 DEF NoneAfter
<1>7. \A c : (\A i \in DOMAIN w : w[i].for # c) => NoneAfter(v, c)
  BY <1>2 DEF NoneAfter
<1> QED
  BY <1>3, <1>4, <1>5, <1>6, <1>7 DEF v

\* An answer or an event is added.
LEMMA MoreHeard ==
  ASSUME NEW w, NEW l \in Seq(Heard), NEW a \in Heard
  PROVE /\ Settled(l) /\ (a.for \in Callers \union {"event"} => a.state \notin Shown) => Settled(Append(l, a))
        /\ Coming(w, l) /\ a.for \notin Callers => Coming(w, Append(l, a))
        /\ (\A i \in DOMAIN w : w[i].for # Direct) => Coming(w, Append(l, a))
        /\ \A n : Bears(l, n) /\ (a.level = 0 => n = 0) => Bears(Append(l, a), n)
        /\ \A c, n : BearsFrom(l, c, n) /\ (a.level = 0 => n = 0) => BearsFrom(Append(l, a), c, n)
        /\ \A c : Awaits(Append(l, a), c) => Awaits(l, c) \/ a.for = c
<1> DEFINE y == Append(l, a)
<1>1. /\ DOMAIN y = 1 .. Len(l) + 1 /\ DOMAIN l = 1 .. Len(l) /\ Len(l) \in Nat
      /\ \A j \in 1 .. Len(l) : y[j] = l[j]
      /\ y[Len(l) + 1] = a
  BY AppendIs
<1> HIDE DEF y
<1>2. /\ DOMAIN y \subseteq Nat
      /\ \A j \in DOMAIN y : (j \in DOMAIN l /\ y[j] = l[j]) \/ (j = Len(l) + 1 /\ y[j] = a)
      /\ \A i, j \in DOMAIN y : i <= j /\ j \in DOMAIN l => i \in DOMAIN l /\ y[i] = l[i]
  BY <1>1
<1>3. Settled(l) /\ (a.for \in Callers \union {"event"} => a.state \notin Shown) => Settled(y)
  BY <1>2 DEF Settled
<1>4. /\ Coming(w, l) /\ a.for \notin Callers => Coming(w, y)
      /\ (\A i \in DOMAIN w : w[i].for # Direct) => Coming(w, y)
  BY <1>2 DEF Coming
<1>5. \A n : Bears(l, n) /\ (a.level = 0 => n = 0) => Bears(y, n)
  BY <1>2 DEF Bears
<1>6. \A c, n : BearsFrom(l, c, n) /\ (a.level = 0 => n = 0) => BearsFrom(y, c, n)
  BY <1>2 DEF BearsFrom
<1>7. \A c : Awaits(y, c) => Awaits(l, c) \/ a.for = c
  BY <1>2 DEF Awaits
<1> QED
  BY <1>3, <1>4, <1>5, <1>6, <1>7 DEF y


\* What is said of v and x is still true of w and y.
Calmer(w, y, v, x) ==
  /\ Quiet(v) => Quiet(w)
  /\ Settled(x) => Settled(y)
  /\ Coming(v, x) => Coming(w, y)
  /\ NoInflate(v) => NoInflate(w)
  /\ \A c \in Callers : NoneAfter(v, c) => NoneAfter(w, c)
  /\ \A n : Bears(x, n) => Bears(y, n)
  /\ \A c \in Callers : \A n : BearsFrom(x, c, n) => BearsFrom(y, c, n)
  /\ \A c \in Callers : Awaits(y, c) => Awaits(x, c)

LEMMA CalmerFewer ==
  ASSUME NEW w \in Seq(Sent), NEW v \in Seq(Sent), NEW y \in Seq(Heard), NEW x \in Seq(Heard),
         Fewer(w, v), FewerHeard(y, x)
  PROVE Calmer(w, y, v, x)
  BY FewerRests DEF Calmer

LEMMA CalmerEmergency ==
  ASSUME NEW w \in Seq(Sent), NEW v, NEW y, NEW x, Calmer(w, y, v, x)
  PROVE Calmer(WithEmergencyStop(w), y, v, x)
<1>1. WithEmergencyStop(w) = w \/ WithEmergencyStop(w) = Append(w, EmergencyStop)
  BY EmergencyIs
<1>2. /\ EmergencyStop \in Sent /\ EmergencyStop.cmd \notin Moves /\ EmergencyStop.cmd # "inflate"
      /\ EmergencyStop.for # Direct
  BY Recipients3 DEF Moves
<1>3. /\ Quiet(w) => Quiet(Append(w, EmergencyStop))
      /\ Coming(w, y) => Coming(Append(w, EmergencyStop), y)
      /\ NoInflate(w) => NoInflate(Append(w, EmergencyStop))
      /\ \A c : NoneAfter(w, c) => NoneAfter(Append(w, EmergencyStop), c)
  BY <1>2, MoreRests
<1>4. Calmer(Append(w, EmergencyStop), y, v, x)
  BY <1>3 DEF Calmer
<1> QED
  BY <1>1, <1>4

LEMMA CalmerIgnored ==
  ASSUME NEW w \in Seq(Sent), NEW y \in Seq(Heard), NEW cs
  PROVE Calmer(Ignored(w, cs), Ignored(y, cs), w, y)
  BY IgnoredSent, IgnoredHeard, FewerIgnored, CalmerFewer

\* The request of a caller times out, its command fails, or an error comes.
LEMMA Taking ==
  ASSUME SerialBase,
         \/ \E c \in Callers : SerialTimeout(c) \/ SerialWriteFails(c)
         \/ EmergencyWriteFails \/ SerialError \/ SerialUnplugged
  PROVE /\ Calmer(wire', line', wire, line)
        /\ call' = call /\ since' = since /\ promise' = promise /\ step' = step /\ clean' = clean
        /\ puffer' = puffer /\ level' = level
        /\ state' \in {state, "fault", "disconnected"}
        /\ \A c \in Callers : /\ pending'[c] \in {pending[c], "none"}
                              /\ reply'[c] = "ok" => reply[c] = "ok"
<1>0. wire \in Seq(Sent) /\ line \in Seq(Heard) /\ pending \in Pending /\ Waiting \in SUBSET Callers
  BY BaseIs DEF Waiting
<1>1. ASSUME NEW cs \in SUBSET Callers, Settle(cs, "failed")
      PROVE \A c \in Callers : /\ pending'[c] \in {pending[c], "none"}
                               /\ reply'[c] = "ok" => reply[c] = "ok"
  BY <1>1, BaseIs, SettleIs
<1>2. \A cs : /\ Calmer(Ignored(wire, cs), Ignored(line, cs), wire, line)
              /\ Calmer(WithEmergencyStop(Ignored(wire, cs)), Ignored(line, cs), wire, line)
  BY <1>0, IgnoredSent, CalmerIgnored, CalmerEmergency
<1>3. ASSUME NEW cs \in SUBSET Callers, NEW code, Alarm(code, cs, line)
      PROVE /\ Calmer(wire', line', wire, line) /\ level' = level /\ state' = "fault"
            /\ \A c \in Callers : /\ pending'[c] \in {pending[c], "none"}
                                  /\ reply'[c] = "ok" => reply[c] = "ok"
  BY <1>1, <1>2, <1>3 DEF Alarm
<1>4. ASSUME NEW c \in Callers, SerialTimeout(c)
      PROVE /\ Calmer(wire', line', wire, line) /\ level' = level /\ state' \in {state, "fault"}
            /\ \A k \in Callers : /\ pending'[k] \in {pending[k], "none"}
                                  /\ reply'[k] = "ok" => reply[k] = "ok"
  <2>1. CASE pending[c] = "stop"
    BY <1>1, <1>2, <1>4, <2>1 DEF SerialTimeout, statusVars
  <2>2. CASE pending[c] # "stop"
    BY <1>3, <1>4, <2>2 DEF SerialTimeout
  <2> QED
    BY <2>1, <2>2
<1>5. ASSUME NEW c \in Callers, SerialWriteFails(c)
      PROVE /\ Calmer(wire', line', wire, line) /\ level' = level /\ state' \in {state, "fault"}
            /\ \A k \in Callers : /\ pending'[k] \in {pending[k], "none"}
                                  /\ reply'[k] = "ok" => reply[k] = "ok"
  <2>1. PICK i \in DOMAIN wire :
          /\ Settle({c}, "failed") /\ line' = line /\ level' = level /\ state' \in {state, "fault"}
          /\ wire' = Without(wire, i) \/ wire' = WithEmergencyStop(Without(wire, i))
    BY <1>5 DEF SerialWriteFails, statusVars
  <2>2. Without(wire, i) \in Seq(Sent) /\ Fewer(Without(wire, i), wire) /\ FewerHeard(line, line)
    BY <1>0, WithoutIs, FewerWithout, FewerSame
  <2>3. Calmer(Without(wire, i), line, wire, line)
    BY <1>0, <2>2, CalmerFewer
  <2>4. Calmer(wire', line', wire, line)
    BY <2>1, <2>2, <2>3, CalmerEmergency
  <2> QED
    BY <1>1, <2>1, <2>4
<1>6. ASSUME EmergencyWriteFails
      PROVE /\ Calmer(wire', line', wire, line) /\ level' = level /\ state' = "fault"
            /\ pending' = pending /\ reply' = reply
  <2>1. /\ wire # <<>> /\ wire' = SubSeq(wire, 1, Len(wire) - 1) /\ line' = line
        /\ level' = level /\ state' = "fault" /\ pending' = pending /\ reply' = reply
    BY <1>6 DEF EmergencyWriteFails, driverVars
  <2>2. wire' \in Seq(Sent) /\ Fewer(wire', wire) /\ FewerHeard(line, line)
    BY <1>0, <2>1, FrontIs, FewerTail, FewerSame
  <2> QED
    BY <1>0, <2>1, <2>2, CalmerFewer
<1>7. ASSUME SerialUnplugged
      PROVE /\ Calmer(wire', line', wire, line) /\ level' = level /\ state' = "disconnected"
            /\ \A k \in Callers : /\ pending'[k] \in {pending[k], "none"}
                                  /\ reply'[k] = "ok" => reply[k] = "ok"
  <2>1. /\ wire' = <<>> /\ line' = <<>> /\ level' = level /\ state' = "disconnected"
        /\ (pending' = pending /\ reply' = reply) \/ Settle(Waiting, "failed")
    BY <1>7 DEF SerialUnplugged
  <2>2. Calmer(<<>>, <<>>, wire, line)
    BY <1>0, Cleared, FewerSame, CalmerFewer
  <2> QED
    BY <1>0, <1>1, <2>1, <2>2
<1>8. /\ call' = call /\ since' = since /\ promise' = promise /\ step' = step /\ clean' = clean
      /\ puffer' = puffer
  BY DEF SerialTimeout, SerialWriteFails, EmergencyWriteFails, SerialError, SerialUnplugged,
         callVars, driverVars
<1>9. ASSUME SerialError
      PROVE /\ Calmer(wire', line', wire, line) /\ level' = level /\ state' = "fault"
            /\ \A c \in Callers : /\ pending'[c] \in {pending[c], "none"}
                                  /\ reply'[c] = "ok" => reply[c] = "ok"
  BY <1>0, <1>3, <1>9 DEF SerialError
<1>10. CASE \E c \in Callers : SerialTimeout(c) \/ SerialWriteFails(c)
  BY <1>4, <1>5, <1>8, <1>10
<1> QED
  BY <1>6, <1>7, <1>8, <1>9, <1>10

-----------------------------------------------------------------------------
(* STOP.                                                                   *)

\* Nothing is going to move the puffer.
Still == Quiet(wire) /\ Settled(line) /\ puffer.state \notin Shown
AtRest == Still /\ state \notin Shown

\* No move has been commanded since Direct commanded STOP.
Stopping == call[Direct] = "stop" /\ since[Direct] = {}

Stops ==
  /\ Stopping /\ pending[Direct] = "stop" => Coming(wire, line) /\ (Awaits(line, Direct) => Still)
  /\ Stopping /\ reply[Direct] = "ok" => AtRest
  /\ "stopped" \in promise => AtRest

LEMMA StopsKept ==
  ASSUME SerialBase, Stops, Calmer(wire', line', wire, line), Stopping' => Stopping,
         "stopped" \in promise' => "stopped" \in promise,
         puffer'.state \in Shown => puffer.state \in Shown,
         state' \in Shown => state \in Shown,
         pending'[Direct] = "stop" => pending[Direct] = "stop",
         reply'[Direct] = "ok" => reply[Direct] = "ok"
  PROVE Stops'
<1>1. Direct \in Callers
  BY Recipients3
<1>2. Still => Still'
  BY DEF Still, Calmer
<1>3. AtRest => AtRest'
  BY <1>2 DEF AtRest
<1>4. /\ Coming(wire, line) => Coming(wire', line')
      /\ Awaits(line', Direct) => Awaits(line, Direct)
  BY <1>1 DEF Calmer
<1> QED
  BY <1>2, <1>3, <1>4 DEF Stops

LEMMA TakingStops ==
  ASSUME SerialBase, Stops,
         \/ \E c \in Callers : SerialTimeout(c) \/ SerialWriteFails(c)
         \/ EmergencyWriteFails \/ SerialError \/ SerialUnplugged
  PROVE Stops'
<1>1. /\ Calmer(wire', line', wire, line) /\ call' = call /\ since' = since /\ promise' = promise
      /\ puffer' = puffer /\ state' \in {state, "fault", "disconnected"}
      /\ \A c \in Callers : /\ pending'[c] \in {pending[c], "none"}
                            /\ reply'[c] = "ok" => reply[c] = "ok"
  BY Taking
<1>2. Direct \in Callers /\ "fault" \notin Shown /\ "disconnected" \notin Shown
  BY Recipients3 DEF Shown
<1>3. Stopping' = Stopping
  BY <1>1 DEF Stopping
<1> QED
  BY <1>1, <1>2, <1>3, StopsKept

\* While the puffer is disconnected nobody relies on STOP: DEFLATE is commanded.
LEMMA StopsWithdrawn ==
  /\ SerialBase /\ call[Queue] = "disconnect" => ~Stopping /\ "stopped" \notin promise
  /\ SerialBase' /\ call'[Queue] = "disconnect" => Stops'
<1>1. SerialBase /\ call[Queue] = "disconnect" => ~Stopping /\ "stopped" \notin promise
  BY BaseIs, CallsAre DEF CallsOfEach, Stopping
<1>2. SerialBase' /\ call'[Queue] = "disconnect" => ~Stopping' /\ "stopped" \notin promise'
  BY CallsAreAfter DEF CallsOfEach, Stopping, SerialBase
<1> QED
  BY <1>1, <1>2 DEF Stops


\* An answer or an event comes.
LEMMA Hearing ==
  ASSUME SerialBase, Receive
  PROVE LET a == line[1] IN
        /\ 1 \in DOMAIN line /\ a \in Heard
        /\ Calmer(wire', line', wire, line)
        /\ call' = call /\ since' = since /\ promise' = promise /\ step' = step /\ clean' = clean
        /\ puffer' = puffer /\ port' = port
        /\ a.for \in Callers => pending[a.for] # "none" /\ state' = a.state
        /\ state' \in {state, "fault"} \/ (state' = a.state /\ a.for \in Callers \union {"event"})
        /\ level' = level \/ level' = a.level
        /\ a.for \in Callers /\ a.ok /\ pending[a.for] = "status" => level' = a.level
        /\ \A c \in Callers : /\ pending'[c] \in {pending[c], "none"}
                              /\ reply'[c] = "ok" => reply[c] = "ok" \/ (a.for = c /\ a.ok)
<1> DEFINE a == line[1]
<1>0. /\ wire \in Seq(Sent) /\ line \in Seq(Heard) /\ pending \in Pending /\ Waiting \in SUBSET Callers
      /\ line # <<>> /\ Addressed(wire, line, pending) /\ Honest(line, pending, garbled)
  BY BaseIs, ReceiveIs DEF Waiting
<1>1. Head(line) = a /\ 1 \in DOMAIN line /\ a \in Heard /\ Tail(line) \in Seq(Heard)
  BY <1>0, TailIs
<1>2. /\ a.for \in Callers => pending[a.for] # "none"
      /\ a.for \in Callers /\ a.ok /\ pending[a.for] = "status" => a.measured
  BY <1>0, <1>1 DEF Addressed, Honest
<1> HIDE DEF a
<1>3. Fewer(wire, wire) /\ FewerHeard(Tail(line), line)
  BY <1>0, FewerSame, FewerTail
<1>4. Calmer(wire, Tail(line), wire, line) /\ Calmer(WithEmergencyStop(wire), Tail(line), wire, line)
  BY <1>0, <1>1, <1>3, CalmerFewer, CalmerEmergency
<1>5. ASSUME NEW code, Alarm(code, Waiting, Tail(line))
      PROVE Calmer(wire', line', wire, line)
  <2>1. /\ Ignored(wire, Waiting) \in Seq(Sent)
        /\ Calmer(Ignored(wire, Waiting), Ignored(Tail(line), Waiting), wire, Tail(line))
    BY <1>0, <1>1, IgnoredSent, CalmerIgnored
  <2>2. Calmer(WithEmergencyStop(Ignored(wire, Waiting)), Ignored(Tail(line), Waiting), wire, Tail(line))
    BY <2>1, CalmerEmergency
  <2>3. Calmer(WithEmergencyStop(Ignored(wire, Waiting)), Ignored(Tail(line), Waiting), wire, line)
    BY <1>4, <2>2 DEF Calmer
  <2> QED
    BY <1>5, <2>3 DEF Alarm
<1>6. ASSUME NEW code, Alarm(code, Waiting, Tail(line))
      PROVE /\ state' = "fault" /\ level' = level
            /\ \A c \in Callers : /\ pending'[c] \in {pending[c], "none"}
                                  /\ reply'[c] = "ok" => reply[c] = "ok"
  <2>1. Settle(Waiting, "failed") /\ state' = "fault" /\ level' = level
    BY <1>6 DEF Alarm
  <2> QED
    BY <1>0, <2>1, BaseIs, SettleIs
<1>7. ASSUME NEW how \in {"ok", "failed"}, a.for \in Callers, Settle({a.for}, how)
      PROVE \A c \in Callers : /\ pending'[c] \in {pending[c], "none"}
                               /\ reply'[c] = "ok" => reply[c] = "ok" \/ (a.for = c /\ how = "ok")
  BY <1>7, BaseIs, SettleIs
<1>8. /\ call' = call /\ since' = since /\ promise' = promise /\ step' = step /\ clean' = clean
      /\ puffer' = puffer /\ port' = port
  BY DEF Receive, callVars
<1>9. a.for = "event" => a.for \notin Callers
  BY Recipients3
<1>10. CASE /\ a.for = "event" /\ a.ok
            /\ state' = a.state /\ level' = a.level /\ fault' = "none"
            /\ line' = Tail(line)
            /\ UNCHANGED <<connected, pending, reply, wire, overruled>>
  BY <1>1, <1>4, <1>8, <1>9, <1>10 DEF a
<1>11. CASE /\ a.for \in {"event", "unknown"}
            /\ Alarm("device", Waiting, Tail(line)) \/ Alarm("invalid", Waiting, Tail(line))
  BY <1>1, <1>5, <1>6, <1>8, <1>11, Recipients3 DEF a
<1>12. CASE /\ a.for = "ignored" /\ line' = Tail(line)
            /\ UNCHANGED <<statusVars, pending, reply, wire, overruled>>
  BY <1>1, <1>4, <1>8, <1>12, Recipients3 DEF a, statusVars
<1>13. ASSUME a.for \in Callers, NEW how \in {"ok", "failed"}, how = "ok" <=> a.ok,
              Settle({a.for}, how), line' = Tail(line), state' = a.state,
              level' = IF a.measured THEN a.level ELSE level,
              wire' = wire \/ wire' = WithEmergencyStop(wire)
       PROVE /\ Calmer(wire', line', wire, line) /\ state' = a.state
             /\ level' = level \/ level' = a.level
             /\ a.ok /\ pending[a.for] = "status" => level' = a.level
             /\ \A c \in Callers : /\ pending'[c] \in {pending[c], "none"}
                                   /\ reply'[c] = "ok" => reply[c] = "ok" \/ (a.for = c /\ a.ok)
  BY <1>2, <1>4, <1>7, <1>13
<1>14. CASE /\ a.for \in Callers /\ a.ok /\ Settle({a.for}, "ok") /\ line' = Tail(line) /\ state' = a.state
            /\ level' = (IF a.measured THEN a.level ELSE level) /\ wire' = wire
  BY <1>1, <1>2, <1>8, <1>13, <1>14 DEF a
<1>15. CASE /\ a.for \in Callers /\ ~a.ok /\ Settle({a.for}, "failed") /\ line' = Tail(line)
            /\ state' = a.state /\ level' = (IF a.measured THEN a.level ELSE level)
            /\ wire' = WithEmergencyStop(wire)
  BY <1>1, <1>2, <1>8, <1>13, <1>15 DEF a
<1> QED
  BY <1>1, <1>10, <1>11, <1>12, <1>14, <1>15, ReceiveIs

LEMMA ReceiveStops ==
  ASSUME SerialBase, Stops, Receive
  PROVE Stops'
<1> DEFINE a == line[1]
<1>1. /\ 1 \in DOMAIN line
      /\ Calmer(wire', line', wire, line)
      /\ call' = call /\ since' = since /\ promise' = promise /\ puffer' = puffer
      /\ a.for \in Callers => pending[a.for] # "none" /\ state' = a.state
      /\ state' \in {state, "fault"} \/ (state' = a.state /\ a.for \in Callers \union {"event"})
      /\ \A c \in Callers : /\ pending'[c] \in {pending[c], "none"}
                            /\ reply'[c] = "ok" => reply[c] = "ok" \/ (a.for = c /\ a.ok)
  BY Hearing
<1> HIDE DEF a
<1>2. Direct \in Callers /\ "fault" \notin Shown
  BY Recipients3 DEF Shown
<1>3. Still => Still' /\ (a.for \in Callers \union {"event"} => a.state \notin Shown)
  BY <1>1 DEF Still, Calmer, Settled, a
<1>4. AtRest => AtRest'
  BY <1>1, <1>2, <1>3 DEF AtRest
<1>5. Stopping' = Stopping
  BY <1>1 DEF Stopping
<1>6. /\ Coming(wire, line) => Coming(wire', line')
      /\ Awaits(line', Direct) => Awaits(line, Direct)
  BY <1>1, <1>2 DEF Calmer
<1>7. ASSUME Stopping, reply'[Direct] = "ok", reply[Direct] # "ok" PROVE AtRest'
  <2>1. a.for = Direct /\ pending[Direct] # "none" /\ state' = a.state
    BY <1>1, <1>2, <1>7
  <2>2. pending[Direct] = "stop"
    BY <1>7, <2>1, BaseIs, CallsAre DEF CallsOfEach, Stopping
  <2>3. Awaits(line, Direct)
    BY <1>1, <2>1 DEF Awaits, a
  <2>4. Still
    BY <1>7, <2>2, <2>3 DEF Stops
  <2> QED
    BY <1>2, <1>3, <2>1, <2>4 DEF AtRest
<1> QED
  BY <1>1, <1>2, <1>3, <1>4, <1>5, <1>6, <1>7 DEF Stops


LEMMA ExecuteStops ==
  ASSUME SerialBase, Stops, Execute
  PROVE Stops'
<1> DEFINE e == wire[1]
<1>1. /\ wire # <<>> /\ wire' = Tail(wire) /\ e = Head(wire) /\ 1 \in DOMAIN wire /\ e.cmd \in Commands
      /\ puffer' = IF puffer.state # "fault" THEN Obeyed(e.cmd) ELSE puffer
      /\ UNCHANGED <<statusVars, callVars, driverVars>>
  BY ExecuteIs
<1>2. /\ line' = line
      \/ \E a \in Heard :
           /\ line' = Append(line, a)
           /\ (a.for = e.for /\ a.state = puffer'.state) \/ (a.for = "unknown" /\ a.state = "fault")
  BY ExecuteIs
<1>3. /\ state' = state /\ call' = call /\ since' = since /\ promise' = promise
      /\ pending' = pending /\ reply' = reply
  BY <1>1 DEF statusVars, callVars, driverVars
<1>4. /\ wire \in Seq(Sent) /\ line \in Seq(Heard) /\ Addressed(wire, line, pending)
      /\ Honest(line, pending, garbled) /\ Tail(wire) \in Seq(Sent)
  BY <1>1, BaseIs, TailIs
<1>5. Calmer(Tail(wire), line, wire, line)
  BY <1>1, <1>4, FewerTail, FewerSame, CalmerFewer
<1>6. /\ Direct \in Callers /\ "fault" \notin Shown /\ "stopped" \notin Shown /\ "unknown" \notin Callers
      /\ "unknown" # "event"
  BY Recipients3 DEF Shown
<1>7. /\ e.for \in Callers \union {"ignored"} /\ (e.for \in Callers => pending[e.for] = e.cmd)
      /\ e.for # "event"
  BY <1>1, <1>4, Recipients3 DEF Addressed
<1>8. \A i \in DOMAIN Tail(wire) : /\ i + 1 \in DOMAIN wire /\ i + 1 # 1 /\ i + 1 > 1
                                   /\ Tail(wire)[i] = wire[i + 1]
  BY <1>1, <1>4, TailIs
<1>9. /\ e.cmd \notin Moves /\ puffer.state \notin Shown => puffer'.state \notin Shown
      /\ e.cmd = "stop" => puffer'.state \notin Shown
  <2>1. e.cmd \notin Moves => e.cmd \in {"status", "stop"}
    BY <1>1 DEF Commands
  <2>2. LineTypes
    BY BaseIs
  <2>3. /\ e.cmd = "stop" => Obeyed(e.cmd).state = "stopped"
        /\ e.cmd \in {"status", "stop"} /\ puffer.state \notin Shown => Obeyed(e.cmd).state \notin Shown
    BY <1>1, <2>2, ObeyedIs
  <2> HIDE DEF e
  <2> QED
    BY <1>1, <1>6, <2>1, <2>3
<1> HIDE DEF e
<1>10. Still => Still'
  <2> SUFFICES ASSUME Still PROVE Still'
    OBVIOUS
  <2>1. Quiet(wire') /\ Settled(line) /\ puffer.state \notin Shown
    BY <1>1, <1>5 DEF Still, Calmer
  <2>2. e.cmd \notin Moves
    BY <1>1 DEF Still, Quiet, e
  <2>3. puffer'.state \notin Shown
    BY <1>9, <2>1, <2>2
  <2>4. Settled(line')
    BY <1>2, <1>4, <1>6, <2>1, <2>3, MoreHeard
  <2> QED
    BY <2>1, <2>3, <2>4 DEF Still
<1>11. ASSUME Coming(wire, line), pending[Direct] = "stop"
       PROVE Coming(wire', line') /\ (Awaits(line', Direct) => Awaits(line, Direct) \/ Still')
  <2>1. Coming(Tail(wire), line)
    BY <1>5, <1>11 DEF Calmer
  <2>2. e.for \in Callers => \A i \in DOMAIN Tail(wire) : Tail(wire)[i].for # Direct
    <3> SUFFICES ASSUME e.for \in Callers, NEW i \in DOMAIN Tail(wire), wire[i + 1].for = Direct
                 PROVE FALSE
      BY <1>8
    <3> QED
      BY <1>1, <1>4, <1>8, <1>11 DEF Coming, e
  <2>3. Coming(wire', line')
    <3>1. ASSUME NEW a \in Heard, a.for = e.for \/ a.for = "unknown"
          PROVE Coming(Tail(wire), Append(line, a))
      <4>1. a.for \in Callers => a.for = e.for
        BY <1>6, <3>1
      <4>2. CASE a.for \in Callers
        BY <1>4, <2>2, <4>1, <4>2, MoreHeard
      <4>3. CASE a.for \notin Callers
        BY <1>4, <2>1, <4>3, MoreHeard
      <4> QED
        BY <4>2, <4>3
    <3> QED
      BY <1>1, <1>2, <2>1, <3>1
  <2>4. ASSUME NEW a \in Heard, line' = Append(line, a), a.for = Direct, a.for = e.for,
               a.state = puffer'.state
        PROVE Still'
    <3>1. e.cmd = "stop"
      BY <1>6, <1>7, <1>11, <2>4
    <3>2. /\ \A j \in DOMAIN wire : j > 1 => wire[j].cmd \notin Moves
          /\ \A j \in DOMAIN line : line[j].for \notin Callers
      BY <1>1, <1>11, <2>4 DEF Coming, e
    <3>3. Quiet(wire')
      BY <1>1, <1>8, <3>2 DEF Quiet
    <3>4. Settled(line)
      BY <1>4, <3>2 DEF Settled, Honest
    <3>5. puffer'.state \notin Shown
      BY <1>9, <3>1
    <3>6. Settled(line')
      BY <1>4, <2>4, <3>4, <3>5, MoreHeard
    <3> QED
      BY <3>3, <3>5, <3>6 DEF Still
  <2>5. Awaits(line', Direct) => Awaits(line, Direct) \/ Still'
    BY <1>2, <1>4, <1>6, <2>4, MoreHeard
  <2> QED
    BY <2>3, <2>5
<1>12. AtRest => AtRest'
  BY <1>3, <1>10 DEF AtRest
<1>13. Stopping' = Stopping
  BY <1>3 DEF Stopping
<1> QED
  BY <1>3, <1>10, <1>11, <1>12, <1>13 DEF Stops

LEMMA PufferStops ==
  ASSUME SerialBase, Stops, PufferMoves \/ PufferFaults \/ PufferRestarts
  PROVE Stops'
<1>0. wire \in Seq(Sent) /\ line \in Seq(Heard)
  BY BaseIs
<1>1. CASE PufferMoves
  <2>1. /\ state' = state /\ call' = call /\ since' = since /\ promise' = promise
        /\ pending' = pending /\ reply' = reply /\ wire' = wire /\ line' = line
        /\ puffer.state \in Shown
    BY <1>1 DEF PufferMoves, statusVars, callVars, driverVars, Shown
  <2>2. ~Still /\ ~AtRest
    BY <2>1 DEF Still, AtRest
  <2>3. (Stopping' <=> Stopping) /\ (Coming(wire', line') <=> Coming(wire, line))
        /\ (Awaits(line', Direct) <=> Awaits(line, Direct))
    BY <2>1 DEF Stopping
  <2>4. /\ Stopping /\ pending[Direct] = "stop" => Coming(wire, line) /\ ~Awaits(line, Direct)
        /\ ~(Stopping /\ reply[Direct] = "ok") /\ "stopped" \notin promise
    BY <2>2 DEF Stops
  <2> QED
    BY <2>1, <2>3, <2>4 DEF Stops
<1>2. CASE PufferFaults \/ PufferRestarts
  <2>1. /\ state' = state /\ call' = call /\ since' = since /\ promise' = promise
        /\ pending' = pending /\ reply' = reply
        /\ wire' = wire \/ wire' = <<>>
        /\ puffer'.state \in {"fault", "idle", "stopped"}
    BY <1>2, SaysIs
  <2>2. PICK a \in Heard : line' = Append(line, a) /\ a.for = "event" /\ a.state = puffer'.state
    BY <1>2, SaysIs
  <2>3. puffer'.state \notin Shown /\ a.for \notin Callers /\ a.for # Direct
    BY <2>1, <2>2, Recipients3 DEF Shown
  <2>4. Calmer(wire', line, wire, line)
    BY <1>0, <2>1, FewerSame, CalmerFewer, Cleared
  <2>5. /\ Settled(line) => Settled(line')
        /\ Coming(wire', line) => Coming(wire', line')
        /\ Awaits(line', Direct) => Awaits(line, Direct)
    BY <1>0, <2>2, <2>3, MoreHeard
  <2>6. /\ Coming(wire, line) => Coming(wire', line')
        /\ Still => Still'
    BY <2>3, <2>4, <2>5 DEF Still, Calmer
  <2>7. AtRest => AtRest'
    BY <2>1, <2>6 DEF AtRest
  <2> QED
    BY <2>1, <2>5, <2>6, <2>7 DEF Stops, Stopping
<1> QED
  BY <1>1, <1>2


LEMMA ReturnStops ==
  ASSUME SerialBase, Stops, NEW c \in Callers, SerialReturn(c)
  PROVE Stops'
<1>1. /\ reply[c] # "none" /\ Return(c, reply[c] = "ok") /\ reply' = [reply EXCEPT ![c] = "none"]
      /\ state' = state /\ pending' = pending /\ wire' = wire /\ line' = line /\ puffer' = puffer
  BY DEF SerialReturn, statusVars, lineVars
<1>2. /\ \A k \in Callers : /\ call'[k] = IF k = c THEN "none" ELSE call[k]
                            /\ since'[k] = IF k = c THEN {} ELSE since[k]
                            /\ reply'[k] = IF k = c THEN "none" ELSE reply[k]
      /\ "stopped" \in promise' => "stopped" \in promise \/ (reply[c] = "ok" /\ call[c] = "stop" /\ since[c] = {})
  <2>1. /\ \A k \in Callers : /\ call'[k] = IF k = c THEN "none" ELSE call[k]
                              /\ since'[k] = IF k = c THEN {} ELSE since[k]
        /\ "stopped" \in promise' => "stopped" \in promise \/ (reply[c] = "ok" /\ call[c] = "stop" /\ since[c] = {})
    BY <1>1, ReturnIs
  <2> QED
    BY <1>1, <2>1, BaseIs
<1>3. Queue \in Callers /\ Direct \in Callers /\ Queue # Direct /\ call[Queue] # "stop"
      /\ (c = Queue \/ c = Direct)
  BY BaseIs, CallsAre, Recipients3 DEF CallsOfEach
<1>4. Stopping' => Stopping /\ reply'[Direct] = reply[Direct]
  BY <1>2, <1>3 DEF Stopping
<1>5. "stopped" \in promise' => AtRest
  BY <1>2, <1>3 DEF Stops, Stopping
<1>6. /\ (Still' <=> Still) /\ (AtRest' <=> AtRest) /\ (Coming(wire', line') <=> Coming(wire, line))
      /\ (Awaits(line', Direct) <=> Awaits(line, Direct))
  BY <1>1 DEF Still, AtRest
<1> QED
  BY <1>1, <1>4, <1>5, <1>6 DEF Stops

LEMMA OpensStops ==
  ASSUME SerialBase, Stops, SerialOpens \/ SerialOpenFails
  PROVE Stops'
<1>1. /\ port = "opening" /\ (\E ok : Return(Queue, ok))
      /\ state' \in {"idle", "disconnected"}
      /\ pending' = pending /\ reply' = reply /\ wire' = wire /\ line' = line /\ puffer' = puffer
  BY DEF SerialOpens, SerialOpenFails, lineVars
<1>2. Queue \in Callers /\ Direct \in Callers /\ Queue # Direct /\ call[Queue] = "connect"
  BY <1>1, BaseIs, CallsAre, Recipients3 DEF CallsOfEach
<1>3. call'[Direct] = call[Direct] /\ since'[Direct] = since[Direct]
      /\ ("stopped" \in promise' => "stopped" \in promise)
  BY <1>1, <1>2, ReturnIs
<1>4. Calmer(wire', line', wire, line)
  BY <1>1, BaseIs, FewerSame, CalmerFewer
<1>5. Stopping' = Stopping
  BY <1>3 DEF Stopping
<1>6. state' \notin Shown
  BY <1>1 DEF Shown
<1> QED
  BY <1>1, <1>3, <1>4, <1>5, <1>6, StopsKept

LEMMA ConnectStops ==
  ASSUME SerialBase, Stops, SerialConnect
  PROVE Stops'
<1>1. /\ Begin(Queue, "connect") /\ state' = "connecting"
      /\ pending' = pending /\ reply' = reply /\ wire' = <<>> /\ line' = <<>> /\ puffer' = puffer
  BY DEF SerialConnect
<1>2. Queue \in Callers /\ Direct \in Callers \ {Queue} /\ "connect" \in Operations
  BY Recipients3 DEF Operations
<1>3. /\ call'[Direct] = call[Direct] /\ ("stopped" \in promise' => "stopped" \in promise)
      /\ since'[Direct] = IF call[Direct] = "none" THEN {} ELSE since[Direct] \union MovesOf("connect")
  <2>1. Queue \in Callers /\ Begin(Queue, "connect")
    BY <1>1, <1>2
  <2>2. /\ "stopped" \in promise' => "stopped" \in promise
        /\ \A k \in Callers : call'[k] = IF k = Queue THEN "connect" ELSE call[k]
        /\ \A k \in Callers \ {Queue} :
             since'[k] = IF call[k] = "none" THEN {} ELSE since[k] \union MovesOf("connect")
    BY <1>2, <2>1, BeginIs
  <2> QED
    BY <1>2, <2>2
<1>4. Calmer(wire', line', wire, line)
  BY <1>1, BaseIs, FewerSame, CalmerFewer, Cleared
<1>5. Stopping' => Stopping
  BY <1>3 DEF Stopping
<1>6. state' \notin Shown
  BY <1>1 DEF Shown
<1> QED
  BY <1>1, <1>3, <1>4, <1>5, <1>6, StopsKept

\* STOP is commanded: it is the last command, and overtakes what Queue waits for.
LEMMA StopIsComing ==
  ASSUME SerialBase, SerialBase', Stops, SerialCommand(Direct, "stop"), call[Queue] # "disconnect"
  PROVE Stops'
<1>1. /\ Begin(Direct, "stop") /\ Send(Direct, "stop") /\ garbled' = garbled
      /\ state' = state /\ puffer' = puffer
  BY DEF SerialCommand, statusVars
<1>2. Direct \in Callers /\ Queue \in Callers /\ Queue # Direct /\ "stop" \in Commands /\ "stop" \in Operations
  BY Recipients3, Commands4 DEF Operations
<1>3. pending[Direct] = "none" /\ ("stopped" \in promise' => "stopped" \in promise)
  BY <1>1, <1>2, BeginIs
<1>4. /\ \A k \in Callers :
           /\ pending'[k] = IF k = Direct THEN "stop" ELSE IF k \in Overtaken("stop") THEN "none" ELSE pending[k]
           /\ reply'[k] = IF k = Direct THEN "none" ELSE IF k \in Overtaken("stop") THEN "failed" ELSE reply[k]
      /\ wire' = Append(Ignored(wire, Overtaken("stop")), [cmd |-> "stop", for |-> Direct])
      /\ line' = Ignored(line, Overtaken("stop"))
      /\ Ignored(wire, Overtaken("stop")) \in Seq(Sent) /\ [cmd |-> "stop", for |-> Direct] \in Sent
      /\ wire' \in Seq(Sent) /\ line' \in Seq(Heard)
      /\ Addressed(wire', line', pending')
  BY <1>1, <1>2, <1>3, SendIs
<1> DEFINE v == Ignored(wire, Overtaken("stop"))
           e == [cmd |-> "stop", for |-> Direct]
<1>5. Calmer(v, line', wire, line)
  BY <1>4, BaseIs, CalmerIgnored
<1>6. e.cmd = "stop" /\ e.for = Direct /\ e.cmd \notin Moves
  BY DEF Moves
<1>7. /\ wire' = Append(v, e) /\ v \in Seq(Sent) /\ e \in Sent
  BY <1>4
<1> HIDE DEF v, e
<1>8. AtRest => AtRest'
  <2>1. Quiet(v) => Quiet(wire')
    BY <1>6, <1>7, MoreRests
  <2> QED
    BY <1>1, <1>5, <2>1 DEF AtRest, Still, Calmer
<1>9. /\ DOMAIN wire' = 1 .. Len(v) + 1 /\ Len(v) \in Nat /\ wire'[Len(v) + 1] = e
  BY <1>7, AppendIs
<1>10. pending'[Queue] = "none"
  <2>1. pending[Queue] # "stop"
    BY <1>2, BaseIs, CallsAre DEF CallsOfEach
  <2>2. pending[Queue] # "none" => Queue \in Overtaken("stop")
    BY <1>2, <2>1 DEF Overtaken, Waiting
  <2> QED
    BY <1>2, <1>4, <2>2
<1>11. /\ \A i \in DOMAIN wire' : wire'[i].for \in Callers => i = Len(v) + 1
       /\ \A i \in DOMAIN line' : line'[i].for \notin Callers
  <2>1. Len(v) + 1 \in DOMAIN wire' /\ wire'[Len(v) + 1].for = Direct
    BY <1>6, <1>9
  <2>2. \A i \in DOMAIN wire' : wire'[i].cmd # "none"
    BY <1>4, Elements, Commands4
  <2>3. \A i \in DOMAIN wire' : wire'[i].for # Queue
    BY <1>2, <1>4, <1>10, <2>2 DEF Addressed
  <2>4. \A i \in DOMAIN wire' : wire'[i].for = Direct => i = Len(v) + 1
    BY <1>2, <1>4, <2>1 DEF Addressed
  <2>5. \A i \in DOMAIN line' : line'[i].for # Queue
    BY <1>2, <1>4, <1>10 DEF Addressed
  <2>6. \A i \in DOMAIN line' : line'[i].for # Direct
    BY <1>2, <1>4, <2>1 DEF Addressed
  <2> QED
    BY <2>3, <2>4, <2>5, <2>6, Recipients3
<1>12. Coming(wire', line')
  <2> SUFFICES ASSUME NEW i \in DOMAIN wire', wire'[i].for = Direct
               PROVE /\ \A j \in DOMAIN wire' : /\ j > i => wire'[j].cmd \notin Moves
                                                /\ j < i => wire'[j].for \notin Callers
                     /\ \A j \in DOMAIN line' : line'[j].for \notin Callers
    BY DEF Coming
  <2>1. i = Len(v) + 1
    BY <1>2, <1>11
  <2>2. \A j \in DOMAIN wire' : ~(j > i) /\ (j < i => j # Len(v) + 1)
    BY <1>9, <2>1
  <2> QED
    BY <1>11, <2>2
<1>13. ~Awaits(line', Direct)
  BY <1>2, <1>11 DEF Awaits
<1>14. reply'[Direct] = "none"
  BY <1>2, <1>4
<1>15. "stopped" \in promise' => AtRest'
  BY <1>3, <1>8 DEF Stops
<1> QED
  BY <1>12, <1>13, <1>14, <1>15 DEF Stops

LEMMA CommandStops ==
  ASSUME SerialBase, SerialBase', Stops, NEW c \in Callers, NEW op \in Commands, SerialCommand(c, op)
  PROVE Stops'
<1>1. /\ Calm /\ Begin(c, op) /\ Send(c, op) /\ garbled' = garbled
      /\ state' = state /\ puffer' = puffer
  BY DEF SerialCommand, statusVars
<1>2. /\ Direct \in Callers /\ Queue \in Callers /\ Queue # Direct /\ op \in Operations
      /\ (c = Queue \/ c = Direct)
  BY Recipients3 DEF Operations
<1>3. /\ pending[c] = "none" /\ call[c] = "none"
      /\ "stopped" \in promise' => "stopped" \in promise /\ op \notin Moves
      /\ c = Queue => op # "stop"
      /\ \A k \in Callers : call'[k] = IF k = c THEN op ELSE call[k]
      /\ \A k \in Callers \ {c} : since'[k] = IF call[k] = "none" THEN {} ELSE since[k] \union MovesOf(op)
  <2>1. /\ pending[c] = "none" /\ call[c] = "none"
        /\ "stopped" \in promise' => "stopped" \in promise /\ op \notin {"inflate", "deflate", "disconnect"}
        /\ c = Queue => op # "stop"
        /\ \A k \in Callers : call'[k] = IF k = c THEN op ELSE call[k]
        /\ \A k \in Callers \ {c} : since'[k] = IF call[k] = "none" THEN {} ELSE since[k] \union MovesOf(op)
    BY <1>1, <1>2, BeginIs
  <2> QED
    BY <2>1 DEF Moves
<1>4. CASE call[Queue] = "disconnect"
  <2>1. call'[Queue] = "disconnect"
    BY <1>2, <1>3, <1>4
  <2> QED
    BY <2>1, StopsWithdrawn
<1>5. CASE call[Queue] # "disconnect" /\ op = "stop"
  BY <1>2, <1>3, <1>5, StopIsComing
<1>6. CASE op \in Moves
  <2>1. op \in MovesOf(op) /\ op # "stop"
    BY <1>6 DEF MovesOf, Moves
  <2>2. c = Queue => ~Stopping'
    <3> SUFFICES ASSUME c = Queue, call[Direct] = "stop" PROVE since'[Direct] # {}
      BY <1>2, <1>3 DEF Stopping
    <3> QED
      BY <1>2, <1>3, <2>1
  <2>3. c = Direct => ~Stopping'
    BY <1>2, <1>3, <2>1 DEF Stopping
  <2> QED
    BY <1>2, <1>3, <1>6, <2>2, <2>3 DEF Stops
<1>7. CASE op = "status"
  <2>1. /\ pending' = [k \in Callers |-> pending'[k]]
        /\ \A k \in Callers \ {c} : pending'[k] = pending[k] /\ reply'[k] = reply[k]
        /\ reply'[c] = "none"
        /\ wire' = Append(Ignored(wire, Overtaken(op)), [cmd |-> op, for |-> c])
        /\ line' = Ignored(line, Overtaken(op))
        /\ Ignored(wire, Overtaken(op)) \in Seq(Sent) /\ [cmd |-> op, for |-> c] \in Sent
    <3>1. Overtaken(op) = {}
      BY <1>7, Overtaking
    <3>2. /\ \A k \in Callers :
               /\ pending'[k] = IF k = c THEN op ELSE IF k \in Overtaken(op) THEN "none" ELSE pending[k]
               /\ reply'[k] = IF k = c THEN "none" ELSE IF k \in Overtaken(op) THEN "failed" ELSE reply[k]
          /\ wire' = Append(Ignored(wire, Overtaken(op)), [cmd |-> op, for |-> c])
          /\ line' = Ignored(line, Overtaken(op)) /\ pending' \in Pending
          /\ Ignored(wire, Overtaken(op)) \in Seq(Sent) /\ [cmd |-> op, for |-> c] \in Sent
      BY <1>1, <1>3, SendIs
    <3> QED
      BY <3>1, <3>2 DEF Pending
  <2> DEFINE v == Ignored(wire, Overtaken(op))
             e == [cmd |-> op, for |-> c]
  <2>2. Calmer(v, line', wire, line)
    BY <2>1, BaseIs, CalmerIgnored
  <2>3. e.cmd = op /\ e.for = c /\ e.cmd \notin Moves
    BY <1>7 DEF Moves
  <2>4. /\ wire' = Append(v, e) /\ v \in Seq(Sent) /\ e \in Sent
    BY <2>1
  <2> HIDE DEF v, e
  <2>5. AtRest => AtRest' /\ Still'
    <3>1. Quiet(v) => Quiet(wire')
      BY <2>3, <2>4, MoreRests
    <3> QED
      BY <1>1, <2>2, <3>1 DEF AtRest, Still, Calmer
  <2>6. Still => Still'
    <3>1. Quiet(v) => Quiet(wire')
      BY <2>3, <2>4, MoreRests
    <3> QED
      BY <1>1, <2>2, <3>1 DEF Still, Calmer
  <2>7. CASE c = Direct
    <3>1. ~Stopping'
      BY <1>2, <1>3, <1>7, <2>7 DEF Stopping
    <3> QED
      BY <1>3, <2>5, <3>1 DEF Stops
  <2>8. CASE c = Queue
    <3>1. Coming(v, line') => Coming(wire', line')
      BY <1>2, <2>3, <2>4, <2>8, MoreRests
    <3>2. /\ Coming(wire, line) => Coming(wire', line')
          /\ Awaits(line', Direct) => Awaits(line, Direct)
      BY <1>2, <2>2, <3>1 DEF Calmer
    <3>3. call'[Direct] = call[Direct] /\ pending'[Direct] = pending[Direct] /\ reply'[Direct] = reply[Direct]
      BY <1>2, <1>3, <2>1, <2>8
    <3>4. Stopping' => Stopping
      BY <1>2, <1>3, <2>8, <3>3 DEF Stopping
    <3> QED
      BY <1>3, <2>5, <2>6, <3>2, <3>3, <3>4 DEF Stops
  <2> QED
    BY <1>2, <2>7, <2>8
<1> QED
  BY <1>4, <1>5, <1>6, <1>7 DEF Commands

LEMMA EndsStops ==
  ASSUME SerialBase, Stops, NEW ok, DisconnectEnds(ok)
  PROVE Stops'
<1>1. step = "close" /\ Return(Queue, clean /\ ok)
  BY DEF DisconnectEnds
<1>2. /\ Queue \in Callers /\ Direct \in Callers /\ Queue # Direct /\ call[Queue] = "disconnect"
      /\ ~Stopping /\ "stopped" \notin promise
  BY <1>1, BaseIs, CallsAre, Recipients3, StopsWithdrawn DEF CallsOfEach
<1>3. call'[Direct] = call[Direct] /\ since'[Direct] = since[Direct] /\ "stopped" \notin promise'
  BY <1>1, <1>2, ReturnIs
<1> QED
  BY <1>2, <1>3 DEF Stops, Stopping

LEMMA DisconnectStops ==
  ASSUME SerialBase, SerialBase',
         SerialDisconnect \/ DisconnectContinues \/ DisconnectPolls \/ DisconnectGivesUp
  PROVE Stops'
<1>1. Queue \in Callers /\ "disconnect" \in Operations
  BY Recipients3 DEF Operations
<1>2. SerialDisconnect => call'[Queue] = "disconnect"
  BY <1>1, BeginIs DEF SerialDisconnect
<1>3. DisconnectContinues \/ DisconnectPolls \/ DisconnectGivesUp => call'[Queue] = "disconnect"
  BY FollowIs DEF callVars
<1> QED
  BY <1>2, <1>3, StopsWithdrawn

LEMMA StopsHeld == SerialBase /\ Stops /\ SerialNext => Stops'
<1> SUFFICES ASSUME SerialBase, Stops, SerialNext PROVE Stops'
  OBVIOUS
<1>1. SerialBase'
  BY SerialBaseKept
<1> QED
  BY <1>1, ConnectStops, OpensStops, ReturnStops, TakingStops, CommandStops, ReceiveStops,
     DisconnectStops, EndsStops, ExecuteStops, PufferStops DEF SerialNext

LEMMA StopsAtFirst == Init /\ mode = "serial" => Stops
  BY DEF Init, DeviceInit, SerialInit, Stops, Stopping, Callers

-----------------------------------------------------------------------------
(* Who asks whether the puffer is flat is told the truth.                  *)

\* What is left of the line inflates no more and bears no less.
Emptier(w, y, v, x) ==
  /\ NoInflate(v) => NoInflate(w)
  /\ \A c \in Callers : NoneAfter(v, c) => NoneAfter(w, c)
  /\ \A n : Bears(x, n) => Bears(y, n)
  /\ \A c \in Callers : \A n : BearsFrom(x, c, n) => BearsFrom(y, c, n)
  /\ \A c \in Callers : Awaits(y, c) => Awaits(x, c)

LEMMA CalmIsEmptier ==
  ASSUME NEW w, NEW y, NEW v, NEW x, Calmer(w, y, v, x)
  PROVE Emptier(w, y, v, x)
  BY DEF Calmer, Emptier

\* c asks for the status, and nobody has inflated the puffer since it began.
Asking(c) ==
  /\ call[c] = "status" \/ (c = Queue /\ step = "confirm")
  /\ "inflate" \notin since[c]

Flat == NoInflate(wire) /\ puffer.level = 0

\* From the command of c to its answer no air comes in.
Relied(c) ==
  /\ NoneAfter(wire, c)
  /\ Awaits(line, c) => NoInflate(wire)
  /\ BearsFrom(line, c, puffer.level)
  /\ reply[c] = "ok" => /\ NoInflate(wire) /\ Bears(line, puffer.level)
                        /\ level = 0 => puffer.level = 0

Asks ==
  /\ \A c \in Callers : Asking(c) => Relied(c)
  /\ step = "close" /\ clean => Flat
  /\ "flat" \in promise => Flat

LEMMA BearsLess ==
  ASSUME NEW n, NEW m, n = 0 => m = 0
  PROVE /\ \A l : Bears(l, n) => Bears(l, m)
        /\ \A l, c : BearsFrom(l, c, n) => BearsFrom(l, c, m)
  BY DEF Bears, BearsFrom

LEMMA ReliedKept ==
  ASSUME NEW c \in Callers, Emptier(wire', line', wire, line), puffer.level = 0 => puffer'.level = 0,
         reply'[c] = "ok" => reply[c] = "ok" /\ (level' = 0 => level = 0 \/ puffer.level = 0),
         Relied(c)
  PROVE Relied(c)'
<1>1. /\ Bears(line', puffer.level) => Bears(line', puffer'.level)
      /\ BearsFrom(line', c, puffer.level) => BearsFrom(line', c, puffer'.level)
  BY BearsLess
<1>2. /\ NoneAfter(wire', c)
      /\ Awaits(line', c) => NoInflate(wire')
      /\ BearsFrom(line', c, puffer'.level)
  BY <1>1 DEF Relied, Emptier
<1>3. ASSUME reply'[c] = "ok"
      PROVE /\ NoInflate(wire') /\ Bears(line', puffer'.level)
            /\ level' = 0 => puffer'.level = 0
  <2>1. /\ NoInflate(wire) /\ Bears(line, puffer.level)
        /\ level = 0 => puffer.level = 0
    BY <1>3 DEF Relied
  <2>2. NoInflate(wire') /\ Bears(line', puffer'.level)
    BY <1>1, <2>1 DEF Emptier
  <2>3. level' = 0 => puffer'.level = 0
    BY <1>3, <2>1
  <2> QED
    BY <2>2, <2>3
<1> QED
  BY <1>2, <1>3 DEF Relied

LEMMA FlatKept ==
  ASSUME NoInflate(wire) => NoInflate(wire'), puffer.level = 0 => puffer'.level = 0, Flat
  PROVE Flat'
  BY DEF Flat

LEMMA AsksKept ==
  ASSUME Asks, Emptier(wire', line', wire, line), puffer.level = 0 => puffer'.level = 0,
         \A c \in Callers : /\ Asking(c)' => Asking(c) \/ Relied(c)'
                            /\ reply'[c] = "ok" =>
                                 reply[c] = "ok" /\ (level' = 0 => level = 0 \/ puffer.level = 0),
         step' = "close" /\ clean' => Flat,
         "flat" \in promise' => Flat
  PROVE Asks'
<1>1. ASSUME NEW c \in Callers, Asking(c)' PROVE Relied(c)'
  <2>1. Asking(c) => Relied(c)
    BY DEF Asks
  <2> QED
    BY <1>1, <2>1, ReliedKept
<1>2. Flat => Flat'
  BY FlatKept DEF Emptier
<1> QED
  BY <1>1, <1>2 DEF Asks

LEMMA EmptierSame ==
  ASSUME NEW w \in Seq(Sent), NEW l \in Seq(Heard)
  PROVE Emptier(w, l, w, l) /\ Emptier(<<>>, l, w, l) /\ Emptier(<<>>, <<>>, w, l)
  BY FewerSame, CalmerFewer, CalmIsEmptier, Cleared

LEMMA TakingAsks ==
  ASSUME SerialBase, Asks,
         \/ \E c \in Callers : SerialTimeout(c) \/ SerialWriteFails(c)
         \/ EmergencyWriteFails \/ SerialError \/ SerialUnplugged
  PROVE Asks'
<1>1. /\ Calmer(wire', line', wire, line)
      /\ call' = call /\ since' = since /\ promise' = promise /\ step' = step /\ clean' = clean
      /\ puffer' = puffer /\ level' = level
      /\ \A c \in Callers : reply'[c] = "ok" => reply[c] = "ok"
  BY Taking
<1>2. Emptier(wire', line', wire, line)
  BY <1>1, CalmIsEmptier
<1>3. \A c \in Callers : Asking(c)' => Asking(c)
  BY <1>1 DEF Asking
<1>4. /\ step' = "close" /\ clean' => Flat
      /\ "flat" \in promise' => Flat
  BY <1>1 DEF Asks
<1> QED
  BY <1>1, <1>2, <1>3, <1>4, AsksKept

LEMMA MovesAsks ==
  ASSUME SerialBase, Asks, PufferMoves
  PROVE Asks'
<1>1. /\ wire' = wire /\ line' = line /\ reply' = reply /\ level' = level
      /\ call' = call /\ since' = since /\ promise' = promise /\ step' = step /\ clean' = clean
      /\ puffer' \in {[puffer EXCEPT !.state = "holding"], [state |-> "idle", level |-> 0]}
  BY DEF PufferMoves, statusVars, callVars, driverVars
<1>2. Emptier(wire', line', wire, line)
  BY <1>1, BaseIs, EmptierSame
<1>3. \A c \in Callers : Asking(c)' => Asking(c)
  BY <1>1 DEF Asking
<1>4. /\ step' = "close" /\ clean' => Flat
      /\ "flat" \in promise' => Flat
  BY <1>1 DEF Asks
<1>5. puffer.level = 0 => puffer'.level = 0
  BY <1>1, BaseIs
<1> QED
  BY <1>1, <1>2, <1>3, <1>4, <1>5, AsksKept


LEMMA ReceiveAsks ==
  ASSUME SerialBase, Asks, Receive
  PROVE Asks'
<1> DEFINE a == line[1]
<1>1. /\ 1 \in DOMAIN line
      /\ Calmer(wire', line', wire, line)
      /\ call' = call /\ since' = since /\ promise' = promise /\ step' = step /\ clean' = clean
      /\ puffer' = puffer
      /\ a.for \in Callers => pending[a.for] # "none"
      /\ level' = level \/ level' = a.level
      /\ a.for \in Callers /\ a.ok /\ pending[a.for] = "status" => level' = a.level
      /\ \A c \in Callers : reply'[c] = "ok" => reply[c] = "ok" \/ (a.for = c /\ a.ok)
  BY Hearing
<1>2. DOMAIN line \subseteq Nat
  BY BaseIs
<1> HIDE DEF a
<1>3. Emptier(wire', line', wire, line)
  BY <1>1, CalmIsEmptier
<1>4. \A c \in Callers : Asking(c)' => Asking(c)
  BY <1>1 DEF Asking
<1>5. ASSUME NEW c \in Callers, Asking(c)' PROVE Relied(c)'
  <2>1. Asking(c) /\ Relied(c)
    BY <1>4, <1>5 DEF Asks
  <2>2. CASE reply'[c] = "ok" => reply[c] = "ok"
    <3>1. reply[c] = "ok" => (a.level = 0 => puffer.level = 0)
      BY <1>1, <2>1 DEF Relied, Bears, a
    <3>2. reply'[c] = "ok" => reply[c] = "ok" /\ (level' = 0 => level = 0 \/ puffer.level = 0)
      BY <1>1, <2>2, <3>1
    <3>3. puffer.level = 0 => puffer'.level = 0
      BY <1>1
    <3> QED
      BY <1>3, <2>1, <3>2, <3>3, ReliedKept
  <2>3. CASE reply'[c] = "ok" /\ reply[c] # "ok"
    <3>1. a.for = c /\ a.ok /\ pending[c] # "none"
      BY <1>1, <2>3
    <3>2. pending[c] = "status"
      <4>1. CallsOfEach /\ (c = Queue \/ c = Direct) /\ Queue # Direct
        BY BaseIs, CallsAre, Recipients3
      <4>2. c = Queue => pending[c] = "status"
        BY <2>1, <3>1, <4>1 DEF CallsOfEach, Asking
      <4>3. c = Direct => pending[c] = "status"
        BY <2>1, <3>1, <4>1 DEF CallsOfEach, Asking
      <4> QED
        BY <4>1, <4>2, <4>3
    <3>3. level' = a.level
      BY <1>1, <3>1, <3>2
    <3>4. Awaits(line, c) /\ NoInflate(wire) /\ BearsFrom(line, c, puffer.level)
      <4>1. Awaits(line, c)
        BY <1>1, <3>1 DEF Awaits, a
      <4> QED
        BY <2>1, <4>1 DEF Relied
    <3>5. Bears(line, puffer.level)
      <4>1. \A j \in DOMAIN line : 1 <= j
        BY BaseIs
      <4> QED
        BY <1>1, <3>1, <3>4, <4>1 DEF BearsFrom, Bears, a
    <3>6. a.level = 0 => puffer.level = 0
      BY <1>1, <3>5 DEF Bears, a
    <3>7. NoInflate(wire') /\ Bears(line', puffer.level) /\ NoneAfter(wire', c)
          /\ BearsFrom(line', c, puffer.level)
      BY <1>3, <2>1, <3>4, <3>5 DEF Emptier, Relied
    <3> QED
      BY <1>1, <3>3, <3>6, <3>7 DEF Relied
  <2> QED
    BY <2>2, <2>3
<1>6. Flat => Flat'
  BY <1>1, <1>3, FlatKept DEF Emptier
<1>7. /\ step' = "close" /\ clean' => Flat
      /\ "flat" \in promise' => Flat
  BY <1>1 DEF Asks
<1> QED
  BY <1>5, <1>6, <1>7 DEF Asks

LEMMA ReturnAsks ==
  ASSUME SerialBase, Asks, NEW c \in Callers, SerialReturn(c)
  PROVE Asks'
<1>1. /\ reply[c] # "none" /\ Return(c, reply[c] = "ok") /\ reply' = [reply EXCEPT ![c] = "none"]
      /\ level' = level /\ step' = step /\ clean' = clean /\ wire' = wire /\ line' = line
      /\ puffer' = puffer /\ call[c] # "disconnect"
  BY DEF SerialReturn, statusVars, lineVars
<1>2. /\ \A k \in Callers : /\ call'[k] = IF k = c THEN "none" ELSE call[k]
                            /\ since'[k] = IF k = c THEN {} ELSE since[k]
      /\ "flat" \in promise' =>
           \/ "flat" \in promise
           \/ /\ reply[c] = "ok" /\ call[c] \in {"status", "disconnect"} /\ "inflate" \notin since[c]
              /\ call[c] = "status" => ConfirmedDeflated
  BY <1>1, ReturnIs
<1>3. \A k \in Callers : reply'[k] = IF k = c THEN "none" ELSE reply[k]
  BY <1>1, BaseIs
<1>4. Emptier(wire', line', wire, line)
  BY <1>1, BaseIs, EmptierSame
<1>5. c = Queue => step # "confirm"
  BY <1>1, BaseIs, CallsAre DEF CallsOfEach
<1>6. \A k \in Callers : Asking(k)' => Asking(k)
  BY <1>1, <1>2, <1>5 DEF Asking
<1>7. "flat" \in promise' => Flat
  <2>1. CASE "flat" \in promise
    BY <2>1 DEF Asks
  <2>2. CASE reply[c] = "ok" /\ call[c] = "status" /\ "inflate" \notin since[c] /\ ConfirmedDeflated
    <3>1. Asking(c) /\ level = 0
      BY <2>2 DEF Asking, ConfirmedDeflated
    <3> QED
      BY <2>2, <3>1 DEF Asks, Relied, Flat
  <2> QED
    BY <1>1, <1>2, <2>1, <2>2
<1>8. step' = "close" /\ clean' => Flat
  BY <1>1 DEF Asks
<1> QED
  BY <1>1, <1>3, <1>4, <1>6, <1>7, <1>8, AsksKept

LEMMA OpensAsks ==
  ASSUME SerialBase, Asks, SerialOpens \/ SerialOpenFails
  PROVE Asks'
<1>1. /\ port = "opening" /\ (\E ok : Return(Queue, ok)) /\ Calm
      /\ reply' = reply /\ wire' = wire /\ line' = line /\ puffer' = puffer
      /\ step' = step /\ clean' = clean
  BY DEF SerialOpens, SerialOpenFails, lineVars
<1>2. Queue \in Callers /\ Direct \in Callers /\ Queue # Direct /\ call[Queue] = "connect"
      /\ step = "none"
  BY <1>1, BaseIs, CallsAre, Recipients3 DEF CallsOfEach, DriverTypes
<1>3. /\ \A k \in Callers : /\ call'[k] = IF k = Queue THEN "none" ELSE call[k]
                            /\ since'[k] = IF k = Queue THEN {} ELSE since[k]
      /\ "flat" \in promise' => "flat" \in promise
  BY <1>1, <1>2, ReturnIs
<1>4. Emptier(wire', line', wire, line)
  BY <1>1, BaseIs, EmptierSame
<1>5. \A k \in Callers : Asking(k)' => Asking(k)
  BY <1>1, <1>2, <1>3 DEF Asking
<1>6. \A k \in Callers : reply'[k] # "ok"
  BY <1>1 DEF Calm
<1>7. /\ step' = "close" /\ clean' => Flat
      /\ "flat" \in promise' => Flat
  BY <1>1, <1>3 DEF Asks
<1> QED
  BY <1>1, <1>4, <1>5, <1>6, <1>7, AsksKept

LEMMA ConnectAsks ==
  ASSUME SerialBase, Asks, SerialConnect
  PROVE Asks'
<1>1. /\ Begin(Queue, "connect") /\ Calm
      /\ reply' = reply /\ wire' = <<>> /\ line' = <<>> /\ puffer' = puffer /\ level' = level
      /\ step' = step /\ clean' = clean
  BY DEF SerialConnect
<1>2. Queue \in Callers /\ Direct \in Callers \ {Queue} /\ "connect" \in Operations
  BY Recipients3 DEF Operations
<1>3. /\ "flat" \in promise' => "flat" \in promise
      /\ call[Queue] = "none"
      /\ \A k \in Callers : call'[k] = IF k = Queue THEN "connect" ELSE call[k]
      /\ \A k \in Callers \ {Queue} :
           since'[k] = IF call[k] = "none" THEN {} ELSE since[k] \union MovesOf("connect")
  BY <1>1, <1>2, BeginIs
<1>4. Emptier(wire', line', wire, line)
  BY <1>1, BaseIs, EmptierSame
<1>5. step = "none"
  BY <1>3, BaseIs, CallsAre DEF CallsOfEach
<1>6. \A k \in Callers : Asking(k)' => Asking(k)
  BY <1>1, <1>2, <1>3, <1>5 DEF Asking
<1>7. \A k \in Callers : reply'[k] # "ok"
  BY <1>1 DEF Calm
<1>8. /\ step' = "close" /\ clean' => Flat
      /\ "flat" \in promise' => Flat
  BY <1>1, <1>3 DEF Asks
<1> QED
  BY <1>1, <1>4, <1>6, <1>7, <1>8, AsksKept

LEMMA EndsAsks ==
  ASSUME SerialBase, Asks, NEW ok, DisconnectEnds(ok)
  PROVE Asks'
<1>1. /\ step = "close" /\ Return(Queue, clean /\ ok) /\ level' = level /\ reply' = reply
      /\ wire' = <<>> /\ line' = <<>> /\ puffer' = puffer /\ step' = "none"
  BY DEF DisconnectEnds
<1>2. Queue \in Callers /\ call[Queue] = "disconnect"
  BY <1>1, BaseIs, CallsAre, Recipients3 DEF CallsOfEach
<1>3. /\ \A k \in Callers : /\ call'[k] = IF k = Queue THEN "none" ELSE call[k]
                            /\ since'[k] = IF k = Queue THEN {} ELSE since[k]
      /\ "flat" \in promise' => "flat" \in promise \/ (clean /\ ok)
  BY <1>1, <1>2, ReturnIs
<1>4. Emptier(wire', line', wire, line)
  BY <1>1, BaseIs, EmptierSame
<1>5. \A k \in Callers : Asking(k)' => Asking(k)
  BY <1>1, <1>3 DEF Asking
<1>6. "flat" \in promise' => Flat
  BY <1>1, <1>3 DEF Asks
<1> QED
  BY <1>1, <1>4, <1>5, <1>6, AsksKept

LEMMA SaysAsks ==
  ASSUME SerialBase, Asks, PufferFaults \/ PufferRestarts
  PROVE Asks'
<1>1. /\ level' = level /\ call' = call /\ since' = since /\ promise' = promise
      /\ reply' = reply /\ step' = step /\ clean' = clean
      /\ wire' = wire \/ wire' = <<>>
      /\ puffer'.level = puffer.level
      /\ \E a \in Heard : line' = Append(line, a) /\ a.for = "event" /\ a.level = puffer.level
  BY SaysIs
<1>2. PICK a \in Heard : line' = Append(line, a) /\ a.for = "event" /\ a.level = puffer.level
  BY <1>1
<1>3. Emptier(wire', line, wire, line)
  BY <1>1, BaseIs, EmptierSame
<1>4. /\ Bears(line, puffer.level) => Bears(line', puffer.level)
      /\ \A c : BearsFrom(line, c, puffer.level) => BearsFrom(line', c, puffer.level)
      /\ \A c \in Callers : Awaits(line', c) => Awaits(line, c)
  BY <1>2, BaseIs, MoreHeard, Recipients3
<1>5. ASSUME NEW c \in Callers, Asking(c)' PROVE Relied(c)'
  <2>1. Relied(c)
    BY <1>1, <1>5 DEF Asks, Asking
  <2>2. NoneAfter(wire', c) /\ (NoInflate(wire) => NoInflate(wire'))
    BY <1>3, <2>1 DEF Emptier, Relied
  <2> QED
    BY <1>1, <1>4, <2>1, <2>2 DEF Relied
<1>6. Flat => Flat'
  BY <1>1, <1>3, FlatKept DEF Emptier
<1> QED
  BY <1>1, <1>5, <1>6 DEF Asks


LEMMA ExecuteAsks ==
  ASSUME SerialBase, Asks, Execute
  PROVE Asks'
<1> DEFINE e == wire[1]
<1>1. /\ wire # <<>> /\ wire' = Tail(wire) /\ e = Head(wire) /\ 1 \in DOMAIN wire /\ e.cmd \in Commands
      /\ puffer' = IF puffer.state # "fault" THEN Obeyed(e.cmd) ELSE puffer
      /\ UNCHANGED <<statusVars, callVars, driverVars>>
  BY ExecuteIs
<1>2. line' = line
      \/ \E a \in Heard :
           /\ line' = Append(line, a)
           /\ \/ a.for = e.for /\ a.level = puffer'.level
              \/ a.for = "unknown" /\ a.level \in {puffer.level, puffer'.level}
  BY ExecuteIs
<1>3. /\ level' = level /\ call' = call /\ since' = since /\ promise' = promise
      /\ reply' = reply /\ step' = step /\ clean' = clean
  BY <1>1 DEF statusVars, callVars, driverVars
<1>4. /\ wire \in Seq(Sent) /\ line \in Seq(Heard) /\ LineTypes /\ Tail(wire) \in Seq(Sent)
  BY <1>1, BaseIs, TailIs
<1>5. Emptier(wire', line, wire, line)
  BY <1>1, <1>4, FewerTail, FewerSame, CalmerFewer, CalmIsEmptier
<1>6. \A i \in DOMAIN Tail(wire) : /\ i + 1 \in DOMAIN wire /\ i + 1 > 1
                                   /\ Tail(wire)[i] = wire[i + 1]
  BY <1>1, <1>4, TailIs
<1>7. e.cmd # "inflate" => (puffer.level = 0 => puffer'.level = 0)
  BY <1>1, <1>4, ObeyedIs
<1>8. NoInflate(wire) => e.cmd # "inflate"
  BY <1>1 DEF NoInflate
<1>9. \A c : NoneAfter(wire, c) /\ e.for = c => NoInflate(wire')
  BY <1>1, <1>6 DEF NoneAfter, NoInflate
<1> HIDE DEF e
<1>10. Flat => Flat'
  BY <1>5, <1>7, <1>8 DEF Flat, Emptier
<1>11. ASSUME NEW c \in Callers, Relied(c) PROVE Relied(c)'
  <2>1. NoneAfter(wire', c) /\ (NoInflate(wire) => NoInflate(wire'))
    BY <1>5, <1>11 DEF Relied, Emptier
  <2>2. /\ Awaits(line', c) => Awaits(line, c) \/ (e.for = c)
        /\ \A n : BearsFrom(line, c, n) /\ (puffer.level = 0 => n = 0) /\ (puffer'.level = 0 => n = 0) =>
             BearsFrom(line', c, n)
        /\ \A n : Bears(line, n) /\ (puffer.level = 0 => n = 0) /\ (puffer'.level = 0 => n = 0) =>
             Bears(line', n)
    <3>1. CASE line' = line
      BY <3>1
    <3>2. ASSUME NEW a \in Heard, line' = Append(line, a), a.for = e.for \/ a.for = "unknown",
                 a.level \in {puffer.level, puffer'.level}
          PROVE /\ Awaits(line', c) => Awaits(line, c) \/ (e.for = c)
                /\ \A n : BearsFrom(line, c, n) /\ (puffer.level = 0 => n = 0) /\ (puffer'.level = 0 => n = 0) =>
                     BearsFrom(line', c, n)
                /\ \A n : Bears(line, n) /\ (puffer.level = 0 => n = 0) /\ (puffer'.level = 0 => n = 0) =>
                     Bears(line', n)
      <4>1. /\ \A n : Bears(line, n) /\ (a.level = 0 => n = 0) => Bears(Append(line, a), n)
            /\ \A n : BearsFrom(line, c, n) /\ (a.level = 0 => n = 0) => BearsFrom(Append(line, a), c, n)
            /\ Awaits(Append(line, a), c) => Awaits(line, c) \/ a.for = c
        BY <1>4, MoreHeard
      <4>2. c # "unknown"
        BY Recipients3
      <4> QED
        BY <3>2, <4>1, <4>2
    <3> QED
      BY <1>2, <3>1, <3>2
  <2>3. NoInflate(wire) => (puffer.level = 0 => puffer'.level = 0)
    BY <1>7, <1>8
  <2>4. Awaits(line', c) => NoInflate(wire')
    BY <1>9, <1>11, <2>1, <2>2 DEF Relied
  <2>5. BearsFrom(line', c, puffer'.level)
    <3>1. CASE Awaits(line, c)
      <4>1. puffer.level = 0 => puffer'.level = 0
        BY <1>11, <2>3, <3>1 DEF Relied
      <4>2. BearsFrom(line, c, puffer'.level)
        BY <1>11, <4>1, BearsLess DEF Relied
      <4> QED
        BY <2>2, <4>1, <4>2
    <3>2. CASE ~Awaits(line, c)
      <4>1. \A n : BearsFrom(line, c, n)
        BY <3>2 DEF BearsFrom, Awaits
      <4>2. CASE line' = line
        BY <4>1, <4>2
      <4>3. ASSUME NEW a \in Heard, line' = Append(line, a), a.level = puffer'.level
            PROVE BearsFrom(line', c, puffer'.level)
        BY <1>4, <4>1, <4>3, MoreHeard
      <4>4. ASSUME NEW a \in Heard, line' = Append(line, a), a.for = "unknown"
            PROVE BearsFrom(line', c, puffer'.level)
        <5>1. ~Awaits(line', c)
          BY <1>4, <3>2, <4>4, MoreHeard, Recipients3
        <5> QED
          BY <5>1 DEF BearsFrom, Awaits
      <4> QED
        BY <1>2, <4>2, <4>3, <4>4
    <3> QED
      BY <3>1, <3>2
  <2>6. ASSUME reply'[c] = "ok"
        PROVE /\ NoInflate(wire') /\ Bears(line', puffer'.level)
              /\ level' = 0 => puffer'.level = 0
    <3>1. /\ NoInflate(wire) /\ Bears(line, puffer.level)
          /\ level = 0 => puffer.level = 0
      BY <1>3, <1>11, <2>6 DEF Relied
    <3>2. puffer.level = 0 => puffer'.level = 0
      BY <2>3, <3>1
    <3>3. Bears(line, puffer'.level)
      BY <3>1, <3>2, BearsLess
    <3> QED
      BY <1>3, <2>1, <2>2, <3>1, <3>2, <3>3
  <2> QED
    BY <2>1, <2>4, <2>5, <2>6 DEF Relied
<1>12. \A c \in Callers : Asking(c)' => Asking(c)
  BY <1>3 DEF Asking
<1> QED
  BY <1>3, <1>10, <1>11, <1>12 DEF Asks

\* A command that does not inflate: nothing comes after it yet.
LEMMA SendRests ==
  ASSUME SerialBase, NEW c \in Callers, NEW op \in Commands, Send(c, op), pending[c] = "none",
         garbled' = garbled
  PROVE /\ \A k \in Callers : reply'[k] = "ok" => reply[k] = "ok"
        /\ op # "inflate" => Emptier(wire', line', wire, line)
        /\ NoneAfter(wire', c) /\ ~Awaits(line', c) /\ reply'[c] = "none"
<1>1. /\ \A k \in Callers :
           reply'[k] = IF k = c THEN "none" ELSE IF k \in Overtaken(op) THEN "failed" ELSE reply[k]
      /\ wire' = Append(Ignored(wire, Overtaken(op)), [cmd |-> op, for |-> c])
      /\ line' = Ignored(line, Overtaken(op))
      /\ Ignored(wire, Overtaken(op)) \in Seq(Sent) /\ [cmd |-> op, for |-> c] \in Sent
  BY SendIs
<1> DEFINE v == Ignored(wire, Overtaken(op))
           e == [cmd |-> op, for |-> c]
<1>2. Emptier(v, line', wire, line)
  BY <1>1, BaseIs, CalmerIgnored, CalmIsEmptier
<1>3. /\ \A i \in DOMAIN wire : wire[i].for # c
      /\ \A i \in DOMAIN line : line[i].for # c
  <2>1. \A i \in DOMAIN wire : wire[i].cmd # "none"
    BY BaseIs, Elements, Commands4
  <2> QED
    BY <2>1, BaseIs DEF Addressed
<1>4. \A i \in DOMAIN v : v[i].for # c
  BY <1>3, BaseIs, IgnoredSent, Recipients3
<1>5. ~Awaits(line, c)
  BY <1>3 DEF Awaits
<1>6. e.cmd = op /\ wire' = Append(v, e) /\ v \in Seq(Sent) /\ e \in Sent
  BY <1>1
<1> HIDE DEF v, e
<1>7. NoneAfter(wire', c)
  BY <1>4, <1>6, MoreRests
<1>8. op # "inflate" => /\ NoInflate(v) => NoInflate(wire')
                        /\ \A k : NoneAfter(v, k) => NoneAfter(wire', k)
  BY <1>6, MoreRests
<1> QED
  BY <1>1, <1>2, <1>5, <1>7, <1>8 DEF Emptier

LEMMA CommandAsks ==
  ASSUME SerialBase, Asks, NEW c \in Callers, NEW op \in Commands, SerialCommand(c, op)
  PROVE Asks'
<1>1. /\ Begin(c, op) /\ Send(c, op) /\ garbled' = garbled
      /\ level' = level /\ puffer' = puffer /\ step' = step /\ clean' = clean
  BY DEF SerialCommand, statusVars
<1>2. op \in Operations /\ op # "disconnect"
  BY DEF Operations, Commands, Moves
<1>3. /\ pending[c] = "none" /\ call[c] = "none"
      /\ "flat" \in promise' => "flat" \in promise /\ op # "inflate"
      /\ op = "inflate" => call[Queue] # "disconnect"
      /\ \A k \in Callers : call'[k] = IF k = c THEN op ELSE call[k]
      /\ \A k \in Callers \ {c} : since'[k] = IF call[k] = "none" THEN {} ELSE since[k] \union MovesOf(op)
  BY <1>1, <1>2, BeginIs
<1>4. CallsOfEach /\ Queue \in Callers
  BY BaseIs, CallsAre, Recipients3
<1>5. step # "none" <=> call[Queue] = "disconnect"
  BY <1>4 DEF CallsOfEach
<1>6. /\ \A k \in Callers : reply'[k] = "ok" => reply[k] = "ok"
      /\ op # "inflate" => Emptier(wire', line', wire, line)
      /\ NoneAfter(wire', c) /\ ~Awaits(line', c) /\ reply'[c] = "none"
  BY <1>1, <1>3, SendRests
<1>7. CASE op = "inflate"
  <2>1. step = "none" /\ "inflate" \in MovesOf(op)
    BY <1>3, <1>5, <1>7 DEF MovesOf, Moves
  <2>2. ASSUME NEW k \in Callers PROVE ~Asking(k)'
    <3> SUFFICES ASSUME call'[k] = "status" PROVE "inflate" \in since'[k]
      BY <1>1, <2>1 DEF Asking
    <3>1. k # c /\ call[k] = "status"
      BY <1>3, <1>7
    <3> QED
      BY <1>3, <2>1, <3>1
  <2> QED
    BY <1>1, <1>3, <1>7, <2>1, <2>2 DEF Asks
<1>8. CASE op # "inflate"
  <2>1. Relied(c)'
    <3>1. BearsFrom(line', c, puffer'.level)
      BY <1>6 DEF BearsFrom, Awaits
    <3> QED
      BY <1>6, <3>1 DEF Relied
  <2>2. ASSUME NEW k \in Callers \ {c}, Asking(k)' PROVE Asking(k)
    <3>1. call[k] # "none"
      BY <1>1, <1>3, <1>5, <2>2 DEF Asking
    <3> QED
      BY <1>1, <1>3, <2>2, <3>1 DEF Asking
  <2>3. \A k \in Callers : Asking(k)' => Asking(k) \/ Relied(k)'
    BY <2>1, <2>2
  <2>4. /\ step' = "close" /\ clean' => Flat
        /\ "flat" \in promise' => Flat
    BY <1>1, <1>3 DEF Asks
  <2> QED
    BY <1>1, <1>6, <1>8, <2>3, <2>4, AsksKept
<1> QED
  BY <1>7, <1>8

LEMMA DisconnectAsks ==
  ASSUME SerialBase, Asks, SerialDisconnect
  PROVE Asks'
<1>1. /\ Begin(Queue, "disconnect") /\ garbled' = garbled
      /\ level' = level /\ puffer' = puffer
      /\ \/ step' = "stop" /\ Send(Queue, "stop")
         \/ /\ step' = "close" /\ clean' = FALSE /\ Settle(Waiting, "failed")
            /\ wire' = Ignored(wire, Waiting) /\ line' = Ignored(line, Waiting)
  BY DEF SerialDisconnect, statusVars
<1>2. Queue \in Callers /\ "disconnect" \in Operations /\ "stop" \in Commands /\ Waiting \in SUBSET Callers
  BY Recipients3, Commands4 DEF Operations, Waiting
<1>3. /\ pending[Queue] = "none" /\ call[Queue] = "none"
      /\ "flat" \in promise' => "flat" \in promise
      /\ \A k \in Callers : call'[k] = IF k = Queue THEN "disconnect" ELSE call[k]
      /\ \A k \in Callers \ {Queue} :
           since'[k] = IF call[k] = "none" THEN {} ELSE since[k] \union MovesOf("disconnect")
  <2>1. Begin(Queue, "disconnect")
    BY <1>1
  <2>2. /\ pending[Queue] = "none" /\ call[Queue] = "none"
        /\ "flat" \in promise' => "flat" \in promise
    BY <1>2, <2>1, BeginIs
  <2>3. \A k \in Callers : call'[k] = IF k = Queue THEN "disconnect" ELSE call[k]
    BY <1>2, <2>1, BeginIs
  <2>4. \A k \in Callers \ {Queue} :
           since'[k] = IF call[k] = "none" THEN {} ELSE since[k] \union MovesOf("disconnect")
    BY <1>2, <2>1, BeginIs
  <2> QED
    BY <2>2, <2>3, <2>4
<1>4. \A k \in Callers : Asking(k)' => Asking(k)
  BY <1>1, <1>3 DEF Asking
<1>5. /\ \A k \in Callers : reply'[k] = "ok" => reply[k] = "ok"
      /\ Emptier(wire', line', wire, line)
  <2>1. CASE Send(Queue, "stop")
    BY <1>1, <1>2, <1>3, <2>1, SendRests
  <2>2. CASE Settle(Waiting, "failed") /\ wire' = Ignored(wire, Waiting) /\ line' = Ignored(line, Waiting)
    <3>1. Emptier(wire', line', wire, line)
      BY <2>2, BaseIs, CalmerIgnored, CalmIsEmptier
    <3>2. \A k \in Callers : reply'[k] = "ok" => reply[k] = "ok"
      BY <1>2, <2>2, BaseIs, SettleIs
    <3> QED
      BY <3>1, <3>2
  <2> QED
    BY <1>1, <2>1, <2>2
<1>6. /\ step' = "close" /\ clean' => Flat
      /\ "flat" \in promise' => Flat
  BY <1>1, <1>3 DEF Asks
<1> QED
  BY <1>1, <1>4, <1>5, <1>6, AsksKept

LEMMA FollowAsks ==
  ASSUME SerialBase, Asks, DisconnectContinues \/ DisconnectPolls \/ DisconnectGivesUp
  PROVE Asks'
<1>1. /\ call[Queue] = "disconnect" /\ pending[Queue] = "none"
      /\ level' = level /\ call' = call /\ since' = since /\ promise' = promise
      /\ port' = port /\ puffer' = puffer /\ garbled' = garbled
      /\ FollowUp
  BY FollowIs DEF statusVars, callVars
<1>2. /\ Queue \in Callers /\ "deflate" \in Commands /\ "status" \in Commands
      /\ "inflate" \notin since[Queue]
  BY <1>1, BaseIs, CallsAre, Recipients3, Commands4 DEF CallsOfEach
<1>3. /\ puffer.level = 0 => puffer'.level = 0
      /\ "flat" \in promise' => Flat
      /\ level' = 0 => level = 0 \/ puffer.level = 0
  BY <1>1 DEF Asks
<1>4. ASSUME step' # "confirm", Emptier(wire', line', wire, line),
             \A k \in Callers : reply'[k] = "ok" => reply[k] = "ok",
             step' = "close" /\ clean' => Flat
      PROVE Asks'
  <2>1. \A k \in Callers : Asking(k)' => Asking(k)
    BY <1>1, <1>4 DEF Asking
  <2> QED
    BY <1>3, <1>4, <2>1, AsksKept
<1>5. ASSUME NEW ok \in BOOLEAN, Shut(ok), ok => step = "confirm" /\ reply[Queue] = "ok" /\ ConfirmedDeflated
      PROVE Asks'
  <2>1. /\ step' = "close" /\ clean' = (clean /\ ok)
        /\ \A k \in Callers :
             reply'[k] = IF k = Queue THEN "none" ELSE IF pending[k] # "none" THEN "failed" ELSE reply[k]
        /\ wire' = Ignored(wire, Waiting) /\ line' = Ignored(line, Waiting)
    BY <1>1, <1>5, ShutIs
  <2>2. Emptier(wire', line', wire, line)
    BY <2>1, BaseIs, CalmerIgnored, CalmIsEmptier
  <2>3. ok => Flat
    <3> SUFFICES ASSUME ok PROVE Flat
      OBVIOUS
    <3>1. Asking(Queue) /\ reply[Queue] = "ok" /\ level = 0
      BY <1>2, <1>5 DEF Asking, ConfirmedDeflated
    <3> QED
      BY <1>2, <3>1 DEF Asks, Relied, Flat
  <2> QED
    BY <1>4, <2>1, <2>2, <2>3
<1>6. CASE /\ Send(Queue, "deflate") /\ step' = "deflate"
  BY <1>1, <1>2, <1>4, <1>6, SendRests
<1>7. CASE Send(Queue, "status") /\ step' = "confirm"
  <2>1. /\ \A k \in Callers : reply'[k] = "ok" => reply[k] = "ok"
        /\ Emptier(wire', line', wire, line)
        /\ NoneAfter(wire', Queue) /\ ~Awaits(line', Queue) /\ reply'[Queue] = "none"
    BY <1>1, <1>2, <1>7, SendRests
  <2>2. Relied(Queue)'
    <3>1. BearsFrom(line', Queue, puffer'.level)
      BY <2>1 DEF BearsFrom, Awaits
    <3> QED
      BY <2>1, <3>1 DEF Relied
  <2>3. \A k \in Callers : k # Queue /\ Asking(k)' => Asking(k)
    BY <1>1 DEF Asking
  <2>4. \A k \in Callers : Asking(k)' => Asking(k) \/ Relied(k)'
    BY <2>2, <2>3
  <2>5. step' # "close"
    BY <1>7
  <2> QED
    BY <1>3, <2>1, <2>4, <2>5, AsksKept
<1>8. CASE /\ pending' = [pending EXCEPT ![Queue] = "deflate"] /\ reply' = [reply EXCEPT ![Queue] = "none"]
           /\ wire' = Append(WithEmergencyStop(wire), [cmd |-> "deflate", for |-> Queue]) /\ line' = line
           /\ port = "open" /\ step' = "deflate"
  <2>1. /\ wire' = Append(Append(wire, EmergencyStop), [cmd |-> "deflate", for |-> Queue])
        /\ Append(wire, EmergencyStop) \in Seq(Sent) /\ [cmd |-> "deflate", for |-> Queue] \in Sent
    BY <1>1, <1>8, StopFailedIs
  <2> DEFINE v == Append(wire, EmergencyStop)
             e == [cmd |-> "deflate", for |-> Queue]
  <2>2. /\ EmergencyStop \in Sent /\ EmergencyStop.cmd # "inflate" /\ e \in Sent /\ e.cmd # "inflate"
        /\ wire \in Seq(Sent) /\ v \in Seq(Sent)
    BY <2>1, BaseIs, Recipients3
  <2>3. /\ NoInflate(wire) => NoInflate(v)
        /\ \A c : NoneAfter(wire, c) => NoneAfter(v, c)
    BY <2>2, MoreRests
  <2> HIDE DEF v, e
  <2>4. /\ NoInflate(v) => NoInflate(Append(v, e))
        /\ \A c : NoneAfter(v, c) => NoneAfter(Append(v, e), c)
    BY <2>2, MoreRests
  <2>5. wire' = Append(v, e)
    BY <2>1 DEF v, e
  <2>6. Emptier(wire', line', wire, line)
    BY <1>8, <2>3, <2>4, <2>5 DEF Emptier
  <2>7. \A k \in Callers : reply'[k] = "ok" => reply[k] = "ok"
    BY <1>8, BaseIs
  <2> QED
    BY <1>4, <1>8, <2>6, <2>7
<1>9. CASE /\ step' = "poll" /\ reply' = [reply EXCEPT ![Queue] = "none"] /\ wire' = wire /\ line' = line
  <2>1. Emptier(wire', line', wire, line)
    BY <1>9, BaseIs, EmptierSame
  <2>2. \A k \in Callers : reply'[k] = "ok" => reply[k] = "ok"
    BY <1>9, BaseIs
  <2> QED
    BY <1>4, <1>9, <2>1, <2>2
<1> QED
  BY <1>1, <1>5, <1>6, <1>7, <1>8, <1>9 DEF FollowUp

LEMMA AsksHeld == SerialBase /\ Asks /\ SerialNext => Asks'
  BY ConnectAsks, OpensAsks, ReturnAsks, TakingAsks, CommandAsks, ReceiveAsks, DisconnectAsks,
     FollowAsks, EndsAsks, ExecuteAsks, MovesAsks, SaysAsks DEF SerialNext

LEMMA AsksAtFirst == Init /\ mode = "serial" => Asks
  BY DEF Init, DeviceInit, SerialInit, Asks, Asking, Callers


-----------------------------------------------------------------------------
(* A fault on an open line is stopped.                                     *)

Certain(w) ==
  \A i \in DOMAIN w : w[i].cmd \in Moves => \E j \in DOMAIN w : i < j /\ w[j] = EmergencyStop
Ending(w) == \E j \in DOMAIN w : w[j] = EmergencyStop

Lively == puffer.state \in {"inflating", "deflating"}

Watched == state = "fault" /\ port = "open" /\ fault # "unstopped" /\ ~overruled

Halted == Watched => Certain(wire) /\ (Lively => Ending(wire))

LEMMA CertainMore ==
  ASSUME NEW w \in Seq(Sent), NEW e \in Sent
  PROVE /\ Certain(w) /\ e.cmd \notin Moves => Certain(Append(w, e))
        /\ Ending(w) => Ending(Append(w, e))
        /\ e = EmergencyStop => Certain(Append(w, e)) /\ Ending(Append(w, e))
        /\ Certain(<<>>)
<1> DEFINE v == Append(w, e)
<1>1. /\ DOMAIN v = 1 .. Len(w) + 1 /\ DOMAIN w = 1 .. Len(w) /\ Len(w) \in Nat
      /\ \A i \in 1 .. Len(w) : v[i] = w[i]
      /\ v[Len(w) + 1] = e
  BY AppendIs
<1> HIDE DEF v
<1>2. \A i \in DOMAIN v : (i \in DOMAIN w /\ v[i] = w[i]) \/ (i = Len(w) + 1 /\ v[i] = e)
  BY <1>1
<1>3. \A i \in DOMAIN w : i \in DOMAIN v /\ v[i] = w[i] /\ i < Len(w) + 1
  BY <1>1
<1>4. Certain(w) /\ e.cmd \notin Moves => Certain(v)
  BY <1>2, <1>3 DEF Certain
<1>5. Ending(w) => Ending(v)
  BY <1>3 DEF Ending
<1>6. ASSUME e = EmergencyStop PROVE Certain(v) /\ Ending(v)
  <2>1. e.cmd \notin Moves /\ Len(w) + 1 \in DOMAIN v
    BY <1>1, <1>6 DEF EmergencyStop, Moves
  <2>2. Ending(v)
    BY <1>1, <1>6, <2>1 DEF Ending
  <2>3. Certain(v)
    BY <1>1, <1>2, <1>3, <1>6, <2>1 DEF Certain
  <2> QED
    BY <2>2, <2>3
<1>7. Certain(<<>>)
  BY DEF Certain
<1> QED
  BY <1>4, <1>5, <1>6, <1>7 DEF v

LEMMA CertainIgnored ==
  ASSUME NEW w \in Seq(Sent), NEW cs
  PROVE /\ Certain(w) => Certain(Ignored(w, cs))
        /\ Ending(w) => Ending(Ignored(w, cs))
<1> DEFINE v == Ignored(w, cs)
<1>1. /\ DOMAIN v = DOMAIN w
      /\ \A i \in DOMAIN w : v[i].cmd = w[i].cmd /\ (w[i] = EmergencyStop => v[i] = w[i])
  BY IgnoredSent
<1> HIDE DEF v
<1>2. Certain(w) => Certain(v)
  BY <1>1 DEF Certain
<1>3. Ending(w) => Ending(v)
  BY <1>1 DEF Ending
<1> QED
  BY <1>2, <1>3 DEF v

LEMMA CertainTail ==
  ASSUME NEW w \in Seq(Sent), w # <<>>
  PROVE /\ Certain(w) => Certain(Tail(w))
        /\ Certain(w) /\ w[1].cmd \in Moves => Ending(Tail(w))
        /\ Ending(w) /\ w[1] # EmergencyStop => Ending(Tail(w))
<1>1. /\ 1 \in DOMAIN w /\ DOMAIN w \subseteq Nat
      /\ \A i \in DOMAIN Tail(w) : i + 1 \in DOMAIN w /\ Tail(w)[i] = w[i + 1] /\ i \in Nat
      /\ \A j \in DOMAIN w : j > 1 => /\ j - 1 \in DOMAIN Tail(w) /\ Tail(w)[j - 1] = w[j]
                                      /\ j - 1 \in Nat
      /\ \A j \in DOMAIN w : j = 1 \/ j > 1
  BY TailIs
<1>2. Certain(w) => Certain(Tail(w))
  <2> SUFFICES ASSUME Certain(w), NEW i \in DOMAIN Tail(w), Tail(w)[i].cmd \in Moves
               PROVE \E k \in DOMAIN Tail(w) : i < k /\ Tail(w)[k] = EmergencyStop
    BY DEF Certain
  <2>1. PICK j \in DOMAIN w : i + 1 < j /\ w[j] = EmergencyStop
    BY <1>1 DEF Certain
  <2>2. j > 1 /\ i < j - 1
    BY <1>1, <2>1
  <2> QED
    BY <1>1, <2>1, <2>2
<1>3. Certain(w) /\ w[1].cmd \in Moves => Ending(Tail(w))
  BY <1>1 DEF Certain, Ending
<1>4. Ending(w) /\ w[1] # EmergencyStop => Ending(Tail(w))
  BY <1>1 DEF Ending
<1> QED
  BY <1>2, <1>3, <1>4


LEMMA CertainWithout ==
  ASSUME NEW w \in Seq(Sent), NEW i \in DOMAIN w, w[i] # EmergencyStop
  PROVE /\ Certain(w) => Certain(Without(w, i))
        /\ Ending(w) => Ending(Without(w, i))
<1> DEFINE v == Without(w, i)
<1>1. /\ DOMAIN v = 1 .. Len(w) - 1 /\ DOMAIN w = 1 .. Len(w) /\ Len(w) \in Nat \ {0}
      /\ \A j \in 1 .. Len(w) - 1 : v[j] = IF j < i THEN w[j] ELSE w[j + 1]
  BY WithoutIs
<1> HIDE DEF v
<1>2. ASSUME NEW j \in DOMAIN w, j # i
      PROVE \E k \in DOMAIN v : v[k] = w[j] /\ (IF j < i THEN k = j ELSE k = j - 1)
  <2>1. CASE j < i
    <3>1. j \in DOMAIN v
      BY <1>1, <2>1
    <3> QED
      BY <1>1, <2>1, <3>1
  <2>2. CASE j > i
    <3>1. j - 1 \in DOMAIN v /\ ~(j - 1 < i) /\ (j - 1) + 1 = j /\ ~(j < i)
      BY <1>1, <2>2
    <3> QED
      BY <1>1, <3>1
  <2> QED
    BY <1>1, <1>2, <2>1, <2>2
<1>3. ASSUME NEW k \in DOMAIN v
      PROVE \E j \in DOMAIN w : j # i /\ v[k] = w[j] /\ (IF k < i THEN j = k ELSE j = k + 1)
  <2>1. CASE k < i
    <3>1. k \in DOMAIN w /\ k # i
      BY <1>1, <2>1
    <3> QED
      BY <1>1, <2>1, <3>1
  <2>2. CASE ~(k < i)
    <3>1. k + 1 \in DOMAIN w /\ k + 1 # i
      BY <1>1, <2>2
    <3> QED
      BY <1>1, <2>2, <3>1
  <2> QED
    BY <2>1, <2>2
<1>4. Ending(w) => Ending(v)
  BY <1>2 DEF Ending
<1>5. ASSUME Certain(w), NEW k \in DOMAIN v, v[k].cmd \in Moves
      PROVE \E n \in DOMAIN v : k < n /\ v[n] = EmergencyStop
  <2>1. PICK j \in DOMAIN w : j # i /\ v[k] = w[j] /\ (IF k < i THEN j = k ELSE j = k + 1)
    BY <1>3
  <2>2. PICK m \in DOMAIN w : j < m /\ w[m] = EmergencyStop
    BY <1>5, <2>1 DEF Certain
  <2>3. m # i
    BY <2>2
  <2>4. PICK n \in DOMAIN v : v[n] = w[m] /\ (IF m < i THEN n = m ELSE n = m - 1)
    BY <1>2, <2>3
  <2>5. k < n
    BY <1>1, <2>1, <2>2, <2>3, <2>4
  <2> QED
    BY <2>2, <2>4, <2>5
<1>6. Certain(w) => Certain(v)
  BY <1>5 DEF Certain
<1> QED
  BY <1>4, <1>6 DEF v

\* A step that the driver does not watch for, or that leaves the line as it was.
LEMMA HaltedKept ==
  ASSUME Halted, Watched' => Watched \/ (Certain(wire') /\ Ending(wire')),
         Certain(wire) => Certain(wire'),
         Lively' => Lively,
         Ending(wire) => Ending(wire')
  PROVE Halted'
  BY DEF Halted

\* The driver sees the fault, and stops.
LEMMA StopWritten ==
  ASSUME NEW w \in Seq(Sent), port = "open"
  PROVE Certain(WithEmergencyStop(w)) /\ Ending(WithEmergencyStop(w))
<1>1. WithEmergencyStop(w) = Append(w, EmergencyStop) /\ EmergencyStop \in Sent
  BY EmergencyIs, Recipients3
<1> QED
  BY <1>1, CertainMore

LEMMA AlarmHalts ==
  ASSUME SerialBase, NEW code, NEW cs, NEW answers, Alarm(code, cs, answers), port' = port
  PROVE Halted'
<1>1. wire' = WithEmergencyStop(Ignored(wire, cs)) /\ Ignored(wire, cs) \in Seq(Sent)
  BY BaseIs, IgnoredSent DEF Alarm
<1>2. Watched' => Certain(wire') /\ Ending(wire')
  BY <1>1, StopWritten DEF Watched
<1> QED
  BY <1>2 DEF Halted

LEMMA TakingHalts ==
  ASSUME SerialBase, Halted,
         \/ \E c \in Callers : SerialTimeout(c) \/ SerialWriteFails(c)
         \/ EmergencyWriteFails \/ SerialError \/ SerialUnplugged
  PROVE Halted'
<1>0. wire \in Seq(Sent)
  BY BaseIs
<1>1. ASSUME NEW c \in Callers, SerialTimeout(c) PROVE Halted'
  <2>1. CASE pending[c] = "stop"
    <3>1. wire' = Ignored(wire, {c}) /\ UNCHANGED <<state, fault, overruled, port, puffer>>
      BY <1>1, <2>1 DEF SerialTimeout, statusVars
    <3>2. (Watched' => Watched) /\ (Lively' => Lively)
      BY <3>1 DEF Watched, Lively
    <3> QED
      BY <1>0, <3>1, <3>2, CertainIgnored, HaltedKept
  <2>2. CASE pending[c] # "stop"
    <3>1. Alarm("timeout", {c}, line) /\ port' = port
      BY <1>1, <2>2 DEF SerialTimeout
    <3> QED
      BY <3>1, AlarmHalts
  <2> QED
    BY <2>1, <2>2
<1>2. ASSUME NEW c \in Callers, SerialWriteFails(c) PROVE Halted'
  <2>1. PICK i \in DOMAIN wire :
          /\ wire[i].for = c /\ UNCHANGED <<port, puffer>>
          /\ \/ wire' = Without(wire, i) /\ UNCHANGED <<state, fault, overruled>>
             \/ wire' = WithEmergencyStop(Without(wire, i))
    BY <1>2 DEF SerialWriteFails, statusVars
  <2>2. wire[i] # EmergencyStop /\ Without(wire, i) \in Seq(Sent)
    BY <1>0, <2>1, WithoutIs, Recipients3 DEF EmergencyStop
  <2>3. CASE wire' = Without(wire, i) /\ UNCHANGED <<state, fault, overruled>>
    <3>1. (Watched' => Watched) /\ (Lively' => Lively)
      BY <2>1, <2>3 DEF Watched, Lively
    <3> QED
      BY <1>0, <2>2, <2>3, <3>1, CertainWithout, HaltedKept
  <2>4. CASE wire' = WithEmergencyStop(Without(wire, i))
    <3>1. Watched' => Certain(wire') /\ Ending(wire')
      BY <2>1, <2>2, <2>4, StopWritten DEF Watched
    <3> QED
      BY <3>1 DEF Halted
  <2> QED
    BY <2>1, <2>3, <2>4
<1>3. EmergencyWriteFails => ~Watched'
  BY DEF EmergencyWriteFails, Watched
<1>4. SerialError => Alarm("lost", Waiting, line) /\ port' = port
  BY DEF SerialError
<1>5. SerialUnplugged => ~Watched'
  BY DEF SerialUnplugged, Watched
<1>6. ~Watched' => Halted'
  BY DEF Halted
<1> QED
  BY <1>1, <1>2, <1>3, <1>4, <1>5, <1>6, AlarmHalts

LEMMA ReceiveHalts ==
  ASSUME SerialBase, Halted, Receive
  PROVE Halted'
<1> DEFINE a == line[1]
<1>0. /\ wire \in Seq(Sent) /\ line \in Seq(Heard) /\ line # <<>> /\ Honest(line, pending, garbled)
      /\ port = "open" /\ port' = port /\ puffer' = puffer
  BY BaseIs, ReceiveIs
<1>1. Head(line) = a /\ (a.ok => a.state # "fault")
  <2>1. Head(line) = a /\ 1 \in DOMAIN line
    BY <1>0, TailIs
  <2> QED
    BY <1>0, <2>1 DEF Honest
<1> HIDE DEF a
<1>2. \/ a.ok /\ state' = a.state
      \/ \E code : Alarm(code, Waiting, Tail(line))
      \/ wire' = wire /\ UNCHANGED <<state, fault, overruled>>
      \/ wire' = WithEmergencyStop(wire)
  BY <1>1, ReceiveIs DEF statusVars
<1>3. CASE a.ok /\ state' = a.state
  BY <1>1, <1>3 DEF Halted, Watched
<1>4. CASE \E code : Alarm(code, Waiting, Tail(line))
  BY <1>0, <1>4, AlarmHalts
<1>5. CASE wire' = wire /\ UNCHANGED <<state, fault, overruled>>
  <2>1. (Watched' => Watched) /\ (Lively' => Lively)
    BY <1>0, <1>5 DEF Watched, Lively
  <2> QED
    BY <1>5, <2>1, HaltedKept
<1>6. CASE wire' = WithEmergencyStop(wire)
  <2>1. Certain(wire') /\ Ending(wire')
    BY <1>0, <1>6, StopWritten
  <2> QED
    BY <2>1 DEF Halted
<1> QED
  BY <1>2, <1>3, <1>4, <1>5, <1>6

LEMMA ExecuteHalts ==
  ASSUME SerialBase, Halted, Execute
  PROVE Halted'
<1> DEFINE e == wire[1]
<1>1. /\ wire # <<>> /\ wire' = Tail(wire) /\ 1 \in DOMAIN wire /\ e.cmd \in Commands
      /\ puffer' = IF puffer.state # "fault" THEN Obeyed(e.cmd) ELSE puffer
      /\ UNCHANGED <<statusVars, callVars, driverVars>>
  BY ExecuteIs
<1>2. wire \in Seq(Sent) /\ LineTypes
  BY BaseIs
<1> HIDE DEF e
<1>3. Watched' => Watched
  BY <1>1 DEF Watched, statusVars, driverVars
<1>4. /\ Certain(wire) => Certain(wire')
      /\ Certain(wire) /\ e.cmd \in Moves => Ending(wire')
      /\ Ending(wire) /\ e.cmd # "stop" => Ending(wire')
  BY <1>1, <1>2, CertainTail DEF EmergencyStop, e
<1>5. /\ Lively' => e.cmd # "stop"
      /\ Lively' /\ e.cmd \notin Moves => Lively
  <2>1. /\ e.cmd = "stop" => Obeyed(e.cmd).state = "stopped"
        /\ e.cmd = "status" => Obeyed(e.cmd) = puffer
    BY <1>1, <1>2, ObeyedIs
  <2>2. e.cmd \in Moves \union {"status", "stop"}
    BY <1>1 DEF Commands
  <2> QED
    BY <1>1, <2>1, <2>2 DEF Lively
<1> QED
  BY <1>3, <1>4, <1>5 DEF Halted

LEMMA PufferHalts ==
  ASSUME SerialBase, Halted, PufferMoves \/ PufferFaults \/ PufferRestarts
  PROVE Halted'
<1>1. CASE PufferMoves
  <2>1. UNCHANGED <<state, fault, overruled, port, wire>> /\ puffer'.state \in {"holding", "idle"}
    BY <1>1, BaseIs DEF PufferMoves, statusVars, driverVars
  <2>2. (Watched' => Watched) /\ ~Lively'
    BY <2>1 DEF Watched, Lively
  <2> QED
    BY <2>1, <2>2, HaltedKept
<1>2. CASE PufferFaults \/ PufferRestarts
  <2>1. /\ UNCHANGED <<state, fault, overruled, port>> /\ (wire' = wire \/ wire' = <<>>)
        /\ puffer'.state \in {"fault", "idle", "stopped"}
    BY <1>2, SaysIs
  <2>2. (Watched' => Watched) /\ ~Lively'
    BY <2>1 DEF Watched, Lively
  <2>3. Certain(wire) => Certain(wire')
    BY <2>1 DEF Certain
  <2> QED
    BY <2>2, <2>3 DEF Halted
<1> QED
  BY <1>1, <1>2

\* A command that does not move the puffer.
LEMMA SendHalts ==
  ASSUME SerialBase, NEW c \in Callers, NEW op \in Commands, Send(c, op), pending[c] = "none",
         garbled' = garbled, Halted, UNCHANGED <<state, fault, port, puffer>>
  PROVE Halted'
<1>1. /\ wire' = Append(Ignored(wire, Overtaken(op)), [cmd |-> op, for |-> c])
      /\ overruled' = (overruled \/ op \in Moves)
      /\ Ignored(wire, Overtaken(op)) \in Seq(Sent) /\ [cmd |-> op, for |-> c] \in Sent
  BY SendIs
<1>2. CASE op \in Moves
  BY <1>1, <1>2 DEF Halted, Watched
<1>3. CASE op \notin Moves
  <2>1. (Watched' => Watched) /\ (Lively' => Lively)
    BY <1>1 DEF Watched, Lively
  <2> DEFINE v == Ignored(wire, Overtaken(op))
             e == [cmd |-> op, for |-> c]
  <2>2. (Certain(wire) => Certain(v)) /\ (Ending(wire) => Ending(v))
    BY BaseIs, CertainIgnored
  <2>3. e.cmd = op /\ wire' = Append(v, e) /\ v \in Seq(Sent) /\ e \in Sent
    BY <1>1
  <2> HIDE DEF v, e
  <2>4. (Certain(wire) => Certain(wire')) /\ (Ending(wire) => Ending(wire'))
    BY <1>3, <2>2, <2>3, CertainMore
  <2> QED
    BY <2>1, <2>4, HaltedKept
<1> QED
  BY <1>2, <1>3

LEMMA CallsHalt ==
  ASSUME SerialBase, Halted,
         \/ SerialConnect \/ SerialOpens \/ SerialOpenFails \/ SerialDisconnect
         \/ \E c \in Callers : SerialReturn(c) \/ \E op \in Commands : SerialCommand(c, op)
         \/ \E ok \in BOOLEAN : DisconnectEnds(ok)
  PROVE Halted'
<1>1. CASE SerialConnect \/ SerialOpens \/ SerialOpenFails \/ \E ok \in BOOLEAN : DisconnectEnds(ok)
  <2>1. state' # "fault"
    BY <1>1 DEF SerialConnect, SerialOpens, SerialOpenFails, DisconnectEnds
  <2> QED
    BY <2>1 DEF Halted, Watched
<1>2. ASSUME NEW c \in Callers, SerialReturn(c) PROVE Halted'
  <2>1. UNCHANGED <<state, fault, overruled, port, wire, puffer>>
    BY <1>2 DEF SerialReturn, statusVars, lineVars
  <2>2. (Watched' => Watched) /\ (Lively' => Lively)
    BY <2>1 DEF Watched, Lively
  <2> QED
    BY <2>1, <2>2, HaltedKept
<1>3. ASSUME NEW c \in Callers, NEW op \in Commands, SerialCommand(c, op) PROVE Halted'
  <2>1. /\ Begin(c, op) /\ Send(c, op) /\ garbled' = garbled
        /\ UNCHANGED <<state, fault, port, puffer>>
    BY <1>3 DEF SerialCommand, statusVars
  <2>2. op \in Operations
    BY DEF Operations
  <2>3. pending[c] = "none"
    BY <2>1, <2>2, BeginIs
  <2> QED
    BY <2>1, <2>3, SendHalts
<1>4. CASE SerialDisconnect
  <2>1. /\ Begin(Queue, "disconnect") /\ garbled' = garbled /\ UNCHANGED <<state, fault, port, puffer>>
        /\ \/ Send(Queue, "stop")
           \/ wire' = Ignored(wire, Waiting) /\ overruled' = overruled
    BY <1>4 DEF SerialDisconnect, statusVars
  <2>2. Queue \in Callers /\ "disconnect" \in Operations /\ "stop" \in Commands
    BY Recipients3, Commands4 DEF Operations
  <2>3. pending[Queue] = "none"
    BY <2>1, <2>2, BeginIs
  <2>4. CASE Send(Queue, "stop")
    BY <2>1, <2>2, <2>3, <2>4, SendHalts
  <2>5. CASE wire' = Ignored(wire, Waiting) /\ overruled' = overruled
    <3>1. (Watched' => Watched) /\ (Lively' => Lively)
      BY <2>1, <2>5 DEF Watched, Lively
    <3> QED
      BY <2>5, <3>1, BaseIs, CertainIgnored, HaltedKept
  <2> QED
    BY <2>1, <2>4, <2>5
<1> QED
  BY <1>1, <1>2, <1>3, <1>4

LEMMA FollowHalts ==
  ASSUME SerialBase, Halted, DisconnectContinues \/ DisconnectPolls \/ DisconnectGivesUp
  PROVE Halted'
<1>1. /\ pending[Queue] = "none" /\ garbled' = garbled /\ UNCHANGED <<state, fault, port, puffer>>
      /\ FollowUp
  BY FollowIs DEF statusVars
<1>2. Queue \in Callers /\ "deflate" \in Commands /\ "status" \in Commands
  BY Recipients3, Commands4
<1>3. CASE \E ok \in BOOLEAN : Shut(ok)
  <2>1. wire' = Ignored(wire, Waiting) /\ overruled' = overruled
    BY <1>3 DEF Shut
  <2>2. (Watched' => Watched) /\ (Lively' => Lively)
    BY <1>1, <2>1 DEF Watched, Lively
  <2> QED
    BY <2>1, <2>2, BaseIs, CertainIgnored, HaltedKept
<1>4. CASE Send(Queue, "deflate") \/ Send(Queue, "status")
  BY <1>1, <1>2, <1>4, SendHalts
<1>5. CASE overruled' = TRUE
  BY <1>5 DEF Halted, Watched
<1>6. CASE wire' = wire /\ overruled' = overruled
  <2>1. (Watched' => Watched) /\ (Lively' => Lively)
    BY <1>1, <1>6 DEF Watched, Lively
  <2> QED
    BY <1>6, <2>1, HaltedKept
<1> QED
  BY <1>1, <1>3, <1>4, <1>5, <1>6 DEF FollowUp

LEMMA HaltedHeld == SerialBase /\ Halted /\ SerialNext => Halted'
  BY CallsHalt, TakingHalts, ReceiveHalts, FollowHalts, ExecuteHalts, PufferHalts DEF SerialNext

LEMMA HaltedAtFirst == Init /\ mode = "serial" => Halted
  BY DEF Init, DeviceInit, Halted, Watched


-----------------------------------------------------------------------------
(* The devices.                                                            *)

\* The devices that a server has not chosen keep their types by keeping still.
OthersKeep ==
  /\ mode # "serial" => SerialTypeOK
  /\ mode # "screen" => ScreenTypeOK
  /\ mode # "mock" => MockTypeOK

\* The inductive invariant of the devices.
DevicesInv ==
  /\ mode \in {"serial", "screen", "mock"}
  /\ OthersKeep
  /\ mode = "serial" => SerialBase /\ Stops /\ Asks /\ Halted
  /\ mode = "screen" => ScreenInv
  /\ mode = "mock" => MockInv

LEMMA OthersAtFirst == Init => OthersKeep
<1> SUFFICES ASSUME Init PROVE OthersKeep
  OBVIOUS
<1>1. SerialInit /\ ScreenInit /\ MockInit
  BY DEF Init
<1>2. SerialTypeOK
  <2>1. /\ port = "none" /\ closing = FALSE /\ step = "none" /\ clean = TRUE /\ overruled = FALSE
        /\ wire = <<>> /\ line = <<>> /\ mishaps = 0 /\ garbled = FALSE
        /\ puffer = [state |-> "idle", level |-> 0]
        /\ pending = [c \in Callers |-> "none"] /\ reply = [c \in Callers |-> "none"]
    BY <1>1 DEF SerialInit
  <2>2. puffer \in [state : States, level : {0, Full}]
    BY <2>1 DEF States
  <2>3. pending \in [Callers -> Commands \union {"none"}] /\ reply \in [Callers -> {"none", "ok", "failed"}]
    BY <2>1
  <2>4. mishaps \in 0 .. MaxMishaps
    BY <2>1, BoundAssumption
  <2>5. DOMAIN wire = {} /\ DOMAIN line = {}
    BY <2>1
  <2> QED
    BY <2>1, <2>2, <2>3, <2>4, <2>5 DEF SerialTypeOK
<1>3. ScreenTypeOK
  BY <1>1 DEF ScreenInit, ScreenTypeOK
<1>4. MockTypeOK
  BY <1>1 DEF MockInit, MockTypeOK
<1> QED
  BY <1>2, <1>3, <1>4 DEF OthersKeep

LEMMA OthersKept ==
  /\ SerialTypeOK /\ UNCHANGED serialVars => SerialTypeOK'
  /\ ScreenTypeOK /\ UNCHANGED screenVars => ScreenTypeOK'
  /\ MockTypeOK /\ UNCHANGED mockVars => MockTypeOK'
<1>1. SerialTypeOK /\ UNCHANGED serialVars => SerialTypeOK'
  BY DEF SerialTypeOK, serialVars, driverVars, lineVars
<1>2. ScreenTypeOK /\ UNCHANGED screenVars => ScreenTypeOK'
  BY DEF ScreenTypeOK, screenVars
<1>3. MockTypeOK /\ UNCHANGED mockVars => MockTypeOK'
  BY DEF MockTypeOK, mockVars
<1> QED
  BY <1>1, <1>2, <1>3

LEMMA DevicesAtFirst == Init => DevicesInv
<1> SUFFICES ASSUME Init PROVE DevicesInv
  OBVIOUS
<1>1. mode \in {"serial", "screen", "mock"}
  BY ModeAssumption DEF Init
<1> QED
  BY <1>1, OthersAtFirst, SerialAtFirst, StopsAtFirst, AsksAtFirst, HaltedAtFirst, ScreenAtFirst,
     MockAtFirst DEF DevicesInv

LEMMA SerialInvKept ==
  ASSUME SerialBase /\ Stops /\ Asks /\ Halted, SerialNext \/ UNCHANGED <<deviceVars, serialVars>>
  PROVE (SerialBase /\ Stops /\ Asks /\ Halted)'
<1>1. CASE SerialNext
  BY <1>1, SerialBaseKept, StopsHeld, AsksHeld, HaltedHeld
<1>2. CASE UNCHANGED <<deviceVars, serialVars>>
  <2>1. UNCHANGED <<connected, state, level, fault, call, since, promise, port, closing, pending, reply,
                    step, clean, overruled, wire, line, puffer, mishaps, garbled>>
    BY <1>2 DEF deviceVars, statusVars, callVars, serialVars, driverVars, lineVars
  <2>2. SerialBase'
    <3>1. DeviceTypeOK' /\ DriverTypes' /\ LineTypes'
      BY <2>1 DEF SerialBase, DeviceTypeOK, DriverTypes, LineTypes
    <3>2. SerialCalls' /\ OnLine'
      BY <2>1, CallsSame DEF SerialBase, OnLine
    <3> QED
      BY <3>1, <3>2 DEF SerialBase
  <2>3. Stops'
    BY <2>1 DEF Stops, Stopping, AtRest, Still
  <2>4. Asks'
    <3>1. \A c \in Callers : (Asking(c)' => Asking(c)) /\ (Relied(c) => Relied(c)')
      BY <2>1 DEF Asking, Relied
    <3> QED
      BY <2>1, <3>1 DEF Asks, Flat
  <2>5. Halted'
    BY <2>1 DEF Halted, Watched, Lively
  <2> QED
    BY <2>2, <2>3, <2>4, <2>5
<1> QED
  BY <1>1, <1>2

LEMMA DevicesKept == DevicesInv /\ [Next]_vars => DevicesInv'
<1> SUFFICES ASSUME DevicesInv, [Next]_vars PROVE DevicesInv'
  OBVIOUS
<1>1. mode' = mode /\ mode \in {"serial", "screen", "mock"}
  BY DEF Next, Serial, Screen, Mock, vars, DevicesInv
<1>2. CASE mode = "serial"
  <2>1. /\ SerialNext \/ UNCHANGED <<deviceVars, serialVars>>
        /\ UNCHANGED screenVars /\ UNCHANGED mockVars
    BY <1>2 DEF Next, Serial, Screen, Mock, vars
  <2>2. (SerialBase /\ Stops /\ Asks /\ Halted)'
    BY <1>2, <2>1, SerialInvKept DEF DevicesInv
  <2>3. ScreenTypeOK' /\ MockTypeOK'
    BY <1>2, <2>1, OthersKept DEF DevicesInv, OthersKeep
  <2> QED
    BY <1>1, <1>2, <2>2, <2>3 DEF DevicesInv, OthersKeep
<1>3. CASE mode = "screen"
  <2>1. /\ ScreenNext \/ UNCHANGED <<deviceVars, screenVars>>
        /\ UNCHANGED serialVars /\ UNCHANGED mockVars
    BY <1>3 DEF Next, Serial, Screen, Mock, vars
  <2>2. ScreenInv'
    <3>1. CASE ScreenNext
      BY <1>3, <3>1, ScreenKept DEF DevicesInv
    <3>2. CASE UNCHANGED <<deviceVars, screenVars>>
      BY <1>3, <3>2 DEF DevicesInv, ScreenInv, DeviceTypeOK, ScreenTypeOK, deviceVars, statusVars, callVars,
         screenVars
    <3> QED
      BY <2>1, <3>1, <3>2
  <2>3. SerialTypeOK' /\ MockTypeOK'
    BY <1>3, <2>1, OthersKept DEF DevicesInv, OthersKeep
  <2> QED
    BY <1>1, <1>3, <2>2, <2>3 DEF DevicesInv, OthersKeep
<1>4. CASE mode = "mock"
  <2>1. /\ MockNext \/ UNCHANGED <<deviceVars, mockVars>>
        /\ UNCHANGED serialVars /\ UNCHANGED screenVars
    BY <1>4 DEF Next, Serial, Screen, Mock, vars
  <2>2. MockInv'
    <3>1. CASE MockNext
      BY <1>4, <3>1, MockKept DEF DevicesInv
    <3>2. CASE UNCHANGED <<deviceVars, mockVars>>
      BY <1>4, <3>2 DEF DevicesInv, MockInv, MockCalls, DeviceTypeOK, MockTypeOK, deviceVars, statusVars,
         callVars, mockVars
    <3> QED
      BY <2>1, <3>1, <3>2
  <2>3. SerialTypeOK' /\ ScreenTypeOK'
    BY <1>4, <2>1, OthersKept DEF DevicesInv, OthersKeep
  <2> QED
    BY <1>1, <1>4, <2>2, <2>3 DEF DevicesInv, OthersKeep
<1> QED
  BY <1>1, <1>2, <1>3, <1>4

\* The inductive invariant holds for each of the three devices: what all that
\* follows rests on.
THEOREM DevicesInvHolds == Spec => []DevicesInv
  BY DevicesAtFirst, DevicesKept, PTL DEF Spec

\* Every variable of the devices keeps its type.
THEOREM DeviceTypes == Spec => []TypeOK
<1>1. DevicesInv => TypeOK
  BY SerialTypesHold DEF DevicesInv, OthersKeep, TypeOK, SerialBase, ScreenInv, MockInv
<1> QED
  BY <1>1, DevicesInvHolds, PTL

\* Once STOP is acknowledged the puffer does not move, whatever was on the line
\* when it was commanded, until somebody commands a move again.
THEOREM StopsHold == Spec => []StopHolds
<1>1. DevicesInv => StopHolds
  <2> SUFFICES ASSUME DevicesInv, "stopped" \in promise
               PROVE ~Moving /\ state \notin {"inflating", "holding", "deflating"}
    BY DEF StopHolds
  <2>1. CASE mode = "serial"
    BY <2>1 DEF DevicesInv, Stops, AtRest, Still, Moving, Shown
  <2>2. CASE mode = "screen"
    BY <2>2 DEF DevicesInv, ScreenInv, Moving, Shown
  <2>3. CASE mode = "mock"
    BY <2>3 DEF DevicesInv, MockInv, Moving, Shown
  <2> QED
    BY <2>1, <2>2, <2>3 DEF DevicesInv
<1> QED
  BY <1>1, DevicesInvHolds, PTL

\* A status that confirms the deflation, and a disconnection that reports no
\* error, are true of the puffer until somebody inflates it.
THEOREM ConfirmationsAreTrue == Spec => []ConfirmedIsFlat
<1>1. DevicesInv => ConfirmedIsFlat
  <2> SUFFICES ASSUME DevicesInv, "flat" \in promise PROVE ~Raised
    BY DEF ConfirmedIsFlat
  <2>1. CASE mode = "serial"
    BY <2>1 DEF DevicesInv, Asks, Flat, Raised
  <2>2. CASE mode = "screen"
    BY <2>2 DEF DevicesInv, ScreenInv, Raised
  <2>3. CASE mode = "mock"
    BY <2>3 DEF DevicesInv, MockInv, Raised
  <2> QED
    BY <2>1, <2>2, <2>3 DEF DevicesInv
<1> QED
  BY <1>1, DevicesInvHolds, PTL

\* The answers to requests that were overtaken, timed out or rejected are
\* recognised when they come, and never taken for invalid ones.
THEOREM NoFalseAlarms == Spec => []NoFalseAlarm
<1>1. DevicesInv => NoFalseAlarm
  BY DEF DevicesInv, NoFalseAlarm, SerialBase, OnLine, ScreenInv, MockInv
<1> QED
  BY <1>1, DevicesInvHolds, PTL

\* When the driver sees a fault on an open line, every move it has lost sight
\* of is followed by a STOP on its way.
THEOREM FaultsAreStopped == Spec => []FaultIsStopped
<1>1. DevicesInv => FaultIsStopped
  <2> SUFFICES ASSUME DevicesInv, mode = "serial", Watched
               PROVE Halting /\ (Moving => \E i \in DOMAIN wire : wire[i].cmd = "stop")
    BY DEF FaultIsStopped, Watched
  <2>1. Certain(wire) /\ (Lively => Ending(wire)) /\ EmergencyStop.cmd = "stop" /\ wire \in Seq(Sent)
    BY BaseIs DEF DevicesInv, Halted, EmergencyStop
  <2>2. Halting
    <3> SUFFICES ASSUME NEW i \in DOMAIN wire, wire[i].cmd \in Moves
                 PROVE \E j \in i + 1 .. Len(wire) : wire[j].cmd = "stop"
      BY DEF Halting
    <3>1. PICK j \in DOMAIN wire : i < j /\ wire[j] = EmergencyStop
      BY <2>1 DEF Certain
    <3>2. j \in i + 1 .. Len(wire)
      BY <2>1, <3>1
    <3> QED
      BY <2>1, <3>1, <3>2
  <2>3. Moving => \E i \in DOMAIN wire : wire[i].cmd = "stop"
    BY <2>1 DEF Moving, Lively, Ending
  <2> QED
    BY <2>2, <2>3
<1> QED
  BY <1>1, DevicesInvHolds, PTL


=============================================================================
