---------------------------- MODULE ObstacleGuard ----------------------------
(***************************************************************************)
(* The stop for obstacles in the main loop of Solarbot::run.  In every pass *)
(* the cameras either show something in a detector's zone or do not; what   *)
(* they show for longer than object_detection_time_to_stop is an obstacle,  *)
(* and Navigator::Move stops the wheels until a clear pass comes later than *)
(* object_detection_time_to_start after the last obstacle.                  *)
(*                                                                          *)
(* Time is what clock() counts, the processor time of the program, in ticks *)
(* of the model; only the ages of the two marks matter, and they are kept   *)
(* up to one tick past the limit they are compared with.                    *)
(***************************************************************************)
EXTENDS Integers

CONSTANTS
    ToStop,          \* object_detection_time_to_stop, in ticks
    ToStart,         \* object_detection_time_to_start
    MaxPass          \* bound: most ticks of one pass of the loop

ASSUME TimesAssumption == ToStop \in Nat /\ ToStart \in Nat /\ MaxPass \in Nat \ {0}

Modes == {"Standby", "ModeWaypoints", "ModeVisual", "ModeLine"}
Phases == {"sense", "detect", "navigate"}

VARIABLES
    phase,           \* where the main loop is
    near,            \* critical_object_detected_count > 0
    clearAge,        \* clock() - last_object_detection_stop_filter
    stopAge,         \* clock() - last_object_detection_stop
    DoNotMove,
    good,            \* IsLocationGood()
    navigating, Mode,
    motors,          \* the last command given to the driver
    (* history *)
    seen,            \* something was near in the last pass looked at
    seenAge,         \* time since the first of the passes in a row it was
    heldAge,         \* time since DoNotMove was set
    cleared,         \* there has been a clear pass
    moved            \* Move was called in this pass

senseVars == <<near, good>>
guardVars == <<clearAge, stopAge, DoNotMove>>
orderVars == <<navigating, Mode>>
ghostVars == <<seen, seenAge, heldAge, cleared>>
obstacleVars == <<phase, senseVars, guardVars, orderVars, motors, ghostVars, moved>>

StopAges == 0..ToStop + 1
StartAges == 0..ToStart + 1

GuardTypeOK ==
    /\ phase \in Phases
    /\ near \in BOOLEAN /\ good \in BOOLEAN
    /\ clearAge \in StopAges /\ seenAge \in StopAges
    /\ stopAge \in StartAges /\ heldAge \in StartAges
    /\ DoNotMove \in BOOLEAN /\ navigating \in BOOLEAN /\ Mode \in Modes
    /\ motors \in {"stop", "go"}
    /\ seen \in BOOLEAN /\ cleared \in BOOLEAN /\ moved \in BOOLEAN

\* An age d ticks later, up to one past the limit.
Older(age, d, limit) == IF age + d > limit THEN limit + 1 ELSE age + d

\* The mark of the last clear pass is set five seconds back, so that the first
\* thing seen stops the robot at once.
GuardInit ==
    /\ phase = "sense"
    /\ near = FALSE /\ good = FALSE
    /\ clearAge = ToStop + 1 /\ stopAge = 0
    /\ DoNotMove = FALSE
    /\ navigating \in BOOLEAN /\ Mode \in Modes
    /\ motors = "stop"
    /\ seen = FALSE /\ seenAge = 0 /\ heldAge = 0 /\ cleared = FALSE /\ moved = FALSE

-----------------------------------------------------------------------------
\* Receivers, head and cameras are read; the pass takes d ticks.
Sense ==
    /\ phase = "sense" /\ phase' = "detect"
    /\ near' \in BOOLEAN /\ good' \in BOOLEAN
    /\ \E d \in 1..MaxPass :
          /\ clearAge' = Older(clearAge, d, ToStop)
          /\ seenAge' = Older(seenAge, d, ToStop)
          /\ stopAge' = Older(stopAge, d, ToStart)
          /\ heldAge' = Older(heldAge, d, ToStart)
    /\ moved' = FALSE
    /\ UNCHANGED <<DoNotMove, orderVars, motors, seen, cleared>>

\* History of a pass that looked at the zones.
Looked ==
    /\ seen' = near
    /\ seenAge' = IF near /\ seen THEN seenAge ELSE 0
    /\ heldAge' = IF DoNotMove' /\ ~DoNotMove THEN 0 ELSE heldAge
    /\ cleared' = (cleared \/ ~near)

\* Fault: whatever is seen stops the robot.
DetectedAtOnce ==
    /\ phase = "detect" /\ phase' = "navigate"
    /\ near
    /\ DoNotMove' = TRUE /\ stopAge' = 0
    /\ Looked
    /\ UNCHANGED <<senseVars, clearAge, orderVars, motors, moved>>

\* Fault: a sighting that is not confirmed starts the time anew.
DetectedAnew ==
    /\ phase = "detect" /\ phase' = "navigate"
    /\ near
    /\ IF clearAge > ToStop
       THEN DoNotMove' = TRUE /\ stopAge' = 0 /\ UNCHANGED clearAge
       ELSE clearAge' = 0 /\ UNCHANGED <<DoNotMove, stopAge>>
    /\ Looked
    /\ UNCHANGED <<senseVars, orderVars, motors, moved>>

\* Fault: the time of the stop is not kept.
DetectedUntimed ==
    /\ phase = "detect" /\ phase' = "navigate"
    /\ near
    /\ DoNotMove' = (DoNotMove \/ clearAge > ToStop)
    /\ Looked
    /\ UNCHANGED <<senseVars, clearAge, stopAge, orderVars, motors, moved>>

\* Something is in a zone: an obstacle once it has been there for long enough.
Detected ==
    /\ phase = "detect" /\ phase' = "navigate"
    /\ near
    /\ IF clearAge > ToStop
       THEN DoNotMove' = TRUE /\ stopAge' = 0
       ELSE UNCHANGED <<DoNotMove, stopAge>>
    /\ Looked
    /\ UNCHANGED <<senseVars, clearAge, orderVars, motors, moved>>

\* Fault: the time of the last obstacle is taken again in a clear pass.
ClearUnreleased ==
    /\ phase = "detect" /\ phase' = "navigate"
    /\ ~near
    /\ clearAge' = 0 /\ stopAge' = 0
    /\ DoNotMove' = (DoNotMove /\ stopAge <= ToStart)
    /\ Looked
    /\ UNCHANGED <<senseVars, orderVars, motors, moved>>

\* Nothing is in a zone: the robot may go on after a while.
Clear ==
    /\ phase = "detect" /\ phase' = "navigate"
    /\ ~near
    /\ clearAge' = 0
    /\ DoNotMove' = (DoNotMove /\ stopAge <= ToStart)
    /\ Looked
    /\ UNCHANGED <<senseVars, stopAge, orderVars, motors, moved>>

\* Navigator::Move: no speed is sent while DoNotMove is set.
Move ==
    /\ motors' \in IF DoNotMove THEN {"stop"}
                   ELSE IF Mode = "ModeVisual" THEN {"stop", "go"} ELSE {"go"}
    /\ moved' = TRUE

\* GotoNextWaypoint, GotoNextCam or GotoByLine, the last when its sensor is read.
Navigate ==
    /\ phase = "navigate" /\ phase' = "sense"
    /\ navigating /\ Mode # "Standby"
    /\ Mode = "ModeWaypoints" => good
    /\ Move
    /\ UNCHANGED <<senseVars, guardVars, orderVars, ghostVars>>

\* No command: not navigating, in standby, no good location, a waypoint reached,
\* or a line sensor that cannot be read.
GiveNoCommand ==
    /\ phase = "navigate" /\ phase' = "sense"
    /\ ~navigating \/ Mode \in {"Standby", "ModeLine", "ModeWaypoints"}
    /\ UNCHANGED <<senseVars, guardVars, orderVars, motors, ghostVars, moved>>

\* A command of the client thread, at any time.
Order ==
    /\ navigating' \in BOOLEAN /\ Mode' \in Modes
    /\ UNCHANGED <<phase, senseVars, guardVars, motors, ghostVars, moved>>

GuardLoop == Sense \/ Detected \/ Clear \/ Navigate \/ GiveNoCommand
GuardNext == GuardLoop \/ Order

GuardSpec == GuardInit /\ [][GuardNext]_obstacleVars

\* The main loop does not wait for anything but its sensors.
GuardFairSpec == GuardSpec /\ WF_obstacleVars(GuardLoop)

-----------------------------------------------------------------------------
(* Properties                                                              *)

\* Lemma of the proofs: what is near has been near since the last clear pass
\* at most, an obstacle is one from the pass that confirms it on, and the mark
\* of the last obstacle is never older than the stop it began.
GuardInv ==
    /\ GuardTypeOK
    /\ seen => seenAge <= clearAge
    /\ (cleared /\ seen) => clearAge <= seenAge + MaxPass
    /\ (cleared /\ ~seen) => clearAge <= IF phase = "detect" THEN MaxPass ELSE 0
    /\ (seen /\ phase # "detect" /\ clearAge > ToStop) => DoNotMove
    /\ DoNotMove => stopAge <= heldAge
    /\ (moved /\ DoNotMove /\ phase = "sense") => motors = "stop"
    /\ moved => phase = "sense"

\* What has been near in every pass for longer than the time to stop has the
\* wheels stopped by every command of a navigator, whatever the mode and
\* whenever the client changes it (Solarbot.cpp:873-880, Navigator.cpp:285-288).
ObstacleStops ==
    (moved /\ phase = "sense" /\ seen /\ seenAge > ToStop) => motors = "stop"

\* A glimpse does not stop the robot: when it stops, something was near in
\* passes that reach back over the time to stop, but for the one pass between
\* the last clear one and the first sighting; the first sighting after the
\* start, before any clear pass, stops at once (Solarbot.cpp:713, 875, 885).
GlimpseIgnored ==
    [][(DoNotMove' /\ ~DoNotMove /\ cleared) => seenAge' + MaxPass > ToStop]_obstacleVars

\* Once stopped, the robot is let go in a clear pass only, and not before the
\* time to start has gone by since it was stopped (Solarbot.cpp:887-890).
HeldLongEnough ==
    [][(DoNotMove /\ ~DoNotMove') => (~near /\ heldAge > ToStart)]_obstacleVars

\* When nothing is near any more the robot is let go (Solarbot.cpp:883-891).
LetGo == <>[]~near => <>[]~DoNotMove
=============================================================================
