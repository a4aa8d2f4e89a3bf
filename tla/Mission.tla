------------------------------- MODULE Mission -------------------------------
(***************************************************************************)
(* Where the robot is going and who decides it: the waypoints of Navigator, *)
(* the navigation part of the main loop of Solarbot::run, and the commands  *)
(* GOTO and SETMODE that the client thread of MasterApp executes while the  *)
(* loop runs.  The two threads share navigating, Mode and all the members   *)
(* of Navigator without a lock, so that every access that matters is a step.*)
(*                                                                          *)
(* A waypoint is its position in the list; where the robot is, and whether  *)
(* it arrives, is the environment's choice.                                 *)
(***************************************************************************)
EXTENDS Integers, Sequences, FiniteSets, SequencesExt

CONSTANTS
    Files,          \* waypoint files: sequences of records "P", "S", "L"
    ShortLegs,      \* no leg of a route need be two metres long
    Modes0          \* modes the program may be started in (option -m)

Standby == "Standby"
ModeWaypoints == "ModeWaypoints"
ModeVisual == "ModeVisual"
ModeLine == "ModeLine"
Modes == {Standby, ModeWaypoints, ModeVisual, ModeLine}

Records == {"P", "S", "L"}

ASSUME FilesAssumption == \A f \in Files : f \in Seq(Records)
ASSUME ModesAssumption == Modes0 \subseteq Modes /\ ShortLegs \in BOOLEAN

VARIABLES
    (* Navigator *)
    waypoints,       \* number of waypoints in the vector
    waypoints_size, waypoints_index, LoopNavigate, finding_path,
    Mode, DoNotMove,
    (* Solarbot *)
    navigating,
    good,            \* IsLocationGood()
    motors,          \* the last command given to the driver
    main,            \* where the main loop is
    (* MasterApp *)
    client,          \* where the client thread is
    records,         \* records of the file it has not read yet
    (* history *)
    mission,         \* the last GOTO was answered OK, the robot has not come to the
                     \* end of its route, and no SETMODE has followed
    overlap,         \* its route was loaded in the middle of a handler of the main loop
    wild             \* since then an element outside the vector was accessed

path == <<waypoints, waypoints_size, waypoints_index, LoopNavigate, finding_path>>
vars == <<path, Mode, DoNotMove, navigating, good, motors, main, client, records,
          mission, wild, overlap>>

MainPlaces == {"pass", "nav", "find", "approach", "follow", "advance", "end",
               "restart", "back", "done", "telemetry", "current"}
ClientPlaces == {"idle", "index", "size", "clear", "loop", "finding", "read",
                 "setSize", "setMode", "setNavigating", "start", "stop"}

\* The main loop is in the middle of a handler that uses the path, and the
\* client thread in the middle of LoadWaypoints.
PathPlaces == MainPlaces \ {"pass", "nav", "telemetry"}
LoadPlaces == {"index", "size", "clear", "loop", "finding", "read", "setSize"}

TypeOK ==
    /\ waypoints \in Nat /\ waypoints_size \in Nat
    /\ waypoints_index \in Nat \cup {-1, -2}
    /\ LoopNavigate \in BOOLEAN /\ finding_path \in BOOLEAN
    /\ Mode \in Modes /\ DoNotMove \in BOOLEAN
    /\ navigating \in BOOLEAN /\ good \in BOOLEAN
    /\ motors \in {"stop", "go"}
    /\ main \in MainPlaces /\ client \in ClientPlaces
    /\ records \in Seq(Records)
    /\ mission \in BOOLEAN /\ overlap \in BOOLEAN /\ wild \in BOOLEAN

Points(f) == Cardinality({i \in DOMAIN f : f[i] = "P"})

\* Both threads start after run() has initialised the navigator and its mode.
Init ==
    /\ Mode \in Modes0
    /\ navigating = (Mode # Standby)
    /\ IF Mode = ModeWaypoints
       THEN \E f \in Files :
               /\ waypoints = Points(f) /\ waypoints_size = Points(f)
               /\ LoopNavigate = Contains(f, "L")
               /\ finding_path = ~Contains(f, "S")
       ELSE /\ waypoints = 0 /\ waypoints_size = 0
            /\ LoopNavigate = FALSE /\ finding_path = FALSE
    /\ waypoints_index = -1
    /\ DoNotMove = FALSE /\ good = FALSE /\ motors = "stop"
    /\ main = "pass" /\ client = "idle" /\ records = <<>>
    /\ mission = FALSE /\ overlap = FALSE /\ wild = FALSE

-----------------------------------------------------------------------------
(* The main loop                                                           *)

MainGoto(from, to) ==
    /\ main = from /\ main' = to
    /\ overlap' = (overlap \/ (to \in PathPlaces /\ client \in LoadPlaces))

\* Element i of the vector is accessed.
Access(i) == wild' = (wild \/ i \notin 0..waypoints - 1)

\* Navigator::Move: the driver is told to stop while an object is too near.
Move(speeds) == motors' \in IF DoNotMove THEN {"stop"} ELSE speeds

\* The receivers are read, the heading chosen and the obstacles looked for.
Pass ==
    /\ MainGoto("pass", "nav")
    /\ good' \in BOOLEAN
    /\ DoNotMove' \in BOOLEAN
    /\ UNCHANGED <<path, Mode, navigating, motors, client, records, mission, wild>>

\* Nothing to do: not navigating, or no good location to navigate with.
NavNothing ==
    /\ MainGoto("nav", "telemetry")
    /\ ~navigating \/ Mode = Standby \/ (Mode = ModeWaypoints /\ ~good)
    /\ UNCHANGED <<path, Mode, DoNotMove, navigating, good, motors, client, records,
                   mission, wild>>

\* GotoNextCam: the speed follows from the quality of the image, down to zero.
NavVisual ==
    /\ MainGoto("nav", "telemetry")
    /\ navigating /\ Mode = ModeVisual
    /\ Move({"stop", "go"})
    /\ UNCHANGED <<path, Mode, DoNotMove, navigating, good, client, records, mission, wild>>

\* GotoByLine: no command is given when the line sensor cannot be read.
NavLine ==
    /\ MainGoto("nav", "telemetry")
    /\ navigating /\ Mode = ModeLine
    /\ Move({"go"}) \/ UNCHANGED motors
    /\ UNCHANGED <<path, Mode, DoNotMove, navigating, good, client, records, mission, wild>>

\* GotoNextWaypoint, up to the choice between its branches.
NavWaypoints ==
    /\ MainGoto("nav", IF ~finding_path THEN "follow"
                       ELSE IF waypoints_index = -1 THEN "find" ELSE "approach")
    /\ navigating /\ Mode = ModeWaypoints /\ good
    /\ UNCHANGED <<path, Mode, DoNotMove, navigating, good, motors, client, records,
                   mission, wild>>

\* FindClosestPathPoint: the index is that of the waypoint after the closest
\* point; it stays what it was if no leg has a point to look at.
Closest == (IF waypoints_size > 1 THEN 0..waypoints_size - 1 ELSE {})
           \cup (IF waypoints_size > 1 /\ ~ShortLegs THEN {} ELSE {waypoints_index})

\* Fault: the waypoint after the last one is not the first.
FindWithoutWrap ==
    /\ MainGoto("find", "approach")
    /\ waypoints_index' \in {i + 1 : i \in Closest}
    /\ IF waypoints_size = 0 THEN UNCHANGED wild ELSE Access(waypoints_size - 1)
    /\ UNCHANGED <<waypoints, waypoints_size, LoopNavigate, finding_path, Mode, DoNotMove,
                   navigating, good, motors, client, records, mission>>

FindClosestPathPoint ==
    /\ MainGoto("find", "approach")
    /\ waypoints_index' \in Closest
    /\ IF waypoints_size = 0 THEN UNCHANGED wild ELSE Access(waypoints_size - 1)
    /\ UNCHANGED <<waypoints, waypoints_size, LoopNavigate, finding_path, Mode, DoNotMove,
                   navigating, good, motors, client, records, mission>>

\* The start point is not reached yet.
Approach ==
    /\ MainGoto("approach", "telemetry")
    /\ Move({"go"})
    /\ UNCHANGED <<path, Mode, DoNotMove, navigating, good, client, records, mission, wild>>

StartReached ==
    /\ MainGoto("approach", "telemetry")
    /\ finding_path' = FALSE
    /\ UNCHANGED <<waypoints, waypoints_size, waypoints_index, LoopNavigate, Mode, DoNotMove,
                   navigating, good, motors, client, records, mission, wild>>

\* GotoWaypoint(waypoints[waypoints_index]): on the way, or there.
Follow ==
    /\ MainGoto("follow", "telemetry")
    /\ Access(waypoints_index)
    /\ Move({"go"})
    /\ UNCHANGED <<path, Mode, DoNotMove, navigating, good, client, records, mission>>

\* At the last waypoint of an open route the mission is accomplished.
WaypointReached ==
    /\ MainGoto("follow", "advance")
    /\ Access(waypoints_index)
    /\ mission' = (mission /\ (LoopNavigate \/ waypoints_index # waypoints - 1))
    /\ UNCHANGED <<path, Mode, DoNotMove, navigating, good, motors, client, records>>

Advance ==
    /\ MainGoto("advance", "end")
    /\ waypoints_index' = waypoints_index + 1
    /\ UNCHANGED <<waypoints, waypoints_size, LoopNavigate, finding_path, Mode, DoNotMove,
                   navigating, good, motors, client, records, mission, wild>>

PastEnd ==
    /\ MainGoto("end", IF waypoints_index < waypoints_size THEN "telemetry"
                       ELSE IF LoopNavigate THEN "restart" ELSE "back")
    /\ UNCHANGED <<path, Mode, DoNotMove, navigating, good, motors, client, records,
                   mission, wild>>

\* Fault: a loop goes on with the second waypoint.
RestartAtOne ==
    /\ MainGoto("restart", "telemetry")
    /\ waypoints_index' = 1
    /\ UNCHANGED <<waypoints, waypoints_size, LoopNavigate, finding_path, Mode, DoNotMove,
                   navigating, good, motors, client, records, mission, wild>>

Restart ==
    /\ MainGoto("restart", "telemetry")
    /\ waypoints_index' = 0
    /\ UNCHANGED <<waypoints, waypoints_size, LoopNavigate, finding_path, Mode, DoNotMove,
                   navigating, good, motors, client, records, mission, wild>>

Back ==
    /\ MainGoto("back", "done")
    /\ waypoints_index' = waypoints_index - 1
    /\ UNCHANGED <<waypoints, waypoints_size, LoopNavigate, finding_path, Mode, DoNotMove,
                   navigating, good, motors, client, records, mission, wild>>

\* Fault: the result of GotoNextWaypoint is not looked at.
DoneIgnored ==
    /\ MainGoto("done", "telemetry")
    /\ UNCHANGED <<path, Mode, DoNotMove, navigating, good, motors, client, records,
                   mission, wild>>

\* NAVIGATOR_DONE: Mode is compared with Standby and stays what it is.
Done ==
    /\ MainGoto("done", "telemetry")
    /\ navigating' = FALSE
    /\ UNCHANGED <<path, Mode, DoNotMove, good, motors, client, records, mission, wild>>

\* SendTelemetry, in the passes that send any, asks for the current waypoint:
\* GetCurrentWaypoint tests the index and then uses it.
NoTelemetry ==
    /\ MainGoto("telemetry", "pass")
    /\ UNCHANGED <<path, Mode, DoNotMove, navigating, good, motors, client, records,
                   mission, wild>>

SendTelemetry ==
    /\ MainGoto("telemetry", IF waypoints_index > -1 THEN "current" ELSE "pass")
    /\ UNCHANGED <<path, Mode, DoNotMove, navigating, good, motors, client, records,
                   mission, wild>>

GetCurrentWaypoint ==
    /\ MainGoto("current", "pass")
    /\ Access(waypoints_index)
    /\ UNCHANGED <<path, Mode, DoNotMove, navigating, good, motors, client, records, mission>>

-----------------------------------------------------------------------------
(* The client thread: ExecuteCommand_GOTO with LoadWaypoints, and           *)
(* ExecuteCommand_SETMODE.  A GOTO without a good location, or whose route   *)
(* file cannot be opened, is refused and changes nothing.                    *)

ClientGoto(from, to) ==
    /\ client = from /\ client' = to
    /\ overlap' = (overlap \/ (main \in PathPlaces /\ to \in LoadPlaces))

otherThanPath == <<Mode, DoNotMove, navigating, good, motors, main, mission, wild>>

\* The mission before, and what became of its route, is forgotten.
Goto(f) ==
    /\ client = "idle" /\ client' = "index"
    /\ good
    /\ records' = f
    /\ mission' = FALSE /\ wild' = FALSE /\ overlap' = (main \in PathPlaces)
    /\ UNCHANGED <<path, Mode, DoNotMove, navigating, good, motors, main>>

\* Fault: the index of the route before is kept.
ClearIndexKept ==
    /\ ClientGoto("index", "size")
    /\ UNCHANGED <<path, records, otherThanPath>>

ClearIndex ==
    /\ ClientGoto("index", "size")
    /\ waypoints_index' = -1
    /\ UNCHANGED <<waypoints, waypoints_size, LoopNavigate, finding_path, records,
                   otherThanPath>>

ClearSize ==
    /\ ClientGoto("size", "clear")
    /\ waypoints_size' = 0
    /\ UNCHANGED <<waypoints, waypoints_index, LoopNavigate, finding_path, records,
                   otherThanPath>>

ClearWaypoints ==
    /\ ClientGoto("clear", "loop")
    /\ waypoints' = 0
    /\ UNCHANGED <<waypoints_size, waypoints_index, LoopNavigate, finding_path, records,
                   otherThanPath>>

ClearLoop ==
    /\ ClientGoto("loop", "finding")
    /\ LoopNavigate' = FALSE
    /\ UNCHANGED <<waypoints, waypoints_size, waypoints_index, finding_path, records,
                   otherThanPath>>

SetFinding ==
    /\ ClientGoto("finding", "read")
    /\ finding_path' = TRUE
    /\ UNCHANGED <<waypoints, waypoints_size, waypoints_index, LoopNavigate, records,
                   otherThanPath>>

\* A record of the file: P adds a waypoint, L makes the route a loop, and S
\* turns the search for the closest point off (its number is not kept).
ReadRecord ==
    /\ client = "read" /\ records # <<>>
    /\ records' = Tail(records)
    /\ waypoints' = IF Head(records) = "P" THEN waypoints + 1 ELSE waypoints
    /\ LoopNavigate' = (LoopNavigate \/ Head(records) = "L")
    /\ finding_path' = (finding_path /\ Head(records) # "S")
    /\ UNCHANGED <<waypoints_size, waypoints_index, client, overlap, otherThanPath>>

EndOfFile ==
    /\ ClientGoto("read", "setSize")
    /\ records = <<>>
    /\ UNCHANGED <<path, records, otherThanPath>>

\* The route is loaded and OK answered.
SetSize ==
    /\ ClientGoto("setSize", "setMode")
    /\ waypoints_size' = waypoints
    /\ mission' = TRUE
    /\ UNCHANGED <<waypoints, waypoints_index, LoopNavigate, finding_path, Mode, DoNotMove,
                   navigating, good, motors, main, records, wild>>

\* Only then the mode is set and the navigation started.
GotoMode ==
    /\ ClientGoto("setMode", "setNavigating")
    /\ Mode' = ModeWaypoints
    /\ UNCHANGED <<path, DoNotMove, navigating, good, motors, main, records, mission, wild>>

GotoNavigate ==
    /\ ClientGoto("setNavigating", "idle")
    /\ navigating' = TRUE
    /\ UNCHANGED <<path, Mode, DoNotMove, good, motors, main, records, mission, wild>>

\* SETMODE ends the mission of an earlier GOTO; start_waypoint_index, which it
\* resets for waypoints, is not read anywhere.
SetMode(mode, next) ==
    /\ ClientGoto("idle", next)
    /\ Mode' = mode
    /\ mission' = FALSE
    /\ UNCHANGED <<path, DoNotMove, navigating, good, motors, main, records, wild>>

SetModeWaypoints == waypoints > 0 /\ SetMode(ModeWaypoints, "start")

\* InitModeVisual or InitModeLine succeeds.
SetModeOther == \E mode \in {ModeVisual, ModeLine} : SetMode(mode, "start")

\* Any other word; waypoints without a waypoint; a mode that does not open.
SetModeStandby == SetMode(Standby, "stop")

SetNavigating ==
    /\ \E from \in {"start", "stop"} :
          /\ ClientGoto(from, "idle")
          /\ navigating' = (from = "start")
    /\ UNCHANGED <<path, Mode, DoNotMove, good, motors, main, records, mission, wild>>

-----------------------------------------------------------------------------
FollowPath == \/ NavWaypoints \/ FindClosestPathPoint \/ Approach \/ StartReached
              \/ Follow \/ WaypointReached \/ Advance \/ PastEnd \/ Restart \/ Back \/ Done
MainLoop == \/ Pass \/ NavNothing \/ NavVisual \/ NavLine \/ FollowPath
            \/ NoTelemetry \/ SendTelemetry \/ GetCurrentWaypoint

LoadWaypoints == \/ ClearIndex \/ ClearSize \/ ClearWaypoints \/ ClearLoop \/ SetFinding
                 \/ ReadRecord \/ EndOfFile \/ SetSize
RunningCommand == LoadWaypoints \/ GotoMode \/ GotoNavigate \/ SetNavigating
NewCommand == \/ \E f \in Files : Goto(f)
              \/ SetModeWaypoints \/ SetModeOther \/ SetModeStandby

Next == MainLoop \/ RunningCommand \/ NewCommand

Spec == Init /\ [][Next]_vars

-----------------------------------------------------------------------------
(* Safety.  A route must have two waypoints, a leg of two metres and no S    *)
(* record: without one of them the index is used while it is -1.             *)

\* The vector is accessed within its bounds, unless the route of the last GOTO
\* was loaded in the middle of a handler that uses the path: whatever an
\* earlier GOTO did to a handler, the next one that meets none puts the index,
\* the size and the search in order again (Navigator.cpp:57-64, 147, 475-516).
AccessInBounds == ~overlap => ~wild

\* The main loop takes the robot along the waypoints.
Following == navigating /\ Mode = ModeWaypoints

\* A mission that was answered OK is not lost: until the robot has come to the
\* last waypoint of its own route, or the operator sends something else, the
\* robot is on its way or about to be, though OK is answered before the mode
\* and navigating are set and the main loop clears navigating by itself.  Only
\* a handler that was running while the route was loaded can end it early
\* (MasterApp.cpp:431-437, Navigator.cpp:502-516, Solarbot.cpp:909-913).
MissionHolds ==
    ~overlap /\ mission => Following \/ client \in {"setMode", "setNavigating"}

\* To the waypoint that comes next.
TourStep ==
    client' = client /\ ~finding_path /\ waypoints_index' # waypoints_index
        => \/ waypoints_index' = waypoints_index + 1 /\ waypoints_index < waypoints
           \/ waypoints_index = waypoints /\ waypoints_index' = (IF LoopNavigate THEN 0 ELSE waypoints - 1)

\* The main loop follows the waypoints in the order of the file, from the last
\* one to the first only in a loop, and passes none over: what GotoNextWaypoint
\* goes to next is what comes after what it went to before, with the exception
\* of AccessInBounds (Navigator.cpp:486-516).
TourInOrder == [][~overlap' => TourStep]_vars

-----------------------------------------------------------------------------
(* Liveness.  Both threads keep running; again and again the receivers have a *)
(* good fix and the way is clear, and the robot, told to go, arrives.         *)

ClearWay == Pass /\ good' /\ ~DoNotMove'

Fairness ==
    /\ WF_vars(MainLoop /\ main # "pass") /\ WF_vars(Pass) /\ SF_vars(ClearWay)
    /\ SF_vars(StartReached /\ ~DoNotMove)
    /\ SF_vars(WaypointReached /\ ~DoNotMove)
    /\ WF_vars(RunningCommand)

FairSpec == Spec /\ Fairness

\* A mission comes to the end of its route, and the navigation with it, unless
\* the route is a loop, was loaded in the middle of a handler, or the operator
\* never stops sending commands (Navigator.cpp:493-516, Solarbot.cpp:909-913).
MissionEnds ==
    <>[][client = "idle" => client' = "idle"]_vars
        => (mission ~> ((~mission /\ ~Following) \/ LoopNavigate \/ overlap))

-----------------------------------------------------------------------------
(* The inductive invariants of MissionProofs                               *)

\* What is left to read has a point, or two; what may be followed has two, and
\* no S record.
OnePoint(r) == \E i \in DOMAIN r : r[i] = "P"
TwoPoints(r) == \E i, j \in DOMAIN r : i # j /\ r[i] = "P" /\ r[j] = "P"
NoStart(r) == \A i \in DOMAIN r : r[i] # "S"

GoodRoutes == ~ShortLegs /\ \A f \in Files : TwoPoints(f) /\ NoStart(f)

TypeInv == TypeOK /\ (main = "back" => waypoints_index >= -1)

\* Until the robot is at the last waypoint the main loop does not come to the
\* end of an open route.
OnTheWay ==
    /\ client \in {"setMode", "setNavigating"} \/ (client = "idle" /\ Following)
    /\ client = "setNavigating" => Mode = ModeWaypoints
    /\ main = "advance" => waypoints_index + 1 < waypoints \/ LoopNavigate
    /\ main = "end" => waypoints_index < waypoints \/ LoopNavigate
    /\ main \notin {"back", "done"}

\* For any routes: the index is not past the end when a handler begins.
MissionInv ==
    ~overlap =>
        IF client \in LoadPlaces
        THEN /\ ~mission /\ main \notin PathPlaces
             /\ client # "index" => waypoints_index = -1
        ELSE /\ waypoints_size = waypoints
             /\ waypoints_index <= waypoints \/ LoopNavigate
             /\ main \notin {"end", "restart", "back"} =>
                   waypoints_index < waypoints \/ LoopNavigate
             /\ main = "restart" => LoopNavigate
             /\ mission => OnTheWay

\* A route that is being loaded.
Loading ==
    /\ main \notin PathPlaces
    /\ client \in {"index", "size", "clear", "loop", "finding"} =>
          TwoPoints(records) /\ NoStart(records)
    /\ client # "index" => waypoints_index = -1
    /\ client \in {"read", "setSize"} => finding_path
    /\ client = "read" =>
          /\ NoStart(records)
          /\ \/ waypoints >= 2 \/ TwoPoints(records)
             \/ waypoints = 1 /\ OnePoint(records)
    /\ client = "setSize" => waypoints >= 2

\* A route that has been loaded, or none, and where on it the index is.
Loaded ==
    /\ waypoints_size = waypoints
    /\ waypoints = 0 \/ waypoints >= 2
    /\ Mode = ModeWaypoints \/ main \in PathPlaces \/ client = "setMode" => waypoints >= 2
    /\ waypoints_index \in -1..waypoints
    /\ main \notin {"end", "restart", "back"} => waypoints_index < waypoints
    /\ main \in PathPlaces \ {"find"} => waypoints_index >= 0
    /\ main \in {"find", "approach"} => finding_path
    /\ waypoints_index = -1 /\ waypoints > 0 => finding_path
    /\ main \in {"restart", "back"} => waypoints_index = waypoints
    /\ main = "restart" => LoopNavigate
    /\ main = "done" => waypoints_index = waypoints - 1
    /\ main \in {"back", "done"} => ~LoopNavigate

RouteInv == ~overlap => ~wild /\ (IF client \in LoadPlaces THEN Loading ELSE Loaded)
=============================================================================
