---------------------------- MODULE MissionProofs ----------------------------
(***************************************************************************)
(* Proofs about the mission, for all routes and modes: unless its route was *)
(* loaded in the middle of a handler of the main loop, a mission is not     *)
(* lost, and the waypoints are accessed within their vector and followed in *)
(* order.  That the routes are good is needed for the waypoints only.       *)
(***************************************************************************)
EXTENDS Mission, FiniteSetTheorems, SequenceTheorems, TLAPS

USE DEF path, otherThanPath, MainGoto, ClientGoto, PathPlaces, LoadPlaces, MainPlaces,
        ClientPlaces

-----------------------------------------------------------------------------
(* Routes                                                                  *)

\* Points counts.
LEMMA PointsType == ASSUME NEW f \in Seq(Records) PROVE Points(f) \in Nat
<1>1. {i \in DOMAIN f : f[i] = "P"} \subseteq 1..Len(f)
  BY LenProperties
<1>2. IsFiniteSet(1..Len(f))
  BY LenProperties, FS_Interval
<1>. QED BY <1>1, <1>2, FS_Subset, FS_CardinalityType DEF Points

\* Two points are two at least.
LEMMA TwoPointsCount ==
    ASSUME NEW f \in Seq(Records), TwoPoints(f)
    PROVE  Points(f) >= 2
<1>1. PICK i \in DOMAIN f, j \in DOMAIN f : i # j /\ f[i] = "P" /\ f[j] = "P"
  BY DEF TwoPoints
<1>. DEFINE P == {k \in DOMAIN f : f[k] = "P"}
<1>2. IsFiniteSet(P) /\ Cardinality(P) \in Nat
  <2>1. P \subseteq 1..Len(f)
    BY LenProperties
  <2>2. IsFiniteSet(1..Len(f))
    BY LenProperties, FS_Interval
  <2>. QED BY <2>1, <2>2, FS_Subset, FS_CardinalityType
<1>3. Cardinality(P) # 0
  BY <1>1, <1>2, FS_EmptySet
<1>4. Cardinality(P) # 1
  <2>1. SUFFICES ASSUME NEW x, P = {x} PROVE FALSE
    BY <1>2, FS_Singleton
  <2>2. i \in P /\ j \in P
    BY <1>1
  <2>. QED BY <1>1, <2>1, <2>2
<1>. QED BY <1>2, <1>3, <1>4 DEF Points

\* What is left when a record has been read.
LEMMA RestOfRoute ==
    ASSUME NEW r \in Seq(Records), r # <<>>
    PROVE  /\ Tail(r) \in Seq(Records) /\ Head(r) \in Records
           /\ NoStart(r) => Head(r) # "S" /\ NoStart(Tail(r))
           /\ TwoPoints(r) /\ Head(r) # "P" => TwoPoints(Tail(r))
           /\ TwoPoints(r) => OnePoint(Tail(r))
           /\ OnePoint(r) /\ Head(r) # "P" => OnePoint(Tail(r))
<1>1. /\ Len(r) \in Nat \ {0} /\ DOMAIN r = 1..Len(r) /\ Head(r) = r[1]
      /\ Head(r) \in Records /\ Tail(r) \in Seq(Records)
  BY EmptySeq, LenProperties, HeadTailProperties
<1>2. DOMAIN Tail(r) = 1..Len(r) - 1
  BY HeadTailProperties, LenProperties
<1>3. \A i \in 1..Len(r) - 1 : Tail(r)[i] = r[i + 1]
  BY HeadTailProperties
<1>4. \A i \in DOMAIN r : i # 1 => i - 1 \in DOMAIN Tail(r) /\ Tail(r)[i - 1] = r[i]
  BY <1>1, <1>2, <1>3
<1>5. NoStart(r) => Head(r) # "S" /\ NoStart(Tail(r))
  <2>1. 1 \in DOMAIN r /\ \A i \in DOMAIN Tail(r) : i + 1 \in DOMAIN r
    BY <1>1, <1>2
  <2>. QED BY <1>1, <1>2, <1>3, <2>1 DEF NoStart
<1>6. OnePoint(r) /\ Head(r) # "P" => OnePoint(Tail(r))
  BY <1>1, <1>4 DEF OnePoint
<1>7. TwoPoints(r) => OnePoint(Tail(r))
  <2>1. SUFFICES ASSUME NEW i \in DOMAIN r, NEW j \in DOMAIN r, i # j, r[i] = "P", r[j] = "P"
                 PROVE  OnePoint(Tail(r))
    BY DEF TwoPoints
  <2>2. CASE i # 1
    BY <1>4, <2>1, <2>2 DEF OnePoint
  <2>3. CASE j # 1
    BY <1>4, <2>1, <2>3 DEF OnePoint
  <2>. QED BY <2>1, <2>2, <2>3
<1>8. TwoPoints(r) /\ Head(r) # "P" => TwoPoints(Tail(r))
  <2>1. SUFFICES ASSUME NEW i \in DOMAIN r, NEW j \in DOMAIN r, i # j, r[i] = "P", r[j] = "P",
                        Head(r) # "P"
                 PROVE  TwoPoints(Tail(r))
    BY DEF TwoPoints
  <2>2. i # 1 /\ j # 1
    BY <1>1, <2>1
  <2>3. i - 1 # j - 1
    BY <1>1, <2>1
  <2>. QED BY <1>4, <2>1, <2>2, <2>3 DEF TwoPoints
<1>. QED BY <1>1, <1>5, <1>6, <1>7, <1>8

-----------------------------------------------------------------------------
(* Types                                                                   *)

\* The index that FindClosestPathPoint finds.
LEMMA ClosestType ==
    ASSUME TypeOK
    PROVE  /\ Closest \subseteq Nat \cup {-1, -2}
           /\ ~ShortLegs /\ waypoints_size > 1 => Closest \subseteq 0..waypoints_size - 1
BY ModesAssumption DEF Closest, TypeOK

\* Types when both threads start.
LEMMA TypeInvInit == Init => TypeInv
<1>1. SUFFICES ASSUME Init PROVE TypeInv
  OBVIOUS
<1>2. /\ waypoints \in Nat /\ waypoints_size \in Nat
      /\ LoopNavigate \in BOOLEAN /\ finding_path \in BOOLEAN
  <2>1. CASE Mode = ModeWaypoints
    <3>1. PICK f \in Files : /\ waypoints = Points(f) /\ waypoints_size = Points(f)
                             /\ LoopNavigate = Contains(f, "L")
                             /\ finding_path = ~Contains(f, "S")
      BY <1>1, <2>1, Zenon DEF Init
    <3>2. LoopNavigate \in BOOLEAN /\ finding_path \in BOOLEAN
      BY <3>1, Zenon DEF Contains
    <3>. QED BY <3>1, <3>2, PointsType, FilesAssumption
  <2>2. CASE Mode # ModeWaypoints
    <3>1. LoopNavigate \in BOOLEAN /\ finding_path \in BOOLEAN
      BY <1>1, <2>2, Zenon DEF Init
    <3>. QED BY <1>1, <2>2, <3>1 DEF Init
  <2>. QED BY <2>1, <2>2
<1>3. /\ navigating \in BOOLEAN /\ DoNotMove \in BOOLEAN /\ good \in BOOLEAN
      /\ mission \in BOOLEAN /\ overlap \in BOOLEAN /\ wild \in BOOLEAN
  BY <1>1, Zenon DEF Init
<1>4. Mode \in Modes
  BY <1>1, ModesAssumption DEF Init
<1>. QED BY <1>1, <1>2, <1>3, <1>4 DEF Init, TypeInv, TypeOK

\* Every step keeps the types, and the index does not run away downwards, even
\* when a GOTO clears it under the main loop.
LEMMA TypeInvNext == TypeInv /\ [Next]_vars => TypeInv'
<1>1. SUFFICES ASSUME TypeInv, [Next]_vars PROVE TypeInv'
  OBVIOUS
<1>. USE <1>1 DEF TypeInv
<1>2. CASE Pass
  <2>1. overlap' \in BOOLEAN
    BY <1>2, Zenon DEF Pass
  <2>. QED BY <1>2, <2>1 DEF Pass, TypeOK
<1>3. CASE NavNothing
  <2>1. overlap' \in BOOLEAN
    BY <1>3, Zenon DEF NavNothing
  <2>. QED BY <1>3, <2>1 DEF NavNothing, TypeOK
<1>4. CASE NavVisual
  <2>1. overlap' \in BOOLEAN
    BY <1>4, Zenon DEF NavVisual
  <2>. QED BY <1>4, <2>1 DEF NavVisual, Move, TypeOK
<1>5. CASE NavLine
  <2>1. overlap' \in BOOLEAN
    BY <1>5, Zenon DEF NavLine
  <2>. QED BY <1>5, <2>1 DEF NavLine, Move, TypeOK
<1>6. CASE NavWaypoints
  <2>1. overlap' \in BOOLEAN
    BY <1>6, Zenon DEF NavWaypoints
  <2>. QED BY <1>6, <2>1 DEF NavWaypoints, TypeOK
<1>7. CASE FindClosestPathPoint
  <2>1. overlap' \in BOOLEAN
    BY <1>7, Zenon DEF FindClosestPathPoint
  <2>2. wild' \in BOOLEAN
    <3>1. CASE waypoints_size = 0
      BY <1>7, <3>1 DEF FindClosestPathPoint, TypeOK
    <3>2. CASE waypoints_size # 0
      BY <1>7, <3>2, Zenon DEF FindClosestPathPoint, Access
    <3>. QED BY <3>1, <3>2
  <2>3. waypoints_index' \in Nat \cup {-1, -2}
    BY <1>7, ClosestType DEF FindClosestPathPoint
  <2>. QED BY <1>7, <2>1, <2>2, <2>3 DEF FindClosestPathPoint, TypeOK
<1>8. CASE Approach
  <2>1. overlap' \in BOOLEAN
    BY <1>8, Zenon DEF Approach
  <2>. QED BY <1>8, <2>1 DEF Approach, Move, TypeOK
<1>9. CASE StartReached
  <2>1. overlap' \in BOOLEAN /\ finding_path' \in BOOLEAN
    BY <1>9, Zenon DEF StartReached
  <2>. QED BY <1>9, <2>1 DEF StartReached, TypeOK
<1>10. CASE Follow
  <2>1. overlap' \in BOOLEAN /\ wild' \in BOOLEAN
    BY <1>10, Zenon DEF Follow, Access
  <2>. QED BY <1>10, <2>1 DEF Follow, Move, TypeOK
<1>11. CASE WaypointReached
  <2>1. overlap' \in BOOLEAN /\ wild' \in BOOLEAN /\ mission' \in BOOLEAN
    BY <1>11, Zenon DEF WaypointReached, Access
  <2>. QED BY <1>11, <2>1 DEF WaypointReached, TypeOK
<1>12. CASE Advance
  <2>1. overlap' \in BOOLEAN
    BY <1>12, Zenon DEF Advance
  <2>. QED BY <1>12, <2>1 DEF Advance, TypeOK
<1>13. CASE PastEnd
  <2>1. overlap' \in BOOLEAN
    BY <1>13, Zenon DEF PastEnd
  <2>. QED BY <1>13, <2>1 DEF PastEnd, TypeOK
<1>14. CASE Restart
  <2>1. overlap' \in BOOLEAN
    BY <1>14, Zenon DEF Restart
  <2>. QED BY <1>14, <2>1 DEF Restart, TypeOK
<1>15. CASE Back
  <2>1. overlap' \in BOOLEAN
    BY <1>15, Zenon DEF Back
  <2>. QED BY <1>15, <2>1 DEF Back, TypeOK
<1>16. CASE Done
  <2>1. overlap' \in BOOLEAN /\ navigating' \in BOOLEAN
    BY <1>16, Zenon DEF Done
  <2>. QED BY <1>16, <2>1 DEF Done, TypeOK
<1>17. CASE NoTelemetry
  <2>1. overlap' \in BOOLEAN
    BY <1>17, Zenon DEF NoTelemetry
  <2>. QED BY <1>17, <2>1 DEF NoTelemetry, TypeOK
<1>18. CASE SendTelemetry
  <2>1. overlap' \in BOOLEAN
    BY <1>18, Zenon DEF SendTelemetry
  <2>. QED BY <1>18, <2>1 DEF SendTelemetry, TypeOK
<1>19. CASE GetCurrentWaypoint
  <2>1. overlap' \in BOOLEAN /\ wild' \in BOOLEAN
    BY <1>19, Zenon DEF GetCurrentWaypoint, Access
  <2>. QED BY <1>19, <2>1 DEF GetCurrentWaypoint, TypeOK
<1>20. CASE ClearIndex
  <2>1. overlap' \in BOOLEAN
    BY <1>20, Zenon DEF ClearIndex
  <2>. QED BY <1>20, <2>1 DEF ClearIndex, TypeOK
<1>21. CASE ClearSize
  <2>1. overlap' \in BOOLEAN
    BY <1>21, Zenon DEF ClearSize
  <2>. QED BY <1>21, <2>1 DEF ClearSize, TypeOK
<1>22. CASE ClearWaypoints
  <2>1. overlap' \in BOOLEAN
    BY <1>22, Zenon DEF ClearWaypoints
  <2>. QED BY <1>22, <2>1 DEF ClearWaypoints, TypeOK
<1>23. CASE ClearLoop
  <2>1. overlap' \in BOOLEAN /\ LoopNavigate' \in BOOLEAN
    BY <1>23, Zenon DEF ClearLoop
  <2>. QED BY <1>23, <2>1 DEF ClearLoop, TypeOK
<1>24. CASE SetFinding
  <2>1. overlap' \in BOOLEAN /\ finding_path' \in BOOLEAN
    BY <1>24, Zenon DEF SetFinding
  <2>. QED BY <1>24, <2>1 DEF SetFinding, TypeOK
<1>25. CASE ReadRecord
  <2>1. LoopNavigate' \in BOOLEAN /\ finding_path' \in BOOLEAN
    BY <1>25, Zenon DEF ReadRecord
  <2>2. records' \in Seq(Records) /\ waypoints' \in Nat
    BY <1>25, RestOfRoute DEF ReadRecord, TypeOK
  <2>. QED BY <1>25, <2>1, <2>2 DEF ReadRecord, TypeOK
<1>26. CASE EndOfFile
  <2>1. overlap' \in BOOLEAN
    BY <1>26, Zenon DEF EndOfFile
  <2>. QED BY <1>26, <2>1 DEF EndOfFile, TypeOK
<1>27. CASE SetSize
  <2>1. overlap' \in BOOLEAN /\ mission' \in BOOLEAN
    BY <1>27, Zenon DEF SetSize
  <2>. QED BY <1>27, <2>1 DEF SetSize, TypeOK
<1>28. CASE GotoMode
  <2>1. overlap' \in BOOLEAN
    BY <1>28, Zenon DEF GotoMode
  <2>. QED BY <1>28, <2>1 DEF GotoMode, Modes, TypeOK
<1>29. CASE GotoNavigate
  <2>1. overlap' \in BOOLEAN /\ navigating' \in BOOLEAN
    BY <1>29, Zenon DEF GotoNavigate
  <2>. QED BY <1>29, <2>1 DEF GotoNavigate, TypeOK
<1>30. CASE SetNavigating
  <2>1. overlap' \in BOOLEAN /\ navigating' \in BOOLEAN
    BY <1>30, Zenon DEF SetNavigating
  <2>. QED BY <1>30, <2>1 DEF SetNavigating, TypeOK
<1>31. CASE NewCommand
  <2>1. CASE \E f \in Files : Goto(f)
    <3>1. mission' = FALSE /\ wild' = FALSE
      BY <2>1, Zenon DEF Goto
    <3>2. overlap' \in BOOLEAN
      <4>1. overlap' = (main \in PathPlaces)
        BY <2>1, Zenon DEF Goto
      <4>2. CASE main \in PathPlaces
        BY <4>1, <4>2, SMT
      <4>3. CASE main \notin PathPlaces
        BY <4>1, <4>3, SMT
      <4>. QED BY <4>2, <4>3
    <3>. QED BY <2>1, <3>1, <3>2, FilesAssumption DEF Goto, TypeOK
  <2>2. CASE SetModeWaypoints \/ SetModeOther \/ SetModeStandby
    <3>1. mission' \in BOOLEAN /\ overlap' \in BOOLEAN
      BY <2>2, Zenon
      DEF SetModeWaypoints, SetModeOther, SetModeStandby, SetMode
    <3>. QED BY <2>2, <3>1
             DEF SetModeWaypoints, SetModeOther, SetModeStandby, SetMode, TypeOK, Modes
  <2>. QED BY <1>31, <2>1, <2>2 DEF NewCommand
<1>32. CASE UNCHANGED vars
  BY <1>32 DEF vars, TypeOK
<1>. QED
  BY <1>2, <1>3, <1>4, <1>5, <1>6, <1>7, <1>8, <1>9, <1>10, <1>11, <1>12, <1>13, <1>14,
     <1>15, <1>16, <1>17, <1>18, <1>19, <1>20, <1>21, <1>22, <1>23, <1>24, <1>25, <1>26,
     <1>27, <1>28, <1>29, <1>30, <1>31, <1>32
  DEF Next, MainLoop, FollowPath, RunningCommand, LoadWaypoints

\* The types hold, whatever overlaps.
THEOREM TypesHold == Spec => []TypeInv
BY TypeInvInit, TypeInvNext, PTL DEF Spec

-----------------------------------------------------------------------------
(* The mission                                                             *)

\* There is no mission when both threads start, and a route or none.
LEMMA MissionInvInit == Init => MissionInv
<1>1. SUFFICES ASSUME Init PROVE MissionInv
  OBVIOUS
<1>2. waypoints \in Nat /\ waypoints_size = waypoints
  <2>1. CASE Mode = ModeWaypoints
    <3>1. PICK f \in Files : waypoints = Points(f) /\ waypoints_size = Points(f)
      BY <1>1, <2>1, Zenon DEF Init
    <3>. QED BY <3>1, PointsType, FilesAssumption
  <2>2. CASE Mode # ModeWaypoints
    BY <1>1, <2>2 DEF Init
  <2>. QED BY <2>1, <2>2
<1>3. ~mission
  BY <1>1, Zenon DEF Init
<1>. QED BY <1>1, <1>2, <1>3 DEF Init, MissionInv

\* Every step keeps the index before the end when a handler begins, and a mission
\* on its way until the robot is at the last waypoint.
LEMMA MissionInvNext == TypeInv /\ MissionInv /\ [Next]_vars => MissionInv'
<1>1. SUFFICES ASSUME TypeInv, MissionInv, [Next]_vars, ~overlap'
               PROVE  (IF client \in LoadPlaces
                       THEN /\ ~mission /\ main \notin PathPlaces
                            /\ client # "index" => waypoints_index = -1
                       ELSE /\ waypoints_size = waypoints
                            /\ waypoints_index <= waypoints \/ LoopNavigate
                            /\ main \notin {"end", "restart", "back"} =>
                                  waypoints_index < waypoints \/ LoopNavigate
                            /\ main = "restart" => LoopNavigate
                            /\ mission => OnTheWay)'
  BY Zenon DEF MissionInv
<1>. USE <1>1 DEF MissionInv, OnTheWay, Following, TypeInv, TypeOK
<1>2. CASE Pass
  <2>1. ~overlap /\ ~(main' \in PathPlaces /\ client \in LoadPlaces)
    BY <1>1, <1>2, Zenon DEF Pass, MainGoto
  <2>. QED BY <1>2, <2>1 DEF Pass
<1>3. CASE NavNothing
  <2>1. ~overlap /\ ~(main' \in PathPlaces /\ client \in LoadPlaces)
    BY <1>1, <1>3, Zenon DEF NavNothing, MainGoto
  <2>. QED BY <1>3, <2>1 DEF NavNothing
<1>4. CASE NavVisual
  <2>1. ~overlap /\ ~(main' \in PathPlaces /\ client \in LoadPlaces)
    BY <1>1, <1>4, Zenon DEF NavVisual, MainGoto
  <2>. QED BY <1>4, <2>1 DEF NavVisual
<1>5. CASE NavLine
  <2>1. ~overlap /\ ~(main' \in PathPlaces /\ client \in LoadPlaces)
    BY <1>1, <1>5, Zenon DEF NavLine, MainGoto
  <2>. QED BY <1>5, <2>1 DEF NavLine
<1>6. CASE NavWaypoints
  <2>1. ~overlap /\ ~(main' \in PathPlaces /\ client \in LoadPlaces)
    BY <1>1, <1>6, Zenon DEF NavWaypoints, MainGoto
  <2>. QED BY <1>6, <2>1 DEF NavWaypoints
<1>7. CASE FindClosestPathPoint
  <2>1. ~overlap /\ ~(main' \in PathPlaces /\ client \in LoadPlaces)
    BY <1>1, <1>7, Zenon DEF FindClosestPathPoint, MainGoto
  <2>2. waypoints_size > 1 => waypoints_index' < waypoints_size \/ waypoints_index' = waypoints_index
    BY <1>7 DEF FindClosestPathPoint, Closest
  <2>3. waypoints_size <= 1 => waypoints_index' = waypoints_index
    BY <1>7 DEF FindClosestPathPoint, Closest
  <2>4. /\ main = "find" /\ main' = "approach" /\ client' = client /\ mission' = mission
        /\ Mode' = Mode /\ navigating' = navigating /\ waypoints' = waypoints
        /\ waypoints_size' = waypoints_size /\ LoopNavigate' = LoopNavigate
        /\ waypoints_index' \in Int
    BY <1>7, ClosestType DEF FindClosestPathPoint
  <2>. QED BY <2>1, <2>2, <2>3, <2>4
<1>8. CASE Approach
  <2>1. ~overlap /\ ~(main' \in PathPlaces /\ client \in LoadPlaces)
    BY <1>1, <1>8, Zenon DEF Approach, MainGoto
  <2>. QED BY <1>8, <2>1 DEF Approach
<1>9. CASE StartReached
  <2>1. ~overlap /\ ~(main' \in PathPlaces /\ client \in LoadPlaces)
    BY <1>1, <1>9, Zenon DEF StartReached, MainGoto
  <2>. QED BY <1>9, <2>1 DEF StartReached
<1>10. CASE Follow
  <2>1. ~overlap /\ ~(main' \in PathPlaces /\ client \in LoadPlaces)
    BY <1>1, <1>10, Zenon DEF Follow, MainGoto
  <2>. QED BY <1>10, <2>1 DEF Follow
<1>11. CASE WaypointReached
  <2>1. ~overlap /\ ~(main' \in PathPlaces /\ client \in LoadPlaces)
    BY <1>1, <1>11, Zenon DEF WaypointReached, MainGoto
  <2>2. mission' => mission /\ (LoopNavigate \/ waypoints_index # waypoints - 1)
    BY <1>11, Zenon DEF WaypointReached
  <2>. QED BY <1>11, <2>1, <2>2 DEF WaypointReached
<1>12. CASE Advance
  <2>1. ~overlap /\ ~(main' \in PathPlaces /\ client \in LoadPlaces)
    BY <1>1, <1>12, Zenon DEF Advance, MainGoto
  <2>. QED BY <1>12, <2>1 DEF Advance
<1>13. CASE PastEnd
  <2>1. ~overlap /\ ~(main' \in PathPlaces /\ client \in LoadPlaces)
    BY <1>1, <1>13, Zenon DEF PastEnd, MainGoto
  <2>. QED BY <1>13, <2>1 DEF PastEnd
<1>14. CASE Restart
  <2>1. ~overlap /\ ~(main' \in PathPlaces /\ client \in LoadPlaces)
    BY <1>1, <1>14, Zenon DEF Restart, MainGoto
  <2>. QED BY <1>14, <2>1 DEF Restart
<1>15. CASE Back
  <2>1. ~overlap /\ ~(main' \in PathPlaces /\ client \in LoadPlaces)
    BY <1>1, <1>15, Zenon DEF Back, MainGoto
  <2>. QED BY <1>15, <2>1 DEF Back
<1>16. CASE Done
  <2>1. ~overlap /\ ~(main' \in PathPlaces /\ client \in LoadPlaces)
    BY <1>1, <1>16, Zenon DEF Done, MainGoto
  <2>2. ~mission
    BY <1>16, <2>1 DEF Done
  <2>. QED BY <1>16, <2>1, <2>2 DEF Done
<1>17. CASE NoTelemetry
  <2>1. ~overlap /\ ~(main' \in PathPlaces /\ client \in LoadPlaces)
    BY <1>1, <1>17, Zenon DEF NoTelemetry, MainGoto
  <2>. QED BY <1>17, <2>1 DEF NoTelemetry
<1>18. CASE SendTelemetry
  <2>1. ~overlap /\ ~(main' \in PathPlaces /\ client \in LoadPlaces)
    BY <1>1, <1>18, Zenon DEF SendTelemetry, MainGoto
  <2>. QED BY <1>18, <2>1 DEF SendTelemetry
<1>19. CASE GetCurrentWaypoint
  <2>1. ~overlap /\ ~(main' \in PathPlaces /\ client \in LoadPlaces)
    BY <1>1, <1>19, Zenon DEF GetCurrentWaypoint, MainGoto
  <2>. QED BY <1>19, <2>1 DEF GetCurrentWaypoint
<1>20. CASE ClearIndex
  <2>1. ~overlap /\ ~(main \in PathPlaces /\ client' \in LoadPlaces)
    BY <1>1, <1>20, Zenon DEF ClearIndex, ClientGoto
  <2>. QED BY <1>20, <2>1 DEF ClearIndex
<1>21. CASE ClearSize
  <2>1. ~overlap /\ ~(main \in PathPlaces /\ client' \in LoadPlaces)
    BY <1>1, <1>21, Zenon DEF ClearSize, ClientGoto
  <2>. QED BY <1>21, <2>1 DEF ClearSize
<1>22. CASE ClearWaypoints
  <2>1. ~overlap /\ ~(main \in PathPlaces /\ client' \in LoadPlaces)
    BY <1>1, <1>22, Zenon DEF ClearWaypoints, ClientGoto
  <2>. QED BY <1>22, <2>1 DEF ClearWaypoints
<1>23. CASE ClearLoop
  <2>1. ~overlap /\ ~(main \in PathPlaces /\ client' \in LoadPlaces)
    BY <1>1, <1>23, Zenon DEF ClearLoop, ClientGoto
  <2>. QED BY <1>23, <2>1 DEF ClearLoop
<1>24. CASE SetFinding
  <2>1. ~overlap /\ ~(main \in PathPlaces /\ client' \in LoadPlaces)
    BY <1>1, <1>24, Zenon DEF SetFinding, ClientGoto
  <2>. QED BY <1>24, <2>1 DEF SetFinding
<1>25. CASE ReadRecord
  <2>1. ~overlap /\ client = "read" /\ client' = "read" /\ main' = main /\ mission' = mission
    BY <1>1, <1>25, Zenon DEF ReadRecord
  <2>. QED BY <1>25, <2>1 DEF ReadRecord
<1>26. CASE EndOfFile
  <2>1. ~overlap /\ ~(main \in PathPlaces /\ client' \in LoadPlaces)
    BY <1>1, <1>26, Zenon DEF EndOfFile, ClientGoto
  <2>. QED BY <1>26, <2>1 DEF EndOfFile
<1>27. CASE SetSize
  <2>1. ~overlap /\ ~(main \in PathPlaces /\ client' \in LoadPlaces)
    BY <1>1, <1>27, Zenon DEF SetSize, ClientGoto
  <2>2. mission'
    BY <1>27, Zenon DEF SetSize
  <2>. QED BY <1>27, <2>1, <2>2 DEF SetSize
<1>28. CASE GotoMode
  <2>1. ~overlap /\ ~(main \in PathPlaces /\ client' \in LoadPlaces)
    BY <1>1, <1>28, Zenon DEF GotoMode, ClientGoto
  <2>. QED BY <1>28, <2>1 DEF GotoMode
<1>29. CASE GotoNavigate
  <2>1. ~overlap /\ ~(main \in PathPlaces /\ client' \in LoadPlaces)
    BY <1>1, <1>29, Zenon DEF GotoNavigate, ClientGoto
  <2>2. navigating'
    BY <1>29, Zenon DEF GotoNavigate
  <2>. QED BY <1>29, <2>1, <2>2 DEF GotoNavigate
<1>30. CASE SetNavigating
  <2>1. ~overlap /\ client \in {"start", "stop"} /\ client' = "idle"
    BY <1>1, <1>30, Zenon DEF SetNavigating, ClientGoto
  <2>. QED BY <1>30, <2>1 DEF SetNavigating
<1>31. CASE NewCommand
  <2>1. CASE \E f \in Files : Goto(f)
    <3>1. ~mission' /\ main \notin PathPlaces
      BY <1>1, <2>1, Zenon DEF Goto
    <3>. QED BY <2>1, <3>1 DEF Goto
  <2>2. CASE SetModeWaypoints \/ SetModeOther \/ SetModeStandby
    <3>1. ~overlap /\ ~mission'
      BY <1>1, <2>2, Zenon DEF SetModeWaypoints, SetModeOther, SetModeStandby, SetMode, ClientGoto
    <3>. QED BY <2>2, <3>1 DEF SetModeWaypoints, SetModeOther, SetModeStandby, SetMode
  <2>. QED BY <1>31, <2>1, <2>2 DEF NewCommand
<1>32. CASE UNCHANGED vars
  BY <1>32 DEF vars
<1>. QED
  BY <1>2, <1>3, <1>4, <1>5, <1>6, <1>7, <1>8, <1>9, <1>10, <1>11, <1>12, <1>13, <1>14,
     <1>15, <1>16, <1>17, <1>18, <1>19, <1>20, <1>21, <1>22, <1>23, <1>24, <1>25, <1>26,
     <1>27, <1>28, <1>29, <1>30, <1>31, <1>32
  DEF Next, MainLoop, FollowPath, RunningCommand, LoadWaypoints

\* A mission that was answered OK is on its way, or about to be, until the robot is
\* at the last waypoint or the operator sends something else; for any routes
\* (MasterApp.cpp:431-437, Navigator.cpp:502-516, Solarbot.cpp:909-913).
THEOREM Holds == Spec => []MissionHolds
<1>1. MissionInv => MissionHolds
  BY DEF MissionInv, OnTheWay, MissionHolds
<1>. QED BY <1>1, TypesHold, MissionInvInit, MissionInvNext, PTL DEF Spec

-----------------------------------------------------------------------------
(* The route                                                               *)

\* A good route is loaded when the program starts with one.
LEMMA RouteInvInit == GoodRoutes /\ Init => RouteInv
<1>1. SUFFICES ASSUME GoodRoutes, Init PROVE RouteInv
  OBVIOUS
<1>2. CASE Mode = ModeWaypoints
  <2>1. PICK f \in Files : /\ waypoints = Points(f) /\ waypoints_size = Points(f)
                           /\ finding_path = ~Contains(f, "S")
    BY <1>1, <1>2, Zenon DEF Init
  <2>2. f \in Seq(Records) /\ TwoPoints(f) /\ NoStart(f)
    BY <1>1, FilesAssumption DEF GoodRoutes
  <2>3. waypoints \in Nat /\ waypoints >= 2
    BY <2>1, <2>2, PointsType, TwoPointsCount
  <2>4. finding_path
    <3>1. ~Contains(f, "S")
      BY <2>2, LenProperties DEF NoStart, Contains
    <3>. QED BY <2>1, <3>1, Zenon
  <2>5. waypoints_size = waypoints
    BY <2>1
  <2>. QED BY <1>1, <2>3, <2>4, <2>5 DEF Init, RouteInv, Loaded
<1>3. CASE Mode # ModeWaypoints
  BY <1>1, <1>3 DEF Init, RouteInv, Loaded
<1>. QED BY <1>2, <1>3

\* Every step keeps to the route.
LEMMA RouteInvNext == GoodRoutes /\ TypeInv /\ RouteInv /\ [Next]_vars => RouteInv'
<1>1. SUFFICES ASSUME GoodRoutes, TypeInv, RouteInv, [Next]_vars, ~overlap'
               PROVE  ~wild' /\ (IF client \in LoadPlaces THEN Loading ELSE Loaded)'
  BY Zenon DEF RouteInv
<1>. USE <1>1 DEF RouteInv, Loading, Loaded, TypeInv, TypeOK
<1>2. CASE Pass
  <2>1. ~overlap /\ ~(main' \in PathPlaces /\ client \in LoadPlaces)
    BY <1>1, <1>2, Zenon DEF Pass, MainGoto
  <2>. QED BY <1>2, <2>1 DEF Pass
<1>3. CASE NavNothing
  <2>1. ~overlap /\ ~(main' \in PathPlaces /\ client \in LoadPlaces)
    BY <1>1, <1>3, Zenon DEF NavNothing, MainGoto
  <2>. QED BY <1>3, <2>1 DEF NavNothing
<1>4. CASE NavVisual
  <2>1. ~overlap /\ ~(main' \in PathPlaces /\ client \in LoadPlaces)
    BY <1>1, <1>4, Zenon DEF NavVisual, MainGoto
  <2>. QED BY <1>4, <2>1 DEF NavVisual
<1>5. CASE NavLine
  <2>1. ~overlap /\ ~(main' \in PathPlaces /\ client \in LoadPlaces)
    BY <1>1, <1>5, Zenon DEF NavLine, MainGoto
  <2>. QED BY <1>5, <2>1 DEF NavLine
<1>6. CASE NavWaypoints
  <2>1. ~overlap /\ ~(main' \in PathPlaces /\ client \in LoadPlaces)
    BY <1>1, <1>6, Zenon DEF NavWaypoints, MainGoto
  <2>. QED BY <1>6, <2>1 DEF NavWaypoints
<1>7. CASE FindClosestPathPoint
  <2>1. ~overlap /\ ~(main' \in PathPlaces /\ client \in LoadPlaces)
    BY <1>1, <1>7, Zenon DEF FindClosestPathPoint, MainGoto
  <2>2. /\ ~wild /\ waypoints_size - 1 \in 0..waypoints - 1 /\ waypoints_size # 0
        /\ waypoints_size > 1
    BY <1>7, <2>1 DEF FindClosestPathPoint
  <2>3. ~wild'
    BY <1>7, <2>1, <2>2, Zenon DEF FindClosestPathPoint, Access
  <2>4. waypoints_index' \in 0..waypoints_size - 1
    BY <1>7, <2>2, ClosestType DEF FindClosestPathPoint, GoodRoutes
  <2>. QED BY <1>7, <2>1, <2>3, <2>4 DEF FindClosestPathPoint
<1>8. CASE Approach
  <2>1. ~overlap /\ ~(main' \in PathPlaces /\ client \in LoadPlaces)
    BY <1>1, <1>8, Zenon DEF Approach, MainGoto
  <2>. QED BY <1>8, <2>1 DEF Approach
<1>9. CASE StartReached
  <2>1. ~overlap /\ ~(main' \in PathPlaces /\ client \in LoadPlaces)
    BY <1>1, <1>9, Zenon DEF StartReached, MainGoto
  <2>. QED BY <1>9, <2>1 DEF StartReached
<1>10. CASE Follow
  <2>1. ~overlap /\ ~(main' \in PathPlaces /\ client \in LoadPlaces)
    BY <1>1, <1>10, Zenon DEF Follow, MainGoto
  <2>2. ~wild /\ waypoints_index \in 0..waypoints - 1
    BY <1>10, <2>1 DEF Follow
  <2>3. ~wild'
    BY <1>10, <2>1, <2>2, Zenon DEF Follow, Access
  <2>. QED BY <1>10, <2>1, <2>3 DEF Follow
<1>11. CASE WaypointReached
  <2>1. ~overlap /\ ~(main' \in PathPlaces /\ client \in LoadPlaces)
    BY <1>1, <1>11, Zenon DEF WaypointReached, MainGoto
  <2>2. ~wild /\ waypoints_index \in 0..waypoints - 1
    BY <1>11, <2>1 DEF WaypointReached
  <2>3. ~wild'
    BY <1>11, <2>1, <2>2, Zenon DEF WaypointReached, Access
  <2>. QED BY <1>11, <2>1, <2>3 DEF WaypointReached
<1>12. CASE Advance
  <2>1. ~overlap /\ ~(main' \in PathPlaces /\ client \in LoadPlaces)
    BY <1>1, <1>12, Zenon DEF Advance, MainGoto
  <2>. QED BY <1>12, <2>1 DEF Advance
<1>13. CASE PastEnd
  <2>1. ~overlap /\ ~(main' \in PathPlaces /\ client \in LoadPlaces)
    BY <1>1, <1>13, Zenon DEF PastEnd, MainGoto
  <2>. QED BY <1>13, <2>1 DEF PastEnd
<1>14. CASE Restart
  <2>1. ~overlap /\ ~(main' \in PathPlaces /\ client \in LoadPlaces)
    BY <1>1, <1>14, Zenon DEF Restart, MainGoto
  <2>. QED BY <1>14, <2>1 DEF Restart
<1>15. CASE Back
  <2>1. ~overlap /\ ~(main' \in PathPlaces /\ client \in LoadPlaces)
    BY <1>1, <1>15, Zenon DEF Back, MainGoto
  <2>. QED BY <1>15, <2>1 DEF Back
<1>16. CASE Done
  <2>1. ~overlap /\ ~(main' \in PathPlaces /\ client \in LoadPlaces)
    BY <1>1, <1>16, Zenon DEF Done, MainGoto
  <2>. QED BY <1>16, <2>1 DEF Done
<1>17. CASE NoTelemetry
  <2>1. ~overlap /\ ~(main' \in PathPlaces /\ client \in LoadPlaces)
    BY <1>1, <1>17, Zenon DEF NoTelemetry, MainGoto
  <2>. QED BY <1>17, <2>1 DEF NoTelemetry
<1>18. CASE SendTelemetry
  <2>1. ~overlap /\ ~(main' \in PathPlaces /\ client \in LoadPlaces)
    BY <1>1, <1>18, Zenon DEF SendTelemetry, MainGoto
  <2>. QED BY <1>18, <2>1 DEF SendTelemetry
<1>19. CASE GetCurrentWaypoint
  <2>1. ~overlap /\ ~(main' \in PathPlaces /\ client \in LoadPlaces)
    BY <1>1, <1>19, Zenon DEF GetCurrentWaypoint, MainGoto
  <2>2. ~wild /\ waypoints_index \in 0..waypoints - 1
    BY <1>19, <2>1 DEF GetCurrentWaypoint
  <2>3. ~wild'
    BY <1>19, <2>1, <2>2, Zenon DEF GetCurrentWaypoint, Access
  <2>. QED BY <1>19, <2>1, <2>3 DEF GetCurrentWaypoint
<1>20. CASE ClearIndex
  <2>1. ~overlap /\ ~(main \in PathPlaces /\ client' \in LoadPlaces)
    BY <1>1, <1>20, Zenon DEF ClearIndex, ClientGoto
  <2>. QED BY <1>20, <2>1 DEF ClearIndex
<1>21. CASE ClearSize
  <2>1. ~overlap /\ ~(main \in PathPlaces /\ client' \in LoadPlaces)
    BY <1>1, <1>21, Zenon DEF ClearSize, ClientGoto
  <2>. QED BY <1>21, <2>1 DEF ClearSize
<1>22. CASE ClearWaypoints
  <2>1. ~overlap /\ ~(main \in PathPlaces /\ client' \in LoadPlaces)
    BY <1>1, <1>22, Zenon DEF ClearWaypoints, ClientGoto
  <2>. QED BY <1>22, <2>1 DEF ClearWaypoints
<1>23. CASE ClearLoop
  <2>1. ~overlap /\ ~(main \in PathPlaces /\ client' \in LoadPlaces)
    BY <1>1, <1>23, Zenon DEF ClearLoop, ClientGoto
  <2>. QED BY <1>23, <2>1 DEF ClearLoop
<1>24. CASE SetFinding
  <2>1. ~overlap /\ ~(main \in PathPlaces /\ client' \in LoadPlaces)
    BY <1>1, <1>24, Zenon DEF SetFinding, ClientGoto
  <2>2. finding_path'
    BY <1>24, Zenon DEF SetFinding
  <2>3. TwoPoints(records) /\ NoStart(records)
    BY <1>24, <2>1 DEF SetFinding
  <2>. QED BY <1>24, <2>1, <2>2, <2>3 DEF SetFinding
<1>25. CASE ReadRecord
  <2>1. /\ ~overlap /\ client = "read" /\ client' = "read" /\ main' = main /\ ~wild' /\ ~wild
        /\ waypoints_index' = waypoints_index
    BY <1>1, <1>25 DEF ReadRecord
  <2>2. Loading
    BY <2>1 DEF RouteInv
  <2>3. NoStart(records') /\ Head(records) # "S" /\ records' = Tail(records)
    BY <1>25, <2>1, <2>2, RestOfRoute DEF ReadRecord
  <2>4. finding_path'
    <3>1. finding_path
      BY <2>1, <2>2
    <3>. QED BY <1>25, <2>3, <3>1, Zenon DEF ReadRecord
  <2>5. waypoints' >= 2 \/ TwoPoints(records') \/ (waypoints' = 1 /\ OnePoint(records'))
    <3>1. waypoints >= 2 \/ TwoPoints(records) \/ (waypoints = 1 /\ OnePoint(records))
      BY <2>1, <2>2
    <3>2. CASE Head(records) = "P"
      <4>1. waypoints' = waypoints + 1
        BY <1>25, <3>2 DEF ReadRecord
      <4>2. TwoPoints(records) => OnePoint(records')
        BY <1>25, <2>3, RestOfRoute DEF ReadRecord
      <4>. QED BY <3>1, <4>1, <4>2
    <3>3. CASE Head(records) # "P"
      <4>1. waypoints' = waypoints
        BY <1>25, <3>3 DEF ReadRecord
      <4>2. /\ TwoPoints(records) => TwoPoints(records')
            /\ OnePoint(records) => OnePoint(records')
        BY <1>25, <2>3, <3>3, RestOfRoute DEF ReadRecord
      <4>. QED BY <3>1, <4>1, <4>2
    <3>. QED BY <3>2, <3>3
  <2>. QED BY <2>1, <2>2, <2>3, <2>4, <2>5
<1>26. CASE EndOfFile
  <2>1. ~overlap /\ ~(main \in PathPlaces /\ client' \in LoadPlaces)
    BY <1>1, <1>26, Zenon DEF EndOfFile, ClientGoto
  <2>2. ~OnePoint(records) /\ ~TwoPoints(records)
    <3>1. DOMAIN records = {}
      BY <1>26 DEF EndOfFile
    <3>. QED BY <3>1 DEF OnePoint, TwoPoints
  <2>. QED BY <1>26, <2>1, <2>2 DEF EndOfFile
<1>27. CASE SetSize
  <2>1. ~overlap /\ ~(main \in PathPlaces /\ client' \in LoadPlaces)
    BY <1>1, <1>27, Zenon DEF SetSize, ClientGoto
  <2>. QED BY <1>27, <2>1 DEF SetSize
<1>28. CASE GotoMode
  <2>1. ~overlap /\ ~(main \in PathPlaces /\ client' \in LoadPlaces)
    BY <1>1, <1>28, Zenon DEF GotoMode, ClientGoto
  <2>. QED BY <1>28, <2>1 DEF GotoMode
<1>29. CASE GotoNavigate
  <2>1. ~overlap /\ ~(main \in PathPlaces /\ client' \in LoadPlaces)
    BY <1>1, <1>29, Zenon DEF GotoNavigate, ClientGoto
  <2>. QED BY <1>29, <2>1 DEF GotoNavigate
<1>30. CASE SetNavigating
  <2>1. ~overlap /\ ~(main \in PathPlaces /\ client' \in LoadPlaces)
    BY <1>1, <1>30, Zenon DEF SetNavigating, ClientGoto
  <2>. QED BY <1>30, <2>1 DEF SetNavigating
<1>31. CASE NewCommand
  <2>1. CASE \E f \in Files : Goto(f)
    <3>1. PICK f \in Files : Goto(f)
      BY <2>1
    <3>2. ~wild' /\ main \notin PathPlaces
      BY <1>1, <3>1, Zenon DEF Goto
    <3>3. TwoPoints(records') /\ NoStart(records')
      BY <1>1, <3>1 DEF Goto, GoodRoutes
    <3>. QED BY <3>1, <3>2, <3>3 DEF Goto
  <2>2. CASE SetModeWaypoints \/ SetModeOther \/ SetModeStandby
    <3>1. ~overlap
      BY <1>1, <2>2, Zenon DEF SetModeWaypoints, SetModeOther, SetModeStandby, SetMode, ClientGoto
    <3>. QED BY <2>2, <3>1
             DEF SetModeWaypoints, SetModeOther, SetModeStandby, SetMode, Standby, ModeWaypoints,
                 ModeVisual, ModeLine
  <2>. QED BY <1>31, <2>1, <2>2 DEF NewCommand
<1>32. CASE UNCHANGED vars
  BY <1>32 DEF vars
<1>. QED
  BY <1>2, <1>3, <1>4, <1>5, <1>6, <1>7, <1>8, <1>9, <1>10, <1>11, <1>12, <1>13, <1>14,
     <1>15, <1>16, <1>17, <1>18, <1>19, <1>20, <1>21, <1>22, <1>23, <1>24, <1>25, <1>26,
     <1>27, <1>28, <1>29, <1>30, <1>31, <1>32
  DEF Next, MainLoop, FollowPath, RunningCommand, LoadWaypoints

\* Where the index is at each place of the two threads, for all sets of good
\* routes: two points, no S record and a leg of two metres (Navigator.cpp:28-133,
\* 471-577).
THEOREM RouteInvariant == ASSUME GoodRoutes PROVE Spec => []RouteInv
<1>1. Init => RouteInv
  BY GoodRoutes, RouteInvInit
<1>2. TypeInv /\ RouteInv /\ [Next]_vars => RouteInv'
  BY GoodRoutes, RouteInvNext
<1>. QED BY <1>1, <1>2, TypesHold, PTL DEF Spec

\* With good routes the vector of waypoints is accessed within its bounds, as long
\* as no GOTO runs in the middle of a handler that uses it.
THEOREM InBounds == ASSUME GoodRoutes PROVE Spec => []AccessInBounds
<1>1. RouteInv => AccessInBounds
  BY DEF RouteInv, AccessInBounds
<1>. QED BY <1>1, RouteInvariant, PTL

\* One step of the tour.
LEMMA TourKept ==
    GoodRoutes /\ TypeInv /\ RouteInv /\ [Next]_vars => [~overlap' => TourStep]_vars
<1>1. SUFFICES ASSUME TypeInv, RouteInv, [Next]_vars, ~overlap'
               PROVE  TourStep
  OBVIOUS
<1>. USE <1>1 DEF TypeInv, TypeOK
<1>2. CASE FindClosestPathPoint
  <2>1. ~overlap /\ ~(main' \in PathPlaces /\ client \in LoadPlaces)
    BY <1>1, <1>2, Zenon DEF FindClosestPathPoint, MainGoto
  <2>2. client \notin LoadPlaces
    BY <1>2, <2>1 DEF FindClosestPathPoint, RouteInv, Loading
  <2>3. Loaded
    BY <2>1, <2>2, Zenon DEF RouteInv
  <2>. QED BY <1>2, <2>3 DEF FindClosestPathPoint, TourStep, Loaded
<1>3. CASE Advance
  <2>1. ~overlap /\ ~(main' \in PathPlaces /\ client \in LoadPlaces)
    BY <1>1, <1>3, Zenon DEF Advance, MainGoto
  <2>2. client \notin LoadPlaces
    BY <1>3, <2>1 DEF Advance, RouteInv, Loading
  <2>3. Loaded
    BY <2>1, <2>2, Zenon DEF RouteInv
  <2>. QED BY <1>3, <2>3 DEF Advance, TourStep, Loaded
<1>4. CASE Restart
  <2>1. ~overlap /\ ~(main' \in PathPlaces /\ client \in LoadPlaces)
    BY <1>1, <1>4, Zenon DEF Restart, MainGoto
  <2>2. client \notin LoadPlaces
    BY <1>4, <2>1 DEF Restart, RouteInv, Loading
  <2>3. Loaded
    BY <2>1, <2>2, Zenon DEF RouteInv
  <2>. QED BY <1>4, <2>3 DEF Restart, TourStep, Loaded
<1>5. CASE Back
  <2>1. ~overlap /\ ~(main' \in PathPlaces /\ client \in LoadPlaces)
    BY <1>1, <1>5, Zenon DEF Back, MainGoto
  <2>2. client \notin LoadPlaces
    BY <1>5, <2>1 DEF Back, RouteInv, Loading
  <2>3. Loaded
    BY <2>1, <2>2, Zenon DEF RouteInv
  <2>. QED BY <1>5, <2>3 DEF Back, TourStep, Loaded
<1>6. CASE ClearIndex
  <2>1. client' # client
    BY <1>6 DEF ClearIndex
  <2>. QED BY <2>1, Zenon DEF TourStep
<1>7. CASE Pass \/ NavNothing \/ NavVisual \/ NavLine \/ NavWaypoints
  <2>1. waypoints_index' = waypoints_index
    BY <1>7
    DEF Pass, NavNothing, NavVisual, NavLine, NavWaypoints
  <2>. QED BY <2>1, Zenon DEF TourStep
<1>8. CASE Approach \/ StartReached \/ Follow \/ WaypointReached \/ PastEnd \/ Done
  <2>1. waypoints_index' = waypoints_index
    BY <1>8
    DEF Approach, StartReached, Follow, WaypointReached, PastEnd, Done
  <2>. QED BY <2>1, Zenon DEF TourStep
<1>9. CASE NoTelemetry \/ SendTelemetry \/ GetCurrentWaypoint
  <2>1. waypoints_index' = waypoints_index
    BY <1>9
    DEF NoTelemetry, SendTelemetry, GetCurrentWaypoint
  <2>. QED BY <2>1, Zenon DEF TourStep
<1>10. CASE ClearSize \/ ClearWaypoints \/ ClearLoop \/ SetFinding \/ ReadRecord \/
            EndOfFile \/ SetSize
  <2>1. waypoints_index' = waypoints_index
    BY <1>10
    DEF ClearSize, ClearWaypoints, ClearLoop, SetFinding, ReadRecord, EndOfFile,
        SetSize
  <2>. QED BY <2>1, Zenon DEF TourStep
<1>11. CASE GotoMode \/ GotoNavigate \/ SetNavigating
  <2>1. waypoints_index' = waypoints_index
    BY <1>11
    DEF GotoMode, GotoNavigate, SetNavigating
  <2>. QED BY <2>1, Zenon DEF TourStep
<1>12. CASE NewCommand
  <2>1. waypoints_index' = waypoints_index
    BY <1>12
    DEF NewCommand, Goto, SetModeWaypoints, SetModeOther, SetModeStandby, SetMode
  <2>. QED BY <2>1, Zenon DEF TourStep
<1>13. CASE UNCHANGED vars
  <2>1. waypoints_index' = waypoints_index
    BY <1>13 DEF vars
  <2>. QED BY <2>1, Zenon DEF TourStep
<1>. QED
  BY <1>2, <1>3, <1>4, <1>5, <1>6, <1>7, <1>8, <1>9, <1>10, <1>11, <1>12, <1>13
  DEF Next, MainLoop, FollowPath, RunningCommand, LoadWaypoints

\* With good routes the waypoints are gone to in the order of the file, none is
\* passed over, and after the last one comes the first in a loop only
\* (Navigator.cpp:486-516).
THEOREM Tour == ASSUME GoodRoutes PROVE Spec => TourInOrder
<1>1. TypeInv /\ RouteInv /\ [Next]_vars => [~overlap' => TourStep]_vars
  BY GoodRoutes, TourKept
<1>. QED BY <1>1, TypesHold, RouteInvariant, PTL DEF Spec, TourInOrder
=============================================================================
