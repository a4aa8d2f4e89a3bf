------------------------- MODULE ControlUnitProofs -------------------------
(***************************************************************************)
(* Proofs about the link to the motor driver: LinkInv is inductive, so that *)
(* the types, OwnLineSent and OneStrayCommand hold for all speeds, reply     *)
(* kinds and bounds; every step of the link is a step, or a stutter, of      *)
(* DriveLease; and with a good driver that answers every request each thread *)
(* that reads has an answer.                                                *)
(***************************************************************************)
EXTENDS ControlUnit, SequenceTheorems, FiniteSetTheorems, TLAPS

\* The constants of the module are as its assumptions say.
LEMMA ConstantFacts ==
    /\ Stopped \in Speeds /\ GET \notin Speeds
    /\ ReplyKinds \subseteq Kinds /\ MaySkipReply \in BOOLEAN
    /\ TelemetryPasses \in Nat
    /\ MaxUnanswered \in Nat \ {0} /\ MaxTty \in Nat \ {0}
BY SpeedsAssumption, ReplyAssumption, BoundAssumption DEF GET

\* LinkInv holds when both threads are ready to enter their loops.
LEMMA LinkInvInit == Init => LinkInv
<1>1. SUFFICES ASSUME Init PROVE LinkInv
  OBVIOUS
<1>2. status \in Outcomes
  BY <1>1, ConstantFacts DEF Init, FirstOutcomes, Outcomes
<1>3. TypeOK
  <2>1. /\ port_tx_buffer \in Line
        /\ arg \in [Threads -> Line \cup {NoLine}]
        /\ obeyed \in [by : Threads, speed : Speeds]
    BY <1>1, ConstantFacts DEF Init, Line, Threads
  <2>2. /\ pc \in [Threads -> Locations]
        /\ outcome \in [Threads -> Outcomes \cup {Nothing}]
    BY <1>1 DEF Init, Locations
  <2>3. /\ toTxTelemetry \in 1..TelemetryPasses + 2
        /\ unanswered \in 0..MaxUnanswered /\ stray \in Nat
    BY <1>1, ConstantFacts DEF Init
  <2>4. /\ port_set \in BOOLEAN /\ port_open \in BOOLEAN
        /\ RemoteControllerActivate \in BOOLEAN /\ fresh \in BOOLEAN
        /\ reopened \in BOOLEAN /\ skipped \in BOOLEAN
    BY <1>1, Zenon DEF Init
  <2>5. /\ mtx_write \in Threads \cup {Nobody}
        /\ mtx_read \in Threads \cup {Nobody}
        /\ tty \in Seq(Kinds)
    BY <1>1 DEF Init
  <2>. QED BY <1>2, <2>1, <2>2, <2>3, <2>4, <2>5 DEF TypeOK
<1>4. MutexesHeld /\ CallsCarried /\ ThreadPlaces
  BY <1>1
     DEF Init, MutexesHeld, CallsCarried, ThreadPlaces, Threads, Main, Rx,
         Nobody
<1>5. StrayUsesLease /\ OwnLineSent
  BY <1>1 DEF Init, StrayUsesLease, OwnLineSent, Threads
<1>. QED BY <1>3, <1>4, <1>5 DEF LinkInv

\* Every step of either thread and of the environment preserves LinkInv.
LEMMA LinkInvNext == LinkInv /\ [Next]_vars => LinkInv'
<1>1. SUFFICES ASSUME LinkInv, [Next]_vars PROVE LinkInv'
  OBVIOUS
<1>. USE ConstantFacts DEF LinkInv, callVars, portVars, driverVars, ghostVars, loopVars,
                               dataVars, lockVars
<1>2. ASSUME NEW s \in Speeds, Write(s) PROVE LinkInv'
  <2>1. TypeOK'
    BY <1>1, <1>2
       DEF Write, Goto, Call, Navigating, TypeOK, Line, NoLine, Nothing,
           Threads, Locations, Outcomes, Kinds
  <2>2. MutexesHeld' /\ ThreadPlaces'
    BY <1>1, <1>2
       DEF Write, Goto, Call, Navigating, TypeOK, MutexesHeld, ThreadPlaces,
           Threads, Main, Rx, Nobody
  <2>3. CallsCarried'
    BY <1>1, <1>2
       DEF Write, Goto, Call, Navigating, TypeOK, CallsCarried, ThreadPlaces,
           Line, Threads, Main, Rx, Outcomes, GET
  <2>4. StrayUsesLease' /\ OwnLineSent'
    BY <1>1, <1>2
       DEF Write, Goto, Call, Navigating, TypeOK, StrayUsesLease, Navigating,
           OwnLineSent, MutexesHeld, CallsCarried, ThreadPlaces, Line, Threads,
           Main, Rx
  <2>. QED BY <2>1, <2>2, <2>3, <2>4
<1>3. CASE PassWithoutMove
  <2>1. TypeOK'
    BY <1>1, <1>3
       DEF PassWithoutMove, Goto, TypeOK, Line, NoLine, Nothing, Threads,
           Locations, Outcomes, Kinds
  <2>2. MutexesHeld' /\ ThreadPlaces'
    BY <1>1, <1>3
       DEF PassWithoutMove, Goto, TypeOK, MutexesHeld, ThreadPlaces, Threads,
           Main, Rx, Nobody
  <2>3. CallsCarried'
    BY <1>1, <1>3
       DEF PassWithoutMove, Goto, TypeOK, CallsCarried, ThreadPlaces, Line,
           Threads, Main, Rx, Outcomes, GET
  <2>4. StrayUsesLease' /\ OwnLineSent'
    BY <1>1, <1>3
       DEF PassWithoutMove, Goto, TypeOK, StrayUsesLease, Navigating,
           OwnLineSent, MutexesHeld, CallsCarried, ThreadPlaces, Line, Threads,
           Main, Rx
  <2>. QED BY <2>1, <2>2, <2>3, <2>4
<1>4. ASSUME NEW s \in Speeds, RemoteControllerWrite(s) PROVE LinkInv'
  <2>1. TypeOK'
    BY <1>1, <1>4
       DEF RemoteControllerWrite, Goto, Call, TypeOK, Line, NoLine, Nothing,
           Threads, Locations, Outcomes, Kinds
  <2>2. MutexesHeld' /\ ThreadPlaces'
    BY <1>1, <1>4
       DEF RemoteControllerWrite, Goto, Call, TypeOK, MutexesHeld, ThreadPlaces,
           Threads, Main, Rx, Nobody
  <2>3. CallsCarried'
    BY <1>1, <1>4
       DEF RemoteControllerWrite, Goto, Call, TypeOK, CallsCarried,
           ThreadPlaces, Line, Threads, Main, Rx, Outcomes, GET
  <2>4. StrayUsesLease' /\ OwnLineSent'
    BY <1>1, <1>4
       DEF RemoteControllerWrite, Goto, Call, TypeOK, StrayUsesLease,
           Navigating, OwnLineSent, MutexesHeld, CallsCarried, ThreadPlaces,
           Line, Threads, Main, Rx
  <2>. QED BY <2>1, <2>2, <2>3, <2>4
<1>5. CASE RemoteRelease
  <2>1. TypeOK'
    <3>1. RemoteControllerActivate' \in BOOLEAN
      BY <1>1, <1>5, Zenon DEF RemoteRelease
    <3>. QED BY <1>1, <3>1, <1>5
       DEF RemoteRelease, TypeOK, Line, NoLine, Nothing, Threads, Locations,
           Outcomes, Kinds
  <2>2. MutexesHeld' /\ ThreadPlaces'
    BY <1>1, <1>5
       DEF RemoteRelease, TypeOK, MutexesHeld, ThreadPlaces, Threads, Main, Rx,
           Nobody
  <2>3. CallsCarried'
    BY <1>1, <1>5
       DEF RemoteRelease, TypeOK, CallsCarried, ThreadPlaces, Line, Threads,
           Main, Rx, Outcomes, GET
  <2>4. StrayUsesLease' /\ OwnLineSent'
    BY <1>1, <1>5
       DEF RemoteRelease, TypeOK, StrayUsesLease, Navigating, OwnLineSent,
           MutexesHeld, CallsCarried, ThreadPlaces, Line, Threads, Main, Rx
  <2>. QED BY <2>1, <2>2, <2>3, <2>4
<1>6. ASSUME NEW t \in Threads, LockWrite(t) PROVE LinkInv'
  <2>1. TypeOK'
    BY <1>1, <1>6
       DEF LockWrite, Goto, TypeOK, Line, NoLine, Nothing, Threads, Locations,
           Outcomes, Kinds
  <2>2. MutexesHeld' /\ ThreadPlaces'
    BY <1>1, <1>6
       DEF LockWrite, Goto, TypeOK, MutexesHeld, ThreadPlaces, Threads, Main,
           Rx, Nobody
  <2>3. CallsCarried'
    BY <1>1, <1>6
       DEF LockWrite, Goto, TypeOK, CallsCarried, ThreadPlaces, Line, Threads,
           Main, Rx, Outcomes, GET
  <2>4. StrayUsesLease' /\ OwnLineSent'
    BY <1>1, <1>6
       DEF LockWrite, Goto, TypeOK, StrayUsesLease, Navigating, OwnLineSent,
           MutexesHeld, CallsCarried, ThreadPlaces, Line, Threads, Main, Rx
  <2>. QED BY <2>1, <2>2, <2>3, <2>4
<1>7. ASSUME NEW t \in Threads, Format(t) PROVE LinkInv'
  <2>1. TypeOK'
    BY <1>1, <1>7
       DEF Format, Goto, TypeOK, Line, NoLine, Nothing, Threads, Locations,
           Outcomes, Kinds, CallsCarried
  <2>2. MutexesHeld' /\ ThreadPlaces'
    BY <1>1, <1>7
       DEF Format, Goto, TypeOK, MutexesHeld, ThreadPlaces, Threads, Main, Rx,
           Nobody
  <2>3. CallsCarried'
    BY <1>1, <1>7
       DEF Format, Goto, TypeOK, CallsCarried, ThreadPlaces, Line, Threads,
           Main, Rx, Outcomes, GET
  <2>4. StrayUsesLease' /\ OwnLineSent'
    BY <1>1, <1>7
       DEF Format, Goto, TypeOK, StrayUsesLease, Navigating, OwnLineSent,
           MutexesHeld, CallsCarried, ThreadPlaces, Line, Threads, Main, Rx
  <2>. QED BY <2>1, <2>2, <2>3, <2>4
<1>8. ASSUME NEW t \in Threads, Send(t) PROVE LinkInv'
  <2>1. TypeOK'
    BY <1>1, <1>8
       DEF Send, Goto, TypeOK, Line, NoLine, Nothing, Threads, Locations,
           Outcomes, Kinds
  <2>2. MutexesHeld' /\ ThreadPlaces'
    BY <1>1, <1>8
       DEF Send, Goto, TypeOK, MutexesHeld, ThreadPlaces, Threads, Main, Rx,
           Nobody
  <2>3. CallsCarried'
    BY <1>1, <1>8
       DEF Send, Goto, TypeOK, CallsCarried, ThreadPlaces, Line, Threads, Main,
           Rx, Outcomes, GET
  <2>4. StrayUsesLease' /\ OwnLineSent'
    BY <1>1, <1>8
       DEF Send, Goto, TypeOK, StrayUsesLease, Navigating, OwnLineSent,
           MutexesHeld, CallsCarried, ThreadPlaces, Line, Threads, Main, Rx
  <2>. QED BY <2>1, <2>2, <2>3, <2>4
<1>9. ASSUME NEW t \in Threads, SetStatus(t) PROVE LinkInv'
  <2>1. TypeOK'
    BY <1>1, <1>9
       DEF SetStatus, Goto, EndCall, TypeOK, Line, NoLine, Nothing, Threads,
           Locations, Outcomes, Kinds, CallsCarried
  <2>2. MutexesHeld' /\ ThreadPlaces'
    BY <1>1, <1>9
       DEF SetStatus, Goto, EndCall, TypeOK, MutexesHeld, ThreadPlaces, Threads,
           Main, Rx, Nobody
  <2>3. CallsCarried'
    BY <1>1, <1>9
       DEF SetStatus, Goto, EndCall, TypeOK, CallsCarried, ThreadPlaces, Line,
           Threads, Main, Rx, Outcomes, GET
  <2>4. StrayUsesLease' /\ OwnLineSent'
    BY <1>1, <1>9
       DEF SetStatus, Goto, EndCall, TypeOK, StrayUsesLease, Navigating,
           OwnLineSent, MutexesHeld, CallsCarried, ThreadPlaces, Line, Threads,
           Main, Rx
  <2>. QED BY <2>1, <2>2, <2>3, <2>4
<1>10. ASSUME NEW t \in Threads, LockRead(t) PROVE LinkInv'
  <2>1. TypeOK'
    BY <1>1, <1>10
       DEF LockRead, Goto, TypeOK, Line, NoLine, Nothing, Threads, Locations,
           Outcomes, Kinds
  <2>2. MutexesHeld' /\ ThreadPlaces'
    BY <1>1, <1>10
       DEF LockRead, Goto, TypeOK, MutexesHeld, ThreadPlaces, Threads, Main, Rx,
           Nobody
  <2>3. CallsCarried'
    BY <1>1, <1>10
       DEF LockRead, Goto, TypeOK, CallsCarried, ThreadPlaces, Line, Threads,
           Main, Rx, Outcomes, GET
  <2>4. StrayUsesLease' /\ OwnLineSent'
    BY <1>1, <1>10
       DEF LockRead, Goto, TypeOK, StrayUsesLease, Navigating, OwnLineSent,
           MutexesHeld, CallsCarried, ThreadPlaces, Line, Threads, Main, Rx
  <2>. QED BY <2>1, <2>2, <2>3, <2>4
<1>11. ASSUME NEW t \in Threads, SelectReady(t) PROVE LinkInv'
  <2>1. TypeOK'
    BY <1>1, <1>11
       DEF SelectReady, Goto, Found, TypeOK, Line, NoLine, Nothing, Threads,
           Locations, Outcomes, Kinds
  <2>2. MutexesHeld' /\ ThreadPlaces'
    BY <1>1, <1>11
       DEF SelectReady, Goto, Found, TypeOK, MutexesHeld, ThreadPlaces, Threads,
           Main, Rx, Nobody
  <2>3. CallsCarried'
    BY <1>1, <1>11
       DEF SelectReady, Goto, Found, TypeOK, CallsCarried, ThreadPlaces, Line,
           Threads, Main, Rx, Outcomes, GET
  <2>4. StrayUsesLease' /\ OwnLineSent'
    BY <1>1, <1>11
       DEF SelectReady, Goto, Found, TypeOK, StrayUsesLease, Navigating,
           OwnLineSent, MutexesHeld, CallsCarried, ThreadPlaces, Line, Threads,
           Main, Rx
  <2>. QED BY <2>1, <2>2, <2>3, <2>4
<1>12. ASSUME NEW t \in Threads, SelectClosed(t) PROVE LinkInv'
  <2>1. TypeOK'
    BY <1>1, <1>12
       DEF SelectClosed, Goto, Found, TypeOK, Line, NoLine, Nothing, Threads,
           Locations, Outcomes, Kinds
  <2>2. MutexesHeld' /\ ThreadPlaces'
    BY <1>1, <1>12
       DEF SelectClosed, Goto, Found, TypeOK, MutexesHeld, ThreadPlaces,
           Threads, Main, Rx, Nobody
  <2>3. CallsCarried'
    BY <1>1, <1>12
       DEF SelectClosed, Goto, Found, TypeOK, CallsCarried, ThreadPlaces, Line,
           Threads, Main, Rx, Outcomes, GET, Kinds, ReadError
  <2>4. StrayUsesLease' /\ OwnLineSent'
    BY <1>1, <1>12
       DEF SelectClosed, Goto, Found, TypeOK, StrayUsesLease, Navigating,
           OwnLineSent, MutexesHeld, CallsCarried, ThreadPlaces, Line, Threads,
           Main, Rx
  <2>. QED BY <2>1, <2>2, <2>3, <2>4
<1>13. ASSUME NEW t \in Threads, SelectTimeout(t) PROVE LinkInv'
  <2>1. TypeOK'
    <3>1. port_set' \in BOOLEAN
      BY <1>1, <1>13, Zenon DEF SelectTimeout
    <3>. QED BY <1>1, <3>1, <1>13
       DEF SelectTimeout, Goto, Found, TypeOK, Line, NoLine, Nothing, Threads,
           Locations, Outcomes, Kinds
  <2>2. MutexesHeld' /\ ThreadPlaces'
    BY <1>1, <1>13
       DEF SelectTimeout, Goto, Found, TypeOK, MutexesHeld, ThreadPlaces,
           Threads, Main, Rx, Nobody
  <2>3. CallsCarried'
    BY <1>1, <1>13
       DEF SelectTimeout, Goto, Found, TypeOK, CallsCarried, ThreadPlaces, Line,
           Threads, Main, Rx, Outcomes, GET
  <2>4. StrayUsesLease' /\ OwnLineSent'
    BY <1>1, <1>13
       DEF SelectTimeout, Goto, Found, TypeOK, StrayUsesLease, Navigating,
           OwnLineSent, MutexesHeld, CallsCarried, ThreadPlaces, Line, Threads,
           Main, Rx
  <2>. QED BY <2>1, <2>2, <2>3, <2>4
<1>14. ASSUME NEW t \in Threads, Publish(t) PROVE LinkInv'
  <2>1. TypeOK'
    <3>1. fresh' \in BOOLEAN
      BY <1>1, <1>14, Zenon DEF Publish, TypeOK
    <3>. QED BY <1>1, <3>1, <1>14
       DEF Publish, Goto, TypeOK, Line, NoLine, Nothing, Threads, Locations,
           Outcomes, Kinds, CallsCarried
  <2>2. MutexesHeld' /\ ThreadPlaces'
    BY <1>1, <1>14
       DEF Publish, Goto, TypeOK, MutexesHeld, ThreadPlaces, Threads, Main, Rx,
           Nobody, CallsCarried, GET
  <2>3. CallsCarried'
    BY <1>1, <1>14
       DEF Publish, Goto, TypeOK, CallsCarried, ThreadPlaces, Line, Threads,
           Main, Rx, Outcomes, GET
  <2>4. StrayUsesLease' /\ OwnLineSent'
    BY <1>1, <1>14
       DEF Publish, Goto, TypeOK, StrayUsesLease, Navigating, OwnLineSent,
           MutexesHeld, CallsCarried, ThreadPlaces, Line, Threads, Main, Rx
  <2>. QED BY <2>1, <2>2, <2>3, <2>4
<1>15. CASE Telemetry
  <2>1. TypeOK'
    <3>1. reopened' \in BOOLEAN
      BY <1>1, <1>15, Zenon DEF Telemetry
    <3>2. toTxTelemetry' \in 1..TelemetryPasses + 2
      BY <1>1, <1>15 DEF Telemetry, TypeOK
    <3>. QED BY <1>1, <3>1, <3>2, <1>15
       DEF Telemetry, Goto, TypeOK, Line, NoLine, Nothing, Threads, Locations,
           Outcomes, Kinds
  <2>2. MutexesHeld' /\ ThreadPlaces'
    BY <1>1, <1>15
       DEF Telemetry, Goto, TypeOK, MutexesHeld, ThreadPlaces, Threads, Main,
           Rx, Nobody
  <2>3. CallsCarried'
    BY <1>1, <1>15
       DEF Telemetry, Goto, TypeOK, CallsCarried, ThreadPlaces, Line, Threads,
           Main, Rx, Outcomes, GET
  <2>4. StrayUsesLease' /\ OwnLineSent'
    BY <1>1, <1>15
       DEF Telemetry, Goto, TypeOK, StrayUsesLease, Navigating, OwnLineSent,
           MutexesHeld, CallsCarried, ThreadPlaces, Line, Threads, Main, Rx
  <2>. QED BY <2>1, <2>2, <2>3, <2>4
<1>16. CASE Read
  <2>1. TypeOK'
    BY <1>1, <1>16
       DEF Read, Goto, Call, TypeOK, Line, NoLine, Nothing, Threads, Locations,
           Outcomes, Kinds
  <2>2. MutexesHeld' /\ ThreadPlaces'
    BY <1>1, <1>16
       DEF Read, Goto, Call, TypeOK, MutexesHeld, ThreadPlaces, Threads, Main,
           Rx, Nobody
  <2>3. CallsCarried'
    BY <1>1, <1>16
       DEF Read, Goto, Call, TypeOK, CallsCarried, ThreadPlaces, Line, Threads,
           Main, Rx, Outcomes, GET
  <2>4. StrayUsesLease' /\ OwnLineSent'
    BY <1>1, <1>16
       DEF Read, Goto, Call, TypeOK, StrayUsesLease, Navigating, OwnLineSent,
           MutexesHeld, CallsCarried, ThreadPlaces, Line, Threads, Main, Rx
  <2>. QED BY <2>1, <2>2, <2>3, <2>4
<1>17. CASE TryLockWrite
  <2>1. TypeOK'
    BY <1>1, <1>17
       DEF TryLockWrite, Goto, TypeOK, Line, NoLine, Nothing, Threads,
           Locations, Outcomes, Kinds
  <2>2. MutexesHeld' /\ ThreadPlaces'
    BY <1>1, <1>17
       DEF TryLockWrite, Goto, TypeOK, MutexesHeld, ThreadPlaces, Threads, Main,
           Rx, Nobody
  <2>3. CallsCarried'
    BY <1>1, <1>17
       DEF TryLockWrite, Goto, TypeOK, CallsCarried, ThreadPlaces, Line,
           Threads, Main, Rx, Outcomes, GET
  <2>4. StrayUsesLease' /\ OwnLineSent'
    BY <1>1, <1>17
       DEF TryLockWrite, Goto, TypeOK, StrayUsesLease, Navigating, OwnLineSent,
           MutexesHeld, CallsCarried, ThreadPlaces, Line, Threads, Main, Rx
  <2>. QED BY <2>1, <2>2, <2>3, <2>4
<1>18. CASE ReadDone
  <2>1. TypeOK'
    BY <1>1, <1>18
       DEF ReadDone, Goto, EndCall, TypeOK, Line, NoLine, Nothing, Threads,
           Locations, Outcomes, Kinds
  <2>2. MutexesHeld' /\ ThreadPlaces'
    BY <1>1, <1>18
       DEF ReadDone, Goto, EndCall, TypeOK, MutexesHeld, ThreadPlaces, Threads,
           Main, Rx, Nobody
  <2>3. CallsCarried'
    BY <1>1, <1>18
       DEF ReadDone, Goto, EndCall, TypeOK, CallsCarried, ThreadPlaces, Line,
           Threads, Main, Rx, Outcomes, GET
  <2>4. StrayUsesLease' /\ OwnLineSent'
    BY <1>1, <1>18
       DEF ReadDone, Goto, EndCall, TypeOK, StrayUsesLease, Navigating,
           OwnLineSent, MutexesHeld, CallsCarried, ThreadPlaces, Line, Threads,
           Main, Rx
  <2>. QED BY <2>1, <2>2, <2>3, <2>4
<1>19. CASE Close
  <2>1. TypeOK'
    <3>1. port_open' \in BOOLEAN
      BY <1>1, <1>19, Zenon DEF Close
    <3>. QED BY <1>1, <3>1, <1>19
       DEF Close, Goto, TypeOK, Line, NoLine, Nothing, Threads, Locations,
           Outcomes, Kinds
  <2>2. MutexesHeld' /\ ThreadPlaces'
    BY <1>1, <1>19
       DEF Close, Goto, TypeOK, MutexesHeld, ThreadPlaces, Threads, Main, Rx,
           Nobody
  <2>3. CallsCarried'
    BY <1>1, <1>19
       DEF Close, Goto, TypeOK, CallsCarried, ThreadPlaces, Line, Threads, Main,
           Rx, Outcomes, GET
  <2>4. StrayUsesLease' /\ OwnLineSent'
    BY <1>1, <1>19
       DEF Close, Goto, TypeOK, StrayUsesLease, Navigating, OwnLineSent,
           MutexesHeld, CallsCarried, ThreadPlaces, Line, Threads, Main, Rx
  <2>. QED BY <2>1, <2>2, <2>3, <2>4
<1>20. CASE OpenOk
  <2>1. TypeOK'
    BY <1>1, <1>20
       DEF OpenOk, Goto, TypeOK, Line, NoLine, Nothing, Threads, Locations,
           Outcomes, Kinds
  <2>2. MutexesHeld' /\ ThreadPlaces'
    BY <1>1, <1>20
       DEF OpenOk, Goto, TypeOK, MutexesHeld, ThreadPlaces, Threads, Main, Rx,
           Nobody
  <2>3. CallsCarried'
    BY <1>1, <1>20
       DEF OpenOk, Goto, TypeOK, CallsCarried, ThreadPlaces, Line, Threads,
           Main, Rx, Outcomes, GET
  <2>4. StrayUsesLease' /\ OwnLineSent'
    BY <1>1, <1>20
       DEF OpenOk, Goto, TypeOK, StrayUsesLease, Navigating, OwnLineSent,
           MutexesHeld, CallsCarried, ThreadPlaces, Line, Threads, Main, Rx
  <2>. QED BY <2>1, <2>2, <2>3, <2>4
<1>21. CASE OpenFails \/ OpenUnset
  <2>1. TypeOK'
    <3>1. CASE OpenFails
      BY <1>1, <3>1
         DEF OpenFails, Goto, TypeOK, Line, NoLine, Nothing, Threads, Locations,
             Outcomes, Kinds
    <3>2. CASE OpenUnset
      BY <1>1, <3>2
         DEF OpenUnset, Goto, TypeOK, Line, NoLine, Nothing, Threads, Locations,
             Outcomes, Kinds
    <3>. QED BY <1>21, <3>1, <3>2
  <2>2. MutexesHeld' /\ ThreadPlaces'
    BY <1>1, <1>21
       DEF OpenFails, OpenUnset, Goto, TypeOK, MutexesHeld, ThreadPlaces, Threads, Main,
           Rx, Nobody
  <2>3. CallsCarried'
    BY <1>1, <1>21
       DEF OpenFails, OpenUnset, Goto, TypeOK, CallsCarried, ThreadPlaces, Line, Threads,
           Main, Rx, Outcomes, GET
  <2>4. StrayUsesLease' /\ OwnLineSent'
    BY <1>1, <1>21
       DEF OpenFails, OpenUnset, Goto, TypeOK, StrayUsesLease, Navigating, OwnLineSent,
           MutexesHeld, CallsCarried, ThreadPlaces, Line, Threads, Main, Rx
  <2>. QED BY <2>1, <2>2, <2>3, <2>4
<1>22. CASE DriverAnswers
  <2>1. TypeOK'
    BY <1>1, <1>22, SMTT(30)
       DEF DriverAnswers, TypeOK, Line, NoLine, Nothing, Threads, Locations,
           Outcomes, Kinds
  <2>2. MutexesHeld' /\ ThreadPlaces'
    BY <1>1, <1>22
       DEF DriverAnswers, TypeOK, MutexesHeld, ThreadPlaces, Threads, Main, Rx,
           Nobody
  <2>3. CallsCarried'
    BY <1>1, <1>22
       DEF DriverAnswers, TypeOK, CallsCarried, ThreadPlaces, Line, Threads,
           Main, Rx, Outcomes, GET
  <2>4. StrayUsesLease' /\ OwnLineSent'
    BY <1>1, <1>22
       DEF DriverAnswers, TypeOK, StrayUsesLease, Navigating, OwnLineSent,
           MutexesHeld, CallsCarried, ThreadPlaces, Line, Threads, Main, Rx
  <2>. QED BY <2>1, <2>2, <2>3, <2>4
<1>23. CASE DriverIgnores
  <2>1. TypeOK'
    BY <1>1, <1>23
       DEF DriverIgnores, TypeOK, Line, NoLine, Nothing, Threads, Locations,
           Outcomes, Kinds
  <2>2. MutexesHeld' /\ ThreadPlaces'
    BY <1>1, <1>23
       DEF DriverIgnores, TypeOK, MutexesHeld, ThreadPlaces, Threads, Main, Rx,
           Nobody
  <2>3. CallsCarried'
    BY <1>1, <1>23
       DEF DriverIgnores, TypeOK, CallsCarried, ThreadPlaces, Line, Threads,
           Main, Rx, Outcomes, GET
  <2>4. StrayUsesLease' /\ OwnLineSent'
    BY <1>1, <1>23
       DEF DriverIgnores, TypeOK, StrayUsesLease, Navigating, OwnLineSent,
           MutexesHeld, CallsCarried, ThreadPlaces, Line, Threads, Main, Rx
  <2>. QED BY <2>1, <2>2, <2>3, <2>4
<1>24. CASE DataGrowsOld
  <2>1. TypeOK'
    <3>1. fresh' \in BOOLEAN
      BY <1>1, <1>24, Zenon DEF DataGrowsOld
    <3>. QED BY <1>1, <3>1, <1>24
       DEF DataGrowsOld, TypeOK, Line, NoLine, Nothing, Threads, Locations,
           Outcomes, Kinds
  <2>2. MutexesHeld' /\ ThreadPlaces'
    BY <1>1, <1>24
       DEF DataGrowsOld, TypeOK, MutexesHeld, ThreadPlaces, Threads, Main, Rx,
           Nobody
  <2>3. CallsCarried'
    BY <1>1, <1>24
       DEF DataGrowsOld, TypeOK, CallsCarried, ThreadPlaces, Line, Threads,
           Main, Rx, Outcomes, GET
  <2>4. StrayUsesLease' /\ OwnLineSent'
    BY <1>1, <1>24
       DEF DataGrowsOld, TypeOK, StrayUsesLease, Navigating, OwnLineSent,
           MutexesHeld, CallsCarried, ThreadPlaces, Line, Threads, Main, Rx
  <2>. QED BY <2>1, <2>2, <2>3, <2>4
<1>25. CASE UNCHANGED vars
  BY <1>1, <1>25
     DEF vars, TypeOK, MutexesHeld, CallsCarried, ThreadPlaces, StrayUsesLease,
         Navigating, OwnLineSent
<1>. QED
  BY <1>1, <1>2, <1>3, <1>4, <1>5, <1>6, <1>7, <1>8, <1>9, <1>10, <1>11, <1>12,
     <1>13, <1>14, <1>15, <1>16, <1>17, <1>18, <1>19, <1>20, <1>21, <1>22, <1>23,
     <1>24, <1>25
  DEF Next, MainStep, RxStep, Environment, Transmit, RealRead

\* LinkInv holds in every state of the link.
THEOREM LinkInvariant == Spec => []LinkInv
<1>1. Init => LinkInv
  BY LinkInvInit
<1>2. LinkInv /\ [Next]_vars => LinkInv'
  BY LinkInvNext
<1>. QED BY <1>1, <1>2, PTL DEF Spec

\* Every variable of the link keeps its type (fields of ControlUnit.h, locals
\* of its callers).
THEOREM TypeCorrect == Spec => []TypeOK
<1>1. LinkInv => TypeOK
  BY DEF LinkInv
<1>. QED BY <1>1, LinkInvariant, PTL

\* What write() puts on the serial line is the line its caller formatted into
\* the buffer that both threads share.
THEOREM LinesIntact == Spec => []OwnLineSent
<1>1. LinkInv => OwnLineSent
  BY DEF LinkInv
<1>. QED BY <1>1, LinkInvariant, PTL

\* The test of RemoteControllerActivate in Write lets at most one navigation
\* command through after the remote controller has taken over.
THEOREM StrayBounded == Spec => []OneStrayCommand
<1>1. LinkInv => OneStrayCommand
  <2>. SUFFICES ASSUME LinkInv PROVE OneStrayCommand
    OBVIOUS
  <2>1. stray \in Nat /\ (stray > 0 => stray = 1)
    BY DEF LinkInv, TypeOK, StrayUsesLease
  <2>. QED BY <2>1 DEF OneStrayCommand
<1>. QED BY <1>1, LinkInvariant, PTL

\* The link is open for a new lease when the program starts.
LEMMA LeaseInit == Init => Lease!Init
BY ConstantFacts DEF Init, Lease!Init, Navigating, Threads, Main, Rx

\* A step of the link takes or uses up a lease, hands the drive over, forwards
\* a remote command, or leaves all three as they were.
LEMMA LeaseNext == LinkInv /\ [Next]_vars => [Lease!Next]_(Lease!vars)
<1>1. SUFFICES ASSUME LinkInv, [Next]_vars PROVE [Lease!Next]_(Lease!vars)
  OBVIOUS
<1>. USE ConstantFacts DEF LinkInv, TypeOK, Threads, Main, Rx,
                           callVars, driverVars, ghostVars, loopVars, lockVars
<1>2. ASSUME NEW s \in Speeds, Write(s) PROVE Lease!Grant \/ UNCHANGED Lease!vars
  BY <1>1, <1>2 DEF Write, Goto, Call, Navigating, Lease!Grant, Lease!vars
<1>3. ASSUME NEW s \in Speeds, RemoteControllerWrite(s) PROVE Lease!TakeOver
  BY <1>1, <1>3
     DEF RemoteControllerWrite, Goto, Call, Navigating, Lease!TakeOver
<1>4. RemoteRelease => Lease!GiveBack
  BY <1>1 DEF RemoteRelease, Navigating, Lease!GiveBack
<1>5. Send(Main) => Lease!UseLease \/ UNCHANGED Lease!vars
  <2>1. Send(Main) => port_tx_buffer = arg[Main] /\ arg[Main] \in Line /\ arg[Main].by = Main
    BY <1>1 DEF Send, Goto, OwnLineSent, CallsCarried
  <2>. QED BY <1>1, <2>1
           DEF Send, Goto, Navigating, Line, Lease!UseLease, Lease!vars
<1>6. Send(Rx) => Lease!RemoteCommand \/ UNCHANGED Lease!vars
  <2>1. Send(Rx) => /\ port_tx_buffer = arg[Rx] /\ arg[Rx] \in Line
                    /\ arg[Rx].by = Rx /\ arg[Rx].speed \in Speeds
                    /\ RemoteControllerActivate
    BY <1>1 DEF Send, Goto, OwnLineSent, CallsCarried, ThreadPlaces
  <2>. QED BY <1>1, <2>1
           DEF Send, Goto, Navigating, Line, Lease!RemoteCommand, Lease!vars
<1>7. ASSUME NEW t \in Threads, LockWrite(t) \/ Format(t) \/ SetStatus(t) \/ RealRead(t)
      PROVE  UNCHANGED Lease!vars
  BY <1>1, <1>7
     DEF LockWrite, Format, SetStatus, RealRead, LockRead, SelectReady, SelectClosed,
         SelectTimeout, Publish, Goto, EndCall, Navigating, Lease!vars
<1>8. PassWithoutMove \/ Telemetry \/ Read \/ TryLockWrite \/ ReadDone
        => UNCHANGED Lease!vars
  BY <1>1
     DEF PassWithoutMove, Telemetry, Read, TryLockWrite, ReadDone, Goto, Call, EndCall,
         CallsCarried, Navigating, Lease!vars
<1>9. Close \/ OpenOk \/ OpenFails \/ OpenUnset \/ Environment => UNCHANGED Lease!vars
  BY <1>1
     DEF Close, OpenOk, OpenFails, OpenUnset, Environment, DriverAnswers, DriverIgnores,
         DataGrowsOld, Goto, Navigating, Lease!vars
<1>10. UNCHANGED vars => UNCHANGED Lease!vars
  BY DEF vars, Navigating, Lease!vars
<1>. QED
  BY <1>1, <1>2, <1>3, <1>4, <1>5, <1>6, <1>7, <1>8, <1>9, <1>10
  DEF Next, MainStep, RxStep, Transmit, Lease!Next

\* ControlUnit, with the two threads that call it, implements DriveLease.
THEOREM LinkImplementsLease == Spec => ImplementsLease
<1>1. Spec => []LinkInv
  BY LinkInvariant
<1>. QED BY <1>1, LeaseInit, LeaseNext, PTL DEF Spec, ImplementsLease, Lease!Spec

-----------------------------------------------------------------------------
(* A driver that answers every request                                     *)

\* The threads that wait for an answer are counted one by one.
LEMMA ReadersCounted == Cardinality(Readers) = WaitsFor(Main) + WaitsFor(Rx)
<1>1. Main # Rx
  BY DEF Main, Rx
<1>2. CASE pc[Main] \in {"lockR", "select"} /\ pc[Rx] \in {"lockR", "select"}
  <2>1. Readers = {Main} \cup {Rx}
    BY <1>2 DEF Readers, Threads
  <2>2. IsFiniteSet({Main}) /\ Cardinality({Main}) = 1
    BY FS_Singleton
  <2>3. Cardinality({Main} \cup {Rx}) = 2
    BY <1>1, <2>2, FS_AddElement
  <2>. QED BY <1>2, <2>1, <2>3 DEF WaitsFor
<1>3. CASE pc[Main] \in {"lockR", "select"} /\ pc[Rx] \notin {"lockR", "select"}
  <2>1. Readers = {Main}
    BY <1>3 DEF Readers, Threads
  <2>2. Cardinality({Main}) = 1
    BY FS_Singleton
  <2>. QED BY <1>3, <2>1, <2>2 DEF WaitsFor
<1>4. CASE pc[Main] \notin {"lockR", "select"} /\ pc[Rx] \in {"lockR", "select"}
  <2>1. Readers = {Rx}
    BY <1>4 DEF Readers, Threads
  <2>2. Cardinality({Rx}) = 1
    BY FS_Singleton
  <2>. QED BY <1>4, <2>1, <2>2 DEF WaitsFor
<1>5. CASE pc[Main] \notin {"lockR", "select"} /\ pc[Rx] \notin {"lockR", "select"}
  <2>1. Readers = {}
    BY <1>5 DEF Readers, Threads
  <2>. QED BY <1>5, <2>1, FS_EmptySet DEF WaitsFor
<1>. QED BY <1>2, <1>3, <1>4, <1>5

\* The link begins with no request unanswered.
LEMMA PromptInvInit == GoodDriver /\ Init => PromptInv
<1>1. SUFFICES ASSUME GoodDriver, Init, ~MaySkipReply PROVE PromptInv
  BY DEF PromptInv
<1>2. status \in Good /\ status # Timeout
  BY <1>1 DEF Init, FirstOutcomes, GoodDriver, Good, Timeout
<1>3. unanswered = 0 /\ tty = <<>>
  BY <1>1, <1>2 DEF Init
<1>4. port_open /\ port_set
  BY <1>1, <1>2, Zenon DEF Init
<1>5. \A t \in Threads : pc[t] = "idle"
  BY <1>1 DEF Init
<1>. QED BY <1>2, <1>3, <1>5, <1>4 DEF PromptInv, WaitsFor, Threads

\* Every step leaves one answer for each thread that waits.
LEMMA PromptInvNext == GoodDriver /\ LinkInv /\ PromptInv /\ [Next]_vars => PromptInv'
<1>1. SUFFICES ASSUME GoodDriver, LinkInv, PromptInv, [Next]_vars, ~MaySkipReply, ~skipped'
               PROVE  PromptInv'
  BY DEF PromptInv
<1>. USE <1>1, ConstantFacts DEF callVars, portVars, driverVars, ghostVars, loopVars, dataVars,
                                 lockVars
<1>2. ~skipped
  BY DEF Next, MainStep, RxStep, Environment, Transmit, RealRead, Write, PassWithoutMove,
         Telemetry, Read, TryLockWrite, ReadDone, Close, OpenOk, OpenFails, OpenUnset,
         RemoteControllerWrite, RemoteRelease, DriverAnswers, DriverIgnores, DataGrowsOld,
         LockWrite, Format, Send, SetStatus, LockRead, SelectReady, SelectClosed,
         SelectTimeout, Publish, vars
<1>3. /\ port_open /\ port_set /\ status \in Good
      /\ unanswered + Len(tty) = WaitsFor(Main) + WaitsFor(Rx)
      /\ tty \in Seq(Good)
      /\ \A t \in Threads : pc[t] \in {"publish", "status", "readDone"} => outcome[t] \in Good
      /\ pc[Main] \notin {"close", "open"}
  BY <1>2 DEF PromptInv
<1>4. /\ pc \in [Threads -> Locations] /\ unanswered \in 0..MaxUnanswered /\ Len(tty) \in Nat
      /\ outcome \in [Threads -> Outcomes \cup {Nothing}]
  BY <1>3 DEF LinkInv, TypeOK
<1>5. Main \in Threads /\ Rx \in Threads /\ Main # Rx /\ \A t \in Threads : t = Main \/ t = Rx
  BY DEF Threads, Main, Rx
<1>6. /\ WaitsFor(Main) \in 0..1 /\ WaitsFor(Rx) \in 0..1
      /\ MaxUnanswered >= 2 /\ MaxTty >= 2 /\ ReplyKinds \subseteq Good
  BY DEF WaitsFor, GoodDriver
\* Steps that leave the waiting threads and the answers as they are.
<1>7. ASSUME NEW t \in Threads, NEW to \in Locations,
             pc' = [pc EXCEPT ![t] = to],
             pc[t] \notin {"lockR", "select"} <=> to \notin {"lockR", "select"},
             to \in {"publish", "status", "readDone"} => outcome'[t] \in Good,
             t = Main => to \notin {"close", "open"},
             \A u \in Threads : u # t => outcome'[u] = outcome[u],
             status' \in Good, port_set',
             UNCHANGED <<unanswered, tty, port_open>>
      PROVE  PromptInv'
  <2>1. pc'[t] = to /\ \A u \in Threads : u # t => pc'[u] = pc[u]
    BY <1>4, <1>7
  <2>2. WaitsFor(Main)' = WaitsFor(Main) /\ WaitsFor(Rx)' = WaitsFor(Rx)
    BY <1>5, <1>7, <2>1 DEF WaitsFor
  <2>3. \A u \in Threads : pc'[u] \in {"publish", "status", "readDone"} => outcome'[u] \in Good
    BY <1>3, <1>7, <2>1
  <2>4. pc'[Main] \notin {"close", "open"}
    BY <1>3, <1>5, <1>7, <2>1
  <2>. QED BY <1>3, <1>7, <2>2, <2>3, <2>4 DEF PromptInv
<1>8. ASSUME NEW s \in Speeds, Write(s) PROVE PromptInv'
  <2>1. CASE RemoteControllerActivate
    BY <1>3, <1>5, <1>7, <1>8, <2>1 DEF Write, Goto, Locations
  <2>2. CASE ~RemoteControllerActivate
    BY <1>3, <1>5, <1>7, <1>8, <2>2 DEF Write, Goto, Locations
  <2>. QED BY <2>1, <2>2
<1>9. CASE PassWithoutMove
  BY <1>3, <1>5, <1>7, <1>9 DEF PassWithoutMove, Goto, Locations
<1>10. ASSUME NEW s \in Speeds, RemoteControllerWrite(s) PROVE PromptInv'
  BY <1>3, <1>5, <1>7, <1>10 DEF RemoteControllerWrite, Goto, Locations
<1>11. ASSUME NEW t \in Threads, LockWrite(t) PROVE PromptInv'
  BY <1>3, <1>5, <1>7, <1>11 DEF LockWrite, Goto, Locations
<1>12. ASSUME NEW t \in Threads, Format(t) PROVE PromptInv'
  BY <1>3, <1>5, <1>7, <1>12 DEF Format, Goto, Locations
<1>13. ASSUME NEW t \in Threads, Send(t) PROVE PromptInv'
  <2>1. /\ pc[t] = "send" /\ pc' = [pc EXCEPT ![t] = "lockR"]
        /\ unanswered' = IF unanswered < MaxUnanswered THEN unanswered + 1 ELSE unanswered
        /\ UNCHANGED <<status, outcome, port_set, port_open, tty>>
    BY <1>3, <1>13 DEF Send, Goto
  <2>2. pc'[t] = "lockR" /\ \A u \in Threads : u # t => pc'[u] = pc[u]
    BY <1>4, <2>1
  <2>3. WaitsFor(t) = 0 /\ WaitsFor(t)' = 1 /\ \A u \in Threads : u # t => WaitsFor(u)' = WaitsFor(u)
    BY <2>1, <2>2 DEF WaitsFor
  <2>4. WaitsFor(Main)' + WaitsFor(Rx)' = WaitsFor(Main) + WaitsFor(Rx) + 1
    BY <1>5, <1>6, <2>3
  <2>5. WaitsFor(Main) + WaitsFor(Rx) <= 1
    BY <1>5, <1>6, <2>3
  <2>6. unanswered' = unanswered + 1
    BY <1>3, <1>4, <1>6, <2>1, <2>5
  <2>7. unanswered' + Len(tty') = WaitsFor(Main)' + WaitsFor(Rx)'
    BY <1>3, <1>4, <1>6, <2>1, <2>4, <2>6
  <2>. QED BY <1>3, <1>5, <2>1, <2>2, <2>7 DEF PromptInv
<1>14. ASSUME NEW t \in Threads, SetStatus(t) PROVE PromptInv'
  <2>1. pc[t] = "status" /\ status' = outcome[t] /\ outcome[t] \in Good
    BY <1>3, <1>14 DEF SetStatus, Goto
  <2>2. \A u \in Threads : u # t => outcome'[u] = outcome[u]
    BY <1>4, <1>14 DEF SetStatus, EndCall
  <2>. QED BY <1>3, <1>5, <1>7, <1>14, <2>1, <2>2 DEF SetStatus, Goto, Locations
<1>15. ASSUME NEW t \in Threads, LockRead(t) PROVE PromptInv'
  BY <1>3, <1>5, <1>7, <1>15 DEF LockRead, Goto, Locations
<1>16. ASSUME NEW t \in Threads, SelectReady(t) PROVE PromptInv'
  <2>1. /\ pc[t] = "select" /\ pc' = [pc EXCEPT ![t] = "publish"]
        /\ tty # <<>> /\ tty' = Tail(tty) /\ outcome' = [outcome EXCEPT ![t] = Head(tty)]
        /\ UNCHANGED <<status, port_set, port_open, unanswered>>
    BY <1>16 DEF SelectReady, Goto, Found
  <2>2. pc'[t] = "publish" /\ \A u \in Threads : u # t => pc'[u] = pc[u]
    BY <1>4, <2>1
  <2>3. Head(tty) \in Good /\ tty' \in Seq(Good) /\ Len(tty') = Len(tty) - 1
    BY <1>3, <2>1, HeadTailProperties
  <2>4. outcome'[t] \in Good /\ \A u \in Threads : u # t => outcome'[u] = outcome[u]
    BY <1>4, <2>1, <2>3
  <2>5. WaitsFor(t) = 1 /\ WaitsFor(t)' = 0 /\ \A u \in Threads : u # t => WaitsFor(u)' = WaitsFor(u)
    BY <2>1, <2>2 DEF WaitsFor
  <2>6. WaitsFor(Main)' + WaitsFor(Rx)' = WaitsFor(Main) + WaitsFor(Rx) - 1
    BY <1>5, <1>6, <2>5
  <2>7. unanswered' + Len(tty') = WaitsFor(Main)' + WaitsFor(Rx)'
    BY <1>3, <1>4, <1>6, <2>1, <2>3, <2>6
  <2>8. \A u \in Threads : pc'[u] \in {"publish", "status", "readDone"} => outcome'[u] \in Good
    BY <1>3, <2>2, <2>4
  <2>. QED BY <1>3, <1>5, <2>1, <2>2, <2>3, <2>7, <2>8 DEF PromptInv
<1>17. ASSUME NEW t \in Threads PROVE ~SelectClosed(t)
  BY <1>3 DEF SelectClosed
<1>18. ASSUME NEW t \in Threads PROVE ~SelectTimeout(t)
  <2>1. SUFFICES ASSUME SelectTimeout(t) PROVE FALSE
    OBVIOUS
  <2>2. pc[t] = "select" /\ unanswered = 0 /\ tty = <<>>
    BY <1>3, <2>1 DEF SelectTimeout, Goto
  <2>3. WaitsFor(t) = 1 /\ Len(tty) = 0
    BY <2>2 DEF WaitsFor
  <2>. QED BY <1>3, <1>5, <1>6, <2>2, <2>3
<1>19. ASSUME NEW t \in Threads, Publish(t) PROVE PromptInv'
  <2>1. pc[t] = "publish" /\ status' = outcome[t] /\ outcome[t] \in Good
    BY <1>3, <1>19 DEF Publish, Goto
  <2>2. CASE arg[t].speed = GET
    BY <1>3, <1>5, <1>7, <1>19, <2>1, <2>2 DEF Publish, Goto, Locations
  <2>3. CASE arg[t].speed # GET
    BY <1>3, <1>5, <1>7, <1>19, <2>1, <2>3 DEF Publish, Goto, Locations
  <2>. QED BY <2>2, <2>3
<1>20. CASE Telemetry
  <2>1. CASE toTxTelemetry > TelemetryPasses
    BY <1>3, <1>5, <1>7, <1>20, <2>1 DEF Telemetry, Goto, Locations
  <2>2. CASE ~(toTxTelemetry > TelemetryPasses)
    BY <1>3, <1>5, <1>7, <1>20, <2>2 DEF Telemetry, Goto, Locations
  <2>. QED BY <2>1, <2>2
<1>21. CASE Read
  <2>1. CASE fresh
    BY <1>3, <1>5, <1>7, <1>21, <2>1 DEF Read, Goto, Locations
  <2>2. CASE ~fresh
    BY <1>3, <1>5, <1>7, <1>21, <2>2 DEF Read, Goto, Locations
  <2>. QED BY <2>1, <2>2
<1>22. CASE TryLockWrite
  <2>1. mtx_write = Nobody
    BY <1>22 DEF TryLockWrite
  <2>. QED BY <1>3, <1>5, <1>7, <1>22, <2>1 DEF TryLockWrite, Goto, Locations
<1>23. CASE ReadDone
  <2>1. pc[Main] = "readDone" /\ outcome[Main] \in Good
    BY <1>3, <1>5, <1>23 DEF ReadDone, Goto
  <2>2. \A u \in Threads : u # Main => outcome'[u] = outcome[u]
    BY <1>4, <1>23 DEF ReadDone, EndCall
  <2>. QED BY <1>3, <1>5, <1>7, <1>23, <2>1, <2>2 DEF ReadDone, Goto, Locations
<1>24. ~Close /\ ~OpenOk /\ ~OpenFails /\ ~OpenUnset
  BY <1>3 DEF Close, OpenOk, OpenFails, OpenUnset, Goto
<1>25. CASE DriverAnswers
  <2>1. /\ unanswered > 0 /\ unanswered' = unanswered - 1
        /\ \E k \in ReplyKinds : tty' = IF Len(tty) < MaxTty THEN Append(tty, k) ELSE tty
        /\ UNCHANGED <<status, outcome, port_set, port_open, pc>>
    BY <1>3, <1>25 DEF DriverAnswers
  <2>2. Len(tty) < MaxTty
    BY <1>3, <1>4, <1>6, <2>1
  <2>3. PICK k \in ReplyKinds : tty' = Append(tty, k)
    BY <2>1, <2>2
  <2>4. tty' \in Seq(Good) /\ Len(tty') = Len(tty) + 1
    BY <1>3, <1>6, <2>3, AppendProperties
  <2>5. unanswered' + Len(tty') = unanswered + Len(tty)
    BY <1>4, <2>1, <2>4
  <2>. QED BY <1>3, <2>1, <2>4, <2>5 DEF PromptInv, WaitsFor
<1>26. CASE UNCHANGED <<status, outcome, port_set, port_open, pc, tty, unanswered>>
  BY <1>3, <1>26 DEF PromptInv, WaitsFor
<1>. QED
  BY <1>8, <1>9, <1>10, <1>11, <1>12, <1>13, <1>14, <1>15, <1>16, <1>17, <1>18, <1>19, <1>20,
     <1>21, <1>22, <1>23, <1>24, <1>25, <1>26
  DEF Next, MainStep, RxStep, Environment, Transmit, RealRead, RemoteRelease, DriverIgnores,
      DataGrowsOld, vars

\* With a good driver that answers every request, PromptInv holds in every state.
THEOREM PromptInvariant ==
    ASSUME GoodDriver PROVE Spec => []PromptInv
<1>1. Init => PromptInv
  BY PromptInvInit
<1>2. LinkInv /\ PromptInv /\ [Next]_vars => PromptInv'
  BY PromptInvNext
<1>. QED BY <1>1, <1>2, LinkInvariant, PTL DEF Spec

\* Every thread on its way to read() has a line that is there or will come
\* (ControlUnit.cpp:104-216).
THEOREM AnswersForAll ==
    ASSUME GoodDriver PROVE Spec => []AnswersForReaders
<1>1. LinkInv /\ PromptInv => AnswersForReaders
  BY ReadersCounted DEF PromptInv, AnswersForReaders, LinkInv, TypeOK, WaitsFor
<1>. QED BY <1>1, LinkInvariant, PromptInvariant, PTL

\* ... and so it is never timed out on (ControlUnit.cpp:104-216).
THEOREM NeverTimedOut ==
    ASSUME GoodDriver PROVE Spec => []PromptDriverHeard
<1>1. PromptInv => PromptDriverHeard
  BY DEF PromptInv, PromptDriverHeard, Good, Timeout
<1>. QED BY <1>1, PromptInvariant, PTL
=============================================================================
