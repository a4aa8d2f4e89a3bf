-------------------------- MODULE MainLoopProofs --------------------------
(***************************************************************************)
(* Proofs about what the main loop serves in its pass: a serial port that   *)
(* it polls, for all numbers of requests and of lines, and all times; the   *)
(* stop for obstacles, for all times and all lengths of a pass; and the     *)
(* image it shares, for all numbers of writes.  Each has an inductive       *)
(* invariant of its own: PortInv, GuardInv and SeenInv.                     *)
(***************************************************************************)
EXTENDS SensorPort, ObstacleGuard, SharedImage, SequenceTheorems, TLAPS

USE DEF mainVars, portVars, unitVars

-----------------------------------------------------------------------------
(* Sequences                                                               *)

\* The line that is read is the first; the others move up.
LEMMA TailMovesUp ==
    ASSUME NEW S, NEW s \in Seq(S), s # <<>>
    PROVE  /\ Len(s) \in Nat \ {0} /\ Head(s) = s[1] /\ s[1] \in S
           /\ Tail(s) \in Seq(S) /\ Len(Tail(s)) = Len(s) - 1
           /\ \A i \in 1..Len(s) - 1 : Tail(s)[i] = s[i + 1]
           /\ Tail(s) = <<>> <=> Len(s) = 1
<1>1. Len(s) \in Nat \ {0} /\ s[1] \in S
  BY EmptySeq, ElementOfSeq
<1>2. Tail(s) \in Seq(S) /\ Len(Tail(s)) = Len(s) - 1
  BY HeadTailProperties
<1>3. \A i \in 1..Len(s) - 1 : Tail(s)[i] = s[i + 1]
  BY <1>2, HeadTailProperties
<1>4. Tail(s) = <<>> => Len(s) = 1
  BY <1>1, <1>2, EmptySeq
<1>5. Len(s) = 1 => Tail(s) = <<>>
  <2>1. SUFFICES ASSUME Len(s) = 1 PROVE Tail(s) = <<>>
    OBVIOUS
  <2>2. Len(Tail(s)) = 0
    BY <1>2, <2>1
  <2>. QED BY <1>2, <2>2, EmptySeq
<1>. QED BY <1>1, <1>2, <1>3, <1>4, <1>5

\* A line that arrives is the last.
LEMMA AppendIsLast ==
    ASSUME NEW S, NEW s \in Seq(S), NEW e \in S
    PROVE  /\ Append(s, e) \in Seq(S) /\ Append(s, e) # <<>>
           /\ Len(Append(s, e)) = Len(s) + 1
           /\ \A i \in 1..Len(s) : Append(s, e)[i] = s[i]
           /\ Append(s, e)[Len(s) + 1] = e
OBVIOUS

\* So is the second of two.
LEMMA TwoAreLast ==
    ASSUME NEW S, NEW s \in Seq(S), NEW c \in S, NEW e \in S
    PROVE  /\ s \o <<c, e>> \in Seq(S) /\ s \o <<c, e>> # <<>>
           /\ Len(s \o <<c, e>>) = Len(s) + 2
           /\ \A i \in 1..Len(s) : (s \o <<c, e>>)[i] = s[i]
           /\ (s \o <<c, e>>)[Len(s) + 1] = c
           /\ (s \o <<c, e>>)[Len(s) + 2] = e
OBVIOUS

-----------------------------------------------------------------------------
(* Types                                                                   *)

\* The types hold when the port has been opened.
LEMMA TypeOKInit == Init => TypeOK
<1>1. SUFFICES ASSUME Init PROVE TypeOK
  OBVIOUS
<1>2. retried \in BOOLEAN /\ fit \in BOOLEAN /\ fault \in BOOLEAN /\ adrift \in BOOLEAN
  BY <1>1, Zenon DEF Init
<1>3. request \in Ids /\ answer \in Answers /\ waited \in 0..InTime /\ port_timeout \in 0..Budget
  BY <1>1, PortAssumption DEF Init, Ids, Answers
<1>4. owed \in Seq(Answers) /\ tty \in Seq(Lines)
  BY <1>1 DEF Init
<1>. QED BY <1>1, <1>2, <1>3, <1>4 DEF Init, TypeOK, Answers

\* A line that is read leaves lines.
LEMMA LineTyped ==
    ASSUME TypeOK, NEW line, Line(line)
    PROVE  /\ line \in Lines /\ line = tty[1] /\ main = "read" /\ tty # <<>>
           /\ tty' = Tail(tty) /\ tty' \in Seq(Lines)
BY TailMovesUp DEF TypeOK, Line

\* A reading that fails.
LEMMA FailTyped ==
    ASSUME TypeOK, Fail
    PROVE  /\ main' \in {"pass", "close"} /\ retried' \in BOOLEAN /\ ~retried'
           /\ status' = "failed" /\ failures' \in 0..2
           /\ waited' = 0 /\ waited' \in 0..InTime
<1>1. retried' \in BOOLEAN /\ ~retried'
  BY Zenon DEF Fail
<1>. QED BY <1>1, PortAssumption DEF Fail, TypeOK

\* Every step keeps the types.
LEMMA TypeOKNext == TypeOK /\ [Next]_vars => TypeOK'
<1>1. SUFFICES ASSUME TypeOK, [Next]_vars PROVE TypeOK'
  OBVIOUS
<1>. USE <1>1
<1>2. CASE Write
  <2>1. request' \in Ids
    BY <1>2, PortAssumption DEF Write, TypeOK, Ids
  <2>2. owed' \in Seq(Answers)
    BY <1>2, <2>1, AppendIsLast DEF Write, TypeOK, Answers
  <2>3. fault' \in BOOLEAN
    BY <1>2, Zenon DEF Write
  <2>. QED BY <1>2, <2>1, <2>2, <2>3 DEF Write, TypeOK, Answers
<1>3. CASE Wait
  <2>1. fault' \in BOOLEAN
    BY <1>3, Zenon DEF Wait
  <2>2. port_timeout' \in 0..Budget /\ waited' \in 0..InTime
    BY <1>3, PortAssumption DEF Wait, TypeOK
  <2>. QED BY <1>3, <2>1, <2>2 DEF Wait, TypeOK
<1>4. CASE SelectReady
  BY <1>4, PortAssumption DEF SelectReady, TypeOK
<1>5. CASE SelectTimeout
  BY <1>5, FailTyped, PortAssumption DEF SelectTimeout, TypeOK
<1>6. CASE SelectClosed
  BY <1>6, FailTyped, PortAssumption DEF SelectClosed, TypeOK
<1>7. CASE ReadAnswer
  <2>1. PICK line \in Answers : Line(line) /\ answer' = line
    BY <1>7 DEF ReadAnswer, Answers
  <2>2. tty' \in Seq(Lines)
    BY <2>1, LineTyped
  <2>3. retried' \in BOOLEAN /\ fault' \in BOOLEAN
    BY <1>7, Zenon DEF ReadAnswer
  <2>. QED BY <1>7, <2>1, <2>2, <2>3 DEF ReadAnswer, TypeOK, Answers
<1>8. CASE ReadBroken
  BY <1>8, LineTyped, FailTyped DEF ReadBroken, TypeOK
<1>9. CASE PowerUnitComment
  BY <1>9, LineTyped DEF PowerUnitComment, TypeOK
<1>10. CASE LineComment
  BY <1>10, LineTyped, FailTyped DEF LineComment, TypeOK
<1>11. CASE Close
  BY <1>11 DEF Close, TypeOK
<1>12. CASE OpenOk
  <2>1. adrift' \in BOOLEAN /\ retried' \in BOOLEAN
    BY <1>12, Zenon DEF OpenOk, Opened
  <2>. QED BY <1>12, <2>1, PortAssumption DEF OpenOk, Opened, TypeOK
<1>13. CASE OpenFails
  <2>1. retried' \in BOOLEAN
    BY <1>13, Zenon DEF OpenFails, Opened
  <2>. QED BY <1>13, <2>1 DEF OpenFails, Opened, TypeOK
<1>14. CASE OpenUnset
  <2>1. adrift' \in BOOLEAN /\ retried' \in BOOLEAN
    BY <1>14, Zenon DEF OpenUnset, Opened
  <2>2. port_set' \in {"port", "closed", "empty"}
    BY <1>14 DEF OpenUnset, TypeOK
  <2>3. fault' \in BOOLEAN
    BY <1>14, Zenon DEF OpenUnset
  <2>4. tty' \in Seq(Lines)
    <3>1. tty' = <<>> \/ tty' = tty
      BY <1>14, Zenon DEF OpenUnset
    <3>2. <<>> \in Seq(Lines)
      OBVIOUS
    <3>. QED BY <3>1, <3>2 DEF TypeOK
  <2>. QED BY <1>14, <2>1, <2>2, <2>3, <2>4 DEF OpenUnset, Opened, TypeOK
<1>15. CASE ExecuteCommand_POWER
  <2>1. owed' \in Seq(Answers)
    BY <1>15, AppendIsLast DEF ExecuteCommand_POWER, TypeOK, Answers
  <2>. QED BY <1>15, <2>1 DEF ExecuteCommand_POWER, TypeOK, Answers
<1>16. CASE UnitAnswers
  <2>1. Head(owed) \in Lines /\ Comment \in Lines /\ owed' \in Seq(Answers)
    BY <1>16, TailMovesUp DEF UnitAnswers, TypeOK, Lines, Answers
  <2>2. Append(tty, Head(owed)) \in Seq(Lines)
    BY <2>1, AppendIsLast DEF TypeOK
  <2>3. tty \o <<Comment, Head(owed)>> \in Seq(Lines)
    BY <2>1, TwoAreLast DEF TypeOK
  <2>4. tty' \in Seq(Lines)
    BY <1>16, <2>2, <2>3, Zenon DEF UnitAnswers
  <2>. QED BY <1>16, <2>1, <2>4 DEF UnitAnswers, TypeOK, Answers
<1>17. CASE UnitFails
  <2>1. owed' \in Seq(Answers)
    BY <1>17, TailMovesUp DEF UnitFails, TypeOK, Answers
  <2>2. tty' \in Seq(Lines)
    <3>1. <<>> \in Seq(Lines) /\ <<Broken>> \in Seq(Lines) /\ <<Comment>> \in Seq(Lines)
      BY DEF Lines
    <3>2. \A line \in Seq(Lines) : tty \o line \in Seq(Lines)
      BY ConcatProperties DEF TypeOK
    <3>. QED BY <1>17, <3>1, <3>2 DEF UnitFails
  <2>. QED BY <1>17, <2>1, <2>2 DEF UnitFails, TypeOK, Answers
<1>18. CASE UnitRecovers
  BY <1>18 DEF UnitRecovers, TypeOK
<1>19. CASE UNCHANGED vars
  BY <1>19 DEF vars, TypeOK
<1>. QED
  BY <1>2, <1>3, <1>4, <1>5, <1>6, <1>7, <1>8, <1>9, <1>10, <1>11, <1>12, <1>13, <1>14,
     <1>15, <1>16, <1>17, <1>18, <1>19
  DEF Next, MainLoop, PowerUnitRead, LineRead, Select, ReadLine, PowerUnitOpen, LineOpen

-----------------------------------------------------------------------------
(* Places                                                                  *)

\* Every step keeps what the place in the loop says.
LEMMA PlacesNext == TypeOK /\ Places /\ [Next]_vars => Places'
<1>1. SUFFICES ASSUME TypeOK, Places, [Next]_vars PROVE Places'
  OBVIOUS
<1>. USE <1>1 DEF Places
<1>2. CASE Write
  BY <1>2 DEF Write
<1>3. CASE Wait
  BY <1>3 DEF Wait
<1>4. CASE SelectReady
  BY <1>4 DEF SelectReady
<1>5. CASE SelectTimeout
  BY <1>5, FailTyped DEF SelectTimeout
<1>6. CASE SelectClosed
  BY <1>6, FailTyped DEF SelectClosed
<1>7. CASE ReadAnswer
  BY <1>7 DEF ReadAnswer, Line
<1>8. CASE ReadBroken
  BY <1>8, FailTyped DEF ReadBroken
<1>9. CASE PowerUnitComment
  BY <1>9 DEF PowerUnitComment
<1>10. CASE LineComment
  BY <1>10, FailTyped DEF LineComment
<1>11. CASE Close
  BY <1>11 DEF Close
<1>12. CASE OpenOk
  BY <1>12 DEF OpenOk, Opened
<1>13. CASE OpenFails
  BY <1>13 DEF OpenFails, Opened
<1>14. CASE OpenUnset
  BY <1>14 DEF OpenUnset, Opened
<1>15. CASE ExecuteCommand_POWER
  BY <1>15 DEF ExecuteCommand_POWER
<1>16. CASE UnitAnswers
  BY <1>16 DEF UnitAnswers
<1>17. CASE UnitFails
  BY <1>17 DEF UnitFails
<1>18. CASE UnitRecovers
  BY <1>18 DEF UnitRecovers
<1>19. CASE UNCHANGED vars
  BY <1>19 DEF vars
<1>. QED
  BY <1>2, <1>3, <1>4, <1>5, <1>6, <1>7, <1>8, <1>9, <1>10, <1>11, <1>12, <1>13, <1>14,
     <1>15, <1>16, <1>17, <1>18, <1>19
  DEF Next, MainLoop, PowerUnitRead, LineRead, Select, ReadLine, PowerUnitOpen, LineOpen

-----------------------------------------------------------------------------
(* Requests and answers in step                                            *)

\* What is next in the port when a reading of requests and answers in step reads.
LEMMA NextInStep ==
    ASSUME TypeOK, InStep, ~adrift, port_set = "port", main = "read", tty # <<>>
    PROVE  /\ owed = <<>>
           /\ \/ tty[1] = Comment /\ (unit = "PowerUnit" \/ Len(tty) = 1)
              \/ tty[1] \in {request, Broken} /\ Len(tty) = 1
<1>1. owed = <<>>
  BY DEF InStep
<1>2. \A i \in 1..Len(tty) :
        \/ tty[i] = Comment /\ (unit = "PowerUnit" \/ i = Len(tty))
        \/ tty[i] \in {request, Broken} /\ i = Len(tty)
  BY DEF InStep
<1>3. 1 \in 1..Len(tty)
  BY EmptySeq DEF TypeOK
<1>. QED BY <1>1, <1>2, <1>3

\* Every step keeps requests and answers in step, and a reading its own.
LEMMA InStepNext ==
    TypeOK /\ Places /\ InStep /\ OwnReading /\ [Next]_vars => (InStep /\ OwnReading)'
<1>1. SUFFICES ASSUME TypeOK, Places, InStep, OwnReading, [Next]_vars
               PROVE  (InStep /\ OwnReading)'
  OBVIOUS
<1>. USE <1>1 DEF InStep, OwnReading
<1>2. CASE Write
  <2>1. SUFFICES ASSUME ~adrift, port_set = "port"
                 PROVE  (/\ owed # <<>> => Len(owed) = 1 /\ owed[1] = request /\ tty = <<>>
                         /\ tty = <<>>)'
    BY <1>2, EmptySeq DEF Write, TypeOK
  <2>2. owed = <<>> /\ tty = <<>>
    BY <1>2, <2>1 DEF Write
  <2>3. owed' = <<>> \/ owed' = <<request'>>
    BY <1>2, <2>2 DEF Write
  <2>. QED BY <1>2, <2>2, <2>3 DEF Write
<1>3. CASE Wait
  BY <1>3 DEF Wait
<1>4. CASE SelectReady
  BY <1>4 DEF SelectReady
<1>5. CASE SelectTimeout
  BY <1>5, FailTyped DEF SelectTimeout
<1>6. CASE SelectClosed
  BY <1>6, FailTyped DEF SelectClosed
<1>7. CASE ReadAnswer
  <2>1. PICK line \in Answers : Line(line) /\ answer' = line
    BY <1>7 DEF ReadAnswer, Answers
  <2>2. SUFFICES ASSUME ~adrift PROVE owed = <<>> /\ tty' = <<>> /\ answer' = request
    BY <1>7 DEF ReadAnswer
  <2>3. main = "read" /\ port_set = "port" /\ tty # <<>> /\ line = tty[1]
    BY <2>1, LineTyped DEF Places
  <2>4. Len(tty) \in Nat \ {0} /\ (tty' = <<>> <=> Len(tty) = 1)
    BY <2>1, <2>3, TailMovesUp DEF TypeOK, Line
  <2>5. line # Comment /\ line # Broken
    BY DEF Answers, Ids, Poke, Comment, Broken
  <2>6. line = request /\ Len(tty) = 1
    BY <2>2, <2>3, <2>5, NextInStep
  <2>. QED BY <2>1, <2>2, <2>3, <2>4, <2>6, NextInStep
<1>8. CASE ReadBroken
  <2>1. main = "read" /\ port_set = "port" /\ tty # <<>> /\ Broken = tty[1]
    BY <1>8, LineTyped DEF Places, ReadBroken
  <2>2. Len(tty) \in Nat \ {0} /\ (tty' = <<>> <=> Len(tty) = 1)
    BY <1>8, <2>1, TailMovesUp DEF TypeOK, Line, ReadBroken
  <2>3. ~adrift => owed = <<>> /\ Len(tty) = 1
    BY <2>1, NextInStep DEF Broken, Comment
  <2>. QED BY <1>8, <2>1, <2>2, <2>3, FailTyped DEF ReadBroken
<1>9. CASE PowerUnitComment
  <2>1. main = "read" /\ port_set = "port" /\ tty # <<>> /\ tty' = Tail(tty)
    BY <1>9, LineTyped DEF Places, PowerUnitComment
  <2>2. /\ Len(tty) \in Nat \ {0} /\ Len(tty') = Len(tty) - 1
        /\ \A i \in 1..Len(tty) - 1 : tty'[i] = tty[i + 1]
    BY <2>1, TailMovesUp DEF TypeOK
  <2>3. SUFFICES ASSUME ~adrift
                 PROVE  (/\ owed = <<>>
                         /\ \A i \in 1..Len(tty) :
                               \/ tty[i] = Comment /\ (unit = "PowerUnit" \/ i = Len(tty))
                               \/ tty[i] \in {request, Broken} /\ i = Len(tty))'
    BY <1>9, <2>1 DEF PowerUnitComment
  <2>4. owed' = <<>> /\ unit' = unit /\ request' = request /\ port_set = "port" /\ main = "read"
    BY <1>9, <2>1, <2>3, NextInStep DEF PowerUnitComment
  <2>5. \A i \in 1..Len(tty) :
            \/ tty[i] = Comment /\ (unit = "PowerUnit" \/ i = Len(tty))
            \/ tty[i] \in {request, Broken} /\ i = Len(tty)
    BY <1>9, <2>3, <2>4 DEF PowerUnitComment
  <2>6. SUFFICES ASSUME NEW i \in 1..Len(tty')
                 PROVE  \/ tty'[i] = Comment /\ (unit = "PowerUnit" \/ i = Len(tty'))
                        \/ tty'[i] \in {request, Broken} /\ i = Len(tty')
    BY <2>4
  <2>7. i + 1 \in 1..Len(tty) /\ tty'[i] = tty[i + 1] /\ (i + 1 = Len(tty) <=> i = Len(tty'))
    BY <2>2
  <2>. QED BY <2>5, <2>7
<1>10. CASE LineComment
  <2>1. main = "read" /\ port_set = "port" /\ tty # <<>> /\ Comment = tty[1]
    BY <1>10, LineTyped DEF Places, LineComment
  <2>2. Len(tty) \in Nat \ {0} /\ (tty' = <<>> <=> Len(tty) = 1)
    BY <1>10, <2>1, TailMovesUp DEF TypeOK, Line, LineComment
  <2>3. ~adrift => owed = <<>> /\ Len(tty) = 1
    BY <1>10, <2>1, NextInStep DEF LineComment, Comment, TypeOK, Ids, Broken
  <2>. QED BY <1>10, <2>1, <2>2, <2>3, FailTyped DEF LineComment
<1>11. CASE Close
  BY <1>11 DEF Close
<1>12. CASE OpenOk
  BY <1>12 DEF OpenOk, Opened, Places
<1>13. CASE OpenFails
  BY <1>13 DEF OpenFails, Opened, Places
<1>14. CASE OpenUnset
  <2>1. ~adrift' => owed = <<>> /\ tty' = <<>>
    <3>1. (tty' = <<>> \/ tty' = tty) /\ (adrift' <=> tty' \o owed # <<>>)
      BY <1>14, Zenon DEF OpenUnset
    <3>2. tty' \in Seq(Lines) /\ owed \in Seq(Lines)
      <4>1. <<>> \in Seq(Lines) /\ tty \in Seq(Lines) /\ owed \in Seq(Ids \cup {Poke})
        BY DEF TypeOK
      <4>2. Ids \cup {Poke} \subseteq Lines
        BY DEF Lines
      <4>. QED BY <3>1, <4>1, <4>2, SeqMonotonic
    <3>3. Len(tty' \o owed) = Len(tty') + Len(owed)
      BY <3>2, ConcatProperties
    <3>4. tty' \o owed = <<>> => Len(tty' \o owed) = 0
      OBVIOUS
    <3>5. Len(tty') \in Nat /\ Len(owed) \in Nat
      BY <3>2, LenProperties
    <3>6. (tty' # <<>> => Len(tty') # 0) /\ (owed # <<>> => Len(owed) # 0)
      BY <3>2, EmptySeq
    <3>. QED BY <3>1, <3>3, <3>4, <3>5, <3>6
  <2>. QED BY <1>14, <2>1 DEF OpenUnset, Opened, Places
<1>15. CASE ExecuteCommand_POWER
  BY <1>15 DEF ExecuteCommand_POWER
<1>16. CASE UnitAnswers
  <2>1. SUFFICES ASSUME ~adrift, port_set = "port" PROVE InStep'
    BY <1>16 DEF UnitAnswers
  <2>2. SUFFICES ASSUME main \in {"select", "read"} PROVE InStep'
    BY <1>16, <2>1 DEF UnitAnswers
  <2>3. Len(owed) = 1 /\ Head(owed) = request /\ owed' = <<>> /\ tty = <<>>
    <3>1. Len(owed) = 1 /\ owed[1] = request /\ tty = <<>>
      BY <1>16, <2>1, <2>2 DEF UnitAnswers
    <3>. QED BY <1>16, <3>1, TailMovesUp DEF UnitAnswers, TypeOK
  <2>4. tty' = <<request>> \/ (unit = "PowerUnit" /\ tty' = <<Comment, request>>)
    BY <1>16, <2>3 DEF UnitAnswers
  <2>5. (\A i \in 1..Len(tty) :
            \/ tty[i] = Comment /\ (unit = "PowerUnit" \/ i = Len(tty))
            \/ tty[i] \in {request, Broken} /\ i = Len(tty))'
    <3>1. CASE tty' = <<request>>
      <4>1. Len(tty') = 1 /\ tty'[1] = request
        BY <3>1
      <4>. QED BY <1>16, <4>1 DEF UnitAnswers
    <3>2. CASE unit = "PowerUnit" /\ tty' = <<Comment, request>>
      <4>1. Len(tty') = 2 /\ tty'[1] = Comment /\ tty'[2] = request
        BY <3>2
      <4>. QED BY <1>16, <3>2, <4>1 DEF UnitAnswers
    <3>. QED BY <2>4, <3>1, <3>2
  <2>. QED BY <1>16, <2>2, <2>3, <2>5 DEF UnitAnswers
<1>17. CASE UnitFails
  <2>1. SUFFICES ASSUME ~adrift, port_set = "port" PROVE InStep'
    BY <1>17 DEF UnitFails
  <2>2. SUFFICES ASSUME main \in {"select", "read"} PROVE InStep'
    BY <1>17, <2>1 DEF UnitFails
  <2>3. owed' = <<>> /\ tty = <<>>
    <3>1. Len(owed) = 1 /\ tty = <<>>
      BY <1>17, <2>1, <2>2 DEF UnitFails
    <3>. QED BY <1>17, <3>1, TailMovesUp DEF UnitFails, TypeOK
  <2>4. tty' = <<>> \/ tty' = <<Broken>> \/ tty' = <<Comment>>
    BY <1>17, <2>3 DEF UnitFails
  <2>5. (\A i \in 1..Len(tty) :
            \/ tty[i] = Comment /\ (unit = "PowerUnit" \/ i = Len(tty))
            \/ tty[i] \in {request, Broken} /\ i = Len(tty))'
    <3>1. CASE tty' = <<>>
      <4>1. Len(tty') = 0
        BY <3>1
      <4>. QED BY <4>1
    <3>2. CASE tty' = <<Broken>> \/ tty' = <<Comment>>
      <4>1. Len(tty') = 1 /\ tty'[1] \in {Broken, Comment}
        BY <3>2
      <4>. QED BY <1>17, <4>1 DEF UnitFails
    <3>. QED BY <2>4, <3>1, <3>2
  <2>. QED BY <1>17, <2>2, <2>3, <2>5 DEF UnitFails
<1>18. CASE UnitRecovers
  BY <1>18 DEF UnitRecovers
<1>19. CASE UNCHANGED vars
  BY <1>19 DEF vars
<1>. QED
  BY <1>2, <1>3, <1>4, <1>5, <1>6, <1>7, <1>8, <1>9, <1>10, <1>11, <1>12, <1>13, <1>14,
     <1>15, <1>16, <1>17, <1>18, <1>19
  DEF Next, MainLoop, PowerUnitRead, LineRead, Select, ReadLine, PowerUnitOpen, LineOpen

-----------------------------------------------------------------------------
(* Faults                                                                  *)

\* Every step keeps an answer under way, unless it is a fault.
LEMMA AnswerComesNext ==
    TypeOK /\ Places /\ AnswerComes /\ [Next]_vars => AnswerComes'
<1>1. SUFFICES ASSUME TypeOK, Places, AnswerComes, [Next]_vars PROVE AnswerComes'
  OBVIOUS
<1>. USE <1>1 DEF AnswerComes
<1>2. CASE Write
  <2>1. SUFFICES ASSUME ~fault' PROVE owed' # <<>>
    OBVIOUS
  <2>2. owed' = Append(owed, request')
    BY <1>2, <2>1, Zenon DEF Write
  <2>3. request' \in Answers
    BY <1>2, TypeOKNext DEF TypeOK, Next, MainLoop, PowerUnitRead, LineRead, Select, Units, Answers
  <2>. QED BY <2>2, <2>3, AppendIsLast DEF TypeOK, Answers
<1>3. CASE Wait
  <2>1. fault => fault'
    BY <1>3, Zenon DEF Wait
  <2>. QED BY <1>3, <2>1 DEF Wait
<1>4. CASE SelectReady
  BY <1>4 DEF SelectReady
<1>5. CASE SelectTimeout \/ SelectClosed \/ ReadBroken \/ LineComment
  <2>1. Fail
    BY <1>5 DEF SelectTimeout, SelectClosed, ReadBroken, LineComment
  <2>. QED BY <2>1, FailTyped
<1>6. CASE ReadAnswer
  BY <1>6 DEF ReadAnswer
<1>7. CASE PowerUnitComment
  <2>1. SUFFICES ASSUME ~fault, main = "read", owed = <<>>
                 PROVE  tty' # <<>> /\ tty'[Len(tty')] \in Answers
    BY <1>7 DEF PowerUnitComment, Line
  <2>2. tty # <<>> /\ tty' = Tail(tty) /\ tty[1] = Comment
    BY <1>7, LineTyped DEF PowerUnitComment
  <2>3. tty[Len(tty)] \in Answers /\ Comment \notin Answers
    BY <2>1 DEF Answers, Ids, Poke, Comment
  <2>4. Len(tty) \in Nat \ {0} /\ Len(tty) # 1
    BY <2>2, <2>3, EmptySeq DEF TypeOK
  <2>5. tty' # <<>> /\ Len(tty') = Len(tty) - 1 /\ tty'[Len(tty')] = tty[Len(tty)]
    <3>1. /\ Len(tty') = Len(tty) - 1 /\ (tty' = <<>> <=> Len(tty) = 1)
          /\ \A i \in 1..Len(tty) - 1 : tty'[i] = tty[i + 1]
      BY <2>2, TailMovesUp DEF TypeOK
    <3>. QED BY <2>4, <3>1
  <2>. QED BY <2>3, <2>5
<1>8. CASE Close
  BY <1>8 DEF Close
<1>9. CASE OpenOk \/ OpenFails \/ OpenUnset
  BY <1>9 DEF OpenOk, OpenFails, OpenUnset, Opened
<1>10. CASE ExecuteCommand_POWER
  BY <1>10, AppendIsLast DEF ExecuteCommand_POWER, TypeOK
<1>11. CASE UnitAnswers
  <2>1. Head(owed) \in Answers /\ Head(owed) \in Lines /\ Comment \in Lines
    BY <1>11, TailMovesUp DEF UnitAnswers, TypeOK, Lines, Answers
  <2>2. tty' = Append(tty, Head(owed)) \/ tty' = tty \o <<Comment, Head(owed)>>
    BY <1>11 DEF UnitAnswers
  <2>3. tty' # <<>> /\ tty'[Len(tty')] = Head(owed)
    <3>1. CASE tty' = Append(tty, Head(owed))
      BY <2>1, <3>1, AppendIsLast DEF TypeOK
    <3>2. CASE tty' = tty \o <<Comment, Head(owed)>>
      BY <2>1, <3>2, TwoAreLast DEF TypeOK
    <3>. QED BY <2>2, <3>1, <3>2
  <2>. QED BY <2>1, <2>3
<1>12. CASE UnitFails
  BY <1>12, Zenon DEF UnitFails
<1>13. CASE UnitRecovers
  BY <1>13 DEF UnitRecovers
<1>14. CASE UNCHANGED vars
  BY <1>14 DEF vars
<1>. QED
  BY <1>2, <1>3, <1>4, <1>5, <1>6, <1>7, <1>8, <1>9, <1>10, <1>11, <1>12, <1>13, <1>14
  DEF Next, MainLoop, PowerUnitRead, LineRead, Select, ReadLine, PowerUnitOpen, LineOpen

\* A reading that is not repeated, or that follows a failed one, does not fail
\* without a fault.
LEMMA FailsOnce ==
    ASSUME TypeOK, Places, FreshAgain, ~fault, retried \/ failures = 1,
           SelectTimeout \/ SelectClosed \/ ReadBroken \/ LineComment
    PROVE  FALSE
<1>1. main \in {"select", "read"}
  BY LineTyped DEF SelectTimeout, SelectClosed, ReadBroken, LineComment
<1>2. Fresh
  BY <1>1 DEF FreshAgain
<1>3. CASE SelectTimeout
  BY <1>2, <1>3, PortAssumption DEF SelectTimeout, Fresh, TypeOK
<1>4. CASE SelectClosed
  BY <1>2, <1>4 DEF SelectClosed, Fresh
<1>5. CASE ReadBroken \/ LineComment
  <2>1. tty # <<>> /\ (tty[1] = Broken \/ (tty[1] = Comment /\ unit = "LineNavigator"))
    BY <1>5, LineTyped DEF ReadBroken, LineComment
  <2>2. tty[1] \in Answers \/ (tty[1] = Comment /\ unit = "PowerUnit")
    BY <1>2, <2>1, EmptySeq DEF Fresh, TypeOK
  <2>. QED BY <2>1, <2>2 DEF Answers, Ids, Poke, Comment, Broken
<1>. QED BY <1>3, <1>4, <1>5

\* Every step keeps the port fresh for such a reading, and the count of failures
\* below two, unless there is a fault.
LEMMA FreshAgainNext ==
    /\ TypeOK /\ Places /\ AnswerComes /\ FreshAgain /\ (failures = 2 => fault)
    /\ [Next]_vars
    => (FreshAgain /\ (failures = 2 => fault))'
<1>1. SUFFICES ASSUME TypeOK, Places, AnswerComes, FreshAgain, failures = 2 => fault,
                      [Next]_vars
               PROVE  (FreshAgain /\ (failures = 2 => fault))'
  OBVIOUS
<1>. USE <1>1
<1>2. CASE Write
  <2>1. fault => fault'
    BY <1>2, Zenon DEF Write
  <2>. QED BY <1>2, <2>1 DEF Write, FreshAgain, Fresh, Places
<1>3. CASE Wait
  <2>1. fault => fault'
    BY <1>3, Zenon DEF Wait
  <2>2. ~fault' => waited < InTime
    <3>1. ~fault' => ~fault /\ ~(waited = InTime /\ owed # <<>>)
      BY <1>3, Zenon DEF Wait
    <3>2. ~fault => owed # <<>>
      BY <1>3 DEF Wait, AnswerComes
    <3>. QED BY <3>1, <3>2, PortAssumption DEF TypeOK
  <2>3. ~fault' => port_timeout' = port_timeout - 1 /\ waited' = waited + 1
    BY <1>3, <2>2 DEF Wait
  <2>. QED BY <1>3, <2>1, <2>3, PortAssumption DEF Wait, FreshAgain, Fresh, TypeOK
<1>4. CASE SelectReady
  BY <1>4 DEF SelectReady, FreshAgain, Fresh
<1>5. CASE SelectTimeout \/ SelectClosed \/ ReadBroken \/ LineComment
  <2>1. Fail /\ fault' = fault
    BY <1>5, Zenon DEF SelectTimeout, SelectClosed, ReadBroken, LineComment
  <2>2. SUFFICES ASSUME ~fault PROVE main' = "close" /\ failures' # 2
    BY <2>1 DEF FreshAgain
  <2>3. ~retried /\ failures # 1 /\ failures # 2
    BY <1>5, <2>2, FailsOnce
  <2>. QED BY <2>1, <2>3 DEF Fail, TypeOK
<1>6. CASE ReadAnswer
  <2>1. failures' = 0 /\ ~retried'
    BY <1>6, Zenon DEF ReadAnswer
  <2>. QED BY <2>1 DEF FreshAgain
<1>7. CASE PowerUnitComment
  <2>1. main = "read" /\ tty # <<>> /\ tty' = Tail(tty)
    BY <1>7, LineTyped DEF PowerUnitComment
  <2>2. /\ Len(tty) \in Nat \ {0} /\ Len(tty') = Len(tty) - 1
        /\ \A i \in 1..Len(tty) - 1 : tty'[i] = tty[i + 1]
    BY <2>1, TailMovesUp DEF TypeOK
  <2>3. Fresh => Fresh'
    BY <1>7, <2>1, <2>2 DEF PowerUnitComment, Fresh
  <2>. QED BY <1>7, <2>3 DEF PowerUnitComment, FreshAgain
<1>8. CASE Close
  BY <1>8 DEF Close, FreshAgain
<1>9. CASE OpenOk
  <2>1. Fresh'
    <3>1. Len(tty') = 0
      BY <1>9 DEF OpenOk
    <3>. QED BY <1>9, <3>1, PortAssumption DEF OpenOk, Opened, Places, Fresh
  <2>. QED BY <1>9, <2>1 DEF OpenOk, FreshAgain
<1>10. CASE OpenFails \/ OpenUnset
  <2>1. fault'
    BY <1>10, Zenon DEF OpenFails, OpenUnset
  <2>. QED BY <2>1 DEF FreshAgain
<1>11. CASE ExecuteCommand_POWER
  BY <1>11 DEF ExecuteCommand_POWER, FreshAgain, Fresh
<1>12. CASE UnitAnswers
  <2>1. Head(owed) \in Answers /\ Head(owed) \in Lines /\ Comment \in Lines
    BY <1>12, TailMovesUp DEF UnitAnswers, TypeOK, Lines, Answers
  <2>2. CASE tty' = Append(tty, Head(owed))
    <3>1. /\ Len(tty') = Len(tty) + 1 /\ tty'[Len(tty) + 1] \in Answers
          /\ \A i \in 1..Len(tty) : tty'[i] = tty[i]
      BY <2>1, <2>2, AppendIsLast DEF TypeOK
    <3>2. Len(tty) \in Nat
      BY LenProperties DEF TypeOK
    <3>3. Fresh => Fresh'
      BY <1>12, <3>1, <3>2 DEF UnitAnswers, Fresh
    <3>. QED BY <1>12, <3>3 DEF UnitAnswers, FreshAgain
  <2>3. CASE unit = "PowerUnit" /\ tty' = tty \o <<Comment, Head(owed)>>
    <3>1. /\ Len(tty') = Len(tty) + 2 /\ tty'[Len(tty) + 2] \in Answers
          /\ tty'[Len(tty) + 1] = Comment
          /\ \A i \in 1..Len(tty) : tty'[i] = tty[i]
      BY <2>1, <2>3, TwoAreLast DEF TypeOK
    <3>2. Len(tty) \in Nat
      BY LenProperties DEF TypeOK
    <3>3. Fresh => Fresh'
      BY <1>12, <2>3, <3>1, <3>2 DEF UnitAnswers, Fresh
    <3>. QED BY <1>12, <3>3 DEF UnitAnswers, FreshAgain
  <2>. QED BY <1>12, <2>2, <2>3 DEF UnitAnswers
<1>13. CASE UnitFails
  <2>1. fault'
    BY <1>13, Zenon DEF UnitFails
  <2>. QED BY <2>1 DEF FreshAgain
<1>14. CASE UnitRecovers
  BY <1>14 DEF UnitRecovers, FreshAgain, Fresh
<1>15. CASE UNCHANGED vars
  BY <1>15 DEF vars, FreshAgain, Fresh
<1>. QED
  BY <1>2, <1>3, <1>4, <1>5, <1>6, <1>7, <1>8, <1>9, <1>10, <1>11, <1>12, <1>13, <1>14, <1>15
  DEF Next, MainLoop, PowerUnitRead, LineRead, Select, ReadLine, PowerUnitOpen, LineOpen

-----------------------------------------------------------------------------
(* The theorems                                                            *)

\* What the port, its set and its time-out, the requests, the answers and the
\* faults have to do with each other, for all numbers of requests and of lines
\* and all times (PowerUnit.cpp:73-147, LineNavigator.cpp:87-156).
THEOREM PortInvariant == Spec => []PortInv
<1>1. Init => PortInv
  <2>1. SUFFICES ASSUME Init PROVE PortInv
    OBVIOUS
  <2>2. FreshAgain
    <3>1. Len(tty) = 0
      BY <2>1 DEF Init
    <3>. QED BY <2>1, <3>1, PortAssumption DEF Init, FreshAgain, Fresh
  <2>3. AnswerComes /\ OnlyFaultsAddUp /\ Places /\ InStep /\ OwnReading
    BY <2>1 DEF Init, AnswerComes, OnlyFaultsAddUp, Held, Places, InStep, OwnReading
  <2>. QED BY <2>1, <2>2, <2>3, TypeOKInit DEF PortInv
<1>2. PortInv /\ [Next]_vars => PortInv'
  <2>1. SUFFICES ASSUME PortInv, [Next]_vars PROVE PortInv'
    OBVIOUS
  <2>2. TypeOK' /\ Places' /\ (InStep /\ OwnReading)'
    BY <2>1, TypeOKNext, PlacesNext, InStepNext DEF PortInv
  <2>3. AnswerComes' /\ (FreshAgain /\ (failures = 2 => fault))'
    BY <2>1, AnswerComesNext, FreshAgainNext DEF PortInv, OnlyFaultsAddUp
  <2>4. OnlyFaultsAddUp'
    BY <2>3 DEF AnswerComes, OnlyFaultsAddUp, Held
  <2>. QED BY <2>2, <2>3, <2>4 DEF PortInv
<1>. QED BY <1>1, <1>2, PTL DEF Spec

\* A reading is the answer to its own request, unless POWER or a port reopened
\* under an answer put them out of step (PowerUnit.cpp:73-88, 127-147,
\* LineNavigator.cpp:87-101, MasterApp.cpp:533).
THEOREM ReadsOwn == Spec => []OwnReading
<1>1. PortInv => OwnReading
  BY DEF PortInv
<1>. QED BY <1>1, PortInvariant, PTL

\* Only a fault of the unit or of the port makes two readings in a row fail, or
\* holds the loop in read() (PowerUnit.cpp:81-85, 131, LineNavigator.cpp:95-99,
\* 138, Solarbot.cpp:966-974, Navigator.cpp:655-666).
THEOREM FaultsAddUp == Spec => []OnlyFaultsAddUp
<1>1. PortInv => OnlyFaultsAddUp
  BY DEF PortInv
<1>. QED BY <1>1, PortInvariant, PTL

-----------------------------------------------------------------------------
(* The stop for obstacles                                                  *)

USE DEF senseVars, guardVars, orderVars, ghostVars

\* Two ages of one limit keep their order as time goes by.
LEMMA OlderInOrder ==
    ASSUME NEW limit \in Nat, NEW a \in 0..limit + 1, NEW b \in 0..limit + 1,
           NEW d \in Nat
    PROVE  /\ Older(a, d, limit) \in 0..limit + 1
           /\ a <= b => Older(a, d, limit) <= Older(b, d, limit)
           /\ a <= Older(a, d, limit)
           /\ a = 0 => Older(a, d, limit) <= d
           /\ \A gap \in Nat : b <= a + gap =>
                 Older(b, d, limit) <= Older(a, d, limit) + gap
BY DEF Older

\* GuardInv holds when the loop is entered.
LEMMA GuardInvInit == GuardInit => GuardInv
<1>1. SUFFICES ASSUME GuardInit PROVE GuardInv
  OBVIOUS
<1>2. GuardTypeOK
  <2>1. /\ clearAge \in StopAges /\ seenAge \in StopAges
        /\ stopAge \in StartAges /\ heldAge \in StartAges
    BY <1>1, TimesAssumption DEF GuardInit, StopAges, StartAges
  <2>2. /\ near \in BOOLEAN /\ good \in BOOLEAN /\ DoNotMove \in BOOLEAN
        /\ seen \in BOOLEAN /\ cleared \in BOOLEAN /\ moved \in BOOLEAN
    BY <1>1, Zenon DEF GuardInit
  <2>. QED BY <1>1, <2>1, <2>2 DEF GuardInit, GuardTypeOK, Phases
<1>. QED BY <1>1, <1>2 DEF GuardInit, GuardInv

\* Time goes by and the sensors are read.
LEMMA SenseKeeps == GuardInv /\ Sense => GuardInv'
<1>1. SUFFICES ASSUME GuardInv, Sense PROVE GuardInv'
  OBVIOUS
<1>2. PICK d \in 1..MaxPass :
         /\ clearAge' = Older(clearAge, d, ToStop)
         /\ seenAge' = Older(seenAge, d, ToStop)
         /\ stopAge' = Older(stopAge, d, ToStart)
         /\ heldAge' = Older(heldAge, d, ToStart)
  BY <1>1 DEF Sense
<1>3. d \in Nat /\ d <= MaxPass /\ MaxPass \in Nat
  BY TimesAssumption
<1>4. /\ clearAge' \in StopAges /\ seenAge' \in StopAges
      /\ stopAge' \in StartAges /\ heldAge' \in StartAges
  BY <1>1, <1>2, <1>3, OlderInOrder, TimesAssumption
     DEF GuardInv, GuardTypeOK, StopAges, StartAges
<1>5. GuardTypeOK'
  BY <1>1, <1>4 DEF GuardInv, GuardTypeOK, Sense, Phases
<1>6. (seen => seenAge <= clearAge)'
  BY <1>1, <1>2, <1>3, OlderInOrder, TimesAssumption
     DEF GuardInv, GuardTypeOK, StopAges, Sense
<1>7. ((cleared /\ seen) => clearAge <= seenAge + MaxPass)'
  BY <1>1, <1>2, <1>3, OlderInOrder, TimesAssumption
     DEF GuardInv, GuardTypeOK, StopAges, Sense
<1>8. ((cleared /\ ~seen) => clearAge <= IF phase = "detect" THEN MaxPass ELSE 0)'
  <2>1. SUFFICES ASSUME cleared, ~seen PROVE clearAge' <= MaxPass
    BY <1>1 DEF Sense
  <2>2. clearAge = 0
    BY <1>1, <2>1 DEF GuardInv, GuardTypeOK, StopAges, Sense
  <2>3. clearAge' <= d
    BY <1>2, <1>3, <2>2, OlderInOrder, TimesAssumption
  <2>. QED BY <1>3, <1>4, <2>3, TimesAssumption DEF StopAges
<1>9. (DoNotMove => stopAge <= heldAge)'
  BY <1>1, <1>2, <1>3, OlderInOrder, TimesAssumption
     DEF GuardInv, GuardTypeOK, StartAges, Sense
<1>. QED BY <1>1, <1>5, <1>6, <1>7, <1>8, <1>9 DEF GuardInv, Sense

\* Something is near.
LEMMA DetectedKeeps == GuardInv /\ Detected => GuardInv'
<1>1. SUFFICES ASSUME GuardInv, Detected PROVE GuardInv'
  OBVIOUS
<1>2. near /\ seen' = near /\ cleared' = (cleared \/ ~near)
  BY <1>1, Zenon DEF Detected, Looked
<1>3. seen' /\ (cleared' <=> cleared)
  BY <1>2, Zenon
<1>4. seen' \in BOOLEAN /\ cleared' \in BOOLEAN
  BY <1>1, <1>2, Zenon DEF GuardInv, GuardTypeOK
<1>5. /\ clearAge' = clearAge /\ phase' = "navigate" /\ moved' = moved
      /\ phase = "detect" /\ seenAge' = IF seen THEN seenAge ELSE 0
      /\ heldAge' = IF DoNotMove' /\ ~DoNotMove THEN 0 ELSE heldAge
  BY <1>1, <1>2 DEF Detected, Looked
<1>6. CASE clearAge > ToStop
  <2>1. DoNotMove' = TRUE /\ stopAge' = 0
    BY <1>1, <1>6 DEF Detected
  <2>2. DoNotMove' \in BOOLEAN /\ DoNotMove'
    BY <2>1, Zenon
  <2>3. GuardTypeOK'
    BY <1>1, <1>4, <1>5, <2>1, <2>2, TimesAssumption
       DEF GuardInv, GuardTypeOK, StopAges, StartAges, Phases, Detected
  <2>. QED BY <1>1, <1>3, <1>5, <2>1, <2>2, <2>3, TimesAssumption
           DEF GuardInv, GuardTypeOK, StopAges, StartAges
<1>7. CASE ~(clearAge > ToStop)
  <2>1. DoNotMove' = DoNotMove /\ stopAge' = stopAge
    BY <1>1, <1>7 DEF Detected
  <2>2. heldAge' = heldAge
    BY <1>5, <2>1
  <2>3. GuardTypeOK'
    BY <1>1, <1>4, <1>5, <2>1, <2>2, TimesAssumption
       DEF GuardInv, GuardTypeOK, StopAges, StartAges, Phases, Detected
  <2>. QED BY <1>1, <1>3, <1>5, <1>7, <2>1, <2>2, <2>3, TimesAssumption
           DEF GuardInv, GuardTypeOK, StopAges, StartAges
<1>. QED BY <1>6, <1>7

\* Nothing is near.
LEMMA ClearKeeps == GuardInv /\ Clear => GuardInv'
<1>1. SUFFICES ASSUME GuardInv, Clear PROVE GuardInv'
  OBVIOUS
<1>2. /\ seen' = near /\ ~near /\ cleared' = (cleared \/ ~near)
      /\ DoNotMove' = (DoNotMove /\ stopAge <= ToStart)
  BY <1>1, Zenon DEF Clear, Looked
<1>3. ~seen' /\ (DoNotMove' => DoNotMove)
  BY <1>2, Zenon
<1>4. seen' \in BOOLEAN /\ cleared' \in BOOLEAN /\ DoNotMove' \in BOOLEAN
  BY <1>1, <1>2, Zenon DEF GuardInv, GuardTypeOK
<1>5. /\ clearAge' = 0 /\ stopAge' = stopAge
      /\ seenAge' = 0 /\ heldAge' = heldAge
      /\ phase' = "navigate" /\ moved' = moved /\ phase = "detect"
  <2>1. ~(DoNotMove' /\ ~DoNotMove)
    BY <1>3, Zenon
  <2>. QED BY <1>1, <1>2, <2>1 DEF Clear, Looked
<1>6. GuardTypeOK'
  BY <1>1, <1>4, <1>5, TimesAssumption
     DEF GuardInv, GuardTypeOK, StopAges, StartAges, Phases, Clear
<1>. QED BY <1>1, <1>3, <1>4, <1>5, <1>6, TimesAssumption DEF GuardInv

\* The loop and the client preserve GuardInv.
LEMMA GuardInvNext == GuardInv /\ [GuardNext]_obstacleVars => GuardInv'
<1>1. ASSUME GuardInv, Navigate PROVE GuardInv'
  <2>1. GuardTypeOK'
    BY <1>1 DEF GuardInv, GuardTypeOK, Navigate, Move, Phases
  <2>2. DoNotMove => motors' = "stop"
    BY <1>1 DEF Navigate, Move
  <2>. QED BY <1>1, <2>1, <2>2 DEF GuardInv, GuardTypeOK, StopAges, Navigate
<1>2. ASSUME GuardInv, GiveNoCommand PROVE GuardInv'
  BY <1>2 DEF GuardInv, GuardTypeOK, StopAges, Phases, GiveNoCommand
<1>3. ASSUME GuardInv, Order PROVE GuardInv'
  BY <1>3 DEF GuardInv, GuardTypeOK, Order
<1>4. ASSUME GuardInv, UNCHANGED obstacleVars PROVE GuardInv'
  BY <1>4 DEF GuardInv, GuardTypeOK, obstacleVars
<1>. QED BY <1>1, <1>2, <1>3, <1>4, SenseKeeps, DetectedKeeps, ClearKeeps
         DEF GuardNext, GuardLoop

\* What the marks, the flag and the motors have to do with each other, for every
\* time to stop, time to start and length of a pass (Solarbot.cpp:873-891).
THEOREM GuardInvariant == GuardSpec => []GuardInv
<1>. QED BY GuardInvInit, GuardInvNext, PTL DEF GuardSpec

\* Only looking at the zones changes the flag.
LEMMA FlagKept ==
    Sense \/ Navigate \/ GiveNoCommand \/ Order \/ UNCHANGED obstacleVars
        => DoNotMove' = DoNotMove
BY DEF Sense, Navigate, GiveNoCommand, Order, obstacleVars

\* What was near for longer than the time to stop has the wheels stopped by
\* every command (Solarbot.cpp:873-880, Navigator.cpp:285-288).
THEOREM Stops == GuardSpec => []ObstacleStops
<1>1. GuardInv => ObstacleStops
  BY TimesAssumption DEF GuardInv, GuardTypeOK, StopAges, ObstacleStops
<1>. QED BY <1>1, GuardInvariant, PTL

\* A glimpse does not stop the robot (Solarbot.cpp:875, 885).
THEOREM Glimpse == GuardSpec => GlimpseIgnored
<1>1. GuardInv /\ [GuardNext]_obstacleVars
      => [(DoNotMove' /\ ~DoNotMove /\ cleared) => seenAge' + MaxPass > ToStop]_obstacleVars
  <2>1. SUFFICES ASSUME GuardInv, GuardNext, DoNotMove', ~DoNotMove, cleared
                 PROVE  seenAge' + MaxPass > ToStop
    OBVIOUS
  <2>2. Detected
    <3>1. ~Clear
      BY <2>1, Zenon DEF Clear
    <3>. QED BY <2>1, <3>1, FlagKept, Zenon DEF GuardNext, GuardLoop
  <2>3. phase = "detect" /\ near
    BY <2>2 DEF Detected
  <2>4. clearAge > ToStop
    <3>1. ~(DoNotMove' = DoNotMove)
      BY <2>1, Zenon
    <3>. QED BY <2>2, <3>1 DEF Detected
  <2>5. CASE seen
    <3>1. seenAge' = seenAge
      BY <2>2, <2>3, <2>5 DEF Detected, Looked
    <3>2. clearAge <= seenAge + MaxPass
      BY <2>1, <2>5, Zenon DEF GuardInv
    <3>. QED BY <2>1, <2>4, <3>1, <3>2, TimesAssumption DEF GuardInv, GuardTypeOK, StopAges
  <2>6. CASE ~seen
    <3>1. seenAge' = 0
      BY <2>2, <2>6 DEF Detected, Looked
    <3>2. clearAge <= MaxPass
      BY <2>1, <2>3, <2>6 DEF GuardInv
    <3>. QED BY <2>1, <2>4, <3>1, <3>2, TimesAssumption DEF GuardInv, GuardTypeOK, StopAges
  <2>. QED BY <2>5, <2>6
<1>. QED BY <1>1, GuardInvariant, PTL DEF GuardSpec, GlimpseIgnored

\* A stop lasts for the time to start, and a clear pass ends it (Solarbot.cpp:887).
THEOREM HeldLong == GuardSpec => HeldLongEnough
<1>1. GuardInv /\ [GuardNext]_obstacleVars
      => [(DoNotMove /\ ~DoNotMove') => (~near /\ heldAge > ToStart)]_obstacleVars
  <2>1. SUFFICES ASSUME GuardInv, GuardNext, DoNotMove, ~DoNotMove'
                 PROVE  ~near /\ heldAge > ToStart
    OBVIOUS
  <2>2. Clear
    <3>1. ~Detected
      BY <2>1 DEF Detected
    <3>. QED BY <2>1, <3>1, FlagKept, Zenon DEF GuardNext, GuardLoop
  <2>3. ~near /\ stopAge > ToStart
    <3>1. ~(DoNotMove /\ stopAge <= ToStart) /\ ~near
      BY <2>1, <2>2, Zenon DEF Clear
    <3>. QED BY <2>1, <3>1, TimesAssumption DEF GuardInv, GuardTypeOK, StartAges
  <2>4. stopAge <= heldAge
    BY <2>1, Zenon DEF GuardInv
  <2>. QED BY <2>1, <2>3, <2>4, TimesAssumption DEF GuardInv, GuardTypeOK, StartAges
<1>. QED BY <1>1, GuardInvariant, PTL DEF GuardSpec, HeldLongEnough

-----------------------------------------------------------------------------
(* The shared image                                                        *)

USE DEF programVars, processVars, Parts, Never

\* A part that is written is the one whose turn it is, and the others stay.
LEMMA PartOfWrite ==
    ASSUME ImageTypeOK, NEW p \in Parts, WritePart(p)
    PROVE  /\ program \in {"part1", "part2", "part3"}
           /\ p = (CASE program = "part1" -> 1 [] program = "part2" -> 2
                     [] program = "part3" -> 3)
           /\ program' = (CASE program = "part1" -> "part2" [] program = "part2" -> "part3"
                            [] program = "part3" -> "post")
           /\ object' = [object EXCEPT !.content[p] = frame]
           /\ object'.content \in Content
           /\ object'.content[p] = frame
           /\ \A q \in Parts : q # p => object'.content[q] = object.content[q]
           /\ UNCHANGED <<frame, written, kept, processVars, killing, stable>>
<1>1. \/ program = "part1" /\ p = 1
      \/ program = "part2" /\ p = 2
      \/ program = "part3" /\ p = 3
  BY DEF WritePart
<1>2. program' = NextPlace(program) /\ program' # "idle"
  BY <1>1 DEF WritePart, NextPlace
<1>3. object' = [object EXCEPT !.content[p] = frame]
  BY DEF WritePart
<1>4. object.content \in Content /\ frame \in Never..Frames
  BY ImageAssumption DEF ImageTypeOK, Objects
<1>5. object'.content = [object.content EXCEPT ![p] = frame]
  BY <1>3 DEF ImageTypeOK, Objects
<1>6. written' = written
  BY <1>2 DEF WritePart, Ended
<1>7. /\ object'.content \in Content /\ object'.content[p] = frame
      /\ \A q \in Parts : q # p => object'.content[q] = object.content[q]
  BY <1>4, <1>5 DEF Content
<1>. QED BY <1>1, <1>2, <1>3, <1>6, <1>7 DEF WritePart, NextPlace

\* The types of the image hold when neither side has begun.
LEMMA ImageTypeInit == ImageInit => ImageTypeOK
<1>. SUFFICES ASSUME ImageInit PROVE ImageTypeOK
  OBVIOUS
<1>1. Blank \in Content
  BY ImageAssumption DEF Blank, Content
<1>2. NoObject \in Objects
  BY <1>1, ImageAssumption DEF NoObject, Objects
<1>3. Frames \in 1..Frames /\ Never \in Never..Frames
  BY ImageAssumption
<1>4. killing \in BOOLEAN /\ stable \in BOOLEAN
  BY Zenon DEF ImageInit
<1>5. data \in Seq(Never..Frames)
  BY DEF ImageInit
<1>. QED BY <1>2, <1>3, <1>4, <1>5 DEF ImageInit, ImageTypeOK

\* ... and every step of the program and of the process keeps them.
LEMMA ImageTypeNext == ImageTypeOK /\ [ImageNext]_imageVars => ImageTypeOK'
<1>1. SUFFICES ASSUME ImageTypeOK, [ImageNext]_imageVars PROVE ImageTypeOK'
  OBVIOUS
<1>. USE <1>1, ImageAssumption
<1>2. NoObject \in Objects
  BY DEF NoObject, Objects, Blank, Content
<1>3. CASE Start
  <2>1. killing' \in BOOLEAN
    BY <1>3, Zenon DEF Start, ImageTypeOK
  <2>. QED BY <1>3, <2>1 DEF Start, ImageTypeOK
<1>4. CASE Remove
  BY <1>2, <1>4 DEF Remove, Unlink, ImageTypeOK
<1>5. CASE Create
  BY <1>5 DEF Create, ImageTypeOK, Objects
<1>6. CASE Truncate
  BY <1>6 DEF Truncate, ImageTypeOK, Objects
<1>7. CASE Construct
  <2>1. 1 \in 0..MaxCount
    OBVIOUS
  <2>2. object' = [[object EXCEPT !.stage = "constructed"] EXCEPT !.count = 1]
    BY <1>7 DEF Construct
  <2>3. object' \in Objects
    BY <2>1, <2>2 DEF ImageTypeOK, Objects
  <2>. QED BY <1>7, <2>3 DEF Construct, ImageTypeOK
<1>8. CASE Share
  <2>1. frame' \in 1..Frames
    BY <1>8 DEF Share, ImageTypeOK
  <2>. QED BY <1>8, <2>1 DEF Share, ImageTypeOK, Writing
<1>9. ASSUME NEW p \in Parts, WritePart(p) PROVE ImageTypeOK'
  <2>1. object' \in Objects
    BY <1>9, PartOfWrite DEF ImageTypeOK, Objects
  <2>. QED BY <1>9, <2>1, PartOfWrite DEF ImageTypeOK, Writing
<1>10. CASE Post
  <2>1. object' \in Objects
    <3>1. object.count + 1 \in 0..MaxCount
      BY <1>10 DEF Post, ImageTypeOK, Objects
    <3>2. object' = [object EXCEPT !.count = object.count + 1]
      BY <1>10 DEF Post
    <3>. QED BY <3>1, <3>2 DEF ImageTypeOK, Objects
  <2>2. program' = "idle"
    BY <1>10 DEF Post, NextPlace
  <2>. QED BY <1>10, <2>1, <2>2 DEF Post, Ended, ImageTypeOK
<1>11. CASE Dies
  BY <1>11 DEF Dies, ImageTypeOK
<1>12. CASE Stabilizes
  BY <1>12 DEF Stabilizes, ImageTypeOK
<1>13. CASE Killed
  <2>1. killing' \in BOOLEAN
    BY <1>13, Zenon DEF Killed
  <2>. QED BY <1>2, <1>13, <2>1 DEF Killed, ImageTypeOK
<1>14. CASE StartProcess
  BY <1>14 DEF StartProcess, ImageTypeOK
<1>15. CASE OpenReader
  <2>1. object' \in Objects
    <3>1. PICK stage \in {"none", "created", "sized", "constructed"} :
             object' = [object EXCEPT !.stage = stage]
      BY <1>15 DEF OpenReader, ImageTypeOK, Objects
    <3>. QED BY <3>1 DEF ImageTypeOK, Objects
  <2>2. data' \in Seq(Never..Frames)
    BY <1>15 DEF OpenReader
  <2>. QED BY <1>2, <1>15, <2>1, <2>2 DEF OpenReader, ImageTypeOK
<1>16. CASE WaitForPost
  <2>1. object' \in Objects /\ kept' \in Objects
    BY <1>16 DEF WaitForPost, Mapped, SetCount, ImageTypeOK, Objects
  <2>. QED BY <1>16, <2>1 DEF WaitForPost, ImageTypeOK
<1>17. ASSUME NEW p \in Parts, Copy(p) PROVE ImageTypeOK'
  <2>1. Mapped.content[p] \in Never..Frames
    BY DEF Mapped, ImageTypeOK, Objects, Content
  <2>. QED BY <1>17, <2>1 DEF Copy, ImageTypeOK
<1>18. CASE ReadAgain
  BY <1>18 DEF ReadAgain, ImageTypeOK
<1>19. CASE TimedOut
  BY <1>19 DEF TimedOut, ImageTypeOK
<1>20. CASE UNCHANGED imageVars
  BY <1>20 DEF imageVars, ImageTypeOK
<1>. QED BY <1>3, <1>4, <1>5, <1>6, <1>7, <1>8, <1>9, <1>10, <1>11, <1>12, <1>13, <1>14,
            <1>15, <1>16, <1>17, <1>18, <1>19, <1>20 DEF ImageNext, Open, WriteImage, Read

\* Parts are copied one after the other.
LEMMA OneMore ==
    ASSUME NEW w
    PROVE  /\ Append(<<w>>, w) = <<w, w>>
           /\ Append(<<w, w>>, w) = <<w, w, w>>
<1>. DEFINE s == <<w>>
            t == <<w, w>>
            W == {w}
<1>1. s \in Seq(W) /\ t \in Seq(W) /\ Len(s) = 1 /\ Len(t) = 2
      /\ s[1] = w /\ t[1] = w /\ t[2] = w /\ w \in W
      /\ <<w, w>> \in Seq(W) /\ <<w, w, w>> \in Seq(W)
  OBVIOUS
<1>. HIDE DEF s, t, W
<1>2. /\ Append(s, w) \in Seq(W) /\ Len(Append(s, w)) = 2
      /\ Append(s, w)[1] = w /\ Append(s, w)[2] = w
  <2>1. PICK v : v = Append(s, w)
    OBVIOUS
  <2>2. /\ v \in Seq(W) /\ Len(v) = Len(s) + 1
        /\ \A i \in 1..Len(s) : v[i] = s[i]
        /\ v[Len(s) + 1] = w
    <3>1. s \in Seq(W) /\ w \in W
      BY <1>1
    <3>. QED BY <2>1, <3>1, AppendProperties
  <2>3. Len(v) = 2 /\ v[1] = w /\ v[2] = w
    BY <1>1, <2>2
  <2>. QED BY <2>1, <2>2, <2>3
<1>3. /\ Append(t, w) \in Seq(W) /\ Len(Append(t, w)) = 3
      /\ Append(t, w)[1] = w /\ Append(t, w)[2] = w /\ Append(t, w)[3] = w
  <2>1. PICK v : v = Append(t, w)
    OBVIOUS
  <2>2. /\ v \in Seq(W) /\ Len(v) = Len(t) + 1
        /\ \A i \in 1..Len(t) : v[i] = t[i]
        /\ v[Len(t) + 1] = w
    <3>1. t \in Seq(W) /\ w \in W
      BY <1>1
    <3>. QED BY <2>1, <3>1, AppendProperties
  <2>3. Len(v) = 3 /\ v[1] = w /\ v[2] = w /\ v[3] = w
    BY <1>1, <2>2
  <2>. QED BY <2>1, <2>2, <2>3
<1>4. Append(s, w) = <<w, w>>
  <2>1. <<w, w>> \in Seq(W) /\ Len(<<w, w>>) = 2
    BY <1>1
  <2>2. \A i \in 1..2 : Append(s, w)[i] = <<w, w>>[i]
    BY <1>2
  <2>. QED BY <1>2, <2>1, <2>2, SeqEqual
<1>5. Append(t, w) = <<w, w, w>>
  <2>1. <<w, w, w>> \in Seq(W) /\ Len(<<w, w, w>>) = 3
    BY <1>1
  <2>2. \A i \in 1..3 : Append(t, w)[i] = <<w, w, w>>[i]
    BY <1>3
  <2>. QED BY <1>3, <2>1, <2>2, SeqEqual
<1>. QED BY <1>4, <1>5 DEF s, t

\* SeenInv holds when neither side has begun.
LEMMA SeenInit == ImageInit => SeenInv
BY ImageTypeInit DEF ImageInit, SeenInv

\* Every step of the program and of the process preserves it: while the program
\* is between two writes, a part that is copied is of the last one, and it is the
\* post that lets the copying begin.
LEMMA SeenNext == SeenInv /\ [ImageNext]_imageVars => SeenInv'
<1>1. SUFFICES ASSUME SeenInv, [ImageNext]_imageVars PROVE SeenInv'
  OBVIOUS
<1>. USE <1>1
<1>2. ImageTypeOK /\ ImageTypeOK'
  BY ImageTypeNext DEF SeenInv
<1>3. CASE Start
  BY <1>2, <1>3 DEF Start, SeenInv
<1>4. CASE Remove
  BY <1>2, <1>4 DEF Remove, Unlink, SeenInv
<1>5. CASE Create
  BY <1>2, <1>5 DEF Create, SeenInv
<1>6. CASE Truncate
  BY <1>2, <1>6 DEF Truncate, SeenInv
<1>7. CASE Construct
  BY <1>2, <1>7 DEF Construct, SeenInv
<1>8. CASE Share
  BY <1>2, <1>8 DEF Share, SeenInv
<1>9. ASSUME NEW p \in Parts, WritePart(p) PROVE SeenInv'
  <2>1. /\ UNCHANGED <<frame, written>> /\ program' \in {"part2", "part3", "post"}
        /\ program' = "part2" => object'.content[1] = frame
        /\ program' = "part3" => object'.content[1] = frame /\ object'.content[2] = frame
        /\ program' = "post" => \A q \in Parts : object'.content[q] = frame
    BY <1>9, <1>2, PartOfWrite DEF SeenInv
  <2>2. program' = "post" => object'.content = [q \in Parts |-> frame]
    BY <1>9, <1>2, <2>1, PartOfWrite DEF Content
  <2>. QED BY <1>2, <2>1, <2>2 DEF SeenInv
<1>10. CASE Post
  <2>1. /\ object'.count # 0 /\ object'.content = object.content
        /\ program' = "idle" /\ written' = frame /\ frame' = frame
    BY <1>2, <1>10 DEF Post, NextPlace, Ended, ImageTypeOK, Objects
  <2>. QED BY <1>2, <1>10, <2>1 DEF Post, SeenInv
<1>11. CASE Dies
  BY <1>2, <1>11 DEF Dies, SeenInv
<1>12. CASE Stabilizes
  BY <1>2, <1>12 DEF Stabilizes, SeenInv
<1>13. CASE Killed
  BY <1>2, <1>13 DEF Killed, SeenInv
<1>14. CASE StartProcess
  BY <1>2, <1>14 DEF StartProcess, SeenInv
<1>15. CASE OpenReader
  BY <1>2, <1>15 DEF OpenReader, SeenInv, ImageTypeOK, Objects
<1>16. CASE WaitForPost
  BY <1>2, <1>16 DEF WaitForPost, Mapped, SetCount, SeenInv, ImageTypeOK, Objects
<1>17. ASSUME NEW p \in Parts, Copy(p) PROVE SeenInv'
  <2>1. /\ data' = Append(data, Mapped.content[p])
        /\ UNCHANGED <<programVars, object, mapped>>
        /\ \/ process = "copy1" /\ process' = "copy2" /\ p = 1
           \/ process = "copy2" /\ process' = "copy3" /\ p = 2
           \/ process = "copy3" /\ process' = "read" /\ p = 3
    BY <1>17 DEF Copy
  <2>2. SUFFICES ASSUME program = "idle", written # Never, mapped = "object",
                        object.count = 0
                 PROVE  /\ process' = "copy2" => data' = <<written>>
                        /\ process' = "copy3" => data' = <<written, written>>
                        /\ process' = "read" => data' = <<written, written, written>>
    BY <1>2, <2>1 DEF SeenInv
  <2>3. Mapped.content[p] = written
    BY <2>2 DEF Mapped, SeenInv
  <2>4. CASE process = "copy1"
    BY <2>1, <2>2, <2>3, <2>4 DEF SeenInv
  <2>5. CASE process = "copy2"
    <3>1. data = <<written>>
      BY <2>2, <2>5 DEF SeenInv
    <3>. QED BY <2>1, <2>3, <2>5, <3>1, OneMore
  <2>6. CASE process = "copy3"
    <3>1. data = <<written, written>>
      BY <2>2, <2>6 DEF SeenInv
    <3>. QED BY <2>1, <2>3, <2>6, <3>1, OneMore
  <2>. QED BY <2>1, <2>4, <2>5, <2>6
<1>18. CASE ReadAgain
  BY <1>2, <1>18 DEF ReadAgain, SeenInv
<1>19. CASE TimedOut
  BY <1>2, <1>19 DEF TimedOut, SeenInv
<1>20. CASE UNCHANGED imageVars
  BY <1>2, <1>20 DEF imageVars, SeenInv
<1>. QED BY <1>3, <1>4, <1>5, <1>6, <1>7, <1>8, <1>9, <1>10, <1>11, <1>12, <1>13, <1>14,
            <1>15, <1>16, <1>17, <1>18, <1>19, <1>20 DEF ImageNext, Open, WriteImage, Read

\* What the parts in memory and those that were copied have to do with the last
\* write, for every number of writes and of posts that nobody waited for
\* (SharedGeoImage.cpp:54-68, 70-86).
THEOREM SeenInvariant == ImageSpec => []SeenInv
<1>. QED BY SeenInit, SeenNext, PTL DEF ImageSpec

\* A process that waits for more while the program is between two writes has read
\* the last write, all of it, though nothing excludes the two (SharedGeoImage.cpp:60-65,
\* 73-83).
THEOREM WriteSeen == ImageSpec => []LastWriteSeen
<1>1. SeenInv => LastWriteSeen
  BY DEF SeenInv, LastWriteSeen
<1>. QED BY <1>1, SeenInvariant, PTL
===========================================================================
