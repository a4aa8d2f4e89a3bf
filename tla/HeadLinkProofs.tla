---------------------------- MODULE HeadLinkProofs ----------------------------
(***************************************************************************)
(* Proofs about the head, for all numbers of requests and of answers owed:  *)
(* HeadInv is inductive, and with it AnswerIsOwn and OnlyHeadMisses hold.   *)
(***************************************************************************)
EXTENDS HeadLink, SequenceTheorems, TLAPS

USE DEF mainVars, readerVars, headVars, ghostVars

-----------------------------------------------------------------------------
(* The bytes that are on their way                                         *)

\* The answer to a request.
LEMMA AnswerParts ==
    ASSUME NEW id \in Ids
    PROVE  /\ AnswerTo(id) \in Seq(Parts) /\ Len(AnswerTo(id)) = 2
           /\ AnswerTo(id)[1] = [of |-> id, part |-> 1]
           /\ AnswerTo(id)[2] = [of |-> id, part |-> 2]
           /\ AnswerTo(id)[1] \in Parts /\ AnswerTo(id)[2] \in Parts
BY DEF AnswerTo, Parts

\* What is on its way is the parts in the buffer and then those in the port.
LEMMA Arrived ==
    ASSUME TypeOK
    PROVE  /\ OnItsWay \in Seq(Parts) /\ Len(OnItsWay) \in Nat
           /\ OnItsWay = <<>> <=> port_rx_buffer = <<>> /\ tty = <<>>
           /\ OnItsWay # <<>> => Len(OnItsWay) # 0
           /\ \A i \in 1..Len(OnItsWay) : OnItsWay[i].of \in Ids
<1>1. port_rx_buffer \in Seq(Parts) /\ tty \in Seq(Parts)
  BY DEF TypeOK
<1>2. OnItsWay \in Seq(Parts)
  BY <1>1, ConcatProperties DEF OnItsWay
<1>3. OnItsWay = <<>> <=> port_rx_buffer = <<>> /\ tty = <<>>
  BY <1>1, ConcatSimplifications, ConcatEmptySeq DEF OnItsWay
<1>4. \A i \in 1..Len(OnItsWay) : OnItsWay[i] \in Parts
  BY <1>2, ElementOfSeq
<1>. QED BY <1>2, <1>3, <1>4, EmptySeq, LenProperties DEF Parts

\* read() moves parts from the port to the buffer.
LEMMA ReadMoves ==
    ASSUME TypeOK, ReadReturns
    PROVE  /\ port_rx_buffer' \in Seq(Parts) /\ port_rx_buffer' # <<>> /\ tty' \in Seq(Parts)
           /\ OnItsWay' = OnItsWay
<1>1. PICK k \in 1..Len(tty) : /\ port_rx_buffer' = SubSeq(tty, 1, k)
                              /\ tty' = SubSeq(tty, k + 1, Len(tty))
  BY DEF ReadReturns
<1>2. tty \in Seq(Parts) /\ Len(tty) \in Nat /\ \A i \in 1..Len(tty) : tty[i] \in Parts
  BY LenProperties, ElementOfSeq DEF TypeOK
<1>3. port_rx_buffer' \in Seq(Parts) /\ Len(port_rx_buffer') = k
  BY <1>1, <1>2, SubSeqProperties
<1>4. tty' \in Seq(Parts)
  BY <1>1, <1>2, SubSeqProperties
<1>5. port_rx_buffer' \o tty' = tty
  <2>1. SubSeq(tty, 1, k) \o SubSeq(tty, k + 1, Len(tty)) = SubSeq(tty, 1, Len(tty))
    BY <1>2, ConcatAdjacentSubSeq
  <2>. QED BY <1>1, <1>2, <2>1, SubSeqFull
<1>6. OnItsWay = tty
  <2>1. port_rx_buffer = <<>>
    <3>1. reader # "decode" /\ ((reader = "decode") <=> (port_rx_buffer # <<>>))
      BY Zenon DEF ReadReturns, TypeOK
    <3>. QED BY <3>1
  <2>. QED BY <1>2, <2>1, ConcatEmptySeq DEF OnItsWay
<1>. QED BY <1>3, <1>4, <1>5, <1>6 DEF OnItsWay

\* The part that is decoded is the first of those.
LEMMA DecodingTakes ==
    ASSUME TypeOK, NEW part \in {1, 2}, Decoding(part), tty' = tty
    PROVE  /\ reader' \in {"check", "decode"} /\ port_rx_buffer' \in Seq(Parts)
           /\ (reader' = "decode") = (port_rx_buffer' # <<>>)
           /\ Head(port_rx_buffer) = OnItsWay[1] /\ OnItsWay[1] \in Parts
           /\ OnItsWay[1].part = part /\ Len(OnItsWay) >= 1 /\ OnItsWay # <<>>
           /\ Len(OnItsWay') = Len(OnItsWay) - 1
           /\ \A i \in 1..Len(OnItsWay) - 1 : OnItsWay'[i] = OnItsWay[i + 1]
<1>1. port_rx_buffer \in Seq(Parts) /\ port_rx_buffer # <<>> /\ tty \in Seq(Parts)
  <2>1. (reader = "decode") <=> (port_rx_buffer # <<>>)
    BY Zenon DEF TypeOK
  <2>. QED BY <2>1 DEF TypeOK, Decoding
<1>2. /\ Len(port_rx_buffer) \in Nat \ {0} /\ Head(port_rx_buffer) = port_rx_buffer[1]
      /\ port_rx_buffer[1] \in Parts
  BY <1>1, EmptySeq, ElementOfSeq
<1>3. /\ port_rx_buffer' \in Seq(Parts) /\ Len(port_rx_buffer') = Len(port_rx_buffer) - 1
      /\ \A i \in 1..Len(port_rx_buffer) - 1 : port_rx_buffer'[i] = port_rx_buffer[i + 1]
  BY <1>1, HeadTailProperties DEF Decoding
<1>4. port_rx_buffer' = <<>> <=> Len(port_rx_buffer) = 1
  <2>1. port_rx_buffer' = <<>> => Len(port_rx_buffer) = 1
    BY <1>2, <1>3, EmptySeq
  <2>2. Len(port_rx_buffer) = 1 => Len(port_rx_buffer') = 0
    BY <1>3
  <2>. QED BY <1>3, <2>1, <2>2, EmptySeq
<1>5. reader' \in {"check", "decode"} /\ (reader' = "decode" <=> port_rx_buffer' # <<>>)
  BY <1>4 DEF Decoding
<1>6. (reader' = "decode") = (port_rx_buffer' # <<>>)
  BY <1>5, Zenon
<1>7. Len(tty) \in Nat
  BY <1>1, LenProperties
<1>8. /\ Len(OnItsWay) = Len(port_rx_buffer) + Len(tty)
      /\ \A i \in 1..Len(port_rx_buffer) + Len(tty) :
            OnItsWay[i] = IF i <= Len(port_rx_buffer) THEN port_rx_buffer[i]
                          ELSE tty[i - Len(port_rx_buffer)]
  BY <1>1, ConcatProperties DEF OnItsWay
<1>9. /\ Len(OnItsWay') = Len(port_rx_buffer') + Len(tty)
      /\ \A i \in 1..Len(port_rx_buffer') + Len(tty) :
            OnItsWay'[i] = IF i <= Len(port_rx_buffer') THEN port_rx_buffer'[i]
                           ELSE tty[i - Len(port_rx_buffer')]
  BY <1>1, <1>3, ConcatProperties DEF OnItsWay
<1>10. OnItsWay[1] = port_rx_buffer[1] /\ Len(OnItsWay) >= 1
  BY <1>2, <1>7, <1>8
<1>11. Len(OnItsWay') = Len(OnItsWay) - 1
  BY <1>2, <1>3, <1>7, <1>8, <1>9
<1>12. ASSUME NEW i \in 1..Len(OnItsWay) - 1 PROVE OnItsWay'[i] = OnItsWay[i + 1]
  <2>1. CASE i <= Len(port_rx_buffer) - 1
    BY <1>2, <1>3, <1>7, <1>8, <1>9, <2>1
  <2>2. CASE ~(i <= Len(port_rx_buffer) - 1)
    <3>1. i \in Int /\ i + 1 > Len(port_rx_buffer) /\ i > Len(port_rx_buffer')
      BY <1>2, <1>3, <2>2
    <3>2. OnItsWay[i + 1] = tty[i + 1 - Len(port_rx_buffer)]
      BY <1>2, <1>7, <1>8, <3>1
    <3>3. OnItsWay'[i] = tty[i - Len(port_rx_buffer')]
      BY <1>2, <1>3, <1>7, <1>8, <1>9, <3>1
    <3>4. i + 1 - Len(port_rx_buffer) = i - Len(port_rx_buffer')
      BY <1>2, <1>3, <3>1
    <3>. QED BY <3>2, <3>3, <3>4
  <2>. QED BY <2>1, <2>2
<1>13. OnItsWay # <<>>
  BY <1>10
<1>. QED BY <1>2, <1>3, <1>5, <1>6, <1>10, <1>11, <1>12, <1>13 DEF Decoding

\* The head's answer follows what is on its way.
LEMMA AnswerArrives ==
    ASSUME TypeOK, HeadAnswers
    PROVE  /\ tty' \in Seq(Parts) /\ owed' \in Seq(Ids) /\ owed[1] \in Ids
           /\ Len(owed) = 1 => owed' = <<>>
           /\ OnItsWay = <<>> => OnItsWay' = AnswerTo(owed[1])
<1>1. /\ owed \in Seq(Ids) /\ owed # <<>> /\ owed' = Tail(owed)
      /\ tty \in Seq(Parts) /\ tty' = tty \o AnswerTo(Head(owed))
      /\ port_rx_buffer' = port_rx_buffer
  BY DEF TypeOK, HeadAnswers
<1>2. Head(owed) = owed[1] /\ owed[1] \in Ids
  BY <1>1, EmptySeq, ElementOfSeq
<1>3. owed' \in Seq(Ids) /\ Len(owed') = Len(owed) - 1
  BY <1>1, HeadTailProperties
<1>4. Len(owed) = 1 => owed' = <<>>
  <2>1. Len(owed) = 1 => Len(owed') = 0
    BY <1>3
  <2>. QED BY <1>3, <2>1, EmptySeq
<1>5. AnswerTo(owed[1]) \in Seq(Parts)
  BY <1>2, AnswerParts
<1>6. tty' \in Seq(Parts)
  BY <1>1, <1>2, <1>5, ConcatProperties
<1>7. ASSUME OnItsWay = <<>> PROVE OnItsWay' = AnswerTo(owed[1])
  <2>1. port_rx_buffer = <<>> /\ tty = <<>>
    BY <1>7, Arrived
  <2>2. tty' = AnswerTo(owed[1])
    BY <1>1, <1>2, <1>5, <2>1, ConcatEmptySeq
  <2>. QED BY <1>1, <1>6, <2>1, <2>2, ConcatEmptySeq DEF OnItsWay
<1>. QED BY <1>2, <1>3, <1>4, <1>6, <1>7

\* So does what is left of one that is damaged.
LEMMA RestArrives ==
    ASSUME TypeOK, HeadFails
    PROVE  /\ tty' \in Seq(Parts) /\ owed' \in Seq(Ids) /\ owed[1] \in Ids
           /\ Len(owed) = 1 => owed' = <<>>
           /\ OnItsWay = <<>> =>
                 \/ OnItsWay' = <<>>
                 \/ Len(OnItsWay') = 1 /\ OnItsWay'[1].of = owed[1]
<1>1. /\ owed \in Seq(Ids) /\ owed # <<>> /\ owed' = Tail(owed)
      /\ tty \in Seq(Parts) /\ port_rx_buffer' = port_rx_buffer
  BY DEF TypeOK, HeadFails
<1>2. Head(owed) = owed[1] /\ owed[1] \in Ids
  BY <1>1, EmptySeq, ElementOfSeq
<1>3. owed' \in Seq(Ids) /\ Len(owed') = Len(owed) - 1
  BY <1>1, HeadTailProperties
<1>4. Len(owed) = 1 => owed' = <<>>
  <2>1. Len(owed) = 1 => Len(owed') = 0
    BY <1>3
  <2>. QED BY <1>3, <2>1, EmptySeq
<1>5. PICK kept : /\ tty' = tty \o kept
                  /\ \/ kept = <<>>
                     \/ \E p \in 1..2 : kept = <<AnswerTo(owed[1])[p]>>
  BY <1>2 DEF HeadFails
<1>6. \A p \in 1..2 : AnswerTo(owed[1])[p] \in Parts /\ AnswerTo(owed[1])[p].of = owed[1]
  <2>1. SUFFICES ASSUME NEW p \in 1..2
                 PROVE  AnswerTo(owed[1])[p] = [of |-> owed[1], part |-> p]
    BY <1>2 DEF Parts
  <2>2. p = 1 \/ p = 2
    OBVIOUS
  <2>. QED BY <2>2 DEF AnswerTo
<1>7. kept \in Seq(Parts) /\ (kept = <<>> \/ (Len(kept) = 1 /\ kept[1].of = owed[1]))
  <2>1. CASE kept = <<>>
    BY <2>1, EmptySeq
  <2>2. CASE kept # <<>>
    <3>1. PICK p \in 1..2 : kept = <<AnswerTo(owed[1])[p]>>
      BY <1>5, <2>2
    <3>. QED BY <1>6, <3>1
  <2>. QED BY <2>1, <2>2
<1>8. tty' \in Seq(Parts)
  BY <1>1, <1>5, <1>7, ConcatProperties
<1>9. ASSUME OnItsWay = <<>> PROVE OnItsWay' = kept
  <2>1. port_rx_buffer = <<>> /\ tty = <<>>
    BY <1>9, Arrived
  <2>2. tty' = kept
    BY <1>5, <1>7, <2>1, ConcatEmptySeq
  <2>. QED BY <1>1, <1>8, <2>1, <2>2, ConcatEmptySeq DEF OnItsWay
<1>. QED BY <1>2, <1>3, <1>4, <1>7, <1>8, <1>9

-----------------------------------------------------------------------------
(* Types                                                                   *)

\* Every step keeps the types.
LEMMA TypeOKNext == TypeOK /\ [Next]_vars => TypeOK'
<1>1. SUFFICES ASSUME TypeOK, [Next]_vars PROVE TypeOK'
  OBVIOUS
<1>. USE <1>1
<1>2. CASE Ask
  <2>1. late' \in BOOLEAN /\ lost' \in BOOLEAN
    BY <1>2, Zenon DEF Ask, TypeOK
  <2>. QED BY <1>2, <2>1 DEF Ask, TypeOK, Nothing
<1>3. CASE Write
  <2>1. request' \in Ids
    BY <1>3, HeadAssumption DEF Write, TypeOK, Ids
  <2>2. owed \in Seq(Ids) /\ (owed' = Append(owed, request') \/ owed' = owed)
    BY <1>3, Zenon DEF Write, TypeOK
  <2>3. Append(owed, request') \in Seq(Ids)
    BY <2>1, <2>2, AppendProperties
  <2>4. lost' = TRUE \/ lost' = lost
    BY <1>3, Zenon DEF Write
  <2>5. owed' \in Seq(Ids) /\ lost' \in BOOLEAN
    BY <2>2, <2>3, <2>4 DEF TypeOK
  <2>. QED BY <1>3, <2>1, <2>5 DEF Write, TypeOK
<1>4. CASE PollFlag
  BY <1>4 DEF PollFlag, TypeOK
<1>5. CASE PollTimeout
  <2>1. late' \in BOOLEAN
    BY <1>5, Zenon DEF PollTimeout
  <2>. QED BY <1>5, <2>1 DEF PollTimeout, TypeOK
<1>6. CASE CopyFirst
  BY <1>6 DEF CopyFirst, TypeOK
<1>7. CASE CopySecond
  BY <1>7 DEF CopySecond, TypeOK
<1>8. CASE GoOn
  BY <1>8 DEF GoOn, TypeOK
<1>9. CASE Check
  <2>1. (reader = "decode") <=> (port_rx_buffer # <<>>)
    BY Zenon DEF TypeOK
  <2>2. reader' = "read" /\ port_rx_buffer' = <<>>
    BY <1>9, <2>1 DEF Check
  <2>3. (reader' = "decode") = (port_rx_buffer' # <<>>)
    <3>1. reader' # "decode" /\ ~(port_rx_buffer' # <<>>)
      BY <2>2
    <3>. QED BY <3>1, Zenon
  <2>. QED BY <1>9, <2>2, <2>3 DEF Check, TypeOK
<1>10. CASE ReadReturns
  <2>1. reader' = "decode" /\ port_rx_buffer' # <<>>
    BY <1>10, ReadMoves DEF ReadReturns
  <2>2. (reader' = "decode") = (port_rx_buffer' # <<>>)
    BY <2>1, Zenon
  <2>. QED BY <1>10, <2>1, <2>2, ReadMoves DEF ReadReturns, TypeOK
<1>11. CASE DecodeStart
  <2>1. /\ Head(port_rx_buffer) \in Parts /\ reader' \in {"check", "decode"}
        /\ port_rx_buffer' \in Seq(Parts) /\ (reader' = "decode") = (port_rx_buffer' # <<>>)
    BY <1>11, DecodingTakes DEF DecodeStart
  <2>2. Head(port_rx_buffer).of \in Ids
    BY <2>1 DEF Parts
  <2>. QED BY <1>11, <2>1, <2>2 DEF DecodeStart, PutPart, TypeOK, Nothing
<1>12. CASE DecodeEnd
  <2>1. /\ Head(port_rx_buffer) \in Parts /\ reader' \in {"check", "decode"}
        /\ port_rx_buffer' \in Seq(Parts) /\ (reader' = "decode") = (port_rx_buffer' # <<>>)
    BY <1>12, DecodingTakes DEF DecodeEnd
  <2>2. Head(port_rx_buffer).of \in Ids
    BY <2>1 DEF Parts
  <2>3. rxflag' \in BOOLEAN
    BY <1>12, Zenon DEF DecodeEnd
  <2>. QED BY <1>12, <2>1, <2>2, <2>3 DEF DecodeEnd, PutPart, TypeOK, Nothing
<1>13. CASE DecodeStray
  <2>1. /\ Head(port_rx_buffer) \in Parts /\ reader' \in {"check", "decode"}
        /\ port_rx_buffer' \in Seq(Parts) /\ (reader' = "decode") = (port_rx_buffer' # <<>>)
    BY <1>13, DecodingTakes DEF DecodeStray
  <2>2. Head(port_rx_buffer).of \in Ids
    BY <2>1 DEF Parts
  <2>. QED BY <1>13, <2>1, <2>2 DEF DecodeStray, PutPart, TypeOK, Nothing
<1>14. CASE HeadAnswers
  BY <1>14, AnswerArrives DEF HeadAnswers, TypeOK
<1>15. CASE HeadFails
  <2>1. lost' \in BOOLEAN
    BY <1>15, Zenon DEF HeadFails
  <2>. QED BY <1>15, <2>1, RestArrives DEF HeadFails, TypeOK
<1>16. CASE HeadRecovers
  BY <1>16 DEF HeadRecovers, TypeOK
<1>17. CASE UNCHANGED vars
  BY <1>17 DEF vars, TypeOK
<1>. QED
  BY <1>2, <1>3, <1>4, <1>5, <1>6, <1>7, <1>8, <1>9, <1>10, <1>11, <1>12, <1>13, <1>14,
     <1>15, <1>16, <1>17
  DEF Next, ReadSensors, port_read

-----------------------------------------------------------------------------
(* The decoder and the answer                                              *)

\* Every step keeps the checksum and the frame together.
LEMMA DecoderNext == TypeOK /\ Decoder /\ [Next]_vars => Decoder'
<1>1. SUFFICES ASSUME TypeOK, Decoder, [Next]_vars PROVE Decoder'
  OBVIOUS
<1>. USE <1>1 DEF Decoder
<1>2. CASE Ask
  BY <1>2 DEF Ask
<1>3. CASE Write
  BY <1>3 DEF Write
<1>4. CASE PollFlag
  BY <1>4 DEF PollFlag
<1>5. CASE PollTimeout
  BY <1>5 DEF PollTimeout
<1>6. CASE CopyFirst
  BY <1>6 DEF CopyFirst
<1>7. CASE CopySecond
  BY <1>7 DEF CopySecond
<1>8. CASE GoOn
  BY <1>8 DEF GoOn
<1>9. CASE Check
  BY <1>9 DEF Check
<1>10. CASE ReadReturns
  BY <1>10 DEF ReadReturns
<1>11. CASE DecodeStart
  BY <1>11 DEF DecodeStart, PutPart, TypeOK
<1>12. CASE DecodeEnd
  BY <1>12 DEF DecodeEnd
<1>13. CASE DecodeStray
  BY <1>13 DEF DecodeStray
<1>14. CASE HeadAnswers
  BY <1>14 DEF HeadAnswers
<1>15. CASE HeadFails
  BY <1>15 DEF HeadFails
<1>16. CASE HeadRecovers
  BY <1>16 DEF HeadRecovers
<1>17. CASE UNCHANGED vars
  BY <1>17 DEF vars
<1>. QED
  BY <1>2, <1>3, <1>4, <1>5, <1>6, <1>7, <1>8, <1>9, <1>10, <1>11, <1>12, <1>13, <1>14,
     <1>15, <1>16, <1>17
  DEF Next, ReadSensors, port_read

\* Every step keeps what is under way the answer to the last request.
LEMMA OneAnswerNext == TypeOK /\ Decoder /\ OneAnswer /\ [Next]_vars => OneAnswer'
<1>1. SUFFICES ASSUME TypeOK, Decoder, OneAnswer, [Next]_vars PROVE OneAnswer'
  OBVIOUS
<1>. USE <1>1 DEF OneAnswer
<1>2. CASE Ask
  <2>1. SUFFICES ASSUME ~late' PROVE OneAnswer'
    OBVIOUS
  <2>2. ~rxflag' /\ OnItsWay' = OnItsWay
    BY <1>2, Zenon DEF Ask, OnItsWay
  <2>3. ~late \/ (owed = <<>> /\ OnItsWay = <<>>)
    <3>1. ~(late /\ (owed # <<>> \/ tty # <<>> \/ port_rx_buffer # <<>>))
      BY <1>2, <2>1, Zenon DEF Ask
    <3>. QED BY <3>1, Arrived
  <2>4. owed = <<>> /\ OnItsWay = <<>>
    BY <1>2, <2>3 DEF Ask
  <2>. QED BY <1>2, <2>2, <2>4 DEF Ask
<1>3. CASE Write
  <2>1. SUFFICES ASSUME ~late PROVE OneAnswer'
    BY <1>3 DEF Write
  <2>2. owed = <<>> /\ OnItsWay' = <<>> /\ ~rxflag'
    BY <1>3, <2>1 DEF Write, OnItsWay
  <2>3. owed' = <<>> \/ owed' = <<request'>>
    BY <1>3, <2>2 DEF Write
  <2>. QED BY <1>3, <2>2, <2>3 DEF Write
<1>4. CASE PollFlag
  BY <1>4 DEF PollFlag, OnItsWay
<1>5. CASE PollTimeout
  <2>1. SUFFICES ASSUME ~late' PROVE OneAnswer'
    OBVIOUS
  <2>2. ~late /\ ~UnderWay
    BY <1>5, <2>1, Zenon DEF PollTimeout
  <2>3. owed' = <<>> /\ OnItsWay' = OnItsWay /\ OnItsWay = <<>>
    BY <1>5, <2>2, Arrived DEF PollTimeout, UnderWay, OnItsWay
  <2>. QED BY <1>5, <2>2, <2>3 DEF PollTimeout
<1>6. CASE CopyFirst
  <2>1. OnItsWay' = OnItsWay /\ data'[1] = RxRawFrame[1]
    BY <1>6 DEF CopyFirst, OnItsWay, TypeOK
  <2>. QED BY <1>6, <2>1 DEF CopyFirst
<1>7. CASE CopySecond
  <2>1. OnItsWay' = OnItsWay /\ data'[2] = RxRawFrame[2] /\ data'[1] = data[1]
    BY <1>7 DEF CopySecond, OnItsWay, TypeOK
  <2>. QED BY <1>7, <2>1 DEF CopySecond
<1>8. CASE GoOn
  BY <1>8 DEF GoOn, OnItsWay
<1>9. CASE Check
  BY <1>9 DEF Check, OnItsWay
<1>10. CASE ReadReturns
  <2>1. OnItsWay' = OnItsWay
    BY <1>10, ReadMoves
  <2>. QED BY <1>10, <2>1 DEF ReadReturns
<1>11. CASE DecodeStart
  <2>1. /\ OnItsWay # <<>> /\ Len(OnItsWay) \in Nat /\ Len(OnItsWay') = Len(OnItsWay) - 1
        /\ \A i \in 1..Len(OnItsWay) - 1 : OnItsWay'[i] = OnItsWay[i + 1]
    BY <1>11, DecodingTakes, Arrived DEF DecodeStart
  <2>2. SUFFICES ASSUME ~late PROVE OneAnswer'
    BY <1>11 DEF DecodeStart
  <2>3. main = "poll" /\ ~rxflag /\ owed = <<>>
    BY <2>1, <2>2
  <2>4. \A i \in 1..Len(OnItsWay') :
           /\ OnItsWay'[i].of = request
           /\ OnItsWay'[i].part = 2 => i = Len(OnItsWay')
    <3>1. SUFFICES ASSUME NEW i \in 1..Len(OnItsWay')
                   PROVE  /\ OnItsWay'[i].of = request
                          /\ OnItsWay'[i].part = 2 => i = Len(OnItsWay')
      OBVIOUS
    <3>2. i + 1 \in 1..Len(OnItsWay) /\ OnItsWay'[i] = OnItsWay[i + 1]
      BY <2>1
    <3>. QED BY <2>1, <2>2, <3>2
  <2>. QED BY <1>11, <2>3, <2>4 DEF DecodeStart
<1>12. CASE DecodeEnd
  <2>1. /\ OnItsWay # <<>> /\ Len(OnItsWay) \in Nat /\ Len(OnItsWay') = Len(OnItsWay) - 1
        /\ \A i \in 1..Len(OnItsWay) - 1 : OnItsWay'[i] = OnItsWay[i + 1]
    BY <1>12, DecodingTakes, Arrived DEF DecodeEnd
  <2>2. SUFFICES ASSUME ~late PROVE OneAnswer'
    BY <1>12 DEF DecodeEnd
  <2>3. main = "poll" /\ ~rxflag /\ owed = <<>>
    BY <2>1, <2>2
  <2>4. \A i \in 1..Len(OnItsWay') :
           /\ OnItsWay'[i].of = request
           /\ OnItsWay'[i].part = 2 => i = Len(OnItsWay')
    <3>1. SUFFICES ASSUME NEW i \in 1..Len(OnItsWay')
                   PROVE  /\ OnItsWay'[i].of = request
                          /\ OnItsWay'[i].part = 2 => i = Len(OnItsWay')
      OBVIOUS
    <3>2. i + 1 \in 1..Len(OnItsWay) /\ OnItsWay'[i] = OnItsWay[i + 1]
      BY <2>1
    <3>. QED BY <2>1, <2>2, <3>2
  <2>5. ASSUME rxflag'
        PROVE  OnItsWay' = <<>> /\ RxRawFrame'[1] = request /\ RxRawFrame'[2] = request
    <3>1. rx_crc8 = Head(port_rx_buffer).of
      BY <1>12, <2>3, <2>5, Zenon DEF DecodeEnd
    <3>2. Head(port_rx_buffer) = OnItsWay[1] /\ OnItsWay[1].part = 2 /\ 1 \in 1..Len(OnItsWay)
      BY <1>12, <2>1, DecodingTakes DEF DecodeEnd
    <3>3. Head(port_rx_buffer).of = request /\ Len(OnItsWay) = 1
      BY <2>2, <3>2
    <3>4. OnItsWay' = <<>>
      <4>1. Len(OnItsWay') = 0
        BY <2>1, <3>3
      <4>2. TypeOK'
        BY <1>1, TypeOKNext
      <4>3. port_rx_buffer' \in Seq(Parts) /\ tty' \in Seq(Parts)
        BY <4>2 DEF TypeOK
      <4>4. OnItsWay' \in Seq(Parts)
        BY <4>3, ConcatProperties DEF OnItsWay
      <4>. QED BY <4>1, <4>4, EmptySeq
    <3>5. rx_crc8 # Nothing
      BY <3>1, <3>3 DEF TypeOK, Ids, Nothing
    <3>6. RxRawFrame[1] = request
      BY <3>1, <3>3, <3>5 DEF Decoder
    <3>. QED BY <1>12, <3>3, <3>4, <3>6 DEF DecodeEnd, PutPart, TypeOK
  <2>. QED BY <1>12, <2>3, <2>4, <2>5 DEF DecodeEnd
<1>13. CASE DecodeStray
  <2>1. /\ OnItsWay # <<>> /\ Len(OnItsWay) \in Nat /\ Len(OnItsWay') = Len(OnItsWay) - 1
        /\ \A i \in 1..Len(OnItsWay) - 1 : OnItsWay'[i] = OnItsWay[i + 1]
    BY <1>13, DecodingTakes, Arrived DEF DecodeStray
  <2>2. SUFFICES ASSUME ~late PROVE OneAnswer'
    BY <1>13 DEF DecodeStray
  <2>3. main = "poll" /\ ~rxflag /\ owed = <<>>
    BY <2>1, <2>2
  <2>4. \A i \in 1..Len(OnItsWay') :
           /\ OnItsWay'[i].of = request
           /\ OnItsWay'[i].part = 2 => i = Len(OnItsWay')
    <3>1. SUFFICES ASSUME NEW i \in 1..Len(OnItsWay')
                   PROVE  /\ OnItsWay'[i].of = request
                          /\ OnItsWay'[i].part = 2 => i = Len(OnItsWay')
      OBVIOUS
    <3>2. i + 1 \in 1..Len(OnItsWay) /\ OnItsWay'[i] = OnItsWay[i + 1]
      BY <2>1
    <3>. QED BY <2>1, <2>2, <3>2
  <2>. QED BY <1>13, <2>3, <2>4 DEF DecodeStray
<1>14. CASE HeadAnswers
  <2>1. SUFFICES ASSUME ~late PROVE OneAnswer'
    BY <1>14 DEF HeadAnswers
  <2>2. main = "poll" /\ Len(owed) = 1 /\ owed[1] = request /\ OnItsWay = <<>> /\ ~rxflag
    BY <1>14, <2>1 DEF HeadAnswers
  <2>3. owed' = <<>> /\ OnItsWay' = AnswerTo(request)
    BY <1>14, <2>2, AnswerArrives
  <2>4. /\ Len(OnItsWay') = 2
        /\ OnItsWay'[1] = [of |-> request, part |-> 1]
        /\ OnItsWay'[2] = [of |-> request, part |-> 2]
    BY <2>3, AnswerParts DEF TypeOK
  <2>5. \A i \in 1..Len(OnItsWay') :
           /\ OnItsWay'[i].of = request
           /\ OnItsWay'[i].part = 2 => i = Len(OnItsWay')
    BY <2>4
  <2>. QED BY <1>14, <2>2, <2>3, <2>5 DEF HeadAnswers
<1>15. CASE HeadFails
  <2>1. SUFFICES ASSUME ~late PROVE OneAnswer'
    BY <1>15 DEF HeadFails
  <2>2. main = "poll" /\ Len(owed) = 1 /\ owed[1] = request /\ OnItsWay = <<>> /\ ~rxflag
    BY <1>15, <2>1 DEF HeadFails
  <2>3. owed' = <<>> /\ (OnItsWay' = <<>> \/ (Len(OnItsWay') = 1 /\ OnItsWay'[1].of = request))
    BY <1>15, <2>2, RestArrives
  <2>4. \A i \in 1..Len(OnItsWay') :
           /\ OnItsWay'[i].of = request
           /\ OnItsWay'[i].part = 2 => i = Len(OnItsWay')
    <3>1. CASE OnItsWay' = <<>>
      BY <3>1, EmptySeq
    <3>2. CASE OnItsWay' # <<>>
      <4>1. Len(OnItsWay') = 1 /\ OnItsWay'[1].of = request
        BY <2>3, <3>2
      <4>2. SUFFICES ASSUME NEW i \in 1..Len(OnItsWay')
                     PROVE  OnItsWay'[i].of = request /\ i = Len(OnItsWay')
        OBVIOUS
      <4>3. i = 1
        BY <4>1
      <4>. QED BY <4>1, <4>3
    <3>. QED BY <3>1, <3>2
  <2>. QED BY <1>15, <2>2, <2>3, <2>4 DEF HeadFails
<1>16. CASE HeadRecovers
  BY <1>16 DEF HeadRecovers, OnItsWay
<1>17. CASE UNCHANGED vars
  BY <1>17 DEF vars, OnItsWay
<1>. QED
  BY <1>2, <1>3, <1>4, <1>5, <1>6, <1>7, <1>8, <1>9, <1>10, <1>11, <1>12, <1>13, <1>14,
     <1>15, <1>16, <1>17
  DEF Next, ReadSensors, port_read

\* Every step keeps an answer coming of which nothing is lost.
LEMMA WholeAnswerNext ==
    TypeOK /\ Decoder /\ OneAnswer /\ WholeAnswer /\ [Next]_vars => WholeAnswer'
<1>1. SUFFICES ASSUME TypeOK, Decoder, OneAnswer, WholeAnswer, [Next]_vars PROVE WholeAnswer'
  OBVIOUS
<1>. USE <1>1 DEF WholeAnswer
<1>2. CASE Ask
  BY <1>2 DEF Ask, OnItsWay
<1>3. CASE Write
  <2>1. SUFFICES ASSUME ~late, ~lost' PROVE owed' # <<>>
    BY <1>3 DEF Write
  <2>2. owed' = Append(owed, request')
    BY <1>3, <2>1, Zenon DEF Write
  <2>. QED BY <2>2 DEF TypeOK
<1>4. CASE PollFlag
  BY <1>4 DEF PollFlag, OnItsWay
<1>5. CASE PollTimeout
  BY <1>5 DEF PollTimeout
<1>6. CASE CopyFirst
  BY <1>6 DEF CopyFirst, OnItsWay
<1>7. CASE CopySecond
  BY <1>7 DEF CopySecond, OnItsWay
<1>8. CASE GoOn
  BY <1>8 DEF GoOn, OnItsWay
<1>9. CASE Check
  BY <1>9 DEF Check, OnItsWay
<1>10. CASE ReadReturns
  <2>1. OnItsWay' = OnItsWay
    BY <1>10, ReadMoves
  <2>. QED BY <1>10, <2>1 DEF ReadReturns
<1>11. CASE DecodeStart
  <2>1. SUFFICES ASSUME ~late, ~lost, main = "poll", ~rxflag', owed = <<>>
                 PROVE  /\ OnItsWay' # <<>> /\ OnItsWay'[Len(OnItsWay')].part = 2
                        /\ OnItsWay'[1].part = 2 => rx_crc8' = request
    BY <1>11 DEF DecodeStart
  <2>2. ~rxflag
    BY <1>11, <2>1, Zenon DEF DecodeStart
  <2>3. /\ OnItsWay # <<>> /\ Len(OnItsWay) \in Nat \ {0} /\ Head(port_rx_buffer) = OnItsWay[1]
        /\ Len(OnItsWay') = Len(OnItsWay) - 1
        /\ \A i \in 1..Len(OnItsWay) - 1 : OnItsWay'[i] = OnItsWay[i + 1]
    BY <1>11, DecodingTakes, Arrived DEF DecodeStart
  <2>4. OnItsWay[1].part = 1 /\ OnItsWay[1].of = request
    BY <1>11, <2>1, <2>3, DecodingTakes DEF DecodeStart, OneAnswer
  <2>5. Len(OnItsWay) # 1
    BY <2>1, <2>2, <2>4
  <2>6. OnItsWay'[Len(OnItsWay')] = OnItsWay[Len(OnItsWay)]
    BY <2>3, <2>5
  <2>7. OnItsWay' # <<>>
    BY <2>3, <2>5
  <2>. QED BY <1>11, <2>1, <2>2, <2>3, <2>4, <2>6, <2>7 DEF DecodeStart
<1>12. CASE DecodeEnd
  <2>1. SUFFICES ASSUME ~late, ~lost, main = "poll", ~rxflag', owed = <<>>
                 PROVE  /\ OnItsWay' # <<>> /\ OnItsWay'[Len(OnItsWay')].part = 2
                        /\ OnItsWay'[1].part = 2 => rx_crc8' = request
    BY <1>12 DEF DecodeEnd
  <2>2. ~rxflag
    BY <1>12, <2>1, Zenon DEF DecodeEnd
  <2>3. /\ OnItsWay # <<>> /\ Len(OnItsWay) \in Nat \ {0} /\ Head(port_rx_buffer) = OnItsWay[1]
        /\ Len(OnItsWay') = Len(OnItsWay) - 1
        /\ \A i \in 1..Len(OnItsWay) - 1 : OnItsWay'[i] = OnItsWay[i + 1]
    BY <1>12, DecodingTakes, Arrived DEF DecodeEnd
  <2>4. OnItsWay[1].part = 2 /\ OnItsWay[1].of = request
    BY <1>12, <2>1, <2>3, DecodingTakes DEF DecodeEnd, OneAnswer
  <2>5. rx_crc8 = Head(port_rx_buffer).of
    BY <2>1, <2>2, <2>3, <2>4
  <2>6. rxflag'
    BY <1>12, <2>5, Zenon DEF DecodeEnd
  <2>. QED BY <2>1, <2>6
<1>13. CASE DecodeStray
  <2>1. SUFFICES ASSUME ~late, ~lost, main = "poll", ~rxflag', owed = <<>>
                 PROVE  /\ OnItsWay' # <<>> /\ OnItsWay'[Len(OnItsWay')].part = 2
                        /\ OnItsWay'[1].part = 2 => rx_crc8' = request
    BY <1>13 DEF DecodeStray
  <2>2. ~rxflag
    BY <1>13, <2>1, Zenon DEF DecodeStray
  <2>3. /\ OnItsWay # <<>> /\ Len(OnItsWay) \in Nat \ {0} /\ Head(port_rx_buffer) = OnItsWay[1]
        /\ Len(OnItsWay') = Len(OnItsWay) - 1
        /\ \A i \in 1..Len(OnItsWay) - 1 : OnItsWay'[i] = OnItsWay[i + 1]
    BY <1>13, DecodingTakes, Arrived DEF DecodeStray
  <2>4. OnItsWay[1].part = 2
    BY <1>13, DecodingTakes DEF DecodeStray
  <2>5. rx_crc8 = request /\ RxRawFrameIndex = 0
    BY <1>13, <2>1, <2>2, <2>4 DEF DecodeStray
  <2>. QED BY <2>5 DEF Decoder, TypeOK, Ids, Nothing
<1>14. CASE HeadAnswers
  <2>1. SUFFICES ASSUME ~late, ~lost, main = "poll", ~rxflag
                 PROVE  /\ OnItsWay' # <<>> /\ OnItsWay'[Len(OnItsWay')].part = 2
                        /\ OnItsWay'[1].part = 2 => rx_crc8' = request
    BY <1>14 DEF HeadAnswers
  <2>2. owed[1] = request /\ OnItsWay = <<>>
    BY <1>14, <2>1 DEF HeadAnswers, OneAnswer
  <2>3. OnItsWay' = AnswerTo(request)
    BY <1>14, <2>2, AnswerArrives
  <2>4. /\ Len(OnItsWay') = 2
        /\ OnItsWay'[1] = [of |-> request, part |-> 1]
        /\ OnItsWay'[2] = [of |-> request, part |-> 2]
    BY <2>3, AnswerParts DEF TypeOK
  <2>. QED BY <2>4
<1>15. CASE HeadFails
  <2>1. lost'
    BY <1>15, Zenon DEF HeadFails
  <2>. QED BY <2>1
<1>16. CASE HeadRecovers
  BY <1>16 DEF HeadRecovers, OnItsWay
<1>17. CASE UNCHANGED vars
  BY <1>17 DEF vars, OnItsWay
<1>. QED
  BY <1>2, <1>3, <1>4, <1>5, <1>6, <1>7, <1>8, <1>9, <1>10, <1>11, <1>12, <1>13, <1>14,
     <1>15, <1>16, <1>17
  DEF Next, ReadSensors, port_read

\* Every step that gives an answer up has lost one, or is late.
LEMMA MissesNext ==
    TypeOK /\ WholeAnswer /\ OnlyHeadMisses /\ [Next]_vars => OnlyHeadMisses'
<1>1. SUFFICES ASSUME TypeOK, WholeAnswer, OnlyHeadMisses, [Next]_vars PROVE OnlyHeadMisses'
  OBVIOUS
<1>. USE <1>1 DEF OnlyHeadMisses
<1>2. CASE Ask
  BY <1>2 DEF Ask
<1>3. CASE Write
  BY <1>3 DEF Write
<1>4. CASE PollFlag
  BY <1>4 DEF PollFlag
<1>5. CASE PollTimeout
  <2>1. SUFFICES ASSUME ~late', ~lost PROVE FALSE
    BY <1>5 DEF PollTimeout
  <2>2. main = "poll" /\ ~late /\ ~UnderWay
    BY <1>5, <2>1, Zenon DEF PollTimeout
  <2>3. owed = <<>> /\ OnItsWay = <<>> /\ ~rxflag
    BY <2>2, Arrived DEF UnderWay
  <2>. QED BY <2>1, <2>2, <2>3 DEF WholeAnswer
<1>6. CASE CopyFirst
  BY <1>6 DEF CopyFirst
<1>7. CASE CopySecond
  BY <1>7 DEF CopySecond
<1>8. CASE GoOn
  BY <1>8 DEF GoOn
<1>9. CASE Check
  BY <1>9 DEF Check
<1>10. CASE ReadReturns
  BY <1>10 DEF ReadReturns
<1>11. CASE DecodeStart
  BY <1>11 DEF DecodeStart
<1>12. CASE DecodeEnd
  BY <1>12 DEF DecodeEnd
<1>13. CASE DecodeStray
  BY <1>13 DEF DecodeStray
<1>14. CASE HeadAnswers
  BY <1>14 DEF HeadAnswers
<1>15. CASE HeadFails
  <2>1. lost'
    BY <1>15, Zenon DEF HeadFails
  <2>. QED BY <2>1
<1>16. CASE HeadRecovers
  BY <1>16 DEF HeadRecovers
<1>17. CASE UNCHANGED vars
  BY <1>17 DEF vars
<1>. QED
  BY <1>2, <1>3, <1>4, <1>5, <1>6, <1>7, <1>8, <1>9, <1>10, <1>11, <1>12, <1>13, <1>14,
     <1>15, <1>16, <1>17
  DEF Next, ReadSensors, port_read

-----------------------------------------------------------------------------
(* The theorems                                                            *)

\* What rxflag, the frame, the decoder, the port and the head's answers have to do
\* with each other, for all numbers of requests and answers (Head.cpp:120-256).
THEOREM HeadInvariant == Spec => []HeadInv
<1>1. Init => HeadInv
  <2>1. SUFFICES ASSUME Init PROVE HeadInv
    OBVIOUS
  <2>2. (reader = "decode") = (port_rx_buffer # <<>>)
    <3>1. reader # "decode" /\ ~(port_rx_buffer # <<>>)
      BY <2>1 DEF Init
    <3>. QED BY <3>1, Zenon
  <2>3. rxflag \in BOOLEAN /\ fit \in BOOLEAN /\ late \in BOOLEAN /\ lost \in BOOLEAN
    BY <2>1, Zenon DEF Init
  <2>4. request \in Ids
    BY <2>1, HeadAssumption DEF Init, Ids
  <2>5. TypeOK
    BY <2>1, <2>2, <2>3, <2>4 DEF Init, TypeOK, Nothing
  <2>6. OnItsWay = <<>>
    BY <2>1, <2>5, Arrived DEF Init
  <2>7. Len(OnItsWay) = 0
    BY <2>6
  <2>. QED BY <2>1, <2>5, <2>6, <2>7
           DEF Init, HeadInv, Decoder, OneAnswer, WholeAnswer, OnlyHeadMisses
<1>2. HeadInv /\ [Next]_vars => HeadInv'
  BY TypeOKNext, DecoderNext, OneAnswerNext, WholeAnswerNext, MissesNext DEF HeadInv
<1>. QED BY <1>1, <1>2, PTL DEF Spec

\* The heading is taken from one frame, the answer to the last request, unless an
\* answer given up was on its way yet at that request (Head.cpp:127-142, 200-256).
THEOREM OwnAnswer == Spec => []AnswerIsOwn
<1>1. HeadInv => AnswerIsOwn
  BY DEF HeadInv, TypeOK, OneAnswer, AnswerIsOwn
<1>. QED BY <1>1, HeadInvariant, PTL

\* A reading fails only when an answer was lost since its request, or one comes
\* late (Head.cpp:127-138, 200-256).
THEOREM HeadMisses == Spec => []OnlyHeadMisses
<1>1. HeadInv => OnlyHeadMisses
  BY DEF HeadInv
<1>. QED BY <1>1, HeadInvariant, PTL
=============================================================================
