------------------------------ MODULE HeadLink ------------------------------
(***************************************************************************)
(* The head, which measures the heading: Head::ReadSensors, called by the   *)
(* main loop, sends a request and polls rxflag; the reader thread takes the *)
(* bytes from the port, decodes them into RxRawFrame and sets rxflag.       *)
(*                                                                          *)
(* An answer is two parts: the first with the start byte, the second with   *)
(* the checksum; a part is known by the request it answers.  The head is    *)
(* opened once, since nothing sets reopen_head_on_error.                    *)
(***************************************************************************)
EXTENDS Integers, Sequences

CONSTANTS
    Requests,        \* bound: requests are numbered 1..Requests in turn
    MaxOwed          \* bound: answers the head owes, and answers in the port

ASSUME HeadAssumption == Requests \in Nat \ {0} /\ MaxOwed \in Nat \ {0}

Ids == 1..Requests
Nothing == 0
Parts == [of : Ids, part : {1, 2}]
AnswerTo(id) == <<[of |-> id, part |-> 1], [of |-> id, part |-> 2]>>

VARIABLES
    (* main loop *)
    main,            \* where ReadSensors is
    request,         \* the last request
    data,            \* the two parts this call has copied from RxRawFrame
    (* shared *)
    rxflag,
    RxRawFrame,      \* its two parts
    (* reader thread *)
    reader,          \* where port_read is
    port_rx_buffer,  \* what it has read and not decoded
    RxRawFrameIndex, \* parts decoded of the frame, 0 or 1
    rx_crc8,         \* the frame whose first part the checksum has seen
    (* the head, external *)
    owed,            \* requests it has not answered
    tty,             \* parts that have arrived
    fit,             \* from now on it answers, and in time
    (* history *)
    late,            \* an answer given up was under way, at this request or after it
    lost             \* since this request an answer was lost

mainVars == <<main, request, data>>
readerVars == <<reader, port_rx_buffer, RxRawFrame, RxRawFrameIndex, rx_crc8>>
headVars == <<owed, tty, fit>>
ghostVars == <<late, lost>>
vars == <<mainVars, rxflag, readerVars, headVars, ghostVars>>

TypeOK ==
    /\ main \in {"ready", "write", "poll", "copy", "copying", "read", "failed"}
    /\ request \in Ids
    /\ data \in [1..2 -> Ids \cup {Nothing}]
    /\ rxflag \in BOOLEAN
    /\ RxRawFrame \in [1..2 -> Ids \cup {Nothing}]
    /\ reader \in {"check", "read", "decode"}
    /\ port_rx_buffer \in Seq(Parts) /\ (reader = "decode") = (port_rx_buffer # <<>>)
    /\ RxRawFrameIndex \in 0..1 /\ rx_crc8 \in Ids \cup {Nothing}
    /\ owed \in Seq(Ids) /\ tty \in Seq(Parts) /\ fit \in BOOLEAN
    /\ late \in BOOLEAN /\ lost \in BOOLEAN

\* The head has been opened.
Init ==
    /\ main = "ready" /\ request = Requests /\ data = [p \in 1..2 |-> Nothing]
    /\ rxflag = FALSE /\ RxRawFrame = [p \in 1..2 |-> Nothing]
    /\ reader = "check" /\ port_rx_buffer = <<>>
    /\ RxRawFrameIndex = 0 /\ rx_crc8 = Nothing
    /\ owed = <<>> /\ tty = <<>> /\ fit = FALSE
    /\ late = FALSE /\ lost = FALSE

-----------------------------------------------------------------------------
(* The main loop                                                           *)

\* An answer is to come, or on its way to rxflag.
UnderWay == owed # <<>> \/ tty # <<>> \/ port_rx_buffer # <<>> \/ rxflag

\* Only what is on its way yet of an answer given up can be taken for the next.
Ask ==
    /\ main = "ready" /\ main' = "write"
    /\ data' = [p \in 1..2 |-> Nothing]
    /\ rxflag' = FALSE
    /\ late' = (late /\ (owed # <<>> \/ tty # <<>> \/ port_rx_buffer # <<>>))
    /\ lost' = FALSE
    /\ UNCHANGED <<request, readerVars, headVars>>

\* A request more than the head can keep is not answered.
Write ==
    /\ main = "write" /\ main' = "poll"
    /\ request' = (request % Requests) + 1
    /\ IF Len(owed) < MaxOwed
       THEN owed' = Append(owed, request') /\ UNCHANGED lost
       ELSE lost' = TRUE /\ UNCHANGED owed
    /\ UNCHANGED <<data, rxflag, readerVars, tty, fit, late>>

\* rxflag is seen before the hundredth poll.
PollFlag ==
    /\ main = "poll" /\ main' = "copy"
    /\ rxflag
    /\ UNCHANGED <<request, data, rxflag, readerVars, headVars, ghostVars>>

\* A hundred polls: rxflag was not seen, or in the last one only.
PollTimeout ==
    /\ main = "poll" /\ main' = "failed"
    /\ ~(fit /\ UnderWay)
    /\ late' = (late \/ UnderWay)
    /\ UNCHANGED <<request, data, rxflag, readerVars, headVars, lost>>

\* The frame is copied; it is longer than what is copied at once.
CopyFirst ==
    /\ main = "copy" /\ main' = "copying"
    /\ data' = [data EXCEPT ![1] = RxRawFrame[1]]
    /\ UNCHANGED <<request, rxflag, readerVars, headVars, ghostVars>>

CopySecond ==
    /\ main = "copying" /\ main' = "read"
    /\ data' = [data EXCEPT ![2] = RxRawFrame[2]]
    /\ UNCHANGED <<request, rxflag, readerVars, headVars, ghostVars>>

\* The rest of the pass, or of the attempts of OpenHead.
GoOn ==
    /\ main \in {"read", "failed"} /\ main' = "ready"
    /\ UNCHANGED <<request, data, rxflag, readerVars, headVars, ghostVars>>

ReadSensors ==
    Ask \/ Write \/ PollFlag \/ PollTimeout \/ CopyFirst \/ CopySecond \/ GoOn

-----------------------------------------------------------------------------
(* The reader thread                                                       *)

\* rxflag is clear: read() is called, and waits.
Check ==
    /\ reader = "check" /\ reader' = "read"
    /\ ~rxflag
    /\ UNCHANGED <<mainVars, rxflag, port_rx_buffer, RxRawFrame, RxRawFrameIndex, rx_crc8,
                   headVars, ghostVars>>

\* Fault: the port is flushed after it was read.
ReadReturnsFlushed ==
    /\ reader = "read" /\ reader' = "decode"
    /\ \E k \in 1..Len(tty) : port_rx_buffer' = SubSeq(tty, 1, k)
    /\ tty' = <<>>
    /\ UNCHANGED <<mainVars, rxflag, RxRawFrame, RxRawFrameIndex, rx_crc8, owed, fit,
                   ghostVars>>

\* It returns some of what has arrived, whatever rxflag is by now.
ReadReturns ==
    /\ reader = "read" /\ reader' = "decode"
    /\ \E k \in 1..Len(tty) :
          /\ port_rx_buffer' = SubSeq(tty, 1, k)
          /\ tty' = SubSeq(tty, k + 1, Len(tty))
    /\ UNCHANGED <<mainVars, rxflag, RxRawFrame, RxRawFrameIndex, rx_crc8, owed, fit,
                   ghostVars>>

\* The part that is decoded; the loop goes on to the end of what was read.
Decoding(part) ==
    /\ reader = "decode"
    /\ Head(port_rx_buffer).part = part
    /\ port_rx_buffer' = Tail(port_rx_buffer)
    /\ reader' = IF Len(port_rx_buffer) = 1 THEN "check" ELSE "decode"

PutPart(p) == RxRawFrame' = [RxRawFrame EXCEPT ![p] = Head(port_rx_buffer).of]

\* Fault: a start byte is looked for only when no frame is being decoded.
DecodeStartFirst ==
    /\ Decoding(1)
    /\ PutPart(RxRawFrameIndex + 1)
    /\ RxRawFrameIndex' = 1 - RxRawFrameIndex
    /\ rx_crc8' = IF RxRawFrameIndex = 0 THEN Head(port_rx_buffer).of ELSE Nothing
    /\ UNCHANGED <<mainVars, rxflag, headVars, ghostVars>>

\* The start byte begins a frame, whatever the decoder was in.
DecodeStart ==
    /\ Decoding(1)
    /\ PutPart(1)
    /\ RxRawFrameIndex' = 1 /\ rx_crc8' = Head(port_rx_buffer).of
    /\ UNCHANGED <<mainVars, rxflag, headVars, ghostVars>>

\* Fault: the checksum is not compared.
DecodeEndUnchecked ==
    /\ Decoding(2) /\ RxRawFrameIndex = 1
    /\ PutPart(2)
    /\ RxRawFrameIndex' = 0 /\ rx_crc8' = Nothing
    /\ rxflag' = TRUE
    /\ UNCHANGED <<mainVars, headVars, ghostVars>>

\* The frame ends, and is good if the checksum has seen the rest of it.
DecodeEnd ==
    /\ Decoding(2) /\ RxRawFrameIndex = 1
    /\ PutPart(2)
    /\ RxRawFrameIndex' = 0 /\ rx_crc8' = Nothing
    /\ rxflag' = (rxflag \/ rx_crc8 = Head(port_rx_buffer).of)
    /\ UNCHANGED <<mainVars, headVars, ghostVars>>

\* Without a start byte the bytes go to the beginning of the frame, and the
\* checksum cannot be right.
DecodeStray ==
    /\ Decoding(2) /\ RxRawFrameIndex = 0
    /\ PutPart(1)
    /\ RxRawFrameIndex' = 1 /\ rx_crc8' = Nothing
    /\ UNCHANGED <<mainVars, rxflag, headVars, ghostVars>>

port_read == Check \/ ReadReturns \/ DecodeStart \/ DecodeEnd \/ DecodeStray

-----------------------------------------------------------------------------
(* The head                                                                *)

\* It answers.
HeadAnswers ==
    /\ owed # <<>> /\ Len(tty) < 2 * MaxOwed
    /\ tty' = tty \o AnswerTo(Head(owed))
    /\ owed' = Tail(owed)
    /\ UNCHANGED <<mainVars, rxflag, readerVars, fit, ghostVars>>

\* It does not, or some bytes of the answer are lost.
HeadFails ==
    /\ owed # <<>> /\ ~fit /\ Len(tty) < 2 * MaxOwed
    /\ \E kept \in {<<>>} \cup {<<AnswerTo(Head(owed))[p]>> : p \in 1..2} : tty' = tty \o kept
    /\ owed' = Tail(owed) /\ lost' = TRUE
    /\ UNCHANGED <<mainVars, rxflag, readerVars, fit, late>>

HeadRecovers ==
    /\ ~fit /\ fit' = TRUE
    /\ UNCHANGED <<mainVars, rxflag, readerVars, owed, tty, ghostVars>>

Next == ReadSensors \/ port_read \/ HeadAnswers \/ HeadFails \/ HeadRecovers

Spec == Init /\ [][Next]_vars

\* The threads sleep for milliseconds only; a head that is fit answers.
FairSpec == Spec /\ WF_vars(ReadSensors) /\ WF_vars(port_read) /\ WF_vars(HeadAnswers)

-----------------------------------------------------------------------------
(* Properties                                                              *)

\* The heading is taken from one frame, the answer to the last request, unless
\* an answer given up was on its way yet when that request was made: rxflag keeps
\* the reader off the frame that the main loop copies, half frames are not taken
\* for whole ones, and one late answer spoils no request after it has come
\* (Head.cpp:127-142, 200-256).
AnswerIsOwn ==
    (main = "read" /\ ~late) => data = [p \in 1..2 |-> request]

\* A reading fails only when the head has lost an answer since its request, or
\* one comes late: none is lost between rxflag, the port and the decoder
\* (Head.cpp:127-138, 200-256).
OnlyHeadMisses == main = "failed" => (late \/ lost)

\* Once the head answers again the heading is read again, whatever was left in
\* the decoder, the port and rxflag (Head.cpp:125-138, 208-214).
HeardAgain == fit ~> (main = "read")

-----------------------------------------------------------------------------
(* The inductive invariant of HeadLinkProofs                               *)

\* The parts that have arrived and are not decoded.
OnItsWay == port_rx_buffer \o tty

\* What the checksum has seen is the first part of the frame.
Decoder == rx_crc8 # Nothing => RxRawFrameIndex = 1 /\ RxRawFrame[1] = rx_crc8

\* All that is under way is the answer to the last request, of which the second
\* part is the last; it is in the frame when rxflag is set, and stays there until
\* it is copied.
OneAnswer ==
    ~late =>
        /\ main # "poll" => owed = <<>> /\ OnItsWay = <<>>
        /\ owed # <<>> => Len(owed) = 1 /\ owed[1] = request /\ OnItsWay = <<>>
        /\ \A i \in 1..Len(OnItsWay) :
              OnItsWay[i].of = request /\ (OnItsWay[i].part = 2 => i = Len(OnItsWay))
        /\ main = "write" => ~rxflag
        /\ main = "poll" /\ rxflag => owed = <<>> /\ OnItsWay = <<>>
        /\ (main = "poll" /\ rxflag) \/ main \in {"copy", "copying"} =>
              RxRawFrame[1] = request /\ RxRawFrame[2] = request
        /\ main \in {"copying", "read"} => data[1] = request
        /\ main = "read" => data[2] = request

\* An answer of which nothing was lost sets rxflag.
WholeAnswer ==
    (~late /\ ~lost /\ main = "poll" /\ ~rxflag /\ owed = <<>>) =>
        /\ OnItsWay # <<>> /\ OnItsWay[Len(OnItsWay)].part = 2
        /\ OnItsWay[1].part = 2 => rx_crc8 = request

HeadInv == TypeOK /\ Decoder /\ OneAnswer /\ WholeAnswer /\ OnlyHeadMisses
=============================================================================
