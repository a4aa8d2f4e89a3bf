---------------------------- MODULE ControlUnit ----------------------------
(***************************************************************************)
(* The serial link to the motor driver (ControlUnit.cpp) and the two        *)
(* threads that use it: the main loop of Solarbot::run, which sends the     *)
(* navigation commands and polls the driver for telemetry, and              *)
(* Solarbot::ReadRxControllerThread, which forwards the frames of the hand  *)
(* held remote controller.  Each access to state both threads share is a    *)
(* step of its own; mtx_write and mtx_read are the two mutexes of the class.*)
(*                                                                          *)
(* The driver and the tty are the environment: a line written to the port   *)
(* is executed at once and answered later, or never; the port is in         *)
(* canonical mode, so that one read() returns one line.  The driver's lines *)
(* are shorter than the 32 bytes of port_rx_buffer.                         *)
(***************************************************************************)
EXTENDS Integers, Sequences, FiniteSets

CONSTANTS
    Speeds,         \* pairs of wheel speeds
    Stopped,        \* the pair (0, 0) that run() writes when it opens the link
    ReplyKinds,     \* lines the driver answers with, a subset of Kinds
    TelemetryPasses,\* passes of the loop between two telemetry blocks
    MaySkipReply,   \* the driver may leave a request unanswered or be late
    MaxUnanswered,  \* bound on requests the driver has yet to answer
    MaxTty          \* bound on lines the tty holds for the program

Kinds == {"C01", "ER", "BadChecksum", "Short"}

ASSUME SpeedsAssumption == Stopped \in Speeds /\ "GET" \notin Speeds
ASSUME ReplyAssumption  == ReplyKinds \subseteq Kinds /\ MaySkipReply \in BOOLEAN
ASSUME BoundAssumption  == TelemetryPasses \in Nat /\ MaxUnanswered \in Nat \ {0} /\ MaxTty \in Nat \ {0}

Main == "main"
Rx   == "rx"
Threads == {Main, Rx}
Nobody == "nobody"
GET  == "GET"                  \* the $GET*56 line of ControlUnit::Read

Timeout == "Timeout"           \* ERR_READ_TIMEOUT
ReadError == "ReadError"       \* ERR_READ_ERROR
Outcomes == Kinds \cup {Timeout, ReadError}
Good == {"C01", "ER"}          \* the outcomes for which RealRead returns 0

Line == [by : Threads, speed : Speeds \cup {GET}]
NoLine == [by |-> Nobody, speed |-> GET]
Nothing == "Nothing"

VARIABLES
    RemoteControllerActivate,
    mtx_write, mtx_read,       \* the thread that holds the mutex, or Nobody
    port_tx_buffer,            \* the line last formatted into the buffer
    port_open,                 \* port_fd refers to the open tty
    port_set,                  \* port_fd is in the set given to select()
    status,                    \* data.Status
    fresh,                     \* data.last_update is younger than 800 ms
    toTxTelemetry,             \* passes since the last telemetry block
    pc,                        \* where each thread is
    arg,                       \* the line of the call it is in, or NoLine
    outcome,                   \* what its RealRead found, or Nothing
    reopened,                  \* main: this Read is the one after a reopen
    tty,                       \* lines received and not read yet
    unanswered,                \* requests the driver has not answered
    obeyed,                    \* the command the motors execute
    stray,                     \* navigation commands sent since a take-over
    skipped                    \* some Read went on without sending a request

callVars   == <<arg, outcome>>
portVars   == <<port_open, port_set>>
driverVars == <<tty, unanswered, obeyed>>
ghostVars  == <<stray, skipped>>
loopVars   == <<toTxTelemetry, reopened>>
dataVars   == <<status, fresh>>
lockVars   == <<mtx_write, mtx_read>>
vars == <<RemoteControllerActivate, lockVars, port_tx_buffer, portVars, dataVars,
          loopVars, pc, callVars, driverVars, ghostVars>>

Locations == {"idle", "lockW", "format", "send", "lockR", "select", "publish",
              "status", "telemetry", "read", "tryW", "readDone", "close", "open"}

TypeOK ==
    /\ RemoteControllerActivate \in BOOLEAN
    /\ mtx_write \in Threads \cup {Nobody}
    /\ mtx_read \in Threads \cup {Nobody}
    /\ port_tx_buffer \in Line
    /\ port_open \in BOOLEAN /\ port_set \in BOOLEAN
    /\ status \in Outcomes /\ fresh \in BOOLEAN
    /\ toTxTelemetry \in 1..TelemetryPasses + 2
    /\ pc \in [Threads -> Locations]
    /\ arg \in [Threads -> Line \cup {NoLine}]
    /\ outcome \in [Threads -> Outcomes \cup {Nothing}]
    /\ reopened \in BOOLEAN
    /\ tty \in Seq(Kinds)
    /\ unanswered \in 0..MaxUnanswered
    /\ obeyed \in [by : Threads, speed : Speeds]
    /\ stray \in Nat
    /\ skipped \in BOOLEAN

\* run() opened the port and wrote (0, 0) before either thread is in its loop;
\* it prints the result of that first exchange and goes on whatever it is.
FirstOutcomes == ReplyKinds \cup (IF MaySkipReply THEN {Timeout} ELSE {})

Init ==
    /\ RemoteControllerActivate = FALSE
    /\ mtx_write = Nobody /\ mtx_read = Nobody
    /\ port_tx_buffer = [by |-> Main, speed |-> Stopped]
    /\ status \in FirstOutcomes
    /\ fresh \in BOOLEAN /\ (fresh => status = "C01")
    /\ port_open = TRUE
    /\ port_set = (status # Timeout)
    /\ toTxTelemetry = TelemetryPasses + 2
    /\ pc = [t \in Threads |-> "idle"]
    /\ arg = [t \in Threads |-> NoLine]
    /\ outcome = [t \in Threads |-> Nothing]
    /\ reopened = FALSE
    /\ tty = <<>>
    /\ unanswered \in 0..1 /\ (unanswered = 1 => status = Timeout)
    /\ obeyed = [by |-> Main, speed |-> Stopped]
    /\ stray = 0 /\ skipped = FALSE

Goto(t, from, to) == pc[t] = from /\ pc' = [pc EXCEPT ![t] = to]

Call(t, speed) == arg' = [arg EXCEPT ![t] = [by |-> t, speed |-> speed]]

\* The call returns and its locals are gone.
EndCall(t) == /\ arg' = [arg EXCEPT ![t] = NoLine]
              /\ outcome' = [outcome EXCEPT ![t] = Nothing]

-----------------------------------------------------------------------------
(* ControlUnit::Write, RemoteControllerWrite and DirectWrite               *)

\* Fault: Write sends without testing the flag.
WriteUnarbitrated(s) ==
    /\ Goto(Main, "idle", "lockW")
    /\ Call(Main, s)
    /\ UNCHANGED <<RemoteControllerActivate, lockVars, port_tx_buffer, portVars,
                   dataVars, loopVars, outcome, driverVars, ghostVars>>

\* Main: Navigator::Move calls driver->Write(left, right), which tests the
\* flag and then goes on to DirectWrite.
Write(s) ==
    /\ Goto(Main, "idle", IF RemoteControllerActivate THEN "telemetry" ELSE "lockW")
    /\ IF RemoteControllerActivate
       THEN UNCHANGED callVars
       ELSE /\ Call(Main, s)
            /\ UNCHANGED outcome
    /\ UNCHANGED <<RemoteControllerActivate, lockVars, port_tx_buffer, portVars,
                   dataVars, loopVars, driverVars, ghostVars>>

\* Main: a pass of the loop that does not move the robot.
PassWithoutMove ==
    /\ Goto(Main, "idle", "telemetry")
    /\ UNCHANGED <<RemoteControllerActivate, lockVars, port_tx_buffer, portVars,
                   dataVars, loopVars, callVars, driverVars, ghostVars>>

\* Fault: the flag is left to the main loop to set.
RemoteWriteUnannounced(s) ==
    /\ Goto(Rx, "idle", "lockW")
    /\ Call(Rx, s)
    /\ UNCHANGED <<RemoteControllerActivate, lockVars, port_tx_buffer, portVars,
                   dataVars, loopVars, outcome, driverVars, ghostVars>>

\* Rx: a frame with Value = 1 arrived.
RemoteControllerWrite(s) ==
    /\ Goto(Rx, "idle", "lockW")
    /\ RemoteControllerActivate' = TRUE
    /\ Call(Rx, s)
    /\ UNCHANGED <<lockVars, port_tx_buffer, portVars, dataVars, loopVars,
                   outcome, driverVars, ghostVars>>

\* Rx: a frame with any other Value arrived.
RemoteRelease ==
    /\ pc[Rx] = "idle"
    /\ RemoteControllerActivate' = FALSE
    /\ stray' = 0
    /\ UNCHANGED <<lockVars, port_tx_buffer, portVars, dataVars, loopVars, pc,
                   callVars, driverVars, skipped>>

\* Fault: DirectWrite does not wait for mtx_write.
LockWriteIgnored(t) ==
    /\ Goto(t, "lockW", "format")
    /\ mtx_write' = t
    /\ UNCHANGED <<RemoteControllerActivate, mtx_read, port_tx_buffer, portVars,
                   dataVars, loopVars, callVars, driverVars, ghostVars>>

LockWrite(t) ==
    /\ Goto(t, "lockW", "format")
    /\ mtx_write = Nobody
    /\ mtx_write' = t
    /\ UNCHANGED <<RemoteControllerActivate, mtx_read, port_tx_buffer, portVars,
                   dataVars, loopVars, callVars, driverVars, ghostVars>>

Format(t) ==
    /\ Goto(t, "format", "send")
    /\ port_tx_buffer' = arg[t]
    /\ UNCHANGED <<RemoteControllerActivate, lockVars, portVars, dataVars,
                   loopVars, callVars, driverVars, ghostVars>>

\* write() of the shared buffer, then unlock.  A line written while the port
\* is closed is lost, and so is the answer to a line beyond MaxUnanswered.
Send(t) ==
    /\ Goto(t, "send", "lockR")
    /\ mtx_write' = Nobody
    /\ IF port_open
       THEN /\ unanswered' = IF unanswered < MaxUnanswered THEN unanswered + 1
                             ELSE unanswered
            /\ obeyed' = IF port_tx_buffer.speed = GET THEN obeyed ELSE port_tx_buffer
            /\ stray' = IF port_tx_buffer \in [by : {Main}, speed : Speeds]
                           /\ RemoteControllerActivate
                        THEN stray + 1 ELSE stray
       ELSE UNCHANGED <<unanswered, obeyed, stray>>
    /\ UNCHANGED <<RemoteControllerActivate, mtx_read, port_tx_buffer, portVars,
                   dataVars, loopVars, callVars, tty, skipped>>

\* DirectWrite stores the result once more, with neither mutex held.
SetStatus(t) ==
    /\ Goto(t, "status", IF t = Main THEN "telemetry" ELSE "idle")
    /\ status' = outcome[t]
    /\ EndCall(t)
    /\ UNCHANGED <<RemoteControllerActivate, lockVars, port_tx_buffer, portVars,
                   fresh, loopVars, driverVars, ghostVars>>

-----------------------------------------------------------------------------
(* ControlUnit::RealRead                                                   *)

LockRead(t) ==
    /\ Goto(t, "lockR", "select")
    /\ mtx_read = Nobody
    /\ mtx_read' = t
    /\ UNCHANGED <<RemoteControllerActivate, mtx_write, port_tx_buffer, portVars,
                   dataVars, loopVars, callVars, driverVars, ghostVars>>

Found(t, o) == outcome' = [outcome EXCEPT ![t] = o]

\* Fault: a port in raw mode, whose read() takes all there is.
SelectReadyRaw(t) ==
    /\ Goto(t, "select", "publish")
    /\ port_set /\ tty # <<>>
    /\ Found(t, Head(tty))
    /\ tty' = <<>>
    /\ UNCHANGED <<RemoteControllerActivate, lockVars, port_tx_buffer, portVars,
                   dataVars, loopVars, arg, unanswered, obeyed, ghostVars>>

\* select() reports the port ready and read() takes one line.
SelectReady(t) ==
    /\ Goto(t, "select", "publish")
    /\ port_set /\ tty # <<>>
    /\ Found(t, Head(tty))
    /\ tty' = Tail(tty)
    /\ UNCHANGED <<RemoteControllerActivate, lockVars, port_tx_buffer, portVars,
                   dataVars, loopVars, arg, unanswered, obeyed, ghostVars>>

\* The other thread has closed the port: select() fails, or the read() after
\* it does and RealRead takes the missing bytes for a short frame.
SelectClosed(t) ==
    /\ Goto(t, "select", "publish")
    /\ port_set /\ ~port_open
    /\ \E o \in {ReadError, "Short"} : Found(t, o)
    /\ UNCHANGED <<RemoteControllerActivate, lockVars, port_tx_buffer, portVars,
                   dataVars, loopVars, arg, driverVars, ghostVars>>

\* select() times out and leaves the set it was given empty; nothing but Open
\* fills it again.
SelectTimeout(t) ==
    /\ Goto(t, "select", "publish")
    /\ ~port_set \/ tty = <<>>
    /\ MaySkipReply \/ unanswered = 0
    /\ Found(t, Timeout)
    /\ port_set' = FALSE
    /\ UNCHANGED <<RemoteControllerActivate, lockVars, port_tx_buffer, port_open,
                   dataVars, loopVars, arg, driverVars, ghostVars>>

\* Fault: an early return on a time-out keeps mtx_read.
PublishEarlyReturn(t) ==
    /\ Goto(t, "publish", IF arg[t].speed = GET THEN "readDone" ELSE "status")
    /\ status' = outcome[t]
    /\ fresh' = (fresh \/ outcome[t] = "C01")
    /\ mtx_read' = IF outcome[t] = Timeout THEN t ELSE Nobody
    /\ UNCHANGED <<RemoteControllerActivate, mtx_write, port_tx_buffer, portVars,
                   loopVars, callVars, driverVars, ghostVars>>

\* data is filled in and mtx_read released; only a $C01 line is an update.
Publish(t) ==
    /\ Goto(t, "publish", IF arg[t].speed = GET THEN "readDone" ELSE "status")
    /\ status' = outcome[t]
    /\ fresh' = (fresh \/ outcome[t] = "C01")
    /\ mtx_read' = Nobody
    /\ UNCHANGED <<RemoteControllerActivate, mtx_write, port_tx_buffer, portVars,
                   loopVars, callVars, driverVars, ghostVars>>

-----------------------------------------------------------------------------
(* The telemetry block of the main loop and ControlUnit::Read              *)

Telemetry ==
    /\ Goto(Main, "telemetry", IF toTxTelemetry > TelemetryPasses THEN "read" ELSE "idle")
    /\ toTxTelemetry' = IF toTxTelemetry > TelemetryPasses THEN 1 ELSE toTxTelemetry + 1
    /\ reopened' = FALSE
    /\ UNCHANGED <<RemoteControllerActivate, lockVars, port_tx_buffer, portVars,
                   dataVars, callVars, driverVars, ghostVars>>

\* Fault: Read waits for an answer it never asks for.
ReadWithoutRequest ==
    /\ Goto(Main, "read", IF fresh THEN "idle" ELSE "lockR")
    /\ Call(Main, GET)
    /\ UNCHANGED <<RemoteControllerActivate, lockVars, port_tx_buffer, portVars,
                   dataVars, loopVars, outcome, driverVars, ghostVars>>

\* A driver heard less than 800 ms ago is not asked again.
Read ==
    /\ Goto(Main, "read", IF fresh THEN "idle" ELSE "tryW")
    /\ IF fresh THEN UNCHANGED arg ELSE Call(Main, GET)
    /\ UNCHANGED <<RemoteControllerActivate, lockVars, port_tx_buffer, portVars,
                   dataVars, loopVars, outcome, driverVars, ghostVars>>

\* mtx_write.try_lock(): Read waits for an answer whether or not it could
\* send its request.
TryLockWrite ==
    /\ Goto(Main, "tryW", IF mtx_write = Nobody THEN "format" ELSE "lockR")
    /\ mtx_write' = IF mtx_write = Nobody THEN Main ELSE mtx_write
    /\ skipped' = (skipped \/ mtx_write # Nobody)
    /\ UNCHANGED <<RemoteControllerActivate, mtx_read, port_tx_buffer, portVars,
                   dataVars, loopVars, callVars, driverVars, stray>>

ReadDone ==
    /\ Goto(Main, "readDone",
            IF outcome[Main] \in Good \/ reopened THEN "idle" ELSE "close")
    /\ EndCall(Main)
    /\ UNCHANGED <<RemoteControllerActivate, lockVars, port_tx_buffer, portVars,
                   dataVars, loopVars, driverVars, ghostVars>>

\* Neither mutex is taken; closing the tty discards what it had received.
Close ==
    /\ Goto(Main, "close", "open")
    /\ port_open' = FALSE
    /\ tty' = <<>>
    /\ UNCHANGED <<RemoteControllerActivate, lockVars, port_tx_buffer, port_set,
                   dataVars, loopVars, callVars, unanswered, obeyed, ghostVars>>

\* Fault: a reopen that does not add the port to port_set again.
OpenDeaf ==
    /\ Goto(Main, "open", "read")
    /\ reopened' = TRUE
    /\ port_open' = TRUE
    /\ UNCHANGED <<RemoteControllerActivate, lockVars, port_tx_buffer, port_set,
                   dataVars, toTxTelemetry, callVars, driverVars, ghostVars>>

OpenOk ==
    /\ Goto(Main, "open", "read")
    /\ reopened' = TRUE
    /\ port_open' = TRUE
    /\ port_set' = TRUE
    /\ UNCHANGED <<RemoteControllerActivate, lockVars, port_tx_buffer, dataVars,
                   toTxTelemetry, callVars, driverVars, ghostVars>>

\* open() failed: run() ignores the result and reads all the same.
OpenFails ==
    /\ Goto(Main, "open", "read")
    /\ reopened' = TRUE
    /\ UNCHANGED <<RemoteControllerActivate, lockVars, port_tx_buffer, portVars,
                   dataVars, toTxTelemetry, callVars, driverVars, ghostVars>>

\* open() succeeded and the set-up did not: the port has the settings it was left
\* with, and port_set may hold its number, the one it had before.
OpenUnset ==
    /\ Goto(Main, "open", "read")
    /\ reopened' = TRUE
    /\ port_open' = TRUE
    /\ UNCHANGED <<RemoteControllerActivate, lockVars, port_tx_buffer, port_set,
                   dataVars, toTxTelemetry, callVars, driverVars, ghostVars>>

-----------------------------------------------------------------------------
(* The environment                                                         *)

\* The driver answers its oldest request.  A full tty drops the line.
DriverAnswers ==
    /\ unanswered > 0
    /\ unanswered' = unanswered - 1
    /\ \E k \in ReplyKinds :
          tty' = IF port_open /\ Len(tty) < MaxTty THEN Append(tty, k) ELSE tty
    /\ UNCHANGED <<RemoteControllerActivate, lockVars, port_tx_buffer, portVars,
                   dataVars, loopVars, pc, callVars, obeyed, ghostVars>>

DriverIgnores ==
    /\ MaySkipReply
    /\ unanswered > 0
    /\ unanswered' = unanswered - 1
    /\ UNCHANGED <<RemoteControllerActivate, lockVars, port_tx_buffer, portVars,
                   dataVars, loopVars, pc, callVars, tty, obeyed, ghostVars>>

\* 800 ms pass since the last update.
DataGrowsOld ==
    /\ fresh
    /\ fresh' = FALSE
    /\ UNCHANGED <<RemoteControllerActivate, lockVars, port_tx_buffer, portVars,
                   status, loopVars, pc, callVars, driverVars, ghostVars>>

-----------------------------------------------------------------------------
Transmit(t) == LockWrite(t) \/ Format(t) \/ Send(t) \/ SetStatus(t)
RealRead(t) == \/ LockRead(t) \/ SelectReady(t) \/ SelectClosed(t)
               \/ SelectTimeout(t) \/ Publish(t)
MainStep == \/ \E s \in Speeds : Write(s)
            \/ PassWithoutMove \/ Telemetry \/ Read \/ TryLockWrite
            \/ ReadDone \/ Close \/ OpenOk \/ OpenFails \/ OpenUnset
RxStep == (\E s \in Speeds : RemoteControllerWrite(s)) \/ RemoteRelease
Environment == DriverAnswers \/ DriverIgnores \/ DataGrowsOld

Next == \/ MainStep \/ RxStep \/ Environment
        \/ \E t \in Threads : Transmit(t) \/ RealRead(t)

Spec == Init /\ [][Next]_vars

-----------------------------------------------------------------------------
(* Safety                                                                  *)

\* The two threads format their lines into one buffer: what write() puts on
\* the line is what the calling thread formatted, never the other's command
\* or a mixture (DirectWrite and Read).
OwnLineSent ==
    \A t \in Threads : pc[t] = "send" => port_tx_buffer = arg[t]

\* Write tests the flag and sends later, so that a navigation command can
\* still follow a take-over by the remote controller: one, and no second one
\* until the operator gives the robot back.
OneStrayCommand == stray <= 1

\* A driver that answers every request is never timed out on, as long as no
\* Read went on without its request: every thread on its way to read() has a
\* line that is there or will come, whoever takes whose.
Readers == {t \in Threads : pc[t] \in {"lockR", "select"}}
AnswersForReaders ==
    ~MaySkipReply /\ ~skipped => Cardinality(Readers) <= unanswered + Len(tty)
PromptDriverHeard ==
    ~MaySkipReply /\ ~skipped => port_set /\ status # Timeout

-----------------------------------------------------------------------------
(* The invariant from which the safety properties above are proved          *)

\* A mutex is held exactly by the thread that is between its lock and unlock.
MutexesHeld ==
    \A t \in Threads :
        /\ mtx_write = t <=> pc[t] \in {"format", "send"}
        /\ mtx_read = t <=> pc[t] \in {"select", "publish"}

\* A thread in a call carries its own line and, once it has read, an outcome.
CallsCarried ==
    /\ \A t \in Threads :
          /\ pc[t] \in {"lockW", "format", "send", "lockR", "select", "publish", "status"}
                => arg[t] \in Line /\ arg[t].by = t
          /\ pc[t] \in {"publish", "status", "readDone"} => outcome[t] \in Outcomes
    /\ pc[Main] = "tryW" => arg[Main] = [by |-> Main, speed |-> GET]
    /\ pc[Rx] # "idle" => arg[Rx].speed \in Speeds

\* The locations a thread can be in; the remote thread's call is under its flag.
ThreadPlaces ==
    /\ pc[Rx] \in {"idle", "lockW", "format", "send", "lockR", "select", "publish", "status"}
    /\ pc[Rx] # "idle" => RemoteControllerActivate

\* The main loop is between Write's test of the flag and its write().
Navigating == pc[Main] \in {"lockW", "format", "send"} /\ arg[Main].speed # GET

\* The stray command of a take-over is the one that was under way then.
StrayUsesLease ==
    /\ ~RemoteControllerActivate => stray = 0
    /\ stray > 0 => stray = 1 /\ ~Navigating

LinkInv == /\ TypeOK /\ MutexesHeld /\ CallsCarried /\ ThreadPlaces
           /\ StrayUsesLease /\ OwnLineSent

\* A driver all of whose answers are good, with room for those to two threads.
GoodDriver == ReplyKinds \subseteq Good /\ MaxUnanswered >= 2 /\ MaxTty >= 2

\* With a driver that answers every request, and before a Read has gone on without
\* its own, there is one answer for each thread that waits, and none is bad, so
\* that the port is never closed.
WaitsFor(t) == IF pc[t] \in {"lockR", "select"} THEN 1 ELSE 0
PromptInv ==
    ~MaySkipReply /\ ~skipped =>
        /\ port_open /\ port_set /\ status \in Good
        /\ unanswered + Len(tty) = WaitsFor(Main) + WaitsFor(Rx)
        /\ tty \in Seq(Good)
        /\ \A t \in Threads : pc[t] \in {"publish", "status", "readDone"} => outcome[t] \in Good
        /\ pc[Main] \notin {"close", "open"}

-----------------------------------------------------------------------------
(* Liveness.  The kernel runs every thread, and a mutex that is released     *)
(* again and again is taken by the thread that waits for it (the remote      *)
(* thread blocks in recv() between two frames): strong fairness of the steps *)
(* a thread takes by itself.  The device file opens in the end, and time     *)
(* passes.  Nothing obliges the operator to send frames, the driver to       *)
(* answer or the robot to move.                                              *)

MainThread == MainStep \/ Transmit(Main) \/ RealRead(Main)
RxThread   == Transmit(Rx) \/ RealRead(Rx)

Fairness ==
    /\ SF_vars(MainThread)
    /\ SF_vars(RxThread)
    /\ SF_vars(OpenOk)
    /\ WF_vars(DataGrowsOld)

FairSpec == Spec /\ Fairness

\* A port that select() no longer watches is reopened: data grows old, the
\* telemetry block reads, the read times out and run() reopens the port.
HearsAgain == ~port_set ~> port_set

\* A frame of the remote controller is sent and its thread is back in recv().
RemoteServed == (pc[Rx] = "lockW") ~> (pc[Rx] = "idle")

-----------------------------------------------------------------------------
(* The link implements what the drive promises to its two masters.          *)

Lease == INSTANCE DriveLease WITH
            active <- RemoteControllerActivate,
            lease  <- Navigating,
            last   <- obeyed

ImplementsLease == Lease!Spec
=============================================================================
