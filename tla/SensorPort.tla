---------------------------- MODULE SensorPort ----------------------------
(***************************************************************************)
(* A serial port that the main loop polls: the power unit's, read for every *)
(* telemetry frame and once more after it was reopened, or the line         *)
(* sensor's, read in every pass in line mode.  The classes share their Open *)
(* and differ in Read; a behaviour is that of one of them.                  *)
(*                                                                          *)
(* A line in the port is the answer to a request, known by its number, or   *)
(* to a command of POWER; a comment; or one that is cut or damaged.  Time   *)
(* is in ticks, Budget of which are the two seconds of port_timeout.        *)
(***************************************************************************)
EXTENDS Integers, Sequences

CONSTANTS
    Requests,        \* bound: requests are numbered 1..Requests in turn
    MaxOwed,         \* bound: answers the unit owes, and lines in the port
    Budget,          \* port_timeout after Open
    InTime           \* ticks in which a unit that is fit answers

ASSUME PortAssumption ==
    /\ Requests \in Nat \ {0} /\ MaxOwed \in Nat \ {0}
    /\ Budget \in Nat /\ InTime \in Nat /\ InTime < Budget

Units == {"PowerUnit", "LineNavigator"}
Ids == 1..Requests
Poke == 0                       \* the answer to a command of POWER
Comment == -1
Broken == -2
Lines == Ids \cup {Poke, Comment, Broken}

VARIABLES
    unit,            \* which of the two it is
    (* main loop *)
    main,            \* where it is: at the call of Read, in it, or reopening
    retried,         \* a reading that fails now is not followed by a reopening
    request,         \* the last request
    status,          \* "ok" or "failed" for the last reading, "none" in one
    answer,          \* the line it filled data from
    (* the port *)
    port_fd,         \* "open", "closed" with the old number kept, or "none"
    port_set,        \* what select() waits for: "port", "closed" or "empty"
    port_timeout,    \* ticks left
    (* the unit, external *)
    owed,            \* requests it has not answered
    tty,             \* lines that have arrived
    waited,          \* ticks this reading has waited
    fit,             \* from now on it answers, and in time, and opens
    (* history *)
    failures,        \* readings in a row that failed, two at most counted
    fault,           \* since the last good one the unit or the port failed
    adrift           \* since Open there is an answer more than requests

mainVars == <<main, retried, request, status, answer>>
portVars == <<port_fd, port_set, port_timeout>>
unitVars == <<owed, tty, fit>>
vars == <<unit, mainVars, portVars, unitVars, waited, failures, fault, adrift>>

TypeOK ==
    /\ unit \in Units
    /\ main \in {"pass", "select", "read", "close", "open"} /\ retried \in BOOLEAN
    /\ request \in Ids /\ answer \in Ids \cup {Poke}
    /\ status \in {"none", "ok", "failed"}
    /\ port_fd \in {"open", "closed", "none"} /\ port_set \in {"port", "closed", "empty"}
    /\ port_timeout \in 0..Budget
    /\ owed \in Seq(Ids \cup {Poke}) /\ tty \in Seq(Lines)
    /\ waited \in 0..InTime /\ fit \in BOOLEAN
    /\ failures \in 0..2 /\ fault \in BOOLEAN /\ adrift \in BOOLEAN

\* The port has been opened.  The power unit's first reading, before the loop,
\* is not repeated either.
Init ==
    /\ unit \in Units
    /\ main = "pass" /\ retried = (unit = "PowerUnit")
    /\ request = Requests /\ status = "none" /\ answer = Poke
    /\ port_fd = "open" /\ port_set = "port" /\ port_timeout = Budget
    /\ owed = <<>> /\ tty = <<>> /\ waited = 0 /\ fit = FALSE
    /\ failures = 0 /\ fault = FALSE /\ adrift = FALSE

-----------------------------------------------------------------------------
(* Read                                                                    *)

\* The unit is asked; it does not answer a request more than it can keep, nor
\* one that is written to no port.
Write ==
    /\ main = "pass" /\ main' = "select"
    /\ request' = (request % Requests) + 1
    /\ status' = "none" /\ answer' = Poke
    /\ LET asked == port_fd = "open" /\ Len(owed) < MaxOwed
       IN  /\ owed' = IF asked THEN Append(owed, request') ELSE owed
           /\ fault' = (fault \/ ~asked)
    /\ UNCHANGED <<unit, retried, portVars, tty, waited, fit, failures, adrift>>

\* Time passes in select(), which takes it out of port_timeout.
Wait ==
    /\ main = "select" /\ port_set = "port"
    /\ tty = <<>> /\ port_timeout > 0
    /\ fit => waited < InTime \/ owed = <<>>
    /\ port_timeout' = port_timeout - 1
    /\ waited' = IF waited < InTime THEN waited + 1 ELSE waited
    /\ fault' = (fault \/ (waited = InTime /\ owed # <<>>))
    /\ UNCHANGED <<unit, mainVars, port_fd, port_set, unitVars, failures, adrift>>

\* Fault: the port is not reopened.
FailGoesOn ==
    /\ main' = "pass" /\ retried' = FALSE
    /\ status' = "failed"
    /\ failures' = IF failures = 2 THEN 2 ELSE failures + 1
    /\ waited' = 0

\* How a reading that fails goes on: run() and GotoByLine reopen the port, but
\* not after a second reading.
Fail ==
    /\ main' = IF retried THEN "pass" ELSE "close"
    /\ retried' = FALSE
    /\ status' = "failed"
    /\ failures' = IF failures = 2 THEN 2 ELSE failures + 1
    /\ waited' = 0

\* There is something to read.
SelectReady ==
    /\ main = "select" /\ main' = "read"
    /\ port_set = "port" /\ tty # <<>>
    /\ waited' = 0
    /\ UNCHANGED <<unit, retried, request, status, answer, portVars, unitVars, failures,
                   fault, adrift>>

\* Nothing came; select() leaves the set empty.
SelectTimeout ==
    /\ main = "select"
    /\ port_set = "empty" \/ (port_set = "port" /\ tty = <<>> /\ port_timeout = 0)
    /\ port_set' = "empty" /\ port_timeout' = 0
    /\ Fail
    /\ UNCHANGED <<unit, request, answer, port_fd, unitVars, fault, adrift>>

\* The set holds the number of a port that was closed, and another thread may
\* have opened a file with that number since: an error, a time-out, or a
\* read() of no port.
SelectClosed ==
    /\ main = "select" /\ port_set = "closed"
    /\ \/ UNCHANGED <<port_set, port_timeout>>
       \/ port_set' = "empty" /\ port_timeout' = 0
    /\ Fail
    /\ UNCHANGED <<unit, request, answer, port_fd, unitVars, fault, adrift>>

\* The line that is read; read() waits for it when there is none.
Line(line) == main = "read" /\ tty # <<>> /\ Head(tty) = line /\ tty' = Tail(tty)

\* An answer whose checksum is right fills data.
ReadAnswer ==
    /\ \E line \in Ids \cup {Poke} : Line(line) /\ answer' = line
    /\ main' = "pass" /\ status' = "ok"
    /\ retried' = FALSE /\ failures' = 0 /\ fault' = FALSE
    /\ UNCHANGED <<unit, request, portVars, owed, waited, fit, adrift>>

\* A line that is too short or whose checksum is wrong is an error.
ReadBroken ==
    /\ Line(Broken)
    /\ Fail
    /\ UNCHANGED <<unit, request, answer, portVars, owed, fit, fault, adrift>>

\* The power unit skips a comment and reads again, without select().
PowerUnitComment ==
    /\ unit = "PowerUnit"
    /\ Line(Comment)
    /\ UNCHANGED <<unit, mainVars, portVars, owed, waited, fit, failures, fault, adrift>>

\* To the line sensor a comment is a line like any other.
LineComment ==
    /\ unit = "LineNavigator"
    /\ Line(Comment)
    /\ Fail
    /\ UNCHANGED <<unit, request, answer, portVars, owed, fit, fault, adrift>>

-----------------------------------------------------------------------------
(* Reopening                                                               *)

Close ==
    /\ main = "close" /\ main' = "open"
    /\ port_fd' = IF port_fd = "open" THEN "closed" ELSE port_fd
    /\ port_set' = IF port_set = "port" THEN "closed" ELSE port_set
    /\ UNCHANGED <<unit, retried, request, status, answer, port_timeout, unitVars, waited,
                   failures, fault, adrift>>

\* The power unit is read a second time at once; the pass in line mode ends.
Opened == main = "open" /\ main' = "pass" /\ retried' = (unit = "PowerUnit")

\* Fault: what has arrived is not flushed.
OpenUnflushed ==
    /\ Opened
    /\ port_fd' = "open" /\ port_set' = "port" /\ port_timeout' = Budget
    /\ adrift' = (owed # <<>>)
    /\ UNCHANGED <<unit, request, status, answer, unitVars, waited, failures, fault>>

\* Fault: the time for select() is set at the first Open only.
OpenTimeoutKept ==
    /\ Opened
    /\ port_fd' = "open" /\ port_set' = "port" /\ UNCHANGED port_timeout
    /\ tty' = <<>> /\ adrift' = (owed # <<>>)
    /\ UNCHANGED <<unit, request, status, answer, owed, waited, fit, failures, fault>>

\* What has arrived is flushed, but not what is to come.
OpenOk ==
    /\ Opened
    /\ port_fd' = "open" /\ port_set' = "port" /\ port_timeout' = Budget
    /\ tty' = <<>> /\ adrift' = (owed # <<>>)
    /\ UNCHANGED <<unit, request, status, answer, owed, waited, fit, failures, fault>>

\* Nothing is set, neither the time nor the set.
OpenFails ==
    /\ Opened /\ ~fit
    /\ port_fd' = "none" /\ fault' = TRUE
    /\ UNCHANGED <<unit, request, status, answer, port_set, port_timeout, unitVars, waited,
                   failures, adrift>>

\* It opens but cannot be set up: the set may hold its number, the one the port
\* had before.
OpenUnset ==
    /\ Opened /\ ~fit
    /\ port_fd' = "open" /\ fault' = TRUE
    /\ port_set' \in IF port_set = "closed" THEN {"closed", "port"} ELSE {port_set}
    /\ tty' \in {<<>>, tty} /\ adrift' = (tty' \o owed # <<>>)
    /\ UNCHANGED <<unit, request, status, answer, port_timeout, owed, waited, fit, failures>>

\* PowerUnit::Open and LineNavigator::Open, which are the same.
PowerUnitOpen == unit = "PowerUnit" /\ (OpenOk \/ OpenFails \/ OpenUnset)
LineOpen == unit = "LineNavigator" /\ (OpenOk \/ OpenFails \/ OpenUnset)

ReadLine == ReadAnswer \/ ReadBroken
Select == Write \/ Wait \/ SelectReady \/ SelectTimeout \/ SelectClosed
PowerUnitRead == unit = "PowerUnit" /\ (Select \/ ReadLine \/ PowerUnitComment)
LineRead == unit = "LineNavigator" /\ (Select \/ ReadLine \/ LineComment)

MainLoop == PowerUnitRead \/ LineRead \/ Close \/ PowerUnitOpen \/ LineOpen

-----------------------------------------------------------------------------
(* The command server and the unit                                         *)

\* POWER: the client's thread writes to the power unit's port as it is.
ExecuteCommand_POWER ==
    /\ unit = "PowerUnit" /\ port_fd = "open"
    /\ Len(owed) < MaxOwed
    /\ owed' = Append(owed, Poke) /\ adrift' = TRUE
    /\ UNCHANGED <<unit, mainVars, portVars, tty, waited, fit, failures, fault>>

\* It answers, the power unit after a comment if it has one.
UnitAnswers ==
    /\ owed # <<>> /\ Len(tty) < MaxOwed
    /\ owed' = Tail(owed)
    /\ \/ tty' = Append(tty, Head(owed))
       \/ unit = "PowerUnit" /\ tty' = tty \o <<Comment, Head(owed)>>
    /\ UNCHANGED <<unit, mainVars, portVars, waited, fit, failures, fault, adrift>>

\* It does not, or not with a good answer.
UnitFails ==
    /\ owed # <<>> /\ Len(tty) < MaxOwed /\ ~fit
    /\ owed' = Tail(owed)
    /\ \E line \in {<<>>, <<Broken>>, <<Comment>>} : tty' = tty \o line
    /\ fault' = TRUE
    /\ UNCHANGED <<unit, mainVars, portVars, waited, fit, failures, adrift>>

UnitRecovers ==
    /\ ~fit /\ fit' = TRUE
    /\ UNCHANGED <<unit, mainVars, portVars, owed, tty, waited, failures, fault, adrift>>

Next == MainLoop \/ ExecuteCommand_POWER \/ UnitAnswers \/ UnitFails \/ UnitRecovers

Spec == Init /\ [][Next]_vars

\* The main loop goes on when nothing holds it, and a unit that is fit answers.
FairSpec == Spec /\ WF_vars(MainLoop) /\ WF_vars(UnitAnswers)

-----------------------------------------------------------------------------
(* Properties                                                              *)

\* read() waits, without a time-out, for a line that nobody has been asked for.
Held == main = "read" /\ tty = <<>> /\ owed = <<>>

\* A reading is the answer to its own request: reopening the port puts requests
\* and answers in step again, unless one was under way then, and only POWER can
\* put them out of step afterwards (PowerUnit.cpp:73-88, 127-147,
\* LineNavigator.cpp:87-101, MasterApp.cpp:533).
OwnReading == (main = "pass" /\ status = "ok" /\ ~adrift) => answer = request

\* Only a fault of the unit or of the port makes two readings in a row fail, or
\* holds the loop in read(): that select() uses up port_timeout, and leaves
\* port_set empty, costs one reading until the port is reopened, which in line
\* mode is a pass without a motor command (PowerUnit.cpp:81-85, 131,
\* LineNavigator.cpp:95-99, 138, Solarbot.cpp:966-974, Navigator.cpp:655-666).
OnlyFaultsAddUp == (failures = 2 \/ Held) => fault

\* Once the unit answers again and the port opens, it is read again, whatever
\* was left in the port, the set and the time-out; unless the loop is held in
\* read() by a comment whose answer was lost (Solarbot.cpp:966-974,
\* Navigator.cpp:655-666, PowerUnit.cpp:143-145).
UnitReadAgain == fit ~> (status = "ok" \/ Held)

-----------------------------------------------------------------------------
(* The inductive invariant of MainLoopProofs                               *)

Answers == Ids \cup {Poke}

\* What the place in the loop says of the set, the result and the wait.
Places ==
    /\ main = "read" => port_set = "port"
    /\ main = "open" => port_set # "port"
    /\ main \in {"select", "read"} => status = "none"
    /\ main \in {"close", "open"} => status = "failed"
    /\ main # "select" => waited = 0

\* Requests and answers in step: nothing is left from before a request, and all
\* that comes after it is comments and the one answer.
InStep ==
    (~adrift /\ port_set = "port") =>
        /\ main = "pass" => owed = <<>> /\ tty = <<>>
        /\ main \in {"select", "read"} =>
              /\ owed # <<>> => Len(owed) = 1 /\ owed[1] = request /\ tty = <<>>
              /\ \A i \in 1..Len(tty) :
                    \/ tty[i] = Comment /\ (unit = "PowerUnit" \/ i = Len(tty))
                    \/ tty[i] \in {request, Broken} /\ i = Len(tty)

\* Without a fault an answer is under way to a reading.
AnswerComes ==
    (~fault /\ main \in {"select", "read"}) =>
        owed # <<>> \/ (tty # <<>> /\ tty[Len(tty)] \in Answers)

\* The port is as Open leaves it, less the wait, and holds nothing bad.
Fresh ==
    /\ port_set = "port"
    /\ main \in {"pass", "select"} => port_timeout = Budget - waited
    /\ \A i \in 1..Len(tty) : tty[i] \in Answers \/ (tty[i] = Comment /\ unit = "PowerUnit")

\* So it is in a reading that is not repeated, and in one after a failed one,
\* unless there was a fault.
FreshAgain ==
    ((retried \/ failures = 1) /\ ~fault /\ main \in {"pass", "select", "read"}) => Fresh

PortInv ==
    /\ TypeOK /\ Places
    /\ InStep /\ OwnReading
    /\ AnswerComes /\ FreshAgain /\ OnlyFaultsAddUp
=============================================================================
