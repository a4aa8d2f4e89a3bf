# Solarbot: formal model of the robot's control program

TLA+ modules, TLC configurations and TLAPS proofs for the program in
`src/solarbot`, which drives an agricultural robot: it reads two GPS receivers, a
head with a compass, a power unit and cameras, follows a route of waypoints, a
crop line or the image of a camera, and takes commands from a remote controller
and over the network. The modules are written from the code; comments in the
code are quoted where the code does something else.

## 1. The system

The program is one process with a main loop (`Solarbot::run`) and a handful of
threads. State shared between threads is almost never under a lock.

| Part | State it keeps | Operations | Hard behaviour |
|---|---|---|---|
| Motor driver link (`ControlUnit.cpp`) | port, `port_set` of select(), tx and rx buffers, two mutexes, `data`, `RemoteControllerActivate` | Open, Close, Write, RemoteControllerWrite, Read, RealRead | used by two threads; answers not tied to requests; a time-out empties the set |
| Remote controller (`Solarbot.cpp:1429`) | UDP socket | a frame drives, or gives the robot back | takes over in the middle of a navigation command |
| Navigator (`Navigator.cpp`) | waypoint vector, size, index, `finding_path`, `LoopNavigate`, `Mode`, `DoNotMove` | LoadWaypoints, GotoNextWaypoint, FindClosestPathPoint, Move, GotoNextCam, GotoByLine | route replaced while it is followed |
| Main loop (`Solarbot.cpp:748`) | `navigating`, location, headings, obstacle clocks, telemetry counter | one pass: receivers, head, cameras, obstacles, navigation, telemetry | reads everything the other threads write |
| Command server (`MasterApp.cpp`) | server and client sockets, ciphers, frame decoder | accept, authenticate, GOTO, SETMODE, RESET, POWER | one thread per client, none of which ends; POWER writes to a port that the main loop reads |
| Telemetry (`Telemetry.cpp`) | one transmit buffer with a flag, ciphers, sockets | SendFrame, the thread that connects to the server, the thread that serves a local client | flag tested and set without a lock |
| Head (`Head.cpp`) | decoder, `rxflag`, raw frame | ReadSensors, SetEyes, reader thread | polling, late answers; it is opened once, since nothing sets `reopen_head_on_error` |
| Power unit, line sensor (`PowerUnit.cpp`, `LineNavigator.cpp`) | port, set and time-out of select() | Open, Close, Read, Write | set and time-out not renewed, answers paired by order, a read() without select() |
| GPS (`GPS.cpp`) | two ports | getLocation of each in every pass, corrections written to both | no time-out, no comparison of times, backlog |
| Correction client (`Solarbot.cpp:1289`) | socket, key, silent periods | authenticate, forward corrections | lost and late datagrams, a server that restarts |
| Obstacle detection (`Detect_object.cpp`, `Solarbot.cpp:843`) | two clocks, `DoNotMove` | stop, release | flicker, CPU time |
| Frame codec (`Frame.cpp`, `CRC16.cpp`, `MasterApp.cpp:254`) | decoder, buffer of answers | GenerateFrame, DecodeFrame, Send | byte stuffing, one decoder for all sessions, boundaries |
| Shared image (`SharedGeoImage.cpp`, `Cropmapping_Process.cpp`) | shared memory with a semaphore | Open, Share, Write, Read | torn reads; either program may die |
| Camera navigation, video sender, circular buffer, RobotNet | | | image processing and output; classes that nothing uses |

How they interact. The main loop calls the navigator, which calls
`driver->Write`; the remote-control thread calls `driver->RemoteControllerWrite`.
Both meet in `DirectWrite` and `RealRead`. The command server's client thread
writes `navigator->Mode`, the waypoints and `solarbot->navigating` directly. The
main loop calls `telemetry->SendFrame` every few passes, which hands a frame to
the sending thread.

What makes each part correct, in one line each: a driver command is sent whole
and by whoever is in charge; a mission that was acknowledged is followed in
order to its end, and no waypoint outside the route is looked at; what stays in
the way stops the wheels in time and what goes away lets them go; a command is
executed for a client that authenticated, once and in order, as long as there
is one session; a frame is taken as it was sent or not at all; a heading is the
answer to the last request; what goes to the telemetry server is what its
session can read, and the session comes back after every failure; a reading of
the power unit or the line sensor is of its own request, and the unit is read
again after every fault; the two positions behind a heading are of one epoch;
corrections come back after every outage; a process that maps the crop sees the
last image whole. `PROJECT.json` lists the hazards line by line.

## 2. Modules

| Module | What it is |
|---|---|
| `DriveLease` | abstract specification: who may move the robot. A navigation command needs a lease that was granted while the remote controller was not in charge; a remote command needs it in charge |
| `ControlUnit` | the serial link, the telemetry block of the main loop that polls it, and the remote-control thread |
| `ControlUnitProofs` | the theorems about `ControlUnit` |
| `Mission` | Navigator's path, the navigation part of the main loop, GOTO and SETMODE |
| `MissionProofs` | the theorems about `Mission` |
| `TelemetryLink` | `ThreadTelemetricServer` and the part of SendFrame that serves it |
| `TelemetryServer` | `ThreadServer` of Telemetry, its client, and the part of SendFrame that serves the client |
| `Telemetry` | the composition of these two over the one SendFrame of the main loop |
| `TelemetryProofs` | the theorems about `Telemetry` and its two parts |
| `ObstacleGuard` | the two clocks of the stop for obstacles, `DoNotMove`, and the commands the navigators give |
| `MasterSessions` | the command server: accept, authentication, the hand-over and the client threads |
| `MasterSessionsProofs` | the theorems about `MasterSessions` |
| `HeadLink` | request, poll, reader thread and decoder of the head |
| `HeadLinkProofs` | the theorems about `HeadLink` |
| `CRC16` | the checksum: the source's table, and the polynomial it stands for |
| `CommandFrames` | byte stuffing, the decoder, and the buffer of answers |
| `CommandFramesProofs` | the theorems about `CommandFrames` |
| `SensorPort` | a port that the main loop polls, of the power unit or the line sensor, with its reopening, and POWER |
| `GpsReceivers` | the two receivers, `getLocation` of each in every pass, and the heading |
| `GpsReceiversProofs` | the theorems about `GpsReceivers` |
| `RtkClient` | the correction client, the network and the correction server |
| `SharedImage` | the program and a process over an object in shared memory, both of which may die |
| `MainLoopProofs` | the theorems about `SensorPort`, `ObstacleGuard` and `SharedImage`: what the main loop serves in its pass |
| `MC...` | values of the constants for TLC |

Operators whose comment begins with "Fault:" are not part of a specification.
Each is a definition of the module with a plausible mistake in it; put in the
place of the definition that follows it, it makes one property fail, which shows
that the property depends on the code being as it is.

### ControlUnit

Each thread has a place in `pc`; a step is one access to shared state. The
mutexes are `mtx_write` and `mtx_read`, the buffer `port_tx_buffer`, the set
given to select() `port_set`. A call is `Write`/`RemoteControllerWrite`/`Read`,
then `LockWrite`, `Format`, `Send` (DirectWrite up to the unlock, or the part of
Read under `try_lock`), then `LockRead`, one of `SelectReady`, `SelectClosed`,
`SelectTimeout`, and `Publish` (RealRead), then `SetStatus` or `ReadDone`.
`Close` and `OpenOk`, `OpenFails` or `OpenUnset` are the recovery in run(), which
takes no mutex. The port is in canonical mode, so that a read() returns one line.

External: the driver executes a line when it is written and answers it later, or
never (`DriverAnswers`, `DriverIgnores`); the tty holds lines until they are
read and drops them when it is closed; time makes `data.last_update` old
(`DataGrowsOld`). A line is known by who wrote it and its speeds, an answer by
what RealRead makes of it. WriteArm has no caller and is left out.

History variables: `stray`, navigation commands sent since a take-over;
`skipped`, some Read went on without its request.

### Mission

`main` is where the main loop is, `client` where the client thread is. A
waypoint is its position; where the robot is, and therefore which waypoint is
closest and when one is reached, is free. `LoadWaypoints` is a step per member
it writes and per record it reads; `GotoNextWaypoint` is a step per access of
the index. The file a GOTO loads is one of `Files`, a sequence of records P, S
and L; the C record is read by no code. `ShortLegs` allows routes whose legs
have no point to search. The vector may be accessed outside its bounds: `wild`
records it. One client thread is modelled; the code may have more after a
reconnection. Init is the state after run() has initialised the mode given on
the command line.

History variables: `overlap`, the route of the last GOTO was loaded while a
handler of the main loop was in the middle of the path, which is forgotten with
the next GOTO; `wild`, since that GOTO the vector was accessed outside its
bounds; `mission`, the last GOTO was answered OK, the robot has not come to the
last waypoint of its route, and no SETMODE has followed. `mission` begins with
the answer (`SetSize`, before the mode and `navigating` are set) and ends where the
robot arrives (`WaypointReached`), not where the main loop clears `navigating`
(`Done`): `MissionHolds` says that the one does not come without the other.

### TelemetryLink

`main` is where SendFrame is (test of the flag, encryption, copy, mark), `link`
where the thread is (creation, connection, greeting, key, login, sealing,
sending, key change; then write, answer, clear). A message is its kind and the
key it is under; `raw` is the frame that SendFrame has encrypted and not copied
yet. The thread's exception handlers are never entered, because the functions of
`Socket` throw nothing. External: the server, whose end is `server`, the key it
expects; it may refuse, be silent, close, and acknowledge anything. `caught` says
that SendFrame was at work on the buffer at the last connect().

### TelemetryServer and Telemetry

`thread` is where ThreadServer is, with `ClientStatus` as part of the place; an
accept() or a bind that fails is tried again and changes nothing. There is one
connection at a time, and those that wait are the environment. A key is known by
who drew it for the connection, the robot or the client, and is "old" from the
next accept() on. A client may leave at any time (`gone`); one that does not read
is a `WriteFrame` that does not happen. Both ThreadServer and SendFrame close
the socket, each in two steps, the descriptor and `m_sock`. While a client is
served, ThreadServer only looks at `m_sock`: that the client has left is noticed
by a frame that cannot be written. accept() fills `client_socket` before the
flag of the client before is cleared, so that the main loop may write a frame to
a client that has not logged in. History variables: `stale`, the frame under way,
or the last one that could not be written, passed the test by such a flag;
`strays`, how many frames the present client was sent before it logged in.
`OneStrayFrame` says that it is one at most, which the clearing of the flag
(`Admit`) before the greeting sees to.

`Telemetry` has the two by INSTANCE and the variable `part`, which of its two
parts SendFrame is in or comes to: the server is served first, then the client.
So a client that does not read holds up the server's telemetry, with the whole
main loop.

### ObstacleGuard

A pass is `Sense`, then `Detected` or `Clear`, then `Navigate` or
`GiveNoCommand`; `Order` is the client thread. The two marks, which the code
keeps as values of clock(), are ages (`clearAge`, `stopAge`), counted up to one
past the limit each is compared with: nothing in the code tells larger ages
apart. What the search in the depth image finds is any Boolean in any pass. A
pass that gives no command (not navigating, in standby, a poor location, a line
sensor that cannot be read) leaves the motors as they are, and `ObstacleStops` speaks of the
passes that give one. History variables: `seen`, `seenAge`, `heldAge`,
`cleared`, `moved`.

### MasterSessions

`server` is where ThreadServer is, `pc[t]` where the t-th ThreadClient is. A
connection is its number in the order of arrival and stands for its descriptor
and for its key. A command is one encrypted block, known by its client and
number. `authfd`, `key`, `rx` and `tx` are shared, as the code shares them.
Nothing ends a ThreadClient: `client_running` is cleared at the hand-over and
read by nobody, though the comment at `MasterApp.cpp:143` hopes that the thread
quits. So two threads serve the second session; commands may be lost or executed
twice then, and only `OnlyAuthenticated` and the liveness properties speak of
it. A write to a connection that the client has closed may raise SIGPIPE and end
the program (`WriteTo`, `alive`).

The first hand-over closes a descriptor that nothing has set
(`MasterApp.h:48`, `CloseOld`): the new client's own, or none of a connection;
that the number is another file's, the listening socket's among them, or comes
back at the next accept(), is left out. A read() returns whole blocks here; of a
read() that ends inside a block the code decrypts the whole blocks and parses
all the bytes (`MasterApp.cpp:242-247`).

### HeadLink

`main` is where ReadSensors is, `reader` where the reader thread is. An answer
is two parts, the one with the start byte and the one with the checksum, each
known by the request it answers; bytes may be lost, so that a part comes alone.
The decoder is a step per part, and the copy of the frame in ReadSensors two
steps. History variables: `late`, an answer was given up that is under way, which is
forgotten at the first request that finds nothing of it under way; `lost`, since
the last request an answer was lost. SetEyes writes to the same port and changes no state of
the program.

### CRC16 and CommandFrames

These are over bytes. `CRC16` holds the 256 entries of the source, and the
assumption `TableAssumption`, which TLC evaluates, says that they are the
remainders of the polynomial 0x8005. `CommandFrames` has the checksum as a
parameter, `crc`, which `MCCommandFrames` binds to `calculate` of `CRC16`; its
`SumAssumption` is all that the frames need of a checksum. `CommandFrames`
encodes frames (`Content`, `Escaped`, `GenerateFrame`), hands the
decoder a stream that may break off after any block, and decodes byte by byte
with the one decoder that all sessions share; then the next transmission
begins. An answer is made in the one transmit buffer, padded and encrypted there
(`Pad`, `Encrypt`); a byte that is encrypted or was never set is `Cipher`. Two
things the properties are careful about: a frame that lacks only its last byte
may be completed by the random first byte of the next transmission, and the
escape state outlives a start byte, so that a whole frame after a broken one may
be lost.

### SensorPort

`main` is where the main loop is: at the call of Read ("pass"), in select(), in
read(), or reopening the port. `PowerUnitRead` and `LineRead` are the two Read,
`PowerUnitOpen` and `LineOpen` the two Open, which are the same code; a
behaviour is that of one unit (`unit`). A failed reading is followed by Close and
Open; run() then reads the power unit a second time and does not look at the
result (`retried`), GotoByLine leaves it at that until the next pass.
`port_set` and `port_timeout` are those of select(): the set may hold the port,
the number of a port that was closed, or nothing, and the time is what is left.
An Open that fails leaves both as they were (`OpenFails`, `OpenUnset`); a port
that is closed keeps its number, which may be another file's by then
(`SelectClosed`).

External: the unit answers requests in their order, late, damaged, with a comment
before, or not. `fit` says that from then on it answers within `InTime` and that
the port opens. History variables: `failures`, readings in a row that failed;
`fault`, something outside the code failed since the last good reading;
`adrift`, an answer is under way, since the last Open, that belongs to no request
to come: it was owed when the port was flushed, or POWER asked for it.

### GpsReceivers

`getLocation` is the receiver the main loop reads from, `status` the sentences it
has had in this call; `ReadSentence` is one turn of the loop in
`GPS::getLocation`, `Heading` the rest of the pass. A sentence is its type, its age
in epochs of 250 ms, and the fix of a GGA. What a location held before does not
matter, since both sentences fill it anew. External: the receivers
send an RMC and a GGA in every epoch, and the next epoch begins when both have;
the main loop may take as long as it likes for a pass, and what its ports do
not hold is lost. The status of an RMC is left out: `IsLocationGood` asks for the
quality alone. The reader thread of `Solarbot.h` is never started.

### RtkClient

`rtcm` is where ReadRTCMThread is. Of a key it matters whether it is the server's
present one; a restart of the server makes all keys and all that is under way
another's. `up` and `down` are the kinds of datagrams under way, in no order, so
that requests may be late and follow one another in the wrong order. `online`
says that nothing is lost from then on and the server stays up; a period of two
seconds is silent then only if nothing is under way and the server does not
know the client. The bytes of a correction and of a key are left out; that the
first byte of a correction is found depends on `char` being unsigned, as it is
on the robot's ARM64.

### SharedImage

`program` is where the program is in Open or in Write, `process` where the process
is that reads. The object is its stage of construction, the count of its
semaphore and three parts, each known by the write it is from. An object that is
removed from the name lasts in who has mapped it (`kept`). Both may die
anywhere: the program by `Dies`, the process by the killall of the program's next
start. External: the loop of the process, which is not in the repository, opens
the object as `SharedGeoImage::Open` does for a reader, reads, and opens it again
when a Read has timed out.

## 3. Runs

| Run | What it shows | Bounds |
|---|---|---|
| `link` | no line mixed up, one stray navigation command at most, refinement of `DriveLease`; a deaf port is reopened and a remote frame served; with every trouble on the line | one speed (commands differ by thread); two answers, good and garbled; telemetry in every pass; one request unanswered and one line in the tty. The safety properties are proved for all bounds |
| `prompt` | a driver that always answers is always heard, unless a Read skipped its request | two speeds, two good answers, telemetry every second pass; three requests and lines, one more than the threads can wait for |
| `mission` | index in bounds, a mission that was answered OK not lost, order of the tour, every mission comes to its end | an open route of two waypoints and a loop of three, every mode at start |
| `obstacle` | what stays near stops the wheels, a glimpse does not, a stop lasts, and ends | time to stop 4, to start 24, a pass of 1 to 3, in eighths of a second: the ratio of the source (0.5 s, 3 s) |
| `sessions` | only who authenticated commands; one session is served in order and answered to its client; the next client is admitted; what a client sends is read | two connections, two commands each |
| `head` | the heading is the answer to the last request; a reading fails only when the head lost an answer since its request, or one comes late; it is heard again | requests numbered 1 and 2 in turn, one answer owed, two in the tty |
| `frames` | frames are taken whole and once, lost only after a broken transmission; neither buffer is left; the checksum is the polynomial's and tells the headers apart (assumptions that TLC evaluates) | four frames, among them one with both bytes that are escaped and one too long for the decoder; blocks of 4 bytes, decoder buffer of 14, answer buffer of 24 |
| `telemetry` | messages that the server and the local client can read, one stray frame at most before a login, a descriptor closed once, telemetry resumes, the next client is let in | two keys of the server's link, so that successive sessions may or may not share one |
| `ports` | a reading is of its own request; only faults add up; the unit is read again | requests numbered 1 and 2 in turn, two answers owed, two lines in the port; a time-out of two ticks, answers within one |
| `gps` | positions and qualities go apart by lost sentences only and are as old as the backlog only; the heading comes back | ports of four sentences (two epochs), one sentence of each receiver lost |
| `rtk` | corrections come back after every outage | none but the five silent periods of the code |
| `image` | the last write is seen whole; a process reads what the present start writes | writes numbered 1 and 2 in turn, a count of two |

Why the bounds are enough. The link has two threads with one call each, so that
at most two answers are awaited; `prompt`, where the counts matter, has room for
three. In `link` a request beyond the first is one more that is never answered,
which a time-out covers. A route of two waypoints has a first, a last and a wrap;
the loop of three adds a middle. A second session is what a first one can be
disturbed by, and a second command what can come out of order. The head's
decoder tells the last request from those before, for which two numbers are
enough. In `frames` the sizes of the source (16, 1024 and 512) are
reduced so that a frame takes several blocks and every boundary is met. In `ports` the number of a request need only differ from
the one before, and a second tick is the time that one late answer takes from
the next reading. In `gps` a backlog of two epochs is one that a pass does not
use up. In `image` two writes are a write and the one it overwrites. The counters are bounded by the constants that
name them: answers beyond `MaxUnanswered` and lines beyond `MaxTty` are lost,
as a tty loses them. Deadlock is checked in every run but `sessions`, where a
broken pipe ends the program.

The properties that name `overlap`, `caught`, `skipped`, `stale`, `late` or `adrift` hold only
without the races these record. The races are real (section 4); with them
excluded, the properties say that nothing else can go wrong. Each of these
variables but `skipped` is begun anew where the code can recover (the next GOTO, connection,
request or opening), so that the properties speak again of what follows the race.
The hazards of `PROJECT.json` that are such a race name the property, if there is one,
that bounds what it does: `OneStrayFrame` for a frame before the login,
`TelemetryGoesOn` for a frame over the greeting. POWER, a receiver that falls
silent, and a route loaded in the middle of a handler have none.

### Fairness

`ControlUnit`: strong fairness of each thread's own steps, because a thread that
waits for a mutex that is released again and again gets it (the remote-control
thread blocks in recv() in between); the device file opens in the end; time
passes. Nothing makes the driver answer, the operator send, or the robot move.

`Mission`: both threads run. Receivers have a good fix and the way is clear
again and again; the robot, told to go, arrives. Nothing makes the operator send
a command or stop sending them: `MissionEnds` has as hypothesis that new
commands end.

`ObstacleGuard`: the main loop goes on; `LetGo` has as hypothesis that the way is
clear from some time on.

`MasterSessions`: weak fairness of ThreadServer and of each ThreadClient; a read
ends, by its time-out of ten seconds if by nothing else. Clients need not do
anything. The liveness properties except the end of the program.

`HeadLink`: weak fairness of both threads, which sleep for milliseconds only, and
of the answers of a head that is fit; `HeardAgain` speaks of such a head.

`SensorPort`: the main loop goes on unless read() holds it; a unit that is fit
answers. Nothing makes the unit recover: `UnitReadAgain` speaks of one that has.

`GpsReceivers`: the main loop goes on and the receivers send; `HeadingResumes`
has as hypothesis that corrections have come to stay, with which a receiver gets
its fix in the end.

`RtkClient`: the thread runs, the server reads and sends, and what is under way
arrives unless it is lost; `CorrectionsResume` has as hypothesis that outages end.

`SharedImage`: the program is started and navigates, killall ends, and somebody
starts the process again; strong fairness of its opening, because the object is
missing again and again while the program starts. `ReadsAgain` has as hypothesis
that the program stops dying.

`Telemetry`: the threads run and the main loop sends frames. It does so only in
passes in which the power unit and the driver could both be read
(`Solarbot.cpp:987`), so that this assumes such passes again and again;
`HearsAgain` and `UnitReadAgain` say when a driver and a power unit are read. A server that is
tried again and again accepts, answers a greeting, acknowledges a frame it can
read and does not acknowledge for ever what it cannot read. Nothing makes a
local client connect, log in or read; a write to one that has gone fails in the
end, and a read of ten seconds ends. `TelemetryGoesOn` has as hypotheses that
SendFrame is not caught at the connection again and again for ever, and that a
client that does not read does not hold the main loop for ever.

## 4. What the code does otherwise

No run is about these; they are plain from the code, and the modules do as the code
does.

Against a comment:

- `Telemetry.cpp:369,373`: the flag is set "to avoid the SendFrame overwrite the tx
  buffer". SendFrame that has tested it before (line 76) copies its frame over the
  greeting or the login all the same; `ServerCanRead` excepts it by `caught`.
- `Navigator.cpp:45`: "S indica el waypoint por el cual comenzar"; the number is
  dropped and the route followed from element -1. So is a route without a leg of
  two metres (the constant `ShortLegs`, which makes `AccessInBounds` fail).
- `Navigator.cpp:497`: "the rover reached the closest point of the path"; after
  a GOTO at that moment it is the point of the old path, until the next GOTO
  (`overlap`).
- `MasterApp.cpp:542`: "Pad at the enad with zeros"; the loop under it never runs,
  because it ends where the last block begins, and the answer goes out with what
  the buffer held before (`Pad`).
- `MasterApp.cpp:474`: "To find the closets point again" resets a member that is
  never read.
- `MasterApp.cpp:480,497`: "go to standby and stop navigation" gives no command to
  the motors.
- `MasterApp.cpp:143` counts on a thread that never quits.

Met while modelling:

- select() is given `port_timeout` and `port_set` that only Open sets. The time left
  shrinks with every wait and the set is empty after a time-out; one reading fails
  in vain then, and the reopening that follows puts both right (`OnlyFaultsAddUp`).
- After a comment the power unit is read without select() (`PowerUnit.cpp:144`): an
  answer lost behind a comment holds the main loop in read().
- POWER returns no value from a function that must (`MasterApp.cpp:536`), which is
  undefined, and RESET and POWER may come before run() has made the objects they
  use, since the server's thread starts first.
- getLocation has no time-out, and a port that is gone makes it spin
  (`GPS.cpp:113-140`). A lost sentence pairs position and quality of different
  epochs for good (`NoFurtherApart`).
- `tick_to_send_aloha` is not set back by what is received: it counts silent
  periods, not silent periods in a row. The key is taken from a request without a
  look at its length.
- The semaphore of the shared image starts with one, so that the first Read may
  come before any Write; it is counted up by every Write, so that a slow process
  reads one image several times; nobody calls Close. A crop-mapping entry without
  a camera of its name, or whose Open has failed, is written to all the same.
- The start-up and the end of run() close and delete by hand: the branch for the
  correction client's thread misses the second receiver (`Solarbot.cpp:500`), the
  end calls Close() on receivers it has deleted (`Solarbot.cpp:1061-1067`), and the threads
  still run.

## 5. Proofs

`ControlUnitProofs`, for every set of speeds, every set of answers, whether or
not the driver may be silent, and every bound:

- `LinkInvariant`: `Spec => []LinkInv`, from `LinkInvInit` and `LinkInvNext`;
- `TypeCorrect`, `LinesIntact`, `StrayBounded`: its consequences `TypeOK`,
  `OwnLineSent`, `OneStrayCommand`;
- `LinkImplementsLease`: `Spec => ImplementsLease`, from `LeaseInit` and
  `LeaseNext`.

The assumptions are the three on the constants of `ControlUnit`: the stop is one
of the speeds and none of them is the GET line, the answers are of the kinds
RealRead tells apart, the bounds are numbers.

Why an invariant stronger than the properties is needed. `OwnLineSent` says what
is in the buffer when a thread sends; that the other thread has not touched it
follows only from `MutexesHeld` (a mutex is held exactly by the thread between
its lock and its unlock), and that the line is of the right thread from
`CallsCarried`. `OneStrayCommand` is not inductive: a second stray command needs
a thread that is past the test of the flag while one stray command was already
sent, which `StrayUsesLease` excludes, and the flag cannot fall in between
unnoticed because giving it back resets the count. The refinement uses the same
facts: `Navigating` is the lease, and `ThreadPlaces` says that a remote command
is under way only when the flag was set by the same thread. The proof has one
step per action; the temporal part is one PTL step per theorem.

`MainLoopProofs` has three parts. Of `ObstacleGuard`, for every time to stop and to start
and every length of a pass (the assumption is that they are numbers, and that a
pass takes time):

- `GuardInvariant`: `Spec => []GuardInv`, from `GuardInvInit` and `GuardInvNext`;
- `Stops`, `Glimpse`, `HeldLong`: `ObstacleStops`, `GlimpseIgnored` and
  `HeldLongEnough` are its consequences.

The properties speak of how long something was seen or how long the robot was
held; the code compares the ages of two marks. `GuardInv` ties the two together:
what is near has been near since the last clear pass at most, and not much less
(one pass); the mark of the last obstacle is never older than the stop it
belongs to. `OlderInOrder` says that cutting the ages off at their limits keeps
these orders.

`ControlUnitProofs` has a second invariant, `PromptInv`, for the driver of the run
`prompt` (`GoodDriver`: it gives good answers only, and the bounds let two requests be
unanswered and two answers be unread, one for each thread):

- `PromptInvariant`: `Spec => []PromptInv`; `AnswersForAll` and `NeverTimedOut`:
  `AnswersForReaders` and `PromptDriverHeard`.

The property is an inequality between a set of threads and a queue; what is
inductive is the equation, thread by thread: answers owed and arrived are as many
as the threads between their request and read(). A bad answer must be excluded
because it has the port closed, which throws away the answer of the other thread
too. The bounds are assumptions of this theorem only: with a smaller one a
request has no room for its answer, which is no behaviour of the code.

Of `SensorPort` (`MainLoopProofs`), for all numbers of requests and lines and all
time-outs: `PortInvariant`, and from it `ReadsOwn` (`OwnReading`) and `FaultsAddUp`
(`OnlyFaultsAddUp`). `InStep` says what may be owed and what may have arrived while
requests and answers are in step; `AnswerComes`, `Fresh` and `FreshAgain` say that
a reading after a failed one starts with a full set and time-out, which is why
the second failure in a row needs a fault.

Of `SharedImage` (`MainLoopProofs`), for all numbers of writes and counts:
`SeenInvariant`, and from it `WriteSeen` (`LastWriteSeen`). The semaphore excludes
nobody, so what was read is tied to the program's place in its write: `SeenInv`
says how far each part of the object is behind the write in progress, and that a
process which has nothing more to wait for holds parts of the last one, through
deaths of either and an object that lasts in who has mapped it.

`CommandFramesProofs`, for all frames, random bytes, blocks, texts of an answer
and sizes of both buffers, and every checksum that `SumAssumption` allows:

- `FramesInvariant`: `Spec => []FramesInv`, from `FramesInit` and `FramesNext`;
- `BuffersKept`, `FramesAreIntact`, `OnlyCutsLose`: `StaysInBuffers`, `FramesIntact` and
  `OnlyCutLoses` are its consequences.

None of the three is inductive: what the decoder holds is a matter of what was
sent, and of where that broke off. `FramesInv` says where in the frame the stream
is: before the random byte (`AtRandom`), before the start byte (`AtFlag`), before
the n-th byte of the frame (`AtByte`) or between the two that are sent for it
(`AtSecond`). At each place what waits is the rest of the encoded frame, cut or
with zeros behind it (`Follows`), and the decoder has taken what came before
(`Taking`), has the first byte spoilt by an escape that the frame before left
(`Spoilt`), or is off, which for a frame that fits needs a frame before that broke
off (`Off`). At the end of a transmission this gives `Broken`: the decoder holds at
most seven bytes, or a header and payload that one more byte does not complete,
unless the last byte only was missing. There is a lemma for each place
(`FromRandom`, `FromFlag`, `FromByte`, `FromSecond`, `FromEnd`).

`FrameAssumption` is what the code has: types, identifiers and lengths of
sixteen bits, a random byte that `GenerateFrame` draws until it is no start byte
(`Frame.cpp:109-112`), a block of more than one byte, and answers whose text, of
41 characters at most, fits its buffer of 512 escaped throughout.
`SumAssumption` is that the sum has two bytes and differs for two headers that
differ in one bit, as every cyclic sum does; without it a header spoilt by a left
over escape could be taken. TLC evaluates both for the sum of the source.
What `Escaped` computes is recursive. Its one equation is proved (`EscapedIs`), and so
are the bounds on its lengths (`EscapedLengths`), from `AllNumbers`: induction over
numbers for a set instead of a predicate, which needs no operator as a parameter.

`TelemetryProofs`, over the composition and its one SendFrame: `TelemetryInvariant`,
the invariants `BufferInv` of `TelemetryLink` and `ClientInv` of `TelemetryServer`,
each under every step of the other; `ServerReads`, `ClientReads`,
`OneStray` (`OneStrayFrame`) and `DescriptorClosedOnce` (an action property). `BufferTurns` says whose turn it is with
the shared buffer, by the two flags that the code reads and writes without a
lock; `HandshakeKeys` and `SessionKeys` say what is then in it. All but
`OneStray` hold where neither `caught` nor `stale` records that a connection was made
between a test and what follows it. `OneStray` excepts nothing: `StrayInv` says that
who finds the flag set while a client logs in finds a socket that is not open, so
that only a frame that was under way at the clearing can go out.

`MissionProofs`: `TypesHold` and `Holds` (`MissionHolds`) for every set of routes, short
and S ones too; `RouteInvariant`, `InBounds` (`AccessInBounds`) and `Tour` (`TourInOrder`, an
action property) under `GoodRoutes`: every route has two points or more and no S
record, and its legs are long enough to search. Without one of these the code
does access the vector at -1 (section 4), so that the assumption cannot be dropped.

`Holds` rests on `MissionInv`. The main loop clears `navigating` at `Done`, one step after
it has found the index past the end, and by then the client thread may have answered
the next GOTO. `MissionInv` says that a handler which was under way when a route was
loaded is an overlap, that without one a handler begins with an index that is not
past the end of the route it uses, and (`OnTheWay`) that while the mission is not
accomplished no handler comes to where the index is taken back and the navigation
ended. `RouteInv` has two halves: `Loading`, while the client thread loads a route, and
`Loaded`, where index, size and the flag of the search are tied to the place of
the main loop. `Tour` follows from `Loaded`, by which the index is within the
route wherever the main loop moves it on.

`HeadLinkProofs`: `HeadInvariant`, `OwnAnswer` (`AnswerIsOwn`), `HeadMisses`
(`OnlyHeadMisses`). `OneAnswer` takes together what is owed, what is in the port, what
is in the reader's buffer and what is in the frame: one answer, in order,
to the last request, and in the frame only when `rxflag` is set; `WholeAnswer` says that
an answer none of which was lost ends in `rxflag`.

`MasterSessionsProofs`, for all numbers of clients and commands:
`SessionsInvariant`, `AuthenticatedOnly` (`OnlyAuthenticated`), `SessionKept`
(`OneSessionKept`: in order, and answered). What is executed is
compared with what was sent through all that lies between them: `InOrder` for
the wire of a connection, `Decrypted` for the shared receive buffer, `InTurn` for
the part of it that the one thread has not parsed yet. `Admitted` ties the key,
the descriptor and the number of threads to the clients that have logged in.

`GpsReceiversProofs`, for all sizes of a port and numbers of lost sentences:
`GpsInvariant`, `Together` (`NoFurtherApart`), `NothingThrownAway`
(`OnlyBacklogAges`). The two receivers share no state, so what keeps them together
must be found: `GpsInv` says that there is one counter of epochs `base`, and for
each receiver a number `passed` of sentences, lost or damaged, that getLocation has
passed over, which bound what is read next and what each location is of. A
sentence that is passed over puts its receiver two ahead at most, because the call
waits for a sentence of the type it still needs. Both witnesses change with the
steps: `base` with an epoch and a pass, `passed` with a damaged sentence and with a
gap. The module has the lemmas on the sentences of a port that this takes:
how many are damaged, and how their numbers are spaced, after one has arrived,
was read, or is an epoch older.

Only model-checked: all liveness, since fairness and ENABLED are out of the
prover's reach. Only evaluated: that the table of `CRC16` is the remainders of its
polynomial and that its sum satisfies `SumAssumption`, for the frames of the run
`frames`; it is an exclusive or of bytes (`Bitwise`), of which the provers have no
theory. Every invariant and every safety property of actions that a run checks is
stated by a theorem.

## 6. Not modelled

- Image processing (`CamNavigator`, `Detect_object`, `Cam_Realsense`), geometry and
  wheel speeds: floating point. What they decide is free in the modules.
- Parsing of the configuration and of the fields of a sentence or an answer;
  ciphers and third-party sockets, of which a message is known by its key.
- Start-up and shut-down. The one is a sequence that ends the program at the first
  failure; the other runs while the threads do and uses what it has deleted
  (section 4), so that nothing can be said of it that holds.
- What ties the receivers to the correction client: that with corrections there is
  a fix in the end is an assumption of `GpsReceivers` (`corrected`), and that they
  come is `CorrectionsResume`. The two together have too many states for TLC.
- RESET, which pulses a line of the receivers' ports; `WriteArm`, `ReadGPSThread` and
  `SharedGeoImage::Close`, which have no caller.
- `RobotNetServer`, `RobotNetClient`, `Fast512BytesCircularBuffer`: the program makes
  no object of them. `UdpVideoSender` and `GPSConsumer`: output. The programs that
  the build leaves out.

## 7. Plan

Every safety property of the runs is proved. What could follow:

1. `SumAssumption` for the sum of the source and all frames, which needs the
   exclusive or written over digits instead of `Bitwise`.
2. The correction client (`RtkClient`), whose only property is a liveness property,
   against an abstract specification of what both of its ends know.
