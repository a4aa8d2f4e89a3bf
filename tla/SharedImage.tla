----------------------------- MODULE SharedImage -----------------------------
(***************************************************************************)
(* Position and image for a crop mapping process, through shared memory: the*)
(* program makes the object anew when it starts and writes it in every pass *)
(* in which the robot navigates; the process, which is external, opens it   *)
(* and reads.  A semaphore counts the writes and excludes nobody.  The      *)
(* program may die anywhere; nobody calls Close, so that what it made stays *)
(* until the next start removes it, and lasts in a process that mapped it.  *)
(*                                                                          *)
(* What is written is three parts: the position, the beginning and the end  *)
(* of the image; a part is known by its write.                              *)
(***************************************************************************)
EXTENDS Integers, Sequences

CONSTANTS
    Frames,          \* bound: writes are numbered 1..Frames in turn
    MaxCount         \* bound: writes that a process has not waited for

ASSUME ImageAssumption == Frames \in Nat \ {0} /\ MaxCount \in Nat \ {0}

Never == 0
Parts == 1..3
Content == [Parts -> Never..Frames]
Blank == [p \in Parts |-> Never]
NoObject == [stage |-> "none", count |-> 0, content |-> Blank]
Objects == [stage : {"none", "created", "sized", "constructed"}, count : 0..MaxCount,
            content : Content]

VARIABLES
    (* the program *)
    program,         \* where it is: "down", in Open, "idle", or in a Write
    frame,           \* the last write begun
    (* shared memory *)
    object,          \* what is under the name
    kept,            \* what the process has mapped that is not under the name
    (* the process, external *)
    process,         \* where it is: "down", "open", "wait", copying, or "read"
    mapped,          \* "object", "kept" or "none"
    data,            \* what it has copied in the last Read since it opened
    killing,         \* killall is under way
    stable,          \* from now on the program does not die
    (* history *)
    written          \* the last write that was ended, of this start

programVars == <<program, frame, written>>
processVars == <<process, mapped, data>>
imageVars == <<programVars, object, kept, processVars, killing, stable>>

Writing == {"part1", "part2", "part3", "post"}

ImageTypeOK ==
    /\ program \in {"down", "remove", "create", "truncate", "construct", "idle"} \cup Writing
    /\ frame \in 1..Frames /\ written \in Never..Frames
    /\ object \in Objects /\ kept \in Objects
    /\ process \in {"down", "open", "wait", "copy1", "copy2", "copy3", "read"}
    /\ mapped \in {"object", "kept", "none"}
    /\ data \in Seq(Never..Frames) /\ killing \in BOOLEAN /\ stable \in BOOLEAN

ImageInit ==
    /\ program = "down" /\ frame = Frames /\ written = Never
    /\ object = NoObject /\ kept = NoObject
    /\ process = "down" /\ mapped = "none" /\ data = <<>>
    /\ killing = FALSE /\ stable = FALSE

-----------------------------------------------------------------------------
(* The program                                                             *)

\* run() has the process killed first, unless that fails; cropmapping.out is to be
\* started again by somebody else.
Start ==
    /\ program = "down" /\ program' = "remove"
    /\ killing' \in {killing, TRUE} /\ written' = Never
    /\ UNCHANGED <<frame, object, kept, processVars, stable>>

\* Fault: an object that is there already is left there, and not made anew.
NotUnlinked == UNCHANGED <<object, kept, mapped>>

\* The object is under the name no more; who has mapped it keeps it.
Unlink ==
    /\ object' = NoObject
    /\ IF mapped = "object" THEN kept' = object /\ mapped' = "kept"
                            ELSE UNCHANGED <<kept, mapped>>

Remove ==
    /\ program = "remove" /\ program' = "create"
    /\ Unlink
    /\ UNCHANGED <<frame, written, process, data, killing, stable>>

\* create_only: there is nothing under the name, which was removed and which
\* nobody else creates.
Create ==
    /\ program = "create" /\ program' = "truncate"
    /\ object.stage = "none"
    /\ object' = [object EXCEPT !.stage = "created"]
    /\ UNCHANGED <<frame, written, kept, processVars, killing, stable>>

Truncate ==
    /\ program = "truncate" /\ program' = "construct"
    /\ object' = [object EXCEPT !.stage = IF @ = "created" THEN "sized" ELSE @]
    /\ UNCHANGED <<frame, written, kept, processVars, killing, stable>>

\* The semaphore starts with one, whatever was done with it before.
Construct ==
    /\ program = "construct" /\ program' = "idle"
    /\ object' = [object EXCEPT !.stage = "constructed", !.count = 1]
    /\ UNCHANGED <<frame, written, kept, processVars, killing, stable>>

\* Fault: the semaphore is posted before the image is written.
NextPlaceEarlyPost(place) ==
    CASE place = "part1" -> "post" [] place = "post" -> "part2"
      [] place = "part2" -> "part3" [] place = "part3" -> "idle"

NextPlace(place) ==
    CASE place = "part1" -> "part2" [] place = "part2" -> "part3"
      [] place = "part3" -> "post" [] place = "post" -> "idle"

Share ==
    /\ program = "idle" /\ program' = "part1"
    /\ frame' = (frame % Frames) + 1
    /\ UNCHANGED <<written, object, kept, processVars, killing, stable>>

Ended == written' = IF program' = "idle" THEN frame ELSE written

WritePart(p) ==
    /\ program = <<"part1", "part2", "part3">>[p] /\ program' = NextPlace(program)
    /\ object' = [object EXCEPT !.content[p] = frame]
    /\ Ended
    /\ UNCHANGED <<frame, kept, processVars, killing, stable>>

Post ==
    /\ program = "post" /\ program' = NextPlace(program)
    /\ object.count < MaxCount /\ object' = [object EXCEPT !.count = @ + 1]
    /\ Ended
    /\ UNCHANGED <<frame, kept, processVars, killing, stable>>

Open == Remove \/ Create \/ Truncate \/ Construct
WriteImage == (\E p \in Parts : WritePart(p)) \/ Post

Dies ==
    /\ ~stable
    /\ program # "down" /\ program' = "down"
    /\ UNCHANGED <<frame, written, object, kept, processVars, killing, stable>>

Stabilizes ==
    /\ ~stable /\ stable' = TRUE
    /\ UNCHANGED <<programVars, object, kept, processVars, killing>>

-----------------------------------------------------------------------------
(* The process                                                             *)

Mapped == IF mapped = "object" THEN object ELSE kept

SetCount(n) ==
    IF mapped = "object" THEN object' = [object EXCEPT !.count = n] /\ UNCHANGED kept
                         ELSE kept' = [kept EXCEPT !.count = n] /\ UNCHANGED object

Killed ==
    /\ killing /\ killing' = FALSE
    /\ process' = "down" /\ mapped' = "none" /\ kept' = NoObject /\ data' = <<>>
    /\ UNCHANGED <<programVars, object, stable>>

StartProcess ==
    /\ process = "down" /\ process' = "open"
    /\ UNCHANGED <<programVars, object, kept, mapped, data, killing, stable>>

\* open_only and truncate: what is under the name, finished or not.
OpenReader ==
    /\ process = "open"
    /\ object.stage # "none"
    /\ process' = "wait" /\ mapped' = "object" /\ kept' = NoObject /\ data' = <<>>
    /\ object' = [object EXCEPT !.stage = IF @ = "created" THEN "sized" ELSE @]
    /\ UNCHANGED <<programVars, killing, stable>>

\* Read waits on the semaphore, for a second at most.
WaitForPost ==
    /\ process = "wait" /\ process' = "copy1"
    /\ Mapped.count > 0 /\ SetCount(Mapped.count - 1)
    /\ data' = <<>>
    /\ UNCHANGED <<programVars, mapped, killing, stable>>

\* It opens the object again when nothing was written for a second.
TimedOut ==
    /\ process = "wait" /\ process' = "open"
    /\ Mapped.count = 0
    /\ UNCHANGED <<programVars, object, kept, mapped, data, killing, stable>>

Copy(p) ==
    /\ process = <<"copy1", "copy2", "copy3">>[p]
    /\ process' = <<"copy2", "copy3", "read">>[p]
    /\ data' = Append(data, Mapped.content[p])
    /\ UNCHANGED <<programVars, object, kept, mapped, killing, stable>>

ReadAgain ==
    /\ process = "read" /\ process' = "wait"
    /\ UNCHANGED <<programVars, object, kept, mapped, data, killing, stable>>

Read == WaitForPost \/ (\E p \in Parts : Copy(p)) \/ ReadAgain

ImageNext ==
    \/ Start \/ Open \/ Share \/ WriteImage \/ Dies \/ Stabilizes
    \/ Killed \/ StartProcess \/ OpenReader \/ Read \/ TimedOut

ImageSpec == ImageInit /\ [][ImageNext]_imageVars

\* The program is started, and navigates; killall ends; the process is started
\* again and reads, and opens the object anew when nothing comes.
ImageFairSpec ==
    /\ ImageSpec
    /\ WF_imageVars(Start) /\ WF_imageVars(Open) /\ WF_imageVars(Share) /\ WF_imageVars(WriteImage)
    /\ WF_imageVars(Killed) /\ WF_imageVars(StartProcess) /\ SF_imageVars(OpenReader)
    /\ WF_imageVars(Read) /\ WF_imageVars(TimedOut)

-----------------------------------------------------------------------------
(* Properties                                                              *)

\* Lemma of the proofs: the parts that are written so far are of this write; and
\* when there is nothing to wait for, what is copied is the last write, since a
\* post would have to be waited for before the copying began anew.
SeenInv ==
    /\ ImageTypeOK
    /\ program \in {"remove", "create", "truncate", "construct"} => written = Never
    /\ program = "part2" => object.content[1] = frame
    /\ program = "part3" => object.content[1] = frame /\ object.content[2] = frame
    /\ program = "post" => object.content = [p \in Parts |-> frame]
    /\ (program = "idle" /\ written # Never) => object.content = [p \in Parts |-> written]
    /\ (program = "idle" /\ written # Never /\ mapped = "object" /\ object.count = 0) =>
          /\ process = "copy1" => data = <<>>
          /\ process = "copy2" => data = <<written>>
          /\ process = "copy3" => data = <<written, written>>
          /\ process = "read" => data = <<written, written, written>>
          /\ process = "wait" => data \in {<<>>, <<written, written, written>>}

\* When the program is between two writes and the process waits for more than
\* has been written, what the process read last is the last write, all of it:
\* what is torn is read while it is written and followed by another Read
\* (SharedGeoImage.cpp:60-65, 73-83).
LastWriteSeen ==
    (/\ program = "idle" /\ written # Never
     /\ process = "wait" /\ mapped = "object" /\ object.count = 0 /\ data # <<>>)
    => data = <<written, written, written>>

\* After any number of starts the process reads what the program writes, though
\* it may have opened the object of an earlier start, or one that was not
\* finished (SharedGeoImage.cpp:10-48, Solarbot.cpp:390-394).
ReadsAgain == stable ~> (process = "read" /\ mapped = "object" /\ data[3] # Never)
=============================================================================
