---------------------------- MODULE GpsReceivers ----------------------------
(***************************************************************************)
(* The two GPS receivers and the main loop, which takes one location from   *)
(* each in every pass: GPS::getLocation reads sentences until it has had a  *)
(* GGA and an RMC with good checksums, and waits for them without a         *)
(* time-out.  The position is that of the RMC, the quality that of the GGA. *)
(* Two locations of quality 4 give the heading of the robot.                *)
(*                                                                          *)
(* A sentence is its type, its age in epochs and, in a GGA, whether there   *)
(* was an RTK fix.  A port that is opened within an epoch, or later than    *)
(* the other, has lost the sentences sent before.                           *)
(***************************************************************************)
EXTENDS Integers, Sequences, FiniteSets

CONSTANTS
    MaxUnread,       \* bound: sentences a port keeps
    MaxLost          \* bound: sentences of a receiver that are lost

ASSUME GpsAssumption == MaxUnread \in Nat \ {0} /\ MaxLost \in Nat

Receivers == {"gps", "gps2"}
Epoch == <<"GPRMC", "GPGGA">>   \* what a receiver sends in an epoch
COMPLETED == {"GPRMC", "GPGGA"}
Sentences == [type : COMPLETED \cup {"CHECKSUM_ERR"}, age : Nat, fix : BOOLEAN]

VARIABLES
    (* main loop *)
    getLocation,     \* the receiver it reads from, or "heading" after both
    status,          \* the types it has read in this call
    position,        \* the age of each location's position
    quality,         \* the age and the fix of its quality
    gps_heading,     \* the heading is that between the antennas
    (* the receivers, external *)
    tty,             \* sentences that have arrived
    sent,            \* sentences of this epoch that were sent
    fix,             \* there is an RTK fix
    corrected,       \* from now on corrections come and a fix is kept
    (* history *)
    lost             \* sentences lost

loopVars == <<getLocation, status, position, quality, gps_heading>>
receiverVars == <<tty, sent, fix, corrected>>
vars == <<loopVars, receiverVars, lost>>

TypeOK ==
    /\ getLocation \in Receivers \cup {"heading"} /\ status \in (SUBSET COMPLETED) \ {COMPLETED}
    /\ position \in [Receivers -> Nat]
    /\ quality \in [Receivers -> [age : Nat, fix : BOOLEAN]]
    /\ gps_heading \in BOOLEAN
    /\ tty \in [Receivers -> Seq(Sentences)]
    /\ sent \in [Receivers -> 0..2] /\ fix \in [Receivers -> BOOLEAN]
    /\ corrected \in BOOLEAN /\ lost \in [Receivers -> 0..MaxLost]

Init ==
    /\ getLocation = "gps" /\ status = {}
    /\ position = [r \in Receivers |-> 0]
    /\ quality = [r \in Receivers |-> [age |-> 0, fix |-> FALSE]]
    /\ gps_heading = FALSE
    /\ tty = [r \in Receivers |-> <<>>]
    /\ sent = [r \in Receivers |-> 0] /\ fix = [r \in Receivers |-> FALSE]
    /\ corrected = FALSE /\ lost = [r \in Receivers |-> 0]

-----------------------------------------------------------------------------
(* The main loop                                                           *)

\* Fault: the second receiver is read only when the first has a fix.
NextToReadFixed(r) == IF r = "gps" /\ quality'["gps"].fix THEN "gps2" ELSE "heading"

NextToRead(r) == IF r = "gps" THEN "gps2" ELSE "heading"

\* A good sentence fills its part of the location; the call ends with the
\* second type.
nmea_parse_gprmc(r, sentence) ==
    /\ sentence.type = "GPRMC"
    /\ position' = [position EXCEPT ![r] = sentence.age]
    /\ UNCHANGED quality

\* Fault: both qualities go to the first location.
nmea_parse_gpgga_first(r, sentence) ==
    /\ sentence.type = "GPGGA"
    /\ quality' = [quality EXCEPT !["gps"] = [age |-> sentence.age, fix |-> sentence.fix]]
    /\ UNCHANGED position

nmea_parse_gpgga(r, sentence) ==
    /\ sentence.type = "GPGGA"
    /\ quality' = [quality EXCEPT ![r] = [age |-> sentence.age, fix |-> sentence.fix]]
    /\ UNCHANGED position

Seen(type) == status \cup {type}

GoodSentence(r, sentence) ==
    /\ nmea_parse_gprmc(r, sentence) \/ nmea_parse_gpgga(r, sentence)
    /\ IF Seen(sentence.type) = COMPLETED
       THEN status' = {} /\ getLocation' = NextToRead(r)
       ELSE status' = Seen(sentence.type) /\ UNCHANGED getLocation

\* A sentence with a wrong checksum, or of another type, is skipped.
BadSentence(sentence) ==
    /\ sentence.type = "CHECKSUM_ERR"
    /\ UNCHANGED <<getLocation, status, position, quality>>

\* Fault: all that has arrived is dropped with the sentence that is read.
TakeAll(r) == tty' = [tty EXCEPT ![r] = <<>>]

Take(r) == tty' = [tty EXCEPT ![r] = Tail(@)]

ReadSentence(r) ==
    /\ getLocation = r /\ tty[r] # <<>>
    /\ GoodSentence(r, Head(tty[r])) \/ BadSentence(Head(tty[r]))
    /\ Take(r)
    /\ UNCHANGED <<gps_heading, sent, fix, corrected, lost>>

IsLocationGood == \A r \in Receivers : quality[r].fix

Unread == [r \in Receivers |-> 0]
NoQuality == [r \in Receivers |-> [age |-> 0, fix |-> FALSE]]

\* The rest of the pass.  The next one fills the locations anew before they are
\* used, so that what they held is not kept.
Heading ==
    /\ getLocation = "heading" /\ getLocation' = "gps"
    /\ gps_heading' = IsLocationGood
    /\ position' = Unread /\ quality' = NoQuality
    /\ UNCHANGED <<status, receiverVars, lost>>

MainLoop == (\E r \in Receivers : ReadSentence(r)) \/ Heading

-----------------------------------------------------------------------------
(* The receivers                                                           *)

SentNow(r) == [type |-> Epoch[sent[r] + 1], age |-> 0,
               fix |-> Epoch[sent[r] + 1] = "GPGGA" /\ fix[r]]
Damaged == [type |-> "CHECKSUM_ERR", age |-> 0, fix |-> FALSE]
Arrives(r, sentence) ==
    Len(tty[r]) < MaxUnread /\ tty' = [tty EXCEPT ![r] = Append(@, sentence)]

Sends(r) == sent[r] < 2 /\ sent' = [sent EXCEPT ![r] = @ + 1]

SendSentence(r) ==
    /\ Sends(r)
    /\ Arrives(r, SentNow(r))
    /\ UNCHANGED <<loopVars, fix, corrected, lost>>

\* It arrives damaged; to a port that is full, not at all.
LoseSentence(r) ==
    /\ Sends(r)
    /\ lost[r] < MaxLost /\ lost' = [lost EXCEPT ![r] = @ + 1]
    /\ Arrives(r, Damaged) \/ (Len(tty[r]) = MaxUnread /\ UNCHANGED tty)
    /\ UNCHANGED <<loopVars, fix, corrected>>

\* The location of r has had a sentence of that type in this pass.
Has(r, type) ==
    \/ getLocation = r /\ type \in status
    \/ getLocation = "heading" \/ (getLocation = "gps2" /\ r = "gps")

\* The next epoch begins.
NextEpoch ==
    /\ \A r \in Receivers : sent[r] = 2
    /\ sent' = [r \in Receivers |-> 0]
    /\ tty' = [r \in Receivers |->
                  [i \in DOMAIN tty[r] |-> [tty[r][i] EXCEPT !.age = @ + 1]]]
    /\ position' = [r \in Receivers |-> IF Has(r, "GPRMC") THEN position[r] + 1 ELSE 0]
    /\ quality' = [r \in Receivers |->
                      IF Has(r, "GPGGA") THEN [quality[r] EXCEPT !.age = @ + 1] ELSE quality[r]]
    /\ UNCHANGED <<getLocation, status, gps_heading, fix, corrected, lost>>

Receive == NextEpoch \/ \E r \in Receivers : SendSentence(r) \/ LoseSentence(r)

\* With corrections there is a fix, in the end.
GetFix(r) ==
    /\ ~fix[r] /\ fix' = [fix EXCEPT ![r] = TRUE]
    /\ UNCHANGED <<loopVars, tty, sent, corrected, lost>>

LoseFix(r) ==
    /\ ~corrected
    /\ fix[r] /\ fix' = [fix EXCEPT ![r] = FALSE]
    /\ UNCHANGED <<loopVars, tty, sent, corrected, lost>>

CorrectionsCome ==
    /\ ~corrected /\ corrected' = TRUE
    /\ UNCHANGED <<loopVars, tty, sent, fix, lost>>

GetFixes == \E r \in Receivers : GetFix(r)
Next == MainLoop \/ Receive \/ GetFixes \/ (\E r \in Receivers : LoseFix(r)) \/ CorrectionsCome

Spec == Init /\ [][Next]_vars

\* The receivers send epoch after epoch, and a pass ends.
FairSpec == Spec /\ WF_vars(MainLoop) /\ WF_vars(Receive) /\ WF_vars(GetFixes)

-----------------------------------------------------------------------------
(* Properties                                                              *)

Diff(a, b) == IF a < b THEN b - a ELSE a - b
MostLost == IF lost["gps"] < lost["gps2"] THEN lost["gps2"] ELSE lost["gps"]

\* The two positions that give the heading are of one epoch, and each of the
\* epoch of its quality, but for as many epochs as sentences of a receiver were
\* lost: nothing but a lost sentence puts them apart, and nothing puts them
\* together again (GPS.cpp:107-143, Solarbot.cpp:753-767).
NoFurtherApart ==
    getLocation = "heading" =>
        /\ Diff(position["gps"], position["gps2"]) <= MostLost
        /\ \A r \in Receivers : Diff(position[r], quality[r].age) <= lost[r]

\* A location is older than the present epoch only by what its port still holds
\* or has lost: of what a receiver has sent since, nothing was read and thrown
\* away (GPS.cpp:113-140, Solarbot.cpp:753-754).
OnlyBacklogAges ==
    getLocation = "heading" =>
        \A r \in Receivers : 2 * position[r] + sent[r] <= Len(tty[r]) + lost[r] + 2

\* Once both receivers keep their fix the heading is that between the antennas
\* again, whatever was lost or damaged: no sentence is left out for good, and no
\* call of getLocation goes on for ever while the receivers send
\* (GPS.cpp:113-140, Solarbot.cpp:753-775).
HeadingResumes == corrected ~> gps_heading

-----------------------------------------------------------------------------
(* The inductive invariant of GpsReceiversProofs                           *)

\* The sentences of a receiver are numbered backwards through its epochs: the two
\* of the present epoch are 1 and 0, those of the one before 3 and 2.
Number(sentence) == 2 * sentence.age + IF sentence.type = "GPRMC" THEN 1 ELSE 0
Unsent(r) == 1 - sent[r]

\* The damaged sentences of a port, and the lost ones of r that are not in it.
DamagedOf(s) == {i \in DOMAIN s : s[i].type = "CHECKSUM_ERR"}
Gone(r) == lost[r] - Cardinality(DamagedOf(tty[r]))

\* What r reads next when it has passed over some of the sentences that are gone.
NextRead(r, passed) == Unsent(r) + Len(tty[r]) + Gone(r) - passed

\* What a port holds is in the order sent, later than what was read, and there is
\* a number for each sentence that follows.
Spaced(s, unsent, next) ==
    LET good == (DOMAIN s) \ DamagedOf(s)
    IN  /\ \A i \in good : /\ Number(s[i]) <= next - i + 1
                           /\ Number(s[i]) >= unsent + Len(s) - i + 1
        /\ \A i, j \in good : i < j => Number(s[i]) - Number(s[j]) >= j - i

\* r has been read in this pass, or is being read and a sentence was good.
Done(r) == getLocation = "heading" \/ (getLocation = "gps2" /\ r = "gps")
Begun(r) == getLocation = r /\ status # {}
LastGood(r) == IF status = {"GPRMC"} THEN 2 * position[r] + 1 ELSE 2 * quality[r].age

\* Of the epoch that is base epochs old the pass is to read both sentences; each
\* sentence that is passed over puts a receiver two sentences ahead at most.
BeforeRead(next, base, passed) == next <= 2 * base + 1 /\ next >= 2 * base + 1 - 2 * passed

WhileRead(last, next, base, passed) ==
    LET over == last - 1 - next   \* passed over since
    IN  /\ over >= 0 /\ over <= passed
        /\ last <= 2 * base + 1 /\ last >= 2 * base + 1 - 2 * (passed - over)

AfterRead(r, next, base, passed) ==
    /\ next <= 2 * base - 1 /\ next >= 2 * base - 1 - 2 * passed
    /\ position[r] <= base /\ position[r] >= base - lost[r]
    /\ Diff(position[r], quality[r].age) <= lost[r]
    /\ 2 * position[r] + sent[r] <= Len(tty[r]) + lost[r] + 2

InPace(r, base, passed) ==
    /\ passed <= Gone(r) /\ Spaced(tty[r], Unsent(r), NextRead(r, passed))
    /\ ~Done(r) /\ ~Begun(r) => BeforeRead(NextRead(r, passed), base, passed)
    /\ Begun(r) => WhileRead(LastGood(r), NextRead(r, passed), base, passed)
    /\ Done(r) => AfterRead(r, NextRead(r, passed), base, passed)

\* Both receivers are in pace with the same epoch.
GpsInv ==
    /\ TypeOK
    /\ getLocation = "heading" => status = {}
    /\ \E base \in Int, passed \in [Receivers -> Nat] :
          \A r \in Receivers : InPace(r, base, passed[r])
=============================================================================
