------------------------------- MODULE Telemetry -------------------------------
(***************************************************************************)
(* The whole of Telemetry: the link to the server and the local client, fed *)
(* by the one SendFrame of the main loop, which serves the server first and *)
(* then the client.  A client that does not read holds up the server's      *)
(* telemetry, and the main loop with it.                                    *)
(***************************************************************************)
CONSTANTS
    Keys,            \* the keys of the link to the server
    NoKey

ASSUME KeysAssumption == NoKey \notin Keys

VARIABLES
    part,            \* the part of SendFrame the main loop is in, or comes to: 1 or 2
    (* TelemetryLink *)
    flag, tx, raw, cipher, newKey, main, link, valid, IsConnected, IsAutenticated, server,
    caught,
    (* TelemetryServer *)
    thread, client_valid, client_is_authenticated, client_cipher, send, sealed, gone,
    descriptor, stale, strays

Link == INSTANCE TelemetryLink
Local == INSTANCE TelemetryServer WITH valid <- client_valid, cipher <- client_cipher

linkVars == <<flag, tx, raw, cipher, newKey, main, link, valid, IsConnected,
              IsAutenticated, server, caught>>
localVars == <<thread, client_valid, client_is_authenticated, client_cipher,
               send, sealed, gone, descriptor, stale, strays>>
vars == <<part, linkVars, localVars>>

TypeOK == part \in {1, 2} /\ Link!TypeOK /\ Local!TypeOK

Init == part = 1 /\ Link!Init /\ Local!Init

\* The buffer for the server is in use: no frame for it.
Busy ==
    /\ part = 1 /\ main = "idle" /\ flag
    /\ part' = 2
    /\ UNCHANGED <<linkVars, localVars>>

SendToServer ==
    /\ part = 1 /\ Link!SendFrame
    /\ part' = IF main' = "idle" THEN 2 ELSE 1
    /\ UNCHANGED localVars

SendToClient ==
    /\ part = 2 /\ Local!SendFrame
    /\ part' = IF send' = "idle" THEN 1 ELSE 2
    /\ UNCHANGED linkVars

\* There is no client.
NoClient ==
    /\ part = 2 /\ send = "idle" /\ ~client_valid
    /\ part' = 1
    /\ UNCHANGED <<linkVars, localVars>>

SendFrame == Busy \/ SendToServer \/ SendToClient \/ NoClient

ThreadTelemetricServer == Link!ThreadTelemetricServer /\ UNCHANGED <<part, localVars>>
ThreadServer == Local!ThreadServer /\ UNCHANGED <<part, linkVars>>
ClientLeaves == Local!ClientLeaves /\ UNCHANGED <<part, linkVars>>

Next == SendFrame \/ ThreadTelemetricServer \/ ThreadServer \/ ClientLeaves

Spec == Init /\ [][Next]_vars

-----------------------------------------------------------------------------
\* The threads run and the main loop sends frames, which it does in the passes in
\* which it could read both the power unit and the driver (Solarbot.cpp:987): it
\* is assumed that such passes come again and again.  Nothing makes a client
\* connect or read; the telemetry server is as TelemetryLink has it; a write to a
\* client that has gone fails in the end.
FairSpec ==
    /\ Spec
    /\ WF_vars(Busy \/ SendToServer \/ (SendToClient /\ ~Local!WriteFrame) \/ NoClient)
    /\ WF_vars(ThreadTelemetricServer) /\ Link!ServerFairness
    /\ WF_vars(thread # "accept" /\ ThreadServer)
    /\ SF_vars(SendToClient /\ Local!WriteFails)

-----------------------------------------------------------------------------
(* Properties                                                              *)

\* What the link writes is what it means to, under the server's key of that
\* moment (TelemetryLink).
ServerCanRead == Link!ServerCanRead

\* Frames reach the server again after every failure, as TelemetryLink says,
\* unless a local client that does not read holds the main loop for ever
\* (Telemetry.cpp:59-134, 341-475).
TelemetryGoesOn == []<>(part = 1) => Link!TelemetryGoesOn

\* Frames go to who has logged in, on an open socket and under its key (TelemetryServer).
ClientCanRead == Local!ClientCanRead

\* Who has not logged in is sent one frame at most (TelemetryServer).
OneStrayFrame == Local!OneStrayFrame

\* The descriptor of a connection is closed once (TelemetryServer).
ClosedOnce == Local!ClosedOnce

\* The next client is let in when one has gone (TelemetryServer).
NextClientLetIn == Local!NextClientLetIn
=============================================================================
