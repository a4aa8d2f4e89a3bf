------------------------------ MODULE RtkClient ------------------------------
(***************************************************************************)
(* The correction client: ReadRTCMThread receives datagrams from the RTK    *)
(* server, hands corrections to the receivers, answers a request for        *)
(* authentication under the key that comes with it, and authenticates       *)
(* unasked when nothing has come for a while.  The server, which is         *)
(* external, asks whoever sends it something that it cannot decrypt, and    *)
(* forgets everyone when it is restarted.                                   *)
(*                                                                          *)
(* Of a key it matters only whether it is the one the server has now; of    *)
(* datagrams in flight, which kinds there are, in no order.                 *)
(***************************************************************************)
EXTENDS Integers

CONSTANT Silences    \* silent periods before the one that ends the patience

ASSUME SilencesAssumption == Silences \in Nat

Keys == {"present", "other"}

VARIABLES
    (* the client *)
    rtcm,            \* where ReadRTCMThread is: a write, or recvfrom
    RTKServer_AES_Key,
    tick_to_send_aloha,
    (* the network and the server, external *)
    up,              \* the keys of the authentications on their way
    down,            \* "RTCM", and the keys of the requests, on their way
    known,           \* the server has authenticated the client
    online           \* from now on nothing is lost and the server stays up

clientVars == <<rtcm, RTKServer_AES_Key, tick_to_send_aloha>>
vars == <<clientVars, up, down, known, online>>

TypeOK ==
    /\ rtcm \in {"recvfrom", "gps", "gps2"}
    /\ RTKServer_AES_Key \in Keys /\ tick_to_send_aloha \in 0..Silences
    /\ up \subseteq Keys /\ down \subseteq Keys \cup {"RTCM"}
    /\ known \in BOOLEAN /\ online \in BOOLEAN

\* A fake key, and "anything" sent under it.
Init ==
    /\ rtcm = "recvfrom"
    /\ RTKServer_AES_Key = "other" /\ tick_to_send_aloha = 0
    /\ up = {"other"} /\ down = {} /\ known = FALSE /\ online = FALSE

-----------------------------------------------------------------------------
(* ReadRTCMThread                                                          *)

\* Under the key there is after the step.
SendAuthenticationToRTKServer == up' = up \cup {RTKServer_AES_Key'}

Receives(datagram) ==
    /\ rtcm = "recvfrom"
    /\ datagram \in down /\ down' = down \ {datagram}

ReadCorrection ==
    /\ Receives("RTCM")
    /\ rtcm' = "gps"
    /\ UNCHANGED <<RTKServer_AES_Key, tick_to_send_aloha, up, known, online>>

\* It is written to the ports of both receivers.
WriteCorrection ==
    /\ rtcm # "recvfrom"
    /\ rtcm' = IF rtcm = "gps" THEN "gps2" ELSE "recvfrom"
    /\ UNCHANGED <<RTKServer_AES_Key, tick_to_send_aloha, up, down, known, online>>

\* Fault: the key that comes with the request is not set.
ReadRequestKeyless ==
    /\ \E key \in Keys : Receives(key)
    /\ UNCHANGED <<clientVars, known, online>>
    /\ SendAuthenticationToRTKServer

\* "ROV": the server asks for authentication.
ReadRequest ==
    /\ \E key \in Keys : Receives(key) /\ RTKServer_AES_Key' = key
    /\ SendAuthenticationToRTKServer
    /\ UNCHANGED <<rtcm, tick_to_send_aloha, known, online>>

\* Two seconds without a datagram, or one of four bytes at most.
Silent == rtcm = "recvfrom" /\ (online => up = {} /\ down = {} /\ ~known)

LetPass ==
    /\ Silent
    /\ tick_to_send_aloha < Silences
    /\ tick_to_send_aloha' = tick_to_send_aloha + 1
    /\ UNCHANGED <<rtcm, RTKServer_AES_Key, up, down, known, online>>

\* What was received in between has not set the count back.
SendAloha ==
    /\ Silent
    /\ tick_to_send_aloha = Silences /\ tick_to_send_aloha' = 0
    /\ UNCHANGED <<rtcm, RTKServer_AES_Key, down, known, online>>
    /\ SendAuthenticationToRTKServer

SilentPeriod == LetPass \/ SendAloha
ReadRTCMThread == ReadCorrection \/ WriteCorrection \/ ReadRequest \/ SilentPeriod

-----------------------------------------------------------------------------
(* The server and the network                                              *)

\* It authenticates under its key; to anything else it answers with a request.
ServerReads ==
    /\ \E key \in up :
          /\ up' = up \ {key}
          /\ known' = (key = "present")
          /\ down' = IF key = "present" THEN down ELSE down \cup {"present"}
    /\ UNCHANGED <<clientVars, online>>

ServerSends ==
    /\ known /\ down' = down \cup {"RTCM"}
    /\ UNCHANGED <<clientVars, up, known, online>>

\* With another key: all that is on its way is under an old one.
ServerRestarts ==
    /\ ~online
    /\ known' = FALSE /\ RTKServer_AES_Key' = "other"
    /\ up' = {"other" : key \in up}
    /\ down' = {IF d = "present" THEN "other" ELSE d : d \in down}
    /\ UNCHANGED <<rtcm, tick_to_send_aloha, online>>

NetworkLoses ==
    /\ ~online
    /\ \/ \E key \in up : up' = up \ {key} /\ UNCHANGED down
       \/ \E d \in down : down' = down \ {d} /\ UNCHANGED up
    /\ UNCHANGED <<clientVars, known, online>>

OutageEnds ==
    /\ ~online /\ online' = TRUE
    /\ UNCHANGED <<clientVars, up, down, known>>

Next ==
    \/ ReadRTCMThread \/ ServerReads \/ ServerSends
    \/ ServerRestarts \/ NetworkLoses \/ OutageEnds

Spec == Init /\ [][Next]_vars

\* The thread runs and datagrams arrive in the end, each kind of them.
FairSpec ==
    /\ Spec
    /\ WF_vars(ReadCorrection) /\ WF_vars(WriteCorrection)
    /\ WF_vars(ReadRequest) /\ WF_vars(SilentPeriod)
    /\ WF_vars(ServerReads) /\ WF_vars(ServerSends)

-----------------------------------------------------------------------------
(* Properties                                                              *)

\* After an outage, whatever of it was lost or late and though the server was
\* restarted meanwhile and knows neither the client nor its key, corrections
\* reach both receivers again (Solarbot.cpp:1331-1389).
CorrectionsResume == online ~> (rtcm = "gps2")
=============================================================================
