---------------------------- MODULE TelemetryLink ----------------------------
(***************************************************************************)
(* The link to the telemetry server: Telemetry::SendFrame, called by the    *)
(* main loop, encrypts a frame into Telemetry_Server_Tx_Buffer, and          *)
(* ThreadTelemetricServer sends it.  The thread also connects, and uses the  *)
(* same buffer and the same cipher for its handshake.  What keeps the two    *)
(* apart is one flag, which both set and clear without a lock.               *)
(*                                                                          *)
(* The server is the environment: it may refuse, fall silent or close at    *)
(* any time.  A message is known by what it is and the key it is under.      *)
(***************************************************************************)
CONSTANTS Keys,      \* the keys a server or the robot may draw
          NoKey      \* not one of them (KeysAssumption of Telemetry)

VARIABLES
    flag,            \* Telemetry_Server_Tx_Buffer_Flag
    tx,              \* Telemetry_Server_Tx_Buffer
    raw,             \* Telemetry_Tx_Raw_Buffer, until it is copied
    cipher,          \* the key AES_Telemetry_Server is set to
    newKey,          \* Telemetry_Server_AES_Key
    main,            \* where SendFrame is
    link,            \* where ThreadTelemetricServer is
    valid,           \* the socket exists
    IsConnected, IsAutenticated,
    server,          \* the server's end: the key it expects frames under
    caught           \* SendFrame was at work on the buffer at the last connect()

socketVars == <<valid, IsConnected, server>>
keyVars == <<cipher, newKey>>
mainVars == <<raw, main>>
vars == <<flag, tx, keyVars, mainVars, link, socketVars, IsAutenticated, caught>>

Message == [kind : {"hello", "login", "sealedLogin", "frame"}, key : Keys \cup {NoKey}]
Plain(kind) == [kind |-> kind, key |-> NoKey]

Handshake == {"hello", "answer", "key", "login", "seal", "sendLogin", "apply", "finish"}

TypeOK ==
    /\ flag \in BOOLEAN
    /\ tx \in Message
    /\ raw \in [kind : {"frame"}, key : Keys \cup {NoKey}]
    /\ cipher \in Keys \cup {NoKey} /\ newKey \in Keys \cup {NoKey}
    /\ main \in {"idle", "encrypt", "copy", "mark"}
    /\ link \in {"top", "write", "acknowledge", "clear"} \cup Handshake
    /\ valid \in BOOLEAN /\ IsConnected \in BOOLEAN /\ IsAutenticated \in BOOLEAN
    /\ server \in Keys \cup {NoKey}
    /\ caught \in BOOLEAN

Init ==
    /\ flag = FALSE
    /\ tx = Plain("frame") /\ raw = Plain("frame")
    /\ cipher = NoKey /\ newKey = NoKey
    /\ main = "idle" /\ link = "top"
    /\ valid = FALSE /\ IsConnected = FALSE /\ IsAutenticated = TRUE
    /\ server = NoKey
    /\ caught = FALSE

-----------------------------------------------------------------------------
(* SendFrame, the part that serves the telemetry server                    *)

linkVars == <<keyVars, link, socketVars, IsAutenticated, caught>>

MainGoto(from, to) == main = from /\ main' = to

\* A frame is dropped when the flag says that the buffer is in use.
CheckFlag ==
    /\ MainGoto("idle", "encrypt")
    /\ ~flag
    /\ UNCHANGED <<flag, tx, raw, linkVars>>

Encrypt ==
    /\ MainGoto("encrypt", "copy")
    /\ raw' = [kind |-> "frame", key |-> cipher]
    /\ UNCHANGED <<flag, tx, linkVars>>

Copy ==
    /\ MainGoto("copy", "mark")
    /\ tx' = raw /\ raw' = Plain("frame")
    /\ UNCHANGED <<flag, linkVars>>

Mark ==
    /\ MainGoto("mark", "idle")
    /\ flag' = TRUE
    /\ UNCHANGED <<tx, raw, linkVars>>

SendFrame == CheckFlag \/ Encrypt \/ Copy \/ Mark

-----------------------------------------------------------------------------
(* ThreadTelemetricServer                                                  *)

LinkGoto(from, to) == link = from /\ link' = to

\* Fault: the connection is closed and still taken for one.
CloseSocketOnly == valid' = FALSE /\ server' = NoKey /\ UNCHANGED IsConnected

\* close(): the server's end is gone too.
CloseSocket == valid' = FALSE /\ IsConnected' = FALSE /\ server' = NoKey

Create ==
    /\ link = "top" /\ ~valid
    /\ valid' = TRUE
    /\ UNCHANGED <<flag, tx, keyVars, mainVars, link, IsConnected, server, IsAutenticated,
                   caught>>

\* connect() succeeds or not; either way the flag is to keep SendFrame away.
Connect ==
    /\ link = "top" /\ valid /\ ~IsConnected
    /\ IsConnected' \in BOOLEAN
    /\ IsAutenticated' = FALSE
    /\ flag' = TRUE
    /\ caught' = (main # "idle")
    /\ UNCHANGED <<tx, keyVars, mainVars, link, valid, server>>

SayHello ==
    /\ LinkGoto("top", "hello")
    /\ valid /\ IsConnected /\ ~IsAutenticated
    /\ flag' = TRUE
    /\ tx' = Plain("hello")
    /\ UNCHANGED <<keyVars, mainVars, socketVars, IsAutenticated, caught>>

WriteHello ==
    /\ LinkGoto("hello", "answer")
    /\ UNCHANGED <<flag, tx, keyVars, mainVars, valid, IsConnected, server, IsAutenticated,
                   caught>>

\* The server answers with 64 bytes that hide a key.
GetKey ==
    /\ LinkGoto("answer", "key")
    /\ server' \in Keys
    /\ UNCHANGED <<flag, tx, keyVars, mainVars, valid, IsConnected, IsAutenticated, caught>>

\* It answers something else or not within ten seconds: close and start again.
NoKeyRead ==
    /\ LinkGoto("answer", "top")
    /\ CloseSocket
    /\ UNCHANGED <<flag, tx, keyVars, mainVars, IsAutenticated, caught>>

SetServerKey ==
    /\ LinkGoto("key", "login")
    /\ cipher' = server
    /\ UNCHANGED <<flag, tx, newKey, mainVars, socketVars, IsAutenticated, caught>>

\* The login names a new random key.
WriteLogin ==
    /\ LinkGoto("login", "seal")
    /\ newKey' \in Keys \ {server}
    /\ tx' = Plain("login")
    /\ UNCHANGED <<flag, cipher, mainVars, socketVars, IsAutenticated, caught>>

SealLogin ==
    /\ LinkGoto("seal", "sendLogin")
    /\ tx' = [kind |-> IF tx = Plain("login") THEN "sealedLogin" ELSE tx.kind, key |-> cipher]
    /\ UNCHANGED <<flag, keyVars, mainVars, socketVars, IsAutenticated, caught>>

\* A server that can read the login expects frames under the new key.  The
\* result of write() is not looked at.
SendLogin ==
    /\ LinkGoto("sendLogin", "apply")
    /\ server' = IF tx = [kind |-> "sealedLogin", key |-> server] THEN newKey ELSE NoKey
    /\ UNCHANGED <<flag, tx, keyVars, mainVars, valid, IsConnected, IsAutenticated, caught>>

\* Fault: the key of the login is not applied.
ApplyNothing ==
    /\ LinkGoto("apply", "finish")
    /\ UNCHANGED <<flag, tx, keyVars, mainVars, socketVars, IsAutenticated, caught>>

ApplyKey ==
    /\ LinkGoto("apply", "finish")
    /\ cipher' = newKey
    /\ UNCHANGED <<flag, tx, newKey, mainVars, socketVars, IsAutenticated, caught>>

Authenticated ==
    /\ LinkGoto("finish", "top")
    /\ IsAutenticated' = TRUE
    /\ flag' = FALSE
    /\ UNCHANGED <<tx, keyVars, mainVars, socketVars, caught>>

\* The buffer is marked: write it and wait for the acknowledgement.
FrameMarked ==
    /\ LinkGoto("top", "write")
    /\ valid /\ IsConnected /\ IsAutenticated /\ flag
    /\ UNCHANGED <<flag, tx, keyVars, mainVars, socketVars, IsAutenticated, caught>>

WriteFrame ==
    /\ LinkGoto("write", "acknowledge")
    /\ UNCHANGED <<flag, tx, keyVars, mainVars, valid, IsConnected, server, IsAutenticated,
                   caught>>

Acknowledged ==
    /\ LinkGoto("acknowledge", "clear")
    /\ UNCHANGED <<flag, tx, keyVars, mainVars, socketVars, IsAutenticated, caught>>

NotAcknowledged ==
    /\ LinkGoto("acknowledge", "clear")
    /\ CloseSocket
    /\ UNCHANGED <<flag, tx, keyVars, mainVars, IsAutenticated, caught>>

\* The flag is cleared whether or not the connection was lost.
ClearFlag ==
    /\ LinkGoto("clear", "top")
    /\ flag' = FALSE
    /\ UNCHANGED <<tx, keyVars, mainVars, socketVars, IsAutenticated, caught>>

ThreadTelemetricServer ==
    \/ Create \/ Connect
    \/ SayHello \/ WriteHello \/ GetKey \/ NoKeyRead \/ SetServerKey
    \/ WriteLogin \/ SealLogin \/ SendLogin \/ ApplyKey \/ Authenticated
    \/ FrameMarked \/ WriteFrame \/ Acknowledged \/ NotAcknowledged \/ ClearFlag

Next == SendFrame \/ ThreadTelemetricServer

Spec == Init /\ [][Next]_vars

-----------------------------------------------------------------------------
(* Safety                                                                  *)

\* What the thread writes is what it means to write, under the key the server
\* has at that moment: the greeting in clear, the login under the key that came
\* with the answer, and a frame under the key the login named, unless SendFrame
\* was between its test of the flag and its mark when the connection was made.
ServerCanRead ==
    ~caught => /\ link = "hello" => tx = Plain("hello")
               /\ link = "sendLogin" => tx = [kind |-> "sealedLogin", key |-> server]
               /\ link = "write" => tx = [kind |-> "frame", key |-> server]

-----------------------------------------------------------------------------
(* Liveness.  A server that is tried again and again accepts, answers a      *)
(* greeting, acknowledges a frame it can read and does not for ever          *)
(* acknowledge what it cannot read.  Telemetry adds that the threads run.    *)

Readable == tx = [kind |-> "frame", key |-> server]

ServerFairness ==
    /\ SF_vars(Connect /\ IsConnected')
    /\ SF_vars(GetKey /\ tx = Plain("hello"))
    /\ SF_vars(Acknowledged /\ Readable)
    /\ SF_vars(NotAcknowledged /\ ~Readable)

\* Telemetry goes on: whatever connections were refused, handshakes spoilt and
\* sessions lost, there is again a frame that the server reads and acknowledges,
\* unless SendFrame is caught at connection after connection for ever.
TelemetryGoesOn ==
    <>[][~(Connect /\ caught')]_vars => []<><<Acknowledged /\ Readable>>_vars

-----------------------------------------------------------------------------
(* The inductive invariant of TelemetryProofs                              *)

\* The flag keeps SendFrame away in a handshake and while a frame is written,
\* unless it was caught.
BufferTurns ==
    /\ link \in Handshake => ~IsAutenticated
    /\ link \in {"write", "acknowledge", "clear"} => IsAutenticated /\ flag
    /\ link = "write" => IsConnected
    /\ ~IsAutenticated => flag
    /\ ~caught /\ flag => main = "idle"

\* What a handshake has in the buffer, and the keys of the two ends.
HandshakeKeys ==
    ~caught =>
        /\ link = "hello" => tx = Plain("hello")
        /\ link = "seal" => tx = Plain("login")
        /\ link = "sendLogin" => tx = [kind |-> "sealedLogin", key |-> server]
        /\ link \in {"login", "seal", "sendLogin", "finish"} => cipher = server
        /\ link = "apply" => newKey = server

\* What a session has there.
SessionKeys ==
    ~caught /\ IsAutenticated /\ IsConnected =>
        /\ cipher = server
        /\ main = "copy" => raw = [kind |-> "frame", key |-> server]
        /\ main = "mark" \/ flag => tx = [kind |-> "frame", key |-> server]

BufferInv == TypeOK /\ BufferTurns /\ HandshakeKeys /\ SessionKeys
=============================================================================
