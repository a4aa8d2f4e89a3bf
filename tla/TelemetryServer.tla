---------------------------- MODULE TelemetryServer ----------------------------
(***************************************************************************)
(* The telemetry for a client that connects to the robot: ThreadServer       *)
(* accepts and authenticates one client at a time, and SendFrame, called by  *)
(* the main loop, writes frames to it.  Both use the one client_socket, the  *)
(* one cipher and client_is_authenticated without a lock; when the client is *)
(* served, ThreadServer only looks at the socket, and it is SendFrame that    *)
(* closes it after a write that fails.                                      *)
(*                                                                          *)
(* There is one connection at a time; those that wait are the environment.  *)
(* A key is known by who drew it for the connection; it is "old" when the    *)
(* next connection is accepted.                                             *)
(***************************************************************************)
VARIABLES
    (* ThreadServer *)
    thread,          \* where it is, with ClientStatus
    (* shared *)
    valid,           \* client_socket.m_sock is not -1
    client_is_authenticated,
    cipher,          \* the key AES_Server is set to
    (* SendFrame, the part that serves the client *)
    send,            \* where it is
    sealed,          \* the key of the frame being written; "old" if none is
    (* the client and the descriptor, external *)
    gone,            \* it has closed the connection, or there is none
    descriptor,      \* the connection's descriptor is open
    (* history *)
    stale,           \* the frame under way, or the last one that could not be
                     \* written, passed the test by an old client_is_authenticated
    strays           \* frames the client was sent before it has logged in

sendVars == <<send, sealed>>
history == <<stale, strays>>
vars == <<thread, valid, client_is_authenticated, cipher, sendVars, gone,
          descriptor, history>>

\* Drawn by an earlier connection or nobody, by this robot, by this client.
CipherKeys == {"old", "server", "client"}

TypeOK ==
    /\ thread \in {"accept", "admit", "Starting", "greet", "key", "Authenticating",
                   "login", "apply", "Working", "close", "forget"}
    /\ valid \in BOOLEAN /\ client_is_authenticated \in BOOLEAN
    /\ cipher \in CipherKeys /\ sealed \in CipherKeys
    /\ send \in {"idle", "test", "encrypt", "write", "close", "forget"}
    /\ gone \in BOOLEAN /\ descriptor \in BOOLEAN /\ stale \in BOOLEAN
    /\ strays \in {"none", "one", "more"}

Init ==
    /\ thread = "accept"
    /\ valid = FALSE /\ client_is_authenticated = FALSE
    /\ cipher = "old" /\ sealed = "old" /\ send = "idle"
    /\ gone = TRUE /\ descriptor = FALSE /\ stale = FALSE /\ strays = "none"

-----------------------------------------------------------------------------
(* The socket, which both close                                            *)

\* Fault: the descriptor is forgotten and stays open.
CloseNothing == UNCHANGED <<descriptor, gone>>

\* Socket::close, its first half: close() of the descriptor, if there is one.
\* The client sees the end of the connection.
CloseDescriptor ==
    IF valid THEN descriptor' = FALSE /\ gone' = TRUE ELSE UNCHANGED <<descriptor, gone>>

-----------------------------------------------------------------------------
(* ThreadServer                                                            *)

ThreadGoto(from, to) == thread = from /\ thread' = to

\* accept() writes the descriptor into client_socket.  Until it does, and until
\* there is a server socket, ThreadServer tries again.
Accept ==
    /\ ThreadGoto("accept", "admit")
    /\ valid' = TRUE /\ descriptor' = TRUE
    /\ gone' = FALSE
    /\ cipher' = "old" /\ sealed' = "old"
    /\ strays' = "none"
    /\ UNCHANGED <<client_is_authenticated, send, stale>>

\* Fault: the flag is left to Starting.
AdmitUncleared ==
    /\ ThreadGoto("admit", "Starting")
    /\ UNCHANGED <<valid, client_is_authenticated, cipher, sendVars, gone, descriptor,
                   history>>

Admit ==
    /\ ThreadGoto("admit", "Starting")
    /\ client_is_authenticated' = FALSE
    /\ UNCHANGED <<valid, cipher, sendVars, gone, descriptor, history>>

Greet ==
    /\ ThreadGoto("Starting", "greet")
    /\ valid
    /\ client_is_authenticated' = FALSE
    /\ UNCHANGED <<valid, cipher, sendVars, gone, descriptor, history>>

\* "SOLARBOT" is read, maybe when the socket was closed while the read waited,
\* and a key is generated.
ReadHello ==
    /\ ThreadGoto("greet", "key")
    /\ cipher' = "server"
    /\ UNCHANGED <<valid, client_is_authenticated, sendVars, gone, descriptor, history>>

WriteKey ==
    /\ ThreadGoto("key", "Authenticating")
    /\ valid
    /\ UNCHANGED <<valid, client_is_authenticated, cipher, sendVars, gone, descriptor,
                   history>>

\* Write throws.
WriteKeyFails ==
    /\ ThreadGoto("key", "close")
    /\ ~valid \/ gone
    /\ UNCHANGED <<valid, client_is_authenticated, cipher, sendVars, gone, descriptor,
                   history>>

Authenticate ==
    /\ ThreadGoto("Authenticating", "login")
    /\ valid
    /\ UNCHANGED <<valid, client_is_authenticated, cipher, sendVars, gone, descriptor,
                   history>>

\* Fault: the key that the login names is not set.
ReadLoginKeyless ==
    /\ ThreadGoto("login", "apply")
    /\ UNCHANGED <<valid, client_is_authenticated, cipher, sendVars, gone, descriptor, history>>

\* A login is read that can be decrypted; its key is set.
ReadLogin ==
    /\ ThreadGoto("login", "apply")
    /\ cipher' = "client"
    /\ UNCHANGED <<valid, client_is_authenticated, sendVars, gone, descriptor, history>>

\* Something else is read, nothing for ten seconds, or the read fails.
ReadRefused ==
    /\ thread \in {"greet", "login"} /\ thread' = "close"
    /\ UNCHANGED <<valid, client_is_authenticated, cipher, sendVars, gone, descriptor,
                   history>>

Authenticated ==
    /\ ThreadGoto("apply", "Working")
    /\ client_is_authenticated' = TRUE
    /\ strays' = "none"
    /\ UNCHANGED <<valid, cipher, sendVars, gone, descriptor, stale>>

\* In the loop of a client that is served only the socket is looked at.
SocketClosed ==
    /\ thread \in {"Starting", "Authenticating", "Working"} /\ thread' = "close"
    /\ ~valid
    /\ UNCHANGED <<valid, client_is_authenticated, cipher, sendVars, gone, descriptor,
                   history>>

Close ==
    /\ ThreadGoto("close", "forget")
    /\ CloseDescriptor
    /\ UNCHANGED <<valid, client_is_authenticated, cipher, sendVars, history>>

Forget ==
    /\ ThreadGoto("forget", "accept")
    /\ valid' = FALSE
    /\ UNCHANGED <<client_is_authenticated, cipher, sendVars, gone, descriptor, history>>

ThreadServer ==
    \/ Accept \/ Admit \/ Greet \/ ReadHello \/ WriteKey
    \/ WriteKeyFails \/ Authenticate \/ ReadLogin \/ ReadRefused \/ Authenticated
    \/ SocketClosed \/ Close \/ Forget

-----------------------------------------------------------------------------
(* SendFrame, the part that serves the client                              *)

SendGoto(from, to) == send = from /\ send' = to

CheckSocket ==
    /\ SendGoto("idle", "test")
    /\ valid
    /\ UNCHANGED <<thread, valid, client_is_authenticated, cipher, sealed, gone,
                   descriptor, history>>

CheckAuthenticated ==
    /\ SendGoto("test", IF client_is_authenticated THEN "encrypt" ELSE "idle")
    /\ stale' = (client_is_authenticated /\ thread # "Working")
    /\ UNCHANGED <<thread, valid, client_is_authenticated, cipher, sealed, gone,
                   descriptor, strays>>

Encrypt ==
    /\ SendGoto("encrypt", "write")
    /\ sealed' = cipher
    /\ UNCHANGED <<thread, valid, client_is_authenticated, cipher, gone, descriptor,
                   history>>

\* The client has not logged in, and the flag of the one before is cleared.
LoggingIn == thread \notin {"accept", "admit", "Working"}

\* A client that does not read stops the write, and with it the main loop, once
\* the buffers of the connection are full.  One that has gone may take a frame yet.
WriteFrame ==
    /\ SendGoto("write", "idle")
    /\ valid
    /\ sealed' = "old"
    /\ strays' = IF ~LoggingIn THEN strays ELSE IF strays = "none" THEN "one" ELSE "more"
    /\ stale' = FALSE
    /\ UNCHANGED <<thread, valid, client_is_authenticated, cipher, gone, descriptor>>

\* Fault: a write that fails is left at that.
WriteFailsQuietly ==
    /\ SendGoto("write", "idle")
    /\ ~valid \/ gone
    /\ sealed' = "old"
    /\ UNCHANGED <<thread, valid, client_is_authenticated, cipher, gone, descriptor,
                   history>>

\* Write throws.
WriteFails ==
    /\ SendGoto("write", "close")
    /\ ~valid \/ gone
    /\ sealed' = "old"
    /\ UNCHANGED <<thread, valid, client_is_authenticated, cipher, gone, descriptor,
                   history>>

SendCloses ==
    /\ SendGoto("close", "forget")
    /\ CloseDescriptor
    /\ UNCHANGED <<thread, valid, client_is_authenticated, cipher, sealed, history>>

SendForgets ==
    /\ SendGoto("forget", "idle")
    /\ valid' = FALSE
    /\ UNCHANGED <<thread, client_is_authenticated, cipher, sealed, gone, descriptor,
                   history>>

SendFrame ==
    \/ CheckSocket \/ CheckAuthenticated \/ Encrypt \/ WriteFrame \/ WriteFails
    \/ SendCloses \/ SendForgets

-----------------------------------------------------------------------------
(* The client                                                              *)

ClientLeaves ==
    /\ ~gone /\ gone' = TRUE
    /\ UNCHANGED <<thread, valid, client_is_authenticated, cipher, sendVars, descriptor, history>>

Next == ThreadServer \/ SendFrame \/ ClientLeaves

Spec == Init /\ [][Next]_vars

-----------------------------------------------------------------------------
(* Properties                                                              *)

\* A frame is written to a client that has logged in, on a socket that nobody
\* has closed and under the key of its login, unless the test was of the
\* authentication of the client before: accept() fills the socket before the
\* flag is cleared (Telemetry.cpp:107-127, 171-174, 208-210).
ClientCanRead ==
    (send = "write" /\ ~stale) => valid /\ descriptor /\ thread = "Working" /\ sealed = "client"

\* The exception is bounded: once the flag is cleared, a client that has not
\* logged in is sent one frame at most, the one that was under way, however long
\* it takes to log in or be refused (Telemetry.cpp:107-124, 171-174, 208-210).
OneStrayFrame == strays # "more"

\* The descriptor of a connection is closed once, by SendFrame or by the
\* thread, before the next one is accepted, with the same exception
\* (Telemetry.cpp:129-133, 258, Socket.cpp:95-101).
ClosedOnce ==
    [][~stale => /\ (Close \/ SendCloses) /\ valid => descriptor
                 /\ Accept => ~descriptor]_vars

\* The next client is let in when one has gone, though nothing but a frame that
\* cannot be written tells a served client's leaving (Telemetry.cpp:129-133, 180-187).
NextClientLetIn == gone ~> (thread = "accept")

-----------------------------------------------------------------------------
(* The inductive invariant of TelemetryProofs                              *)

\* What is written under a test that was not stale goes to the client that is
\* served, whom the thread does not leave before SendFrame has forgotten it.
Served ==
    /\ thread \in {"apply", "Working"} => cipher = "client"
    /\ thread = "Working" => client_is_authenticated
    /\ send \in {"encrypt", "write", "close", "forget"} /\ ~stale => thread = "Working" /\ valid
    /\ send = "write" /\ ~stale => sealed = "client"

\* Who forgets the socket has closed the descriptor, with the same exception.
SocketInv ==
    /\ thread = "accept" => ~valid
    /\ thread # "accept" /\ ~valid => send = "idle"
    /\ valid /\ ~descriptor => thread = "forget" \/ send = "forget"
    /\ ~valid /\ descriptor => stale /\ send = "idle"
    /\ thread = "forget" /\ descriptor => ~valid
    /\ send = "forget" /\ descriptor => stale

\* Who finds the flag set finds the client that is served, or a socket that is
\* not open, or is before the clearing; a frame under way after it is the first.
StrayInv ==
    /\ client_is_authenticated =>
          thread \in {"Working", "accept", "admit"} \/ (thread \in {"close", "forget"} /\ ~valid)
    /\ thread = "admit" => strays = "none"
    /\ LoggingIn /\ send \in {"encrypt", "write"} => strays = "none"
    /\ strays # "more"

ClientInv == TypeOK /\ Served /\ SocketInv /\ StrayInv
=============================================================================
