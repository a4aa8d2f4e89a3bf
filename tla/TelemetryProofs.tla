--------------------------- MODULE TelemetryProofs ---------------------------
(***************************************************************************)
(* Proofs about the two telemetry links, for any set of keys: the buffer    *)
(* for the server is never SendFrame's and the thread's at once, unless     *)
(* SendFrame was caught by a connection, and the local client is written to *)
(* on its own socket, under its own key, but for one frame at most while it *)
(* logs in.                                                                 *)
(***************************************************************************)
EXTENDS Telemetry, TLAPS

USE DEF Link!socketVars, Link!keyVars, Link!mainVars, Link!linkVars, Link!LinkGoto,
        Link!MainGoto, Local!sendVars, Local!history, Local!ThreadGoto, Local!SendGoto

-----------------------------------------------------------------------------
(* The link to the server                                                  *)

\* Every step of the link keeps its types.
LEMMA LinkTypeOK == Link!TypeOK /\ [Link!Next]_Link!vars => Link!TypeOK'
<1>1. SUFFICES ASSUME Link!TypeOK, [Link!Next]_Link!vars PROVE Link!TypeOK'
  OBVIOUS
<1>. USE <1>1
<1>2. CASE Link!CheckFlag
  BY <1>2 DEF Link!CheckFlag, Link!TypeOK, Link!Message, Link!Plain, Link!Handshake
<1>3. CASE Link!Encrypt
  BY <1>3 DEF Link!Encrypt, Link!TypeOK, Link!Message, Link!Plain, Link!Handshake
<1>4. CASE Link!Copy
  BY <1>4 DEF Link!Copy, Link!TypeOK, Link!Message, Link!Plain, Link!Handshake
<1>5. CASE Link!Mark
  BY <1>5 DEF Link!Mark, Link!TypeOK, Link!Message, Link!Plain, Link!Handshake
<1>6. CASE Link!Create
  BY <1>6 DEF Link!Create, Link!TypeOK, Link!Message, Link!Plain, Link!Handshake
<1>7. CASE Link!Connect
  <2>1. caught' \in BOOLEAN /\ flag' \in BOOLEAN /\ IsAutenticated' \in BOOLEAN
    BY <1>7, Zenon DEF Link!Connect
  <2>. QED BY <1>7, <2>1 DEF Link!Connect, Link!TypeOK
<1>8. CASE Link!SayHello
  BY <1>8 DEF Link!SayHello, Link!TypeOK, Link!Message, Link!Plain, Link!Handshake
<1>9. CASE Link!WriteHello
  BY <1>9 DEF Link!WriteHello, Link!TypeOK, Link!Message, Link!Plain, Link!Handshake
<1>10. CASE Link!GetKey
  BY <1>10 DEF Link!GetKey, Link!TypeOK, Link!Message, Link!Plain, Link!Handshake
<1>11. CASE Link!NoKeyRead
  <2>1. valid' \in BOOLEAN /\ IsConnected' \in BOOLEAN
    BY <1>11, Zenon DEF Link!NoKeyRead, Link!CloseSocket
  <2>. QED BY <1>11, <2>1 DEF Link!NoKeyRead, Link!CloseSocket, Link!TypeOK
<1>12. CASE Link!SetServerKey
  BY <1>12 DEF Link!SetServerKey, Link!TypeOK, Link!Message, Link!Plain, Link!Handshake
<1>13. CASE Link!WriteLogin
  BY <1>13 DEF Link!WriteLogin, Link!TypeOK, Link!Message, Link!Plain, Link!Handshake
<1>14. CASE Link!SealLogin
  BY <1>14 DEF Link!SealLogin, Link!TypeOK, Link!Message, Link!Plain, Link!Handshake
<1>15. CASE Link!SendLogin
  BY <1>15 DEF Link!SendLogin, Link!TypeOK, Link!Message, Link!Plain, Link!Handshake
<1>16. CASE Link!ApplyKey
  BY <1>16 DEF Link!ApplyKey, Link!TypeOK, Link!Message, Link!Plain, Link!Handshake
<1>17. CASE Link!Authenticated
  <2>1. flag' \in BOOLEAN /\ IsAutenticated' \in BOOLEAN
    BY <1>17, Zenon DEF Link!Authenticated
  <2>. QED BY <1>17, <2>1 DEF Link!Authenticated, Link!TypeOK
<1>18. CASE Link!FrameMarked
  BY <1>18 DEF Link!FrameMarked, Link!TypeOK, Link!Message, Link!Plain, Link!Handshake
<1>19. CASE Link!WriteFrame
  BY <1>19 DEF Link!WriteFrame, Link!TypeOK, Link!Message, Link!Plain, Link!Handshake
<1>20. CASE Link!Acknowledged
  BY <1>20 DEF Link!Acknowledged, Link!TypeOK, Link!Message, Link!Plain, Link!Handshake
<1>21. CASE Link!NotAcknowledged
  <2>1. valid' \in BOOLEAN /\ IsConnected' \in BOOLEAN
    BY <1>21, Zenon DEF Link!NotAcknowledged, Link!CloseSocket
  <2>. QED BY <1>21, <2>1 DEF Link!NotAcknowledged, Link!CloseSocket, Link!TypeOK
<1>22. CASE Link!ClearFlag
  <2>1. flag' \in BOOLEAN
    BY <1>22, Zenon DEF Link!ClearFlag
  <2>. QED BY <1>22, <2>1 DEF Link!ClearFlag, Link!TypeOK
<1>23. CASE UNCHANGED Link!vars
  BY <1>23 DEF Link!vars, Link!TypeOK, Link!Message, Link!Plain, Link!Handshake
<1>. QED
  BY <1>2, <1>3, <1>4, <1>5, <1>6, <1>7, <1>8, <1>9, <1>10, <1>11, <1>12, <1>13, <1>14,
     <1>15, <1>16, <1>17, <1>18, <1>19, <1>20, <1>21, <1>22, <1>23
  DEF Link!Next, Link!SendFrame, Link!ThreadTelemetricServer

\* Every step keeps the turns at the buffer.
LEMMA TurnsNext == Link!TypeOK /\ Link!BufferTurns /\ [Link!Next]_Link!vars => Link!BufferTurns'
<1>1. SUFFICES ASSUME Link!TypeOK, Link!BufferTurns, [Link!Next]_Link!vars
               PROVE  Link!BufferTurns'
  OBVIOUS
<1>. USE <1>1 DEF Link!BufferTurns, Link!Handshake
<1>2. CASE Link!CheckFlag
  BY <1>2 DEF Link!CheckFlag
<1>3. CASE Link!Encrypt
  BY <1>3 DEF Link!Encrypt
<1>4. CASE Link!Copy
  BY <1>4 DEF Link!Copy
<1>5. CASE Link!Mark
  BY <1>5 DEF Link!Mark
<1>6. CASE Link!Create
  BY <1>6 DEF Link!Create
<1>7. CASE Link!Connect
  <2>1. (caught' <=> main # "idle") /\ flag' /\ ~IsAutenticated'
    BY <1>7, Zenon DEF Link!Connect
  <2>. QED BY <1>7, <2>1 DEF Link!Connect
<1>8. CASE Link!SayHello
  BY <1>8 DEF Link!SayHello
<1>9. CASE Link!WriteHello
  BY <1>9 DEF Link!WriteHello
<1>10. CASE Link!GetKey
  BY <1>10 DEF Link!GetKey
<1>11. CASE Link!NoKeyRead
  BY <1>11 DEF Link!NoKeyRead, Link!CloseSocket
<1>12. CASE Link!SetServerKey
  BY <1>12 DEF Link!SetServerKey
<1>13. CASE Link!WriteLogin
  BY <1>13 DEF Link!WriteLogin
<1>14. CASE Link!SealLogin
  BY <1>14 DEF Link!SealLogin
<1>15. CASE Link!SendLogin
  BY <1>15 DEF Link!SendLogin
<1>16. CASE Link!ApplyKey
  BY <1>16 DEF Link!ApplyKey
<1>17. CASE Link!Authenticated
  BY <1>17 DEF Link!Authenticated
<1>18. CASE Link!FrameMarked
  BY <1>18 DEF Link!FrameMarked
<1>19. CASE Link!WriteFrame
  BY <1>19 DEF Link!WriteFrame
<1>20. CASE Link!Acknowledged
  BY <1>20 DEF Link!Acknowledged
<1>21. CASE Link!NotAcknowledged
  BY <1>21 DEF Link!NotAcknowledged, Link!CloseSocket
<1>22. CASE Link!ClearFlag
  BY <1>22 DEF Link!ClearFlag
<1>23. CASE UNCHANGED Link!vars
  BY <1>23 DEF Link!vars
<1>. QED
  BY <1>2, <1>3, <1>4, <1>5, <1>6, <1>7, <1>8, <1>9, <1>10, <1>11, <1>12, <1>13, <1>14,
     <1>15, <1>16, <1>17, <1>18, <1>19, <1>20, <1>21, <1>22, <1>23
  DEF Link!Next, Link!SendFrame, Link!ThreadTelemetricServer

\* Every step keeps what a handshake has in the buffer, and its keys.
LEMMA HandshakeNext ==
    Link!TypeOK /\ Link!BufferTurns /\ Link!HandshakeKeys /\ [Link!Next]_Link!vars
        => Link!HandshakeKeys'
<1>1. SUFFICES ASSUME Link!TypeOK, Link!BufferTurns, Link!HandshakeKeys, [Link!Next]_Link!vars
               PROVE  Link!HandshakeKeys'
  OBVIOUS
<1>. USE <1>1 DEF Link!HandshakeKeys
<1>2. CASE Link!CheckFlag
  BY <1>2 DEF Link!CheckFlag
<1>3. CASE Link!Encrypt
  BY <1>3 DEF Link!Encrypt
<1>4. CASE Link!Copy
  BY <1>4 DEF Link!Copy, Link!BufferTurns, Link!Handshake
<1>5. CASE Link!Mark
  BY <1>5 DEF Link!Mark
<1>6. CASE Link!Create
  BY <1>6 DEF Link!Create
<1>7. CASE Link!Connect
  BY <1>7 DEF Link!Connect
<1>8. CASE Link!SayHello
  BY <1>8 DEF Link!SayHello, Link!Plain
<1>9. CASE Link!WriteHello
  BY <1>9 DEF Link!WriteHello
<1>10. CASE Link!GetKey
  BY <1>10 DEF Link!GetKey
<1>11. CASE Link!NoKeyRead
  BY <1>11 DEF Link!NoKeyRead, Link!CloseSocket
<1>12. CASE Link!SetServerKey
  BY <1>12 DEF Link!SetServerKey
<1>13. CASE Link!WriteLogin
  BY <1>13 DEF Link!WriteLogin, Link!Plain
<1>14. CASE Link!SealLogin
  BY <1>14 DEF Link!SealLogin, Link!Plain
<1>15. CASE Link!SendLogin
  BY <1>15 DEF Link!SendLogin
<1>16. CASE Link!ApplyKey
  BY <1>16 DEF Link!ApplyKey
<1>17. CASE Link!Authenticated
  BY <1>17 DEF Link!Authenticated
<1>18. CASE Link!FrameMarked
  BY <1>18 DEF Link!FrameMarked
<1>19. CASE Link!WriteFrame
  BY <1>19 DEF Link!WriteFrame
<1>20. CASE Link!Acknowledged
  BY <1>20 DEF Link!Acknowledged
<1>21. CASE Link!NotAcknowledged
  BY <1>21 DEF Link!NotAcknowledged, Link!CloseSocket
<1>22. CASE Link!ClearFlag
  BY <1>22 DEF Link!ClearFlag
<1>23. CASE UNCHANGED Link!vars
  BY <1>23 DEF Link!vars
<1>. QED
  BY <1>2, <1>3, <1>4, <1>5, <1>6, <1>7, <1>8, <1>9, <1>10, <1>11, <1>12, <1>13, <1>14,
     <1>15, <1>16, <1>17, <1>18, <1>19, <1>20, <1>21, <1>22, <1>23
  DEF Link!Next, Link!SendFrame, Link!ThreadTelemetricServer

\* Every step keeps what a session has there.
LEMMA SessionNext ==
    /\ Link!TypeOK /\ Link!BufferTurns /\ Link!HandshakeKeys /\ Link!SessionKeys
    /\ [Link!Next]_Link!vars
    => Link!SessionKeys'
<1>1. SUFFICES ASSUME Link!TypeOK, Link!BufferTurns, Link!HandshakeKeys, Link!SessionKeys,
                      [Link!Next]_Link!vars
               PROVE  Link!SessionKeys'
  OBVIOUS
<1>. USE <1>1 DEF Link!SessionKeys
<1>2. CASE Link!CheckFlag
  BY <1>2 DEF Link!CheckFlag, Link!BufferTurns, Link!Handshake
<1>3. CASE Link!Encrypt
  BY <1>3 DEF Link!Encrypt, Link!BufferTurns, Link!Handshake
<1>4. CASE Link!Copy
  BY <1>4 DEF Link!Copy, Link!BufferTurns, Link!Handshake
<1>5. CASE Link!Mark
  BY <1>5 DEF Link!Mark, Link!BufferTurns, Link!Handshake
<1>6. CASE Link!Create
  BY <1>6 DEF Link!Create, Link!BufferTurns, Link!Handshake
<1>7. CASE Link!Connect
  <2>1. ~IsAutenticated'
    BY <1>7, Zenon DEF Link!Connect
  <2>. QED BY <2>1
<1>8. CASE Link!SayHello
  BY <1>8 DEF Link!SayHello, Link!BufferTurns, Link!Handshake
<1>9. CASE Link!WriteHello
  BY <1>9 DEF Link!WriteHello, Link!BufferTurns, Link!Handshake
<1>10. CASE Link!GetKey
  BY <1>10 DEF Link!GetKey, Link!BufferTurns, Link!Handshake
<1>11. CASE Link!NoKeyRead
  BY <1>11 DEF Link!NoKeyRead, Link!CloseSocket, Link!BufferTurns, Link!Handshake
<1>12. CASE Link!SetServerKey
  BY <1>12 DEF Link!SetServerKey, Link!BufferTurns, Link!Handshake
<1>13. CASE Link!WriteLogin
  BY <1>13 DEF Link!WriteLogin, Link!BufferTurns, Link!Handshake
<1>14. CASE Link!SealLogin
  BY <1>14 DEF Link!SealLogin, Link!BufferTurns, Link!Handshake
<1>15. CASE Link!SendLogin
  BY <1>15 DEF Link!SendLogin, Link!BufferTurns, Link!Handshake
<1>16. CASE Link!ApplyKey
  BY <1>16 DEF Link!ApplyKey, Link!BufferTurns, Link!Handshake
<1>17. CASE Link!Authenticated
  BY <1>17 DEF Link!Authenticated, Link!BufferTurns, Link!Handshake, Link!HandshakeKeys
<1>18. CASE Link!FrameMarked
  BY <1>18 DEF Link!FrameMarked, Link!BufferTurns, Link!Handshake
<1>19. CASE Link!WriteFrame
  BY <1>19 DEF Link!WriteFrame, Link!BufferTurns, Link!Handshake
<1>20. CASE Link!Acknowledged
  BY <1>20 DEF Link!Acknowledged, Link!BufferTurns, Link!Handshake
<1>21. CASE Link!NotAcknowledged
  BY <1>21 DEF Link!NotAcknowledged, Link!CloseSocket, Link!BufferTurns, Link!Handshake
<1>22. CASE Link!ClearFlag
  BY <1>22 DEF Link!ClearFlag, Link!BufferTurns, Link!Handshake
<1>23. CASE UNCHANGED Link!vars
  BY <1>23 DEF Link!vars, Link!BufferTurns, Link!Handshake
<1>. QED
  BY <1>2, <1>3, <1>4, <1>5, <1>6, <1>7, <1>8, <1>9, <1>10, <1>11, <1>12, <1>13, <1>14,
     <1>15, <1>16, <1>17, <1>18, <1>19, <1>20, <1>21, <1>22, <1>23
  DEF Link!Next, Link!SendFrame, Link!ThreadTelemetricServer

-----------------------------------------------------------------------------
(* The local client                                                        *)

\* Every step of the local server keeps its types.
LEMMA LocalTypeOK == Local!TypeOK /\ [Local!Next]_Local!vars => Local!TypeOK'
<1>1. SUFFICES ASSUME Local!TypeOK, [Local!Next]_Local!vars PROVE Local!TypeOK'
  OBVIOUS
<1>. USE <1>1 DEF Local!TypeOK, Local!CipherKeys
<1>2. CASE Local!Accept
  BY <1>2 DEF Local!Accept
<1>3. CASE Local!Admit
  BY <1>3 DEF Local!Admit
<1>4. CASE Local!Greet
  BY <1>4 DEF Local!Greet
<1>5. CASE Local!ReadHello
  BY <1>5 DEF Local!ReadHello
<1>6. CASE Local!WriteKey
  BY <1>6 DEF Local!WriteKey
<1>7. CASE Local!WriteKeyFails
  BY <1>7 DEF Local!WriteKeyFails
<1>8. CASE Local!Authenticate
  BY <1>8 DEF Local!Authenticate
<1>9. CASE Local!ReadLogin
  BY <1>9 DEF Local!ReadLogin
<1>10. CASE Local!ReadRefused
  BY <1>10 DEF Local!ReadRefused
<1>11. CASE Local!Authenticated
  BY <1>11 DEF Local!Authenticated
<1>12. CASE Local!SocketClosed
  BY <1>12 DEF Local!SocketClosed
<1>13. CASE Local!Close
  BY <1>13 DEF Local!Close, Local!CloseDescriptor
<1>14. CASE Local!Forget
  BY <1>14 DEF Local!Forget
<1>15. CASE Local!CheckSocket
  BY <1>15 DEF Local!CheckSocket
<1>16. CASE Local!CheckAuthenticated
  <2>1. stale' \in BOOLEAN
    BY <1>16, Zenon DEF Local!CheckAuthenticated
  <2>. QED BY <1>16, <2>1 DEF Local!CheckAuthenticated
<1>17. CASE Local!Encrypt
  BY <1>17 DEF Local!Encrypt
<1>18. CASE Local!WriteFrame
  BY <1>18 DEF Local!WriteFrame
<1>19. CASE Local!WriteFails
  BY <1>19 DEF Local!WriteFails
<1>20. CASE Local!SendCloses
  BY <1>20 DEF Local!SendCloses, Local!CloseDescriptor
<1>21. CASE Local!SendForgets
  BY <1>21 DEF Local!SendForgets
<1>22. CASE Local!ClientLeaves
  BY <1>22 DEF Local!ClientLeaves
<1>23. CASE UNCHANGED Local!vars
  BY <1>23 DEF Local!vars
<1>. QED
  BY <1>2, <1>3, <1>4, <1>5, <1>6, <1>7, <1>8, <1>9, <1>10, <1>11, <1>12, <1>13, <1>14,
     <1>15, <1>16, <1>17, <1>18, <1>19, <1>20, <1>21, <1>22, <1>23
  DEF Local!Next, Local!ThreadServer, Local!SendFrame

\* Every step keeps the client that is served, and the socket and its descriptor.
LEMMA ServedNext ==
    Local!TypeOK /\ Local!Served /\ Local!SocketInv /\ [Local!Next]_Local!vars
        => (Local!Served /\ Local!SocketInv)'
<1>1. SUFFICES ASSUME Local!TypeOK, Local!Served, Local!SocketInv, [Local!Next]_Local!vars
               PROVE  (Local!Served /\ Local!SocketInv)'
  OBVIOUS
<1>. USE <1>1 DEF Local!Served, Local!SocketInv
<1>2. CASE Local!Accept
  BY <1>2 DEF Local!Accept
<1>3. CASE Local!Admit
  BY <1>3 DEF Local!Admit
<1>4. CASE Local!Greet
  BY <1>4 DEF Local!Greet
<1>5. CASE Local!ReadHello
  BY <1>5 DEF Local!ReadHello
<1>6. CASE Local!WriteKey
  BY <1>6 DEF Local!WriteKey
<1>7. CASE Local!WriteKeyFails
  BY <1>7 DEF Local!WriteKeyFails
<1>8. CASE Local!Authenticate
  BY <1>8 DEF Local!Authenticate
<1>9. CASE Local!ReadLogin
  BY <1>9 DEF Local!ReadLogin
<1>10. CASE Local!ReadRefused
  BY <1>10 DEF Local!ReadRefused
<1>11. CASE Local!Authenticated
  BY <1>11 DEF Local!Authenticated
<1>12. CASE Local!SocketClosed
  BY <1>12 DEF Local!SocketClosed
<1>13. CASE Local!Close
  BY <1>13 DEF Local!Close, Local!CloseDescriptor
<1>14. CASE Local!Forget
  BY <1>14 DEF Local!Forget
<1>15. CASE Local!CheckSocket
  BY <1>15 DEF Local!CheckSocket
<1>16. CASE Local!CheckAuthenticated
  <2>1. stale' <=> client_is_authenticated /\ thread # "Working"
    BY <1>16, Zenon DEF Local!CheckAuthenticated
  <2>. QED BY <1>16, <2>1 DEF Local!CheckAuthenticated
<1>17. CASE Local!Encrypt
  BY <1>17 DEF Local!Encrypt
<1>18. CASE Local!WriteFrame
  BY <1>18 DEF Local!WriteFrame
<1>19. CASE Local!WriteFails
  BY <1>19 DEF Local!WriteFails
<1>20. CASE Local!SendCloses
  BY <1>20 DEF Local!SendCloses, Local!CloseDescriptor
<1>21. CASE Local!SendForgets
  BY <1>21 DEF Local!SendForgets
<1>22. CASE Local!ClientLeaves
  BY <1>22 DEF Local!ClientLeaves
<1>23. CASE UNCHANGED Local!vars
  BY <1>23 DEF Local!vars
<1>. QED
  BY <1>2, <1>3, <1>4, <1>5, <1>6, <1>7, <1>8, <1>9, <1>10, <1>11, <1>12, <1>13, <1>14,
     <1>15, <1>16, <1>17, <1>18, <1>19, <1>20, <1>21, <1>22, <1>23
  DEF Local!Next, Local!ThreadServer, Local!SendFrame

\* Every step keeps that at most one frame is under way to who has not logged in.
LEMMA StrayNext ==
    Local!TypeOK /\ Local!SocketInv /\ Local!StrayInv /\ [Local!Next]_Local!vars
        => Local!StrayInv'
<1>1. SUFFICES ASSUME Local!TypeOK, Local!SocketInv, Local!StrayInv, [Local!Next]_Local!vars
               PROVE  Local!StrayInv'
  OBVIOUS
<1>. USE <1>1 DEF Local!TypeOK, Local!StrayInv, Local!LoggingIn
<1>2. CASE Local!Accept
  BY <1>2 DEF Local!Accept
<1>3. CASE Local!Admit
  BY <1>3 DEF Local!Admit
<1>4. CASE Local!Greet
  BY <1>4 DEF Local!Greet
<1>5. CASE Local!ReadHello
  BY <1>5 DEF Local!ReadHello
<1>6. CASE Local!WriteKey
  BY <1>6 DEF Local!WriteKey
<1>7. CASE Local!WriteKeyFails
  BY <1>7 DEF Local!WriteKeyFails
<1>8. CASE Local!Authenticate
  BY <1>8 DEF Local!Authenticate
<1>9. CASE Local!ReadLogin
  BY <1>9 DEF Local!ReadLogin
<1>10. CASE Local!ReadRefused
  BY <1>10 DEF Local!ReadRefused
<1>11. CASE Local!Authenticated
  BY <1>11 DEF Local!Authenticated
<1>12. CASE Local!SocketClosed
  BY <1>12 DEF Local!SocketClosed, Local!SocketInv
<1>13. CASE Local!Close
  BY <1>13 DEF Local!Close, Local!CloseDescriptor
<1>14. CASE Local!Forget
  BY <1>14 DEF Local!Forget
<1>15. CASE Local!CheckSocket
  BY <1>15 DEF Local!CheckSocket
<1>16. CASE Local!CheckAuthenticated
  BY <1>16 DEF Local!CheckAuthenticated, Local!SocketInv
<1>17. CASE Local!Encrypt
  BY <1>17 DEF Local!Encrypt
<1>18. CASE Local!WriteFrame
  BY <1>18 DEF Local!WriteFrame
<1>19. CASE Local!WriteFails
  BY <1>19 DEF Local!WriteFails
<1>20. CASE Local!SendCloses
  BY <1>20 DEF Local!SendCloses, Local!CloseDescriptor
<1>21. CASE Local!SendForgets
  BY <1>21 DEF Local!SendForgets
<1>22. CASE Local!ClientLeaves
  BY <1>22 DEF Local!ClientLeaves
<1>23. CASE UNCHANGED Local!vars
  BY <1>23 DEF Local!vars
<1>. QED
  BY <1>2, <1>3, <1>4, <1>5, <1>6, <1>7, <1>8, <1>9, <1>10, <1>11, <1>12, <1>13, <1>14,
     <1>15, <1>16, <1>17, <1>18, <1>19, <1>20, <1>21, <1>22, <1>23
  DEF Local!Next, Local!ThreadServer, Local!SendFrame

-----------------------------------------------------------------------------
(* The theorems                                                            *)

\* A step of Telemetry is one of the link or of the local server, and of the
\* other none.
LEMMA StepOfParts == [Next]_vars => [Link!Next]_Link!vars /\ [Local!Next]_Local!vars
<1>1. SUFFICES ASSUME [Next]_vars PROVE [Link!Next]_Link!vars /\ [Local!Next]_Local!vars
  OBVIOUS
<1>2. UNCHANGED linkVars => UNCHANGED Link!vars
  BY DEF linkVars, Link!vars
<1>3. UNCHANGED localVars => UNCHANGED Local!vars
  BY DEF localVars, Local!vars
<1>4. CASE SendFrame
  BY <1>2, <1>3, <1>4
  DEF SendFrame, Busy, SendToServer, SendToClient, NoClient, Link!Next, Local!Next
<1>5. CASE ThreadTelemetricServer
  BY <1>3, <1>5 DEF ThreadTelemetricServer, Link!Next
<1>6. CASE ThreadServer \/ ClientLeaves
  BY <1>2, <1>6 DEF ThreadServer, ClientLeaves, Local!Next
<1>7. CASE UNCHANGED vars
  BY <1>2, <1>3, <1>7 DEF vars
<1>. QED BY <1>1, <1>4, <1>5, <1>6, <1>7 DEF Next

\* What the two links have in their buffers and sockets at each place of their
\* threads, for any set of keys (Telemetry.cpp:59-475).
THEOREM TelemetryInvariant == Spec => [](Link!BufferInv /\ Local!ClientInv)
<1>1. Init => Link!BufferInv /\ Local!ClientInv
  <2>1. SUFFICES ASSUME Init PROVE Link!BufferInv /\ Local!ClientInv
    OBVIOUS
  <2>2. Link!BufferInv
    BY <2>1
    DEF Init, Link!Init, Link!BufferInv, Link!TypeOK, Link!Message, Link!Plain, Link!Handshake,
        Link!BufferTurns, Link!HandshakeKeys, Link!SessionKeys
  <2>3. Local!ClientInv
    BY <2>1
    DEF Init, Local!Init, Local!ClientInv, Local!TypeOK, Local!CipherKeys, Local!Served,
        Local!SocketInv, Local!StrayInv, Local!LoggingIn
  <2>. QED BY <2>2, <2>3
<1>2. Link!BufferInv /\ Local!ClientInv /\ [Next]_vars => (Link!BufferInv /\ Local!ClientInv)'
  <2>1. SUFFICES ASSUME Link!BufferInv, Local!ClientInv, [Next]_vars
                 PROVE  Link!BufferInv' /\ Local!ClientInv'
    OBVIOUS
  <2>2. Link!BufferInv'
    BY <2>1, StepOfParts, LinkTypeOK, TurnsNext, HandshakeNext, SessionNext DEF Link!BufferInv
  <2>3. Local!ClientInv'
    BY <2>1, StepOfParts, LocalTypeOK, ServedNext, StrayNext DEF Local!ClientInv
  <2>. QED BY <2>2, <2>3
<1>. QED BY <1>1, <1>2, PTL DEF Spec

\* The server can read what the link writes, unless SendFrame was caught between
\* its test of the flag and its mark when the connection was made
\* (Telemetry.cpp:59-76, 341-475).
THEOREM ServerReads == Spec => []ServerCanRead
<1>1. Link!BufferInv => ServerCanRead
  BY DEF ServerCanRead, Link!ServerCanRead, Link!BufferInv, Link!BufferTurns,
         Link!HandshakeKeys, Link!SessionKeys
<1>. QED BY <1>1, TelemetryInvariant, PTL

\* The client can read what SendFrame writes, unless the test was of the
\* authentication of the one before (Telemetry.cpp:107-127, 171-174, 208-210).
THEOREM ClientReads == Spec => []ClientCanRead
<1>1. Local!ClientInv => ClientCanRead
  BY DEF ClientCanRead, Local!ClientCanRead, Local!ClientInv, Local!Served, Local!SocketInv
<1>. QED BY <1>1, TelemetryInvariant, PTL

\* The exception is one frame: a client that has not logged in is sent no more
\* once the flag of the one before is cleared (Telemetry.cpp:107-124, 171-174,
\* 208-210).
THEOREM OneStray == Spec => []OneStrayFrame
<1>1. Local!ClientInv => OneStrayFrame
  BY DEF OneStrayFrame, Local!OneStrayFrame, Local!ClientInv, Local!StrayInv
<1>. QED BY <1>1, TelemetryInvariant, PTL

\* The descriptor of a connection is closed once, and before the next one is
\* accepted, with the same exception (Telemetry.cpp:129-133, 258,
\* Socket.cpp:95-101).
THEOREM DescriptorClosedOnce == Spec => ClosedOnce
<1>1. Local!ClientInv /\ [Next]_vars
      => [~stale => /\ (Local!Close \/ Local!SendCloses) /\ client_valid => descriptor
                    /\ Local!Accept => ~descriptor]_Local!vars
  <2>1. SUFFICES ASSUME Local!ClientInv, ~stale
                 PROVE  /\ (Local!Close \/ Local!SendCloses) /\ client_valid => descriptor
                        /\ Local!Accept => ~descriptor
    OBVIOUS
  <2>. QED BY <2>1 DEF Local!ClientInv, Local!Served, Local!SocketInv, Local!Close,
                       Local!SendCloses, Local!Accept
<1>. QED BY <1>1, TelemetryInvariant, PTL DEF Spec, ClosedOnce, Local!ClosedOnce
=============================================================================
