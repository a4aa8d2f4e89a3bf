---------------------------- MODULE MasterSessions ----------------------------
(***************************************************************************)
(* The command server of MasterApp: ThreadServer admits the clients one at a *)
(* time, and for each one that authenticates starts another ThreadClient,   *)
(* which reads commands, executes them and answers.  Nothing ends a         *)
(* ThreadClient, and all of them share the descriptor, the key, the buffer  *)
(* of received blocks and the buffer of answers.                            *)
(*                                                                          *)
(* A connection is its number in the order of arrival, and stands for its   *)
(* descriptor and its key as well.  A command is one encrypted block, and   *)
(* what arrives between two reads is whole blocks: a read() that ends inside *)
(* of one, of which the thread decrypts the whole blocks and parses all, is *)
(* left out.                                                                *)
(***************************************************************************)
EXTENDS Integers, Sequences, SequencesExt, FiniteSets

CONSTANTS
    MaxConns,        \* bound: connections made to the server
    MaxCommands      \* bound: commands sent on a connection

ASSUME BoundsAssumption == MaxConns \in Nat \ {0} /\ MaxCommands \in Nat

Conns == 1..MaxConns
None == 0
Plain == -1
Garbage == -2
Kinds == {"hello", "login", "junk", "command"}

\* n numbers the commands of a client; seal is the key a block is encrypted
\* with, Plain for one decrypted, Garbage for one decrypted with another key.
Messages == [kind : Kinds, of : Conns, n : 0..MaxCommands,
             seal : Conns \cup {None, Plain, Garbage}]

Handshake(kind, c) == [kind |-> kind, of |-> c, n |-> 0, seal |-> None]
Command(c, n) == [kind |-> "command", of |-> c, n |-> n, seal |-> c]

VARIABLES
    (* clients *)
    peer,            \* "new", "open" or "closed", as the client sees it
    wire,            \* what it has sent and nobody has read
    step,            \* what it sends next: "hello", "login", a command or nothing
    sent,            \* commands it has sent
    (* ThreadServer *)
    server,          \* where it is
    new_client,      \* new_client_socket_fd
    backlog,         \* connections to accept
    (* shared *)
    open,            \* descriptors of connections not closed
    authfd,          \* aunthenticated_client_socket_fd
    key,             \* the key of AES_Client
    rx,              \* Client_Rx_Buffer
    tx,              \* Client_Tx_Buffer: the answer and its key
    (* ThreadClient, one per session *)
    pc, fd, got, at,
    sessions,        \* how many have been started
    alive,           \* the program runs
    (* history *)
    authed, executed, answers

clientVars == <<peer, wire, step, sent>>
serverVars == <<server, new_client, backlog>>
linkVars == <<open, authfd, key>>
threadVars == <<rx, tx, pc, fd, got, at>>
ghostVars == <<authed, executed, answers>>
vars == <<clientVars, serverVars, linkVars, threadVars, sessions, alive, ghostVars>>

ServerPlaces == {"accept", "start", "key", "auth", "close", "setKey", "save", "create"}
ThreadPlaces == {"none", "read", "reading", "decrypt", "parse", "encrypt", "send"}

TypeOK ==
    /\ peer \in [Conns -> {"new", "open", "closed"}]
    /\ wire \in [Conns -> Seq(Messages)]
    /\ step \in [Conns -> {"hello", "key", "login", "command"}]
    /\ sent \in [Conns -> 0..MaxCommands]
    /\ server \in ServerPlaces
    /\ new_client \in Conns \cup {None} /\ backlog \in Seq(Conns)
    /\ open \in SUBSET Conns
    /\ authfd \in Conns \cup {None} /\ key \in Conns \cup {None}
    /\ rx \in Seq(Messages) /\ tx \in Messages
    /\ pc \in [Conns -> ThreadPlaces] /\ fd \in [Conns -> Conns \cup {None}]
    /\ got \in [Conns -> Nat] /\ at \in [Conns -> Nat \ {0}]
    /\ sessions \in 0..MaxConns /\ alive \in BOOLEAN
    /\ authed \in SUBSET Conns

Init ==
    /\ peer = [c \in Conns |-> "new"] /\ wire = [c \in Conns |-> <<>>]
    /\ step = [c \in Conns |-> "hello"] /\ sent = [c \in Conns |-> 0]
    /\ server = "accept" /\ new_client = None /\ backlog = <<>>
    /\ open = {} /\ authfd = None /\ key = None
    /\ rx = <<>> /\ tx = Handshake("junk", 1)
    /\ pc = [t \in Conns |-> "none"] /\ fd = [t \in Conns |-> None]
    /\ got = [t \in Conns |-> 0] /\ at = [t \in Conns |-> 1]
    /\ sessions = 0 /\ alive = TRUE
    /\ authed = {} /\ executed = <<>> /\ answers = {}

-----------------------------------------------------------------------------
(* The clients                                                             *)

Connect(c) ==
    /\ peer[c] = "new" /\ \A d \in 1..c - 1 : peer[d] # "new"
    /\ peer' = [peer EXCEPT ![c] = "open"]
    /\ backlog' = Append(backlog, c)
    /\ UNCHANGED <<wire, step, sent, server, new_client, linkVars, threadVars, sessions,
                   alive, ghostVars>>

\* A greeting or a login, right or wrong, and then commands.  The client waits
\* for the server's key; nothing tells it that it has been admitted.
Say(c) ==
    /\ peer[c] = "open"
    /\ \/ /\ step[c] \in {"hello", "login"}
          /\ \E m \in {step[c], "junk"} :
                wire' = [wire EXCEPT ![c] = Append(@, Handshake(m, c))]
          /\ step' = [step EXCEPT ![c] = IF @ = "hello" THEN "key" ELSE "command"]
          /\ UNCHANGED sent
       \/ /\ step[c] = "command" /\ sent[c] < MaxCommands
          /\ sent' = [sent EXCEPT ![c] = @ + 1]
          /\ wire' = [wire EXCEPT ![c] = Append(@, Command(c, sent[c] + 1))]
          /\ UNCHANGED step
    /\ UNCHANGED <<peer, serverVars, linkVars, threadVars, sessions, alive, ghostVars>>

HangUp(c) ==
    /\ peer[c] = "open"
    /\ peer' = [peer EXCEPT ![c] = "closed"]
    /\ UNCHANGED <<wire, step, sent, serverVars, linkVars, threadVars, sessions, alive,
                   ghostVars>>

-----------------------------------------------------------------------------
(* ThreadServer                                                            *)

ServerGoto(from, to) == alive /\ server = from /\ server' = to

\* Writing to a connection the client has closed may raise SIGPIPE, which the
\* program leaves to its default: it ends.
WriteTo(c) ==
    alive' \in IF c \in open /\ peer[c] = "closed" THEN BOOLEAN ELSE {alive}

Accept ==
    /\ ServerGoto("accept", "start")
    /\ backlog # <<>>
    /\ new_client' = Head(backlog) /\ backlog' = Tail(backlog)
    /\ open' = open \cup {Head(backlog)}
    /\ UNCHANGED <<clientVars, authfd, key, threadVars, sessions, alive, ghostVars>>

\* The connection is closed: a wrong message, no message for ten seconds (the
\* length -1 makes the constructor of the string throw), or the client is gone.
Refuse ==
    /\ server' = "accept"
    /\ open' = open \ {new_client}
    /\ UNCHANGED <<new_client, backlog>>

\* read() returns some of what has arrived.
ServerReads(message, next) ==
    /\ wire[new_client] # <<>>
    /\ \E k \in 1..Len(wire[new_client]) :
          /\ wire' = [wire EXCEPT ![new_client] = SubSeq(@, k + 1, Len(@))]
          /\ IF Head(wire[new_client]).kind = message
             THEN server' = next /\ UNCHANGED <<new_client, backlog, open>>
             ELSE Refuse
    /\ UNCHANGED <<peer, step, sent>>

ReadHello ==
    /\ alive /\ server = "start"
    /\ ServerReads("hello", "key")
    /\ UNCHANGED <<authfd, key, threadVars, sessions, alive, ghostVars>>

SendServerKey ==
    /\ ServerGoto("key", "auth")
    /\ WriteTo(new_client)
    /\ step' = [step EXCEPT ![new_client] = "login"]
    /\ UNCHANGED <<peer, wire, sent, new_client, backlog, linkVars, threadVars, sessions,
                   ghostVars>>

\* Fault: whatever login is read is taken.
ReadAnyLogin ==
    /\ alive /\ server = "auth" /\ wire[new_client] # <<>>
    /\ wire' = [wire EXCEPT ![new_client] = Tail(@)]
    /\ server' = "close"
    /\ authed' = IF Head(wire[new_client]).kind = "login" THEN authed \cup {new_client} ELSE authed
    /\ UNCHANGED <<peer, step, sent, new_client, backlog, linkVars, threadVars, sessions,
                   alive, executed, answers>>

\* What follows the login in the same read is taken for more of its fields.
ReadLogin ==
    /\ alive /\ server = "auth"
    /\ ServerReads("login", "close")
    /\ authed' = IF server' = "close" THEN authed \cup {new_client} ELSE authed
    /\ UNCHANGED <<authfd, key, threadVars, sessions, alive, executed, answers>>

\* Fault: a read that times out is tried again.
SilentWaits ==
    /\ alive /\ server \in {"start", "auth"}
    /\ wire[new_client] = <<>> /\ peer[new_client] = "closed"
    /\ Refuse
    /\ UNCHANGED <<clientVars, authfd, key, threadVars, sessions, alive, ghostVars>>

\* Nothing is read: ten seconds have passed or the client has closed.
Silent ==
    /\ alive /\ server \in {"start", "auth"}
    /\ wire[new_client] = <<>>
    /\ Refuse
    /\ UNCHANGED <<clientVars, authfd, key, threadVars, sessions, alive, ghostVars>>

\* The hand-over: client_running, which nobody reads, is cleared and the
\* descriptor of the client before is closed.  Nothing has set the member before
\* the first session: what is closed then has any number, that of the new client
\* or of no connection.
CloseOld ==
    /\ ServerGoto("close", "setKey")
    /\ open' \in IF authfd = None THEN {open, open \ {new_client}} ELSE {open \ {authfd}}
    /\ UNCHANGED <<clientVars, new_client, backlog, authfd, key, threadVars, sessions, alive,
                   ghostVars>>

SetKey ==
    /\ ServerGoto("setKey", "save")
    /\ key' = new_client
    /\ UNCHANGED <<clientVars, new_client, backlog, open, authfd, threadVars, sessions, alive,
                   ghostVars>>

SaveSocket ==
    /\ ServerGoto("save", "create")
    /\ authfd' = new_client
    /\ UNCHANGED <<clientVars, new_client, backlog, open, key, threadVars, sessions, alive,
                   ghostVars>>

CreateThread ==
    /\ ServerGoto("create", "accept")
    /\ sessions' = sessions + 1
    /\ pc' = [pc EXCEPT ![sessions + 1] = "read"]
    /\ UNCHANGED <<clientVars, new_client, backlog, linkVars, rx, tx, fd, got, at, alive,
                   ghostVars>>

ThreadServer ==
    \/ Accept \/ ReadHello \/ SendServerKey \/ ReadLogin \/ Silent
    \/ CloseOld \/ SetKey \/ SaveSocket \/ CreateThread

-----------------------------------------------------------------------------
(* ThreadClient                                                            *)

ThreadGoto(t, from, to) == alive /\ pc[t] = from /\ pc' = [pc EXCEPT ![t] = to]

\* read() is called with the descriptor of the moment; a closed one is refused.
EnterRead(t) ==
    /\ ThreadGoto(t, "read", "reading")
    /\ fd' = [fd EXCEPT ![t] = IF authfd \in open THEN authfd ELSE None]
    /\ UNCHANGED <<clientVars, serverVars, linkVars, rx, tx, got, at, sessions, alive, ghostVars>>

\* It returns some of what has arrived, also when the descriptor was closed
\* while it waited.
ReadReturns(t) ==
    /\ ThreadGoto(t, "reading", "decrypt")
    /\ fd[t] # None
    /\ \E k \in 1..Len(wire[fd[t]]) :
          /\ rx' = SubSeq(wire[fd[t]], 1, k) \o SubSeq(rx, k + 1, Len(rx))
          /\ wire' = [wire EXCEPT ![fd[t]] = SubSeq(@, k + 1, Len(@))]
          /\ got' = [got EXCEPT ![t] = k]
    /\ UNCHANGED <<peer, step, sent, serverVars, linkVars, tx, fd, at, sessions, alive, ghostVars>>

\* Fault: the thread ends when nothing is read.
ReadNothingEnds(t) ==
    /\ ThreadGoto(t, "reading", "none")
    /\ fd[t] # None => wire[fd[t]] = <<>>
    /\ UNCHANGED <<clientVars, serverVars, linkVars, rx, tx, fd, got, at, sessions, alive,
                   ghostVars>>

ReadNothing(t) ==
    /\ ThreadGoto(t, "reading", "read")
    /\ fd[t] # None => wire[fd[t]] = <<>>
    /\ UNCHANGED <<clientVars, serverVars, linkVars, rx, tx, fd, got, at, sessions, alive,
                   ghostVars>>

Deciphered(b) == [b EXCEPT !.seal = IF @ = key THEN Plain ELSE Garbage]

\* The received blocks are decrypted in their place.
Decrypt(t) ==
    /\ ThreadGoto(t, "decrypt", "parse")
    /\ rx' = [i \in DOMAIN rx |-> IF i <= got[t] THEN Deciphered(rx[i]) ELSE rx[i]]
    /\ at' = [at EXCEPT ![t] = 1]
    /\ UNCHANGED <<clientVars, serverVars, linkVars, tx, fd, got, sessions, alive, ghostVars>>

\* Fault: the decoder stays at the block it has decoded.
ExecuteAgain(t) ==
    /\ ThreadGoto(t, "parse", "encrypt")
    /\ at[t] <= got[t] /\ rx[at[t]].seal = Plain
    /\ executed' = Append(executed, rx[at[t]]) /\ tx' = rx[at[t]]
    /\ UNCHANGED <<clientVars, serverVars, linkVars, rx, fd, got, at, sessions, alive, authed,
                   answers>>

\* ParseRawRx: a frame that decodes is executed and its answer prepared.
Execute(t) ==
    /\ ThreadGoto(t, "parse", "encrypt")
    /\ at[t] <= got[t] /\ rx[at[t]].seal = Plain
    /\ executed' = Append(executed, rx[at[t]]) /\ tx' = rx[at[t]]
    /\ at' = [at EXCEPT ![t] = @ + 1]
    /\ UNCHANGED <<clientVars, serverVars, linkVars, rx, fd, got, sessions, alive, authed,
                   answers>>

Skip(t) ==
    /\ ThreadGoto(t, "parse", "parse")
    /\ at[t] <= got[t] /\ rx[at[t]].seal # Plain
    /\ at' = [at EXCEPT ![t] = @ + 1]
    /\ UNCHANGED <<clientVars, serverVars, linkVars, rx, tx, fd, got, sessions, alive, ghostVars>>

ParseEnds(t) ==
    /\ ThreadGoto(t, "parse", "read")
    /\ at[t] > got[t]
    /\ UNCHANGED <<clientVars, serverVars, linkVars, rx, tx, fd, got, at, sessions, alive,
                   ghostVars>>

\* Send: the answer is encrypted in its buffer, twice makes it unreadable.
Encrypt(t) ==
    /\ ThreadGoto(t, "encrypt", "send")
    /\ tx' = [tx EXCEPT !.seal = IF @ = Plain THEN key ELSE Garbage]
    /\ UNCHANGED <<clientVars, serverVars, linkVars, rx, fd, got, at, sessions, alive, ghostVars>>

\* ... and sent on the descriptor of the moment.
Send(t) ==
    /\ ThreadGoto(t, "send", "parse")
    /\ IF authfd \in open
       THEN answers' = answers \cup {[to |-> authfd, answer |-> tx]}
       ELSE UNCHANGED answers
    /\ WriteTo(authfd)
    /\ UNCHANGED <<clientVars, serverVars, linkVars, rx, tx, fd, got, at, sessions, authed,
                   executed>>

ThreadClient(t) ==
    \/ EnterRead(t) \/ ReadReturns(t) \/ ReadNothing(t) \/ Decrypt(t)
    \/ Execute(t) \/ Skip(t) \/ ParseEnds(t) \/ Encrypt(t) \/ Send(t)

Next ==
    \/ ThreadServer
    \/ \E t \in Conns : ThreadClient(t)
    \/ \E c \in Conns : Connect(c) \/ Say(c) \/ HangUp(c)

Spec == Init /\ [][Next]_vars

\* The threads are scheduled; a read ends after ten seconds.  A client need not
\* do anything.
FairSpec ==
    /\ Spec
    /\ WF_vars(ThreadServer)
    /\ \A t \in Conns : WF_vars(ThreadClient(t))

-----------------------------------------------------------------------------
(* Properties                                                              *)

\* Only a client that has authenticated has a command executed, whichever
\* thread reads it and under whatever key (MasterApp.cpp:129-168, 243-246).
OnlyAuthenticated ==
    \A i \in DOMAIN executed : executed[i].of \in authed

\* No client has authenticated after another one.
OneSession == Cardinality(authed) <= 1

\* Its commands are executed once each and in the order sent; only those that
\* came in one read with the login are missing, all of them before the first.
OneSessionInOrder ==
    OneSession =>
        \A i \in 1..Len(executed) - 1 : executed[i + 1].n = executed[i].n + 1

\* An answer goes to the client that sent the command, which can read it.
OneSessionAnswered ==
    OneSession => \A a \in answers : a.answer.of = a.to /\ a.answer.seal = a.to

\* As long as one client only has authenticated, its commands are executed once
\* each and in the order sent, and every answer goes to it under its key
\* (MasterApp.cpp:114-119, 242-246, 399-403, 538-552).
OneSessionKept == OneSessionInOrder /\ OneSessionAnswered

\* A client that waits is accepted, though the one before it stays silent or
\* goes away in the middle of its handshake; only the end of the program
\* prevents it (MasterApp.cpp:95-99, 210-215).
NextClientServed ==
    \A c \in Conns : (c \in ToSet(backlog)) ~> (c \notin ToSet(backlog) \/ ~alive)

\* What the client of the only session has sent is read, unless the first
\* hand-over has closed its connection (MasterApp.cpp:236-255).
Pending == authfd \in open /\ wire[authfd] # <<>>
SessionServed == (sessions = 1 /\ OneSession /\ Pending) ~> (~Pending \/ ~OneSession \/ ~alive)

-----------------------------------------------------------------------------
(* The inductive invariant of MasterSessionsProofs                         *)

HandOver == {"close", "setKey", "save", "create"}
Working == {"decrypt", "parse", "encrypt", "send"}

\* What waits to be read of a client is the last it has sent: the handshake has
\* the number 0, and is not encrypted.
InOrder(c) ==
    /\ step[c] \in {"hello", "login"} => wire[c] = <<>>
    /\ step[c] # "command" => sent[c] = 0
    /\ Len(wire[c]) <= sent[c] + 1
    /\ \A i \in 1..Len(wire[c]) :
          /\ wire[c][i].of = c
          /\ wire[c][i].n = sent[c] - Len(wire[c]) + i
          /\ wire[c][i].seal = IF wire[c][i].n = 0 THEN None ELSE c

WireInOrder == \A c \in Conns : InOrder(c)

\* The clients that wait to be accepted are different, and new to the server.
Awaited ==
    /\ \A i, j \in 1..Len(backlog) : backlog[i] = backlog[j] => i = j
    /\ \A i \in 1..Len(backlog) :
          /\ peer[backlog[i]] # "new" /\ step[backlog[i]] \in {"hello", "key"}
          /\ backlog[i] # new_client /\ backlog[i] \notin authed
    /\ \A c \in Conns : peer[c] = "new" => step[c] = "hello" /\ c # new_client /\ c \notin authed

\* A client authenticates once, and the key, the descriptor and the threads are
\* those of clients that have.
Admitted ==
    /\ server # "accept" => new_client # None
    /\ server \in {"start", "key", "auth"} => new_client \notin authed
    /\ server = "start" => step[new_client] \in {"hello", "key"}
    /\ server = "key" => step[new_client] = "key" /\ wire[new_client] = <<>>
    /\ server = "auth" => step[new_client] \in {"login", "command"}
    /\ server \in HandOver => new_client \in authed
    /\ server \in {"save", "create"} => key = new_client
    /\ authfd \in authed \cup {None} /\ key \in authed \cup {None}
    /\ \A c \in authed : step[c] = "command" /\ Len(wire[c]) <= sent[c]
    /\ Cardinality(authed) = IF server \in HandOver THEN sessions + 1 ELSE sessions
    /\ sessions # 0 => key # None
    /\ \A t \in Conns : t > sessions => pc[t] = "none"

\* What is decrypted is from a client that has authenticated.
Decrypted ==
    /\ executed \in Seq(Messages)
    /\ \A t \in Conns : got[t] <= Len(rx)
    /\ \A i \in 1..Len(rx) :
          \/ rx[i].seal \in {None, Garbage, rx[i].of}
          \/ rx[i].seal = Plain /\ rx[i].of \in authed
    /\ OnlyAuthenticated

\* The commands of a client that have been read.
Taken(a) == sent[a] - Len(wire[a])

\* The blocks the first thread has read and not parsed are First to got[1].
First == IF pc[1] = "decrypt" THEN 1 ELSE at[1]
Unparsed == IF pc[1] \in Working THEN got[1] - First + 1 ELSE 0

\* With one session: what is executed, what the thread has to parse and what
\* waits to be read follow one another.
InTurn ==
    OneSession =>
        /\ \A t \in Conns : fd[t] \in authed \cup {None}
        /\ Unparsed >= 0
        /\ \A a \in authed :
              /\ pc[1] \in Working =>
                    \A i \in First..got[1] :
                        /\ rx[i].of = a
                        /\ rx[i].n = Taken(a) - got[1] + i
                        /\ rx[i].seal = IF pc[1] = "decrypt" THEN a ELSE Plain
              /\ executed # <<>> => executed[Len(executed)].n = Taken(a) - Unparsed
              /\ pc[1] \in {"encrypt", "send"} =>
                    tx.of = a /\ tx.seal = IF pc[1] = "send" THEN a ELSE Plain

\* With one session every answer has gone to its client.
AnsweredToIt == OneSession => \A a \in answers : a.to \in authed

SessionsInv ==
    /\ TypeOK /\ WireInOrder /\ Awaited /\ Admitted /\ Decrypted
    /\ InTurn /\ AnsweredToIt /\ OneSessionInOrder /\ OneSessionAnswered
=============================================================================
