------------------------ MODULE MasterSessionsProofs ------------------------
(***************************************************************************)
(* Proofs about the command server, for any number of clients and commands: *)
(* SessionsInv is inductive, and with it OnlyAuthenticated and              *)
(* OneSessionKept hold.                                                     *)
(***************************************************************************)
EXTENDS MasterSessions, SequenceTheorems, FiniteSetTheorems, TLAPS

USE DEF clientVars, serverVars, linkVars, threadVars, ghostVars, ServerGoto, ThreadGoto

-----------------------------------------------------------------------------
(* Sequences, sets and messages                                            *)

\* What is left of a sequence of which the first k elements are read.
LEMMA Rest ==
    ASSUME NEW S, NEW s \in Seq(S), NEW k \in 1..Len(s)
    PROVE  /\ SubSeq(s, k + 1, Len(s)) \in Seq(S)
           /\ Len(SubSeq(s, k + 1, Len(s))) = Len(s) - k
           /\ \A i \in 1..Len(s) - k : SubSeq(s, k + 1, Len(s))[i] = s[k + i]
<1>1. Len(s) \in Nat /\ k \in Nat /\ \A i \in k + 1..Len(s) : s[i] \in S
  BY ElementOfSeq
<1>2. /\ SubSeq(s, k + 1, Len(s)) \in Seq(S)
      /\ Len(SubSeq(s, k + 1, Len(s))) = IF k + 1 <= Len(s) THEN Len(s) - (k + 1) + 1 ELSE 0
      /\ \A i \in 1..Len(s) - (k + 1) + 1 : SubSeq(s, k + 1, Len(s))[i] = s[k + 1 + i - 1]
  BY <1>1, SubSeqProperties
<1>. QED BY <1>1, <1>2

\* What is read of w is put over the beginning of s.
LEMMA PutOver ==
    ASSUME NEW S, NEW s \in Seq(S), NEW w \in Seq(S), NEW k \in 1..Len(w),
           NEW r, r = SubSeq(w, 1, k) \o SubSeq(s, k + 1, Len(s))
    PROVE  /\ r \in Seq(S)
           /\ Len(r) = IF k <= Len(s) THEN Len(s) ELSE k
           /\ \A i \in 1..k : r[i] = w[i]
           /\ \A i \in k + 1..Len(r) : i \in 1..Len(s) /\ r[i] = s[i]
<1>1. /\ Len(s) \in Nat /\ Len(w) \in Nat /\ k \in Nat
      /\ \A i \in 1..k : w[i] \in S
      /\ \A i \in k + 1..Len(s) : s[i] \in S
  BY ElementOfSeq
<1>2. /\ SubSeq(w, 1, k) \in Seq(S) /\ Len(SubSeq(w, 1, k)) = k
      /\ \A i \in 1..k : SubSeq(w, 1, k)[i] = w[i]
  <2>1. /\ SubSeq(w, 1, k) \in Seq(S)
        /\ Len(SubSeq(w, 1, k)) = IF 1 <= k THEN k - 1 + 1 ELSE 0
        /\ \A i \in 1..k - 1 + 1 : SubSeq(w, 1, k)[i] = w[1 + i - 1]
    BY <1>1, SubSeqProperties
  <2>. QED BY <1>1, <2>1
<1>3. /\ SubSeq(s, k + 1, Len(s)) \in Seq(S)
      /\ Len(SubSeq(s, k + 1, Len(s))) = IF k + 1 <= Len(s) THEN Len(s) - (k + 1) + 1 ELSE 0
      /\ \A i \in 1..Len(s) - (k + 1) + 1 : SubSeq(s, k + 1, Len(s))[i] = s[k + 1 + i - 1]
  BY <1>1, SubSeqProperties
<1>4. /\ r \in Seq(S)
      /\ Len(r) = k + Len(SubSeq(s, k + 1, Len(s)))
      /\ \A i \in 1..Len(r) :
            r[i] = IF i <= k THEN SubSeq(w, 1, k)[i] ELSE SubSeq(s, k + 1, Len(s))[i - k]
  BY <1>2, <1>3, ConcatProperties
<1>5. Len(r) = IF k <= Len(s) THEN Len(s) ELSE k
  BY <1>1, <1>3, <1>4
<1>6. \A i \in 1..k : r[i] = w[i]
  BY <1>1, <1>2, <1>4, <1>5
<1>7. ASSUME NEW i \in k + 1..Len(r) PROVE i \in 1..Len(s) /\ r[i] = s[i]
  <2>1. k < Len(s) /\ i \in 1..Len(s) /\ i - k \in 1..Len(s) - (k + 1) + 1
    BY <1>1, <1>5
  <2>2. r[i] = SubSeq(s, k + 1, Len(s))[i - k]
    BY <1>1, <1>4
  <2>. QED BY <1>1, <1>3, <2>1, <2>2
<1>. QED BY <1>4, <1>5, <1>6, <1>7

\* The clients that have authenticated are finitely many, no more than there are.
LEMMA AuthedFinite ==
    ASSUME NEW A \in SUBSET Conns
    PROVE  /\ IsFiniteSet(A) /\ Cardinality(A) \in 0..MaxConns
           /\ Cardinality(A) = 0 => A = {}
           /\ Cardinality(A) <= 1 => \A a, b \in A : a = b
<1>1. IsFiniteSet(Conns) /\ Cardinality(Conns) = MaxConns
  BY FS_Interval, BoundsAssumption DEF Conns
<1>2. IsFiniteSet(A) /\ Cardinality(A) <= MaxConns
  BY <1>1, FS_Subset
<1>3. Cardinality(A) \in Nat
  BY <1>2, FS_CardinalityType
<1>4. Cardinality(A) = 0 => A = {}
  BY <1>2, FS_EmptySet
<1>5. ASSUME Cardinality(A) <= 1, NEW a \in A, NEW b \in A PROVE a = b
  <2>1. Cardinality(A) = 1
    <3>1. Cardinality(A) # 0
      BY <1>4, <1>5
    <3>. QED BY <1>3, <1>5, <3>1
  <2>2. PICK x : A = {x}
    BY <1>2, <2>1, FS_Singleton
  <2>. QED BY <2>2
<1>. QED BY <1>2, <1>3, <1>4, <1>5, BoundsAssumption

\* One more has authenticated.
LEMMA AuthedGrows ==
    ASSUME NEW A \in SUBSET Conns, NEW c \in Conns
    PROVE  Cardinality(A \cup {c}) = IF c \in A THEN Cardinality(A) ELSE Cardinality(A) + 1
BY AuthedFinite, FS_AddElement

\* A handshake and a command are messages.
LEMMA MessagesTyped ==
    ASSUME NEW c \in Conns
    PROVE  /\ \A kind \in Kinds : Handshake(kind, c) \in Messages
           /\ \A n \in 0..MaxCommands : Command(c, n) \in Messages
BY BoundsAssumption DEF Handshake, Command, Messages, Kinds, None

\* A block that is decrypted, and an answer that is encrypted, are messages.
LEMMA SealTyped ==
    ASSUME NEW b \in Messages, NEW s \in Conns \cup {None, Plain, Garbage}
    PROVE  [b EXCEPT !.seal = s] \in Messages
BY DEF Messages

\* A client's messages of which the first k are read.
LEMMA WireRead ==
    ASSUME TypeOK, NEW c \in Conns, NEW k \in 1..Len(wire[c]),
           wire' = [wire EXCEPT ![c] = SubSeq(@, k + 1, Len(@))]
    PROVE  /\ wire' \in [Conns -> Seq(Messages)]
           /\ Len(wire[c]) \in Nat /\ Len(wire'[c]) = Len(wire[c]) - k
           /\ \A i \in 1..Len(wire'[c]) : wire'[c][i] = wire[c][k + i]
           /\ \A d \in Conns : d # c => wire'[d] = wire[d]
<1>1. wire[c] \in Seq(Messages)
  BY DEF TypeOK
<1>2. /\ SubSeq(wire[c], k + 1, Len(wire[c])) \in Seq(Messages)
      /\ Len(SubSeq(wire[c], k + 1, Len(wire[c]))) = Len(wire[c]) - k
      /\ \A i \in 1..Len(wire[c]) - k : SubSeq(wire[c], k + 1, Len(wire[c]))[i] = wire[c][k + i]
  BY <1>1, Rest
<1>3. wire'[c] = SubSeq(wire[c], k + 1, Len(wire[c]))
  BY DEF TypeOK
<1>4. \A d \in Conns : d # c => wire'[d] = wire[d]
  BY DEF TypeOK
<1>5. wire' \in [Conns -> Seq(Messages)]
  BY <1>2 DEF TypeOK
<1>. QED BY <1>1, <1>2, <1>3, <1>4, <1>5

\* A message that is sent is the last of its client's.
LEMMA WireSaid ==
    ASSUME TypeOK, NEW c \in Conns, NEW m \in Messages,
           wire' = [wire EXCEPT ![c] = Append(@, m)]
    PROVE  /\ wire' \in [Conns -> Seq(Messages)]
           /\ Len(wire[c]) \in Nat /\ Len(wire'[c]) = Len(wire[c]) + 1
           /\ \A i \in 1..Len(wire[c]) : wire'[c][i] = wire[c][i]
           /\ wire'[c][Len(wire[c]) + 1] = m
           /\ \A d \in Conns : d # c => wire'[d] = wire[d]
<1>1. wire[c] \in Seq(Messages)
  BY DEF TypeOK
<1>2. wire'[c] = Append(wire[c], m) /\ \A d \in Conns : d # c => wire'[d] = wire[d]
  BY DEF TypeOK
<1>3. wire' \in [Conns -> Seq(Messages)]
  BY <1>1, AppendProperties DEF TypeOK
<1>. QED BY <1>1, <1>2, <1>3, AppendProperties

\* What a session's thread reads: the first messages of a client that has
\* authenticated or of none, put over the beginning of the buffer.
LEMMA BlocksRead ==
    ASSUME TypeOK, NEW t \in Conns, ReadReturns(t)
    PROVE  /\ fd[t] \in Conns
           /\ \E k \in 1..Len(wire[fd[t]]) :
                 /\ k \in Nat
                 /\ wire' = [wire EXCEPT ![fd[t]] = SubSeq(@, k + 1, Len(@))]
                 /\ got' = [got EXCEPT ![t] = k]
                 /\ rx' \in Seq(Messages)
                 /\ Len(rx') = IF k <= Len(rx) THEN Len(rx) ELSE k
                 /\ \A i \in 1..k : rx'[i] = wire[fd[t]][i]
                 /\ \A i \in k + 1..Len(rx') : i \in 1..Len(rx) /\ rx'[i] = rx[i]
<1>1. fd[t] \in Conns
  BY DEF TypeOK, ReadReturns
<1>2. PICK k \in 1..Len(wire[fd[t]]) :
          /\ rx' = SubSeq(wire[fd[t]], 1, k) \o SubSeq(rx, k + 1, Len(rx))
          /\ wire' = [wire EXCEPT ![fd[t]] = SubSeq(@, k + 1, Len(@))]
          /\ got' = [got EXCEPT ![t] = k]
  BY DEF ReadReturns
<1>3. rx \in Seq(Messages) /\ wire[fd[t]] \in Seq(Messages)
  BY <1>1 DEF TypeOK
<1>4. k \in Nat
  BY <1>3
<1>5. /\ rx' \in Seq(Messages)
      /\ Len(rx') = IF k <= Len(rx) THEN Len(rx) ELSE k
      /\ \A i \in 1..k : rx'[i] = wire[fd[t]][i]
      /\ \A i \in k + 1..Len(rx') : i \in 1..Len(rx) /\ rx'[i] = rx[i]
  BY <1>2, <1>3, PutOver, SMTT(30)
<1>. QED BY <1>1, <1>2, <1>4, <1>5

\* What is decrypted with the key is Plain, the rest is Garbage.
LEMMA BlocksDecrypted ==
    ASSUME TypeOK, NEW t \in Conns, Decrypt(t)
    PROVE  /\ rx' \in Seq(Messages) /\ Len(rx') = Len(rx)
           /\ \A i \in 1..Len(rx) :
                 /\ rx'[i].of = rx[i].of /\ rx'[i].n = rx[i].n
                 /\ rx'[i].seal = IF i <= got[t]
                                  THEN IF rx[i].seal = key THEN Plain ELSE Garbage
                                  ELSE rx[i].seal
<1>1. rx \in Seq(Messages) /\ Len(rx) \in Nat /\ DOMAIN rx = 1..Len(rx)
  BY DEF TypeOK
<1>2. rx' = [i \in 1..Len(rx) |-> IF i <= got[t] THEN Deciphered(rx[i]) ELSE rx[i]]
  BY <1>1 DEF Decrypt
<1>3. ASSUME NEW i \in 1..Len(rx)
      PROVE  /\ rx[i] \in Messages /\ Deciphered(rx[i]) \in Messages
             /\ Deciphered(rx[i]).of = rx[i].of /\ Deciphered(rx[i]).n = rx[i].n
             /\ Deciphered(rx[i]).seal = IF rx[i].seal = key THEN Plain ELSE Garbage
  <2>1. rx[i] \in Messages
    BY <1>1, ElementOfSeq
  <2>2. Deciphered(rx[i]) \in Messages
    BY <2>1, SealTyped DEF Deciphered
  <2>. QED BY <2>1, <2>2 DEF Deciphered, Messages
<1>4. rx' \in [1..Len(rx) -> Messages]
  BY <1>2, <1>3
<1>5. rx' \in Seq(Messages) /\ Len(rx') = Len(rx)
  BY <1>1, <1>4
<1>. QED BY <1>2, <1>3, <1>5

\* A block that a thread parses is one of the buffer.
LEMMA Parsing ==
    ASSUME TypeOK, Decrypted, NEW t \in Conns, at[t] <= got[t]
    PROVE  at[t] \in 1..Len(rx) /\ rx[at[t]] \in Messages
<1>1. at[t] \in Nat \ {0} /\ got[t] \in Nat /\ Len(rx) \in Nat
  BY DEF TypeOK
<1>2. got[t] <= Len(rx)
  BY DEF Decrypted
<1>3. at[t] \in 1..Len(rx)
  BY <1>1, <1>2
<1>. QED BY <1>3, ElementOfSeq DEF TypeOK

-----------------------------------------------------------------------------
(* Types                                                                   *)

\* The types hold when the program starts.
LEMMA TypeOKInit == Init => TypeOK
<1>1. SUFFICES ASSUME Init PROVE TypeOK
  OBVIOUS
<1>2. \A c \in Conns : c \in Int
  BY BoundsAssumption DEF Conns
<1>3. 1 \in Conns /\ 0 \in 0..MaxCommands /\ 0 \in 0..MaxConns
  BY BoundsAssumption DEF Conns
<1>4. tx \in Messages
  BY <1>1, <1>3, MessagesTyped DEF Init, Kinds
<1>5. alive \in BOOLEAN
  BY <1>1, Zenon DEF Init
<1>6. wire \in [Conns -> Seq(Messages)] /\ rx \in Seq(Messages) /\ backlog \in Seq(Conns)
  BY <1>1 DEF Init
<1>7. /\ peer \in [Conns -> {"new", "open", "closed"}]
      /\ step \in [Conns -> {"hello", "key", "login", "command"}]
      /\ pc \in [Conns -> ThreadPlaces] /\ fd \in [Conns -> Conns \cup {None}]
      /\ got \in [Conns -> Nat] /\ at \in [Conns -> Nat \ {0}]
  BY <1>1 DEF Init, ThreadPlaces
<1>8. sent \in [Conns -> 0..MaxCommands]
  BY <1>1, <1>3 DEF Init
<1>. QED BY <1>1, <1>3, <1>4, <1>5, <1>6, <1>7, <1>8 DEF Init, TypeOK, ServerPlaces

\* Every step keeps the types.
LEMMA TypeOKNext == TypeOK /\ Admitted /\ Decrypted /\ [Next]_vars => TypeOK'
<1>1. SUFFICES ASSUME TypeOK, Admitted, Decrypted, [Next]_vars PROVE TypeOK'
  OBVIOUS
<1>. USE <1>1
<1>2. ASSUME NEW c \in Conns, Connect(c) PROVE TypeOK'
  <2>1. backlog' \in Seq(Conns)
    BY <1>2, AppendProperties DEF Connect, TypeOK
  <2>. QED BY <1>2, <2>1 DEF Connect, TypeOK
<1>3. ASSUME NEW c \in Conns, Say(c) PROVE TypeOK'
  <2>1. CASE \E m \in {step[c], "junk"} : wire' = [wire EXCEPT ![c] = Append(@, Handshake(m, c))]
             /\ step[c] \in {"hello", "login"} /\ UNCHANGED sent
             /\ step' = [step EXCEPT ![c] = IF @ = "hello" THEN "key" ELSE "command"]
    <3>1. PICK m \in {step[c], "junk"} : wire' = [wire EXCEPT ![c] = Append(@, Handshake(m, c))]
      BY <2>1
    <3>2. Handshake(m, c) \in Messages
      BY <2>1, <3>1, MessagesTyped DEF Kinds
    <3>3. wire' \in [Conns -> Seq(Messages)]
      BY <3>1, <3>2, WireSaid
    <3>. QED BY <1>3, <2>1, <3>3 DEF Say, TypeOK
  <2>2. CASE sent[c] < MaxCommands /\ sent' = [sent EXCEPT ![c] = @ + 1]
             /\ wire' = [wire EXCEPT ![c] = Append(@, Command(c, sent[c] + 1))] /\ UNCHANGED step
    <3>. sent[c] \in 0..MaxCommands
      BY DEF TypeOK
    <3>1. sent[c] + 1 \in 0..MaxCommands
      BY <2>2, BoundsAssumption
    <3>2. wire' \in [Conns -> Seq(Messages)]
      BY <2>2, <3>1, MessagesTyped, WireSaid
    <3>3. sent' \in [Conns -> 0..MaxCommands]
      BY <2>2, <3>1 DEF TypeOK
    <3>. QED BY <1>3, <2>2, <3>2, <3>3 DEF Say, TypeOK
  <2>. QED BY <1>3, <2>1, <2>2 DEF Say
<1>4. ASSUME NEW c \in Conns, HangUp(c) PROVE TypeOK'
  BY <1>4 DEF HangUp, TypeOK
<1>5. CASE Accept
  <2>1. Head(backlog) \in Conns /\ backlog' \in Seq(Conns)
    BY <1>5, HeadTailProperties DEF Accept, TypeOK
  <2>. QED BY <1>5, <2>1 DEF Accept, TypeOK, ServerPlaces
<1>6. CASE ReadHello
  <2>1. new_client \in Conns
    BY <1>6 DEF ReadHello, TypeOK, Admitted
  <2>2. wire' \in [Conns -> Seq(Messages)]
    BY <1>6, <2>1, WireRead DEF ReadHello, ServerReads
  <2>. QED BY <1>6, <2>1, <2>2 DEF ReadHello, ServerReads, Refuse, TypeOK, ServerPlaces
<1>7. CASE SendServerKey
  <2>1. alive' \in BOOLEAN
    BY <1>7, Zenon DEF SendServerKey, WriteTo, TypeOK
  <2>. QED BY <1>7, <2>1 DEF SendServerKey, TypeOK, ServerPlaces
<1>8. CASE ReadLogin
  <2>1. new_client \in Conns
    BY <1>8 DEF ReadLogin, TypeOK, Admitted
  <2>2. wire' \in [Conns -> Seq(Messages)]
    BY <1>8, <2>1, WireRead DEF ReadLogin, ServerReads
  <2>3. authed' \in SUBSET Conns
    BY <1>8, <2>1 DEF ReadLogin, TypeOK
  <2>. QED BY <1>8, <2>1, <2>2, <2>3 DEF ReadLogin, ServerReads, Refuse, TypeOK, ServerPlaces
<1>9. CASE Silent
  BY <1>9 DEF Silent, Refuse, TypeOK, ServerPlaces
<1>10. CASE CloseOld
  BY <1>10 DEF CloseOld, TypeOK, ServerPlaces
<1>11. CASE SetKey
  BY <1>11 DEF SetKey, TypeOK, ServerPlaces
<1>12. CASE SaveSocket
  BY <1>12 DEF SaveSocket, TypeOK, ServerPlaces
<1>13. CASE CreateThread
  <2>1. sessions + 1 \in 0..MaxConns
    BY <1>13, AuthedFinite DEF CreateThread, Admitted, HandOver, TypeOK
  <2>2. pc' \in [Conns -> ThreadPlaces]
    BY <1>13 DEF CreateThread, TypeOK, ThreadPlaces
  <2>. QED BY <1>13, <2>1, <2>2 DEF CreateThread, TypeOK, ServerPlaces
<1>14. ASSUME NEW t \in Conns, EnterRead(t) PROVE TypeOK'
  <2>1. fd' \in [Conns -> Conns \cup {None}] /\ pc' \in [Conns -> ThreadPlaces]
    BY <1>14 DEF EnterRead, TypeOK, ThreadPlaces
  <2>. QED BY <1>14, <2>1 DEF EnterRead, TypeOK
<1>15. ASSUME NEW t \in Conns, ReadReturns(t) PROVE TypeOK'
  <2>1. fd[t] \in Conns
    BY <1>15, BlocksRead
  <2>2. PICK k \in 1..Len(wire[fd[t]]) :
            /\ k \in Nat
            /\ wire' = [wire EXCEPT ![fd[t]] = SubSeq(@, k + 1, Len(@))]
            /\ got' = [got EXCEPT ![t] = k]
            /\ rx' \in Seq(Messages)
    BY <1>15, BlocksRead
  <2>3. wire' \in [Conns -> Seq(Messages)]
    BY <2>1, <2>2, WireRead
  <2>4. got' \in [Conns -> Nat] /\ pc' \in [Conns -> ThreadPlaces]
    BY <1>15, <2>2 DEF ReadReturns, TypeOK, ThreadPlaces
  <2>. QED BY <1>15, <2>2, <2>3, <2>4 DEF ReadReturns, TypeOK
<1>16. ASSUME NEW t \in Conns, ReadNothing(t) PROVE TypeOK'
  BY <1>16 DEF ReadNothing, TypeOK, ThreadPlaces
<1>17. ASSUME NEW t \in Conns, Decrypt(t) PROVE TypeOK'
  <2>1. rx' \in Seq(Messages)
    BY <1>17, BlocksDecrypted
  <2>2. at' \in [Conns -> Nat \ {0}] /\ pc' \in [Conns -> ThreadPlaces]
    BY <1>17, SMTT(30) DEF Decrypt, TypeOK, ThreadPlaces
  <2>. QED BY <1>17, <2>1, <2>2 DEF Decrypt, TypeOK
<1>18. ASSUME NEW t \in Conns, Execute(t) PROVE TypeOK'
  <2>1. tx' \in Messages
    BY <1>18, Parsing DEF Execute
  <2>7. at[t] + 1 \in Nat \ {0}
    <3>1. at[t] \in Nat
      BY DEF TypeOK
    <3>. QED BY <3>1
  <2>2. at' \in [Conns -> Nat \ {0}] /\ pc' \in [Conns -> ThreadPlaces]
    BY <1>18, <2>7 DEF Execute, TypeOK, ThreadPlaces
  <2>. QED BY <1>18, <2>1, <2>2 DEF Execute, TypeOK
<1>19. ASSUME NEW t \in Conns, Skip(t) PROVE TypeOK'
  <2>7. at[t] + 1 \in Nat \ {0}
    <3>1. at[t] \in Nat
      BY DEF TypeOK
    <3>. QED BY <3>1
  <2>1. at' \in [Conns -> Nat \ {0}] /\ pc' \in [Conns -> ThreadPlaces]
    BY <1>19, <2>7 DEF Skip, TypeOK, ThreadPlaces
  <2>. QED BY <1>19, <2>1 DEF Skip, TypeOK
<1>20. ASSUME NEW t \in Conns, ParseEnds(t) PROVE TypeOK'
  BY <1>20 DEF ParseEnds, TypeOK, ThreadPlaces
<1>21. ASSUME NEW t \in Conns, Encrypt(t) PROVE TypeOK'
  <2>1. tx' \in Messages
    BY <1>21, SealTyped DEF Encrypt, TypeOK
  <2>. QED BY <1>21, <2>1 DEF Encrypt, TypeOK, ThreadPlaces
<1>22. ASSUME NEW t \in Conns, Send(t) PROVE TypeOK'
  <2>1. alive' \in BOOLEAN
    BY <1>22, Zenon DEF Send, WriteTo, TypeOK
  <2>. QED BY <1>22, <2>1 DEF Send, TypeOK, ThreadPlaces
<1>23. CASE UNCHANGED vars
  BY <1>23 DEF vars, TypeOK
<1>. QED
  BY <1>2, <1>3, <1>4, <1>5, <1>6, <1>7, <1>8, <1>9, <1>10, <1>11, <1>12, <1>13, <1>14, <1>15,
     <1>16, <1>17, <1>18, <1>19, <1>20, <1>21, <1>22, <1>23
  DEF Next, ThreadServer, ThreadClient

-----------------------------------------------------------------------------
(* The clients and the hand-over                                           *)

\* What waits to be read is in order.
LEMMA WireInOrderNext ==
    TypeOK /\ WireInOrder /\ Awaited /\ Admitted /\ [Next]_vars => WireInOrder'
<1>1. SUFFICES ASSUME TypeOK, WireInOrder, Awaited, Admitted, [Next]_vars PROVE WireInOrder'
  OBVIOUS
<1>. USE <1>1
<1>2. ASSUME NEW c \in Conns, Say(c) PROVE WireInOrder'
  <2>1. sent[c] \in 0..MaxCommands /\ Len(wire[c]) \in Nat /\ Len(wire[c]) <= sent[c] + 1
    BY DEF TypeOK, WireInOrder, InOrder
  <2>2. ASSUME NEW m \in Messages, wire' = [wire EXCEPT ![c] = Append(@, m)],
               m.of = c, m.seal = IF m.n = 0 THEN None ELSE c,
               sent'[c] \in Nat, m.n = sent'[c], Len(wire[c]) <= sent'[c],
               \A i \in 1..Len(wire[c]) : wire[c][i].n = sent'[c] - Len(wire[c]) + i - 1,
               step'[c] \in {"key", "command"}, step'[c] = "key" => sent'[c] = 0,
               \A d \in Conns : d # c => step'[d] = step[d] /\ sent'[d] = sent[d]
        PROVE  WireInOrder'
    <3>1. /\ Len(wire'[c]) = Len(wire[c]) + 1
          /\ \A i \in 1..Len(wire[c]) : wire'[c][i] = wire[c][i]
          /\ wire'[c][Len(wire[c]) + 1] = m
          /\ \A d \in Conns : d # c => wire'[d] = wire[d]
      BY <2>2, WireSaid
    <3>2. Len(wire'[c]) <= sent'[c] + 1
      BY <2>1, <2>2, <3>1
    <3>3. ASSUME NEW i \in 1..Len(wire'[c])
          PROVE  /\ wire'[c][i].of = c
                 /\ wire'[c][i].n = sent'[c] - Len(wire'[c]) + i
                 /\ wire'[c][i].seal = IF wire'[c][i].n = 0 THEN None ELSE c
      <4>1. CASE i = Len(wire[c]) + 1
        BY <2>1, <2>2, <3>1, <4>1
      <4>2. CASE i \in 1..Len(wire[c])
        <5>1. wire[c][i].of = c /\ wire[c][i].seal = IF wire[c][i].n = 0 THEN None ELSE c
          BY <4>2 DEF WireInOrder, InOrder
        <5>. QED BY <2>1, <2>2, <3>1, <4>2, <5>1
      <4>. QED BY <2>1, <3>1, <4>1, <4>2
    <3>4. InOrder(c)'
      BY <2>2, <3>2, <3>3 DEF InOrder
    <3>5. ASSUME NEW d \in Conns, d # c PROVE InOrder(d)'
      <4>1. InOrder(d) /\ wire'[d] = wire[d] /\ step'[d] = step[d] /\ sent'[d] = sent[d]
        BY <2>2, <3>1, <3>5 DEF WireInOrder
      <4>. QED BY <4>1 DEF InOrder
    <3>. QED BY <3>4, <3>5 DEF WireInOrder
  <2>3. CASE step[c] \in {"hello", "login"}
    <3>1. PICK kind \in {step[c], "junk"} :
                  wire' = [wire EXCEPT ![c] = Append(@, Handshake(kind, c))]
      BY <1>2, <2>3 DEF Say
    <3>2. Handshake(kind, c) \in Messages
      BY <2>3, <3>1, MessagesTyped DEF Kinds
    <3>3. sent[c] = 0 /\ Len(wire[c]) = 0
      BY <2>3, EmptySeq DEF WireInOrder, InOrder
    <3>4. sent' = sent /\ step' = [step EXCEPT ![c] = IF @ = "hello" THEN "key" ELSE "command"]
      BY <1>2, <2>3 DEF Say
    <3>5. /\ step'[c] \in {"key", "command"}
          /\ \A d \in Conns : d # c => step'[d] = step[d] /\ sent'[d] = sent[d]
      BY <3>4 DEF TypeOK
    <3>6. Handshake(kind, c).of = c /\ Handshake(kind, c).n = 0 /\ Handshake(kind, c).seal = None
      BY DEF Handshake
    <3>7. sent'[c] = 0 /\ Len(wire[c]) <= sent'[c] /\ sent'[c] \in Nat
      BY <3>3, <3>4
    <3>8. \A i \in 1..Len(wire[c]) : wire[c][i].n = sent'[c] - Len(wire[c]) + i - 1
      BY <3>3
    <3>. QED BY <2>2, <3>1, <3>2, <3>5, <3>6, <3>7, <3>8
  <2>4. CASE step[c] = "command"
    <3>1. /\ sent[c] < MaxCommands /\ sent' = [sent EXCEPT ![c] = @ + 1] /\ step' = step
          /\ wire' = [wire EXCEPT ![c] = Append(@, Command(c, sent[c] + 1))]
      BY <1>2, <2>4 DEF Say
    <3>2. sent[c] + 1 \in 0..MaxCommands
      BY <2>1, <3>1, BoundsAssumption
    <3>3. sent'[c] = sent[c] + 1 /\ \A d \in Conns : d # c => sent'[d] = sent[d]
      BY <3>1 DEF TypeOK
    <3>4. Command(c, sent[c] + 1) \in Messages
      BY <3>2, MessagesTyped
    <3>5. /\ Command(c, sent[c] + 1).of = c /\ Command(c, sent[c] + 1).n = sent[c] + 1
          /\ Command(c, sent[c] + 1).seal = c
      BY DEF Command
    <3>6. ASSUME NEW i \in 1..Len(wire[c])
          PROVE  wire[c][i].n = sent'[c] - Len(wire[c]) + i - 1
      <4>1. wire[c][i].n = sent[c] - Len(wire[c]) + i
        BY DEF WireInOrder, InOrder
      <4>. QED BY <2>1, <3>3, <4>1
    <3>7. sent'[c] \in Nat /\ sent'[c] # 0 /\ Len(wire[c]) <= sent'[c]
      BY <2>1, <3>3
    <3>8. step'[c] = "command" /\ \A d \in Conns : d # c => step'[d] = step[d]
      BY <2>4, <3>1
    <3>. QED BY <2>2, <3>1, <3>3, <3>4, <3>5, <3>6, <3>7, <3>8
  <2>. QED BY <1>2, <2>3, <2>4 DEF Say
<1>3. ASSUME NEW c \in Conns, NEW k \in 1..Len(wire[c]),
             wire' = [wire EXCEPT ![c] = SubSeq(@, k + 1, Len(@))],
             UNCHANGED <<step, sent>>
      PROVE  WireInOrder'
  <2>1. /\ Len(wire[c]) \in Nat /\ Len(wire'[c]) = Len(wire[c]) - k
        /\ \A i \in 1..Len(wire'[c]) : wire'[c][i] = wire[c][k + i]
        /\ \A d \in Conns : d # c => wire'[d] = wire[d]
    BY <1>3, WireRead
  <2>2. sent[c] \in Nat
    BY DEF TypeOK
  <2>3. wire[c] # <<>>
    BY <2>1, EmptySeq
  <2>4. step[c] \notin {"hello", "login"}
    BY <2>3 DEF WireInOrder, InOrder
  <2>5. /\ Len(wire'[c]) <= sent[c] + 1
        /\ \A i \in 1..Len(wire'[c]) :
              /\ wire'[c][i].of = c
              /\ wire'[c][i].n = sent[c] - Len(wire'[c]) + i
              /\ wire'[c][i].seal = IF wire'[c][i].n = 0 THEN None ELSE c
    <3>1. Len(wire'[c]) <= sent[c] + 1
      BY <2>1, <2>2 DEF WireInOrder, InOrder
    <3>2. ASSUME NEW i \in 1..Len(wire'[c])
          PROVE  /\ wire'[c][i].of = c
                 /\ wire'[c][i].n = sent[c] - Len(wire'[c]) + i
                 /\ wire'[c][i].seal = IF wire'[c][i].n = 0 THEN None ELSE c
      <4>1. k + i \in 1..Len(wire[c]) /\ wire'[c][i] = wire[c][k + i]
        BY <2>1
      <4>2. /\ wire[c][k + i].of = c
            /\ wire[c][k + i].n = sent[c] - Len(wire[c]) + (k + i)
            /\ wire[c][k + i].seal = IF wire[c][k + i].n = 0 THEN None ELSE c
        BY <4>1 DEF WireInOrder, InOrder
      <4>. QED BY <2>1, <2>2, <4>1, <4>2
    <3>. QED BY <3>1, <3>2
  <2>. QED BY <1>3, <2>1, <2>4, <2>5 DEF WireInOrder, InOrder
<1>4. CASE ReadHello
  <2>1. new_client \in Conns
    BY <1>4 DEF ReadHello, TypeOK, Admitted
  <2>. QED BY <1>3, <1>4, <2>1 DEF ReadHello, ServerReads
<1>5. CASE SendServerKey
  <2>1. new_client \in Conns /\ wire[new_client] = <<>> /\ step[new_client] = "key"
    BY <1>5 DEF SendServerKey, TypeOK, Admitted
  <2>2. wire' = wire /\ sent' = sent /\ step' = [step EXCEPT ![new_client] = "login"]
    BY <1>5 DEF SendServerKey
  <2>3. step'[new_client] = "login" /\ \A d \in Conns : d # new_client => step'[d] = step[d]
    BY <2>1, <2>2 DEF TypeOK
  <2>4. sent[new_client] = 0
    BY <2>1 DEF WireInOrder, InOrder
  <2>5. ASSUME NEW d \in Conns
        PROVE  /\ step'[d] \in {"hello", "login"} => wire[d] = <<>>
               /\ step'[d] # "command" => sent[d] = 0
    BY <2>1, <2>3, <2>4 DEF WireInOrder, InOrder
  <2>. QED BY <2>2, <2>5 DEF WireInOrder, InOrder
<1>6. CASE ReadLogin
  <2>1. new_client \in Conns
    BY <1>6 DEF ReadLogin, TypeOK, Admitted
  <2>. QED BY <1>3, <1>6, <2>1 DEF ReadLogin, ServerReads
<1>7. ASSUME NEW t \in Conns, ReadReturns(t) PROVE WireInOrder'
  <2>1. fd[t] \in Conns /\ UNCHANGED <<step, sent>>
    BY <1>7, BlocksRead DEF ReadReturns
  <2>. QED BY <1>3, <1>7, <2>1, BlocksRead
<1>8. CASE UNCHANGED <<wire, step, sent>>
  BY <1>8 DEF WireInOrder, InOrder
<1>. QED
  BY <1>2, <1>4, <1>5, <1>6, <1>7, <1>8
  DEF Next, ThreadServer, ThreadClient, Connect, HangUp, Accept, Silent, CloseOld, SetKey,
      SaveSocket, CreateThread, EnterRead, ReadNothing, Decrypt, Execute, Skip, ParseEnds,
      Encrypt, Send, vars

\* The clients that wait to be accepted stay new to the server.
LEMMA AwaitedNext ==
    TypeOK /\ Awaited /\ Admitted /\ [Next]_vars => Awaited'
<1>1. SUFFICES ASSUME TypeOK, Awaited, Admitted, [Next]_vars PROVE Awaited'
  OBVIOUS
<1>. USE <1>1
<1>2. backlog \in Seq(Conns) /\ Len(backlog) \in Nat /\ \A i \in 1..Len(backlog) : backlog[i] \in Conns
  BY ElementOfSeq DEF TypeOK
<1>3. ASSUME NEW c \in Conns, Connect(c) PROVE Awaited'
  <2>1. /\ peer[c] = "new" /\ peer' = [peer EXCEPT ![c] = "open"]
        /\ backlog' = Append(backlog, c)
        /\ UNCHANGED <<step, new_client, authed>>
    BY <1>3 DEF Connect
  <2>2. /\ Len(backlog') = Len(backlog) + 1 /\ backlog'[Len(backlog) + 1] = c
        /\ \A i \in 1..Len(backlog) : backlog'[i] = backlog[i]
    BY <1>2, <2>1, AppendProperties
  <2>3. peer'[c] = "open" /\ \A d \in Conns : d # c => peer'[d] = peer[d]
    BY <2>1 DEF TypeOK
  <2>4. step[c] = "hello" /\ c # new_client /\ c \notin authed
    BY <2>1 DEF Awaited
  <2>5. \A i \in 1..Len(backlog) : backlog[i] # c
    BY <2>1 DEF Awaited
  <2>6. ASSUME NEW i \in 1..Len(backlog')
        PROVE  /\ peer'[backlog'[i]] # "new" /\ step'[backlog'[i]] \in {"hello", "key"}
               /\ backlog'[i] # new_client' /\ backlog'[i] \notin authed'
    <3>1. CASE i = Len(backlog) + 1
      BY <2>1, <2>2, <2>3, <2>4, <3>1
    <3>2. CASE i \in 1..Len(backlog)
      BY <1>2, <2>1, <2>2, <2>3, <2>5, <3>2 DEF Awaited
    <3>. QED BY <1>2, <2>2, <3>1, <3>2
  <2>7. ASSUME NEW i \in 1..Len(backlog'), NEW j \in 1..Len(backlog'), backlog'[i] = backlog'[j]
        PROVE  i = j
    <3>1. CASE i \in 1..Len(backlog) /\ j \in 1..Len(backlog)
      BY <2>2, <2>7, <3>1 DEF Awaited
    <3>2. CASE i = Len(backlog) + 1
      BY <1>2, <2>2, <2>5, <2>7, <3>2
    <3>3. CASE j = Len(backlog) + 1
      BY <1>2, <2>2, <2>5, <2>7, <3>3
    <3>. QED BY <1>2, <2>2, <3>1, <3>2, <3>3
  <2>8. \A d \in Conns : peer'[d] = "new" =>
              step'[d] = "hello" /\ d # new_client' /\ d \notin authed'
    BY <2>1, <2>3 DEF Awaited
  <2>. QED BY <2>6, <2>7, <2>8 DEF Awaited
<1>4. ASSUME UNCHANGED <<backlog, new_client, authed>>,
             \A c \in Conns : peer[c] # "new" => peer'[c] # "new",
             \A c \in Conns : step[c] \in {"hello", "key"} /\ c # new_client =>
                                  step'[c] \in {"hello", "key"},
             \A c \in Conns : peer'[c] = "new" => peer[c] = "new" /\ step'[c] = step[c]
      PROVE  Awaited'
  BY <1>2, <1>4 DEF Awaited
<1>5. ASSUME NEW c \in Conns, Say(c) PROVE Awaited'
  <2>1. /\ peer[c] = "open" /\ UNCHANGED <<peer, backlog, new_client, authed>>
        /\ \/ step' = [step EXCEPT ![c] = IF @ = "hello" THEN "key" ELSE "command"]
              /\ step[c] \in {"hello", "login"}
           \/ step' = step
    BY <1>5 DEF Say
  <2>2. \A d \in Conns : step'[d] = step[d] \/ (d = c /\ step'[d] = "key")
                            \/ (d = c /\ step[d] = "login")
    BY <2>1 DEF TypeOK
  <2>3. \A d \in Conns : step[d] \in {"hello", "key"} => step'[d] \in {"hello", "key"}
    BY <2>2
  <2>4. \A d \in Conns : peer'[d] = "new" => peer[d] = "new" /\ step'[d] = step[d]
    BY <2>1, <2>2
  <2>. QED BY <1>4, <2>1, <2>3, <2>4
<1>6. ASSUME NEW c \in Conns, HangUp(c) PROVE Awaited'
  <2>1. /\ peer' = [peer EXCEPT ![c] = "closed"]
        /\ UNCHANGED <<step, backlog, new_client, authed>>
    BY <1>6 DEF HangUp
  <2>2. \A d \in Conns : peer'[d] = peer[d] \/ peer'[d] = "closed"
    BY <2>1 DEF TypeOK
  <2>. QED BY <1>4, <2>1, <2>2
<1>7. CASE Accept
  <2>1. /\ backlog # <<>> /\ backlog' = Tail(backlog) /\ new_client' = Head(backlog)
        /\ UNCHANGED <<peer, step, authed>>
    BY <1>7 DEF Accept
  <2>2. /\ Len(backlog) # 0 /\ Len(backlog') = Len(backlog) - 1
        /\ \A i \in 1..Len(backlog') : backlog'[i] = backlog[i + 1]
    BY <1>2, <2>1, HeadTailProperties, EmptySeq
  <2>3. new_client' = backlog[1] /\ 1 \in 1..Len(backlog)
    BY <1>2, <2>1, <2>2
  <2>4. \A i \in 1..Len(backlog') : i + 1 \in 1..Len(backlog) /\ i + 1 # 1
    BY <1>2, <2>2
  <2>5. \A i, j \in 1..Len(backlog') : backlog'[i] = backlog'[j] => i = j
    <3>1. SUFFICES ASSUME NEW i \in 1..Len(backlog'), NEW j \in 1..Len(backlog'),
                          backlog'[i] = backlog'[j]
                   PROVE  i = j
      OBVIOUS
    <3>2. i + 1 = j + 1
      BY <2>2, <2>4, <3>1 DEF Awaited
    <3>. QED BY <1>2, <2>2, <3>2
  <2>6. \A i \in 1..Len(backlog') :
            /\ peer'[backlog'[i]] # "new" /\ step'[backlog'[i]] \in {"hello", "key"}
            /\ backlog'[i] # new_client' /\ backlog'[i] \notin authed'
    BY <2>1, <2>2, <2>3, <2>4 DEF Awaited
  <2>7. \A c \in Conns : peer'[c] = "new" => step'[c] = "hello" /\ c # new_client' /\ c \notin authed'
    BY <2>1, <2>3 DEF Awaited
  <2>. QED BY <2>5, <2>6, <2>7 DEF Awaited
<1>8. CASE SendServerKey
  <2>1. /\ UNCHANGED <<peer, backlog, new_client, authed>>
        /\ step' = [step EXCEPT ![new_client] = "login"]
    BY <1>8 DEF SendServerKey
  <2>2. \A c \in Conns : c # new_client => step'[c] = step[c]
    BY <2>1 DEF TypeOK
  <2>3. \A c \in Conns : peer[c] = "new" => c # new_client
    BY DEF Awaited
  <2>. QED BY <1>4, <2>1, <2>2, <2>3
<1>9. CASE ReadLogin
  <2>1. /\ UNCHANGED <<peer, step, backlog, new_client>>
        /\ authed' = authed \/ authed' = authed \cup {new_client}
    BY <1>9 DEF ReadLogin, ServerReads, Refuse
  <2>. QED BY <1>2, <2>1 DEF Awaited
<1>10. CASE UNCHANGED <<peer, step, backlog, new_client, authed>>
  BY <1>4, <1>10
<1>. QED
  BY <1>3, <1>5, <1>6, <1>7, <1>8, <1>9, <1>10
  DEF Next, ThreadServer, ThreadClient, ReadHello, ServerReads, Refuse, Silent, CloseOld, SetKey,
      SaveSocket, CreateThread, EnterRead, ReadReturns, ReadNothing, Decrypt, Execute, Skip,
      ParseEnds, Encrypt, Send, vars

\* A step of a session's thread, which runs, leaves it running and leaves the
\* hand-over alone.
LEMMA ThreadRuns ==
    ASSUME TypeOK, Admitted, NEW t \in Conns, ThreadClient(t)
    PROVE  /\ pc[t] # "none" /\ pc'[t] # "none"
           /\ \A u \in Conns : u # t => pc'[u] = pc[u]
           /\ sessions # 0 /\ key \in authed
           /\ UNCHANGED <<step, sent, server, new_client, backlog, authfd, key, sessions, authed>>
<1>1. /\ pc[t] # "none"
      /\ \E to \in ThreadPlaces \ {"none"} : pc' = [pc EXCEPT ![t] = to]
  BY DEF ThreadClient, EnterRead, ReadReturns, ReadNothing, Decrypt, Execute, Skip, ParseEnds,
         Encrypt, Send, ThreadPlaces
<1>2. pc'[t] # "none" /\ \A u \in Conns : u # t => pc'[u] = pc[u]
  BY <1>1 DEF TypeOK
<1>3. sessions # 0
  <2>1. t > 0 /\ ~(t > sessions)
    BY <1>1, BoundsAssumption DEF Admitted, Conns
  <2>. QED BY <2>1
<1>4. key \in authed
  BY <1>3 DEF Admitted
<1>5. UNCHANGED <<step, sent, server, new_client, backlog, authfd, key, sessions, authed>>
  BY DEF ThreadClient, EnterRead, ReadReturns, ReadNothing, Decrypt, Execute, Skip, ParseEnds,
         Encrypt, Send
<1>. QED BY <1>1, <1>2, <1>3, <1>4, <1>5

\* The hand-over is kept.
LEMMA AdmittedNext ==
    TypeOK /\ WireInOrder /\ Awaited /\ Admitted /\ [Next]_vars => Admitted'
<1>1. SUFFICES ASSUME TypeOK, WireInOrder, Awaited, Admitted, [Next]_vars PROVE Admitted'
  OBVIOUS
<1>. USE <1>1
<1>2. new_client \in Conns \cup {None} /\ authed \in SUBSET Conns
  BY DEF TypeOK
<1>3. \A c \in Conns : Len(wire[c]) \in Nat /\ sent[c] \in Nat
  BY DEF TypeOK
<1>4. ASSUME UNCHANGED <<server, new_client, authfd, key, authed, sessions, pc>>,
             server = "start" => step'[new_client] \in {"hello", "key"},
             server = "key" => step'[new_client] = "key" /\ wire'[new_client] = <<>>,
             server = "auth" => step'[new_client] \in {"login", "command"},
             \A c \in authed : step'[c] = "command" /\ Len(wire'[c]) <= sent'[c]
      PROVE  Admitted'
  BY <1>4 DEF Admitted
<1>5. ASSUME NEW c \in Conns, Say(c) PROVE Admitted'
  <2>1. UNCHANGED <<server, new_client, authfd, key, authed, sessions, pc>>
    BY <1>5 DEF Say
  <2>2. \A d \in Conns : d # c => wire'[d] = wire[d] /\ step'[d] = step[d] /\ sent'[d] = sent[d]
    BY <1>5 DEF Say, TypeOK
  <2>3. CASE step[c] \in {"hello", "login"}
    <3>1. step'[c] = IF step[c] = "hello" THEN "key" ELSE "command"
      BY <1>5, <2>3 DEF Say, TypeOK
    <3>2. c \notin authed
      BY <2>3 DEF Admitted
    <3>3. server = "start" => step'[new_client] \in {"hello", "key"}
      BY <1>2, <2>2, <2>3, <3>1 DEF Admitted
    <3>4. server = "key" => step'[new_client] = "key" /\ wire'[new_client] = <<>>
      BY <1>2, <2>2, <2>3, <3>1 DEF Admitted
    <3>5. server = "auth" => step'[new_client] \in {"login", "command"}
      BY <1>2, <2>2, <2>3, <3>1 DEF Admitted
    <3>6. \A d \in authed : step'[d] = "command" /\ Len(wire'[d]) <= sent'[d]
      BY <1>2, <2>2, <3>2 DEF Admitted
    <3>. QED BY <1>4, <2>1, <3>3, <3>4, <3>5, <3>6
  <2>4. CASE step[c] = "command"
    <3>1. /\ step' = step /\ sent'[c] = sent[c] + 1
          /\ sent[c] < MaxCommands
          /\ wire' = [wire EXCEPT ![c] = Append(@, Command(c, sent[c] + 1))]
      BY <1>5, <2>4 DEF Say, TypeOK
    <3>2. Len(wire'[c]) = Len(wire[c]) + 1
      <4>1. sent[c] + 1 \in 0..MaxCommands
        BY <1>3, <3>1, BoundsAssumption
      <4>2. Command(c, sent[c] + 1) \in Messages
        BY <4>1, MessagesTyped
      <4>. QED BY <3>1, <4>2, WireSaid
    <3>3. server = "key" => new_client # c
      BY <2>4 DEF Admitted
    <3>4. server = "key" => wire'[new_client] = <<>>
      BY <1>2, <2>2, <3>3 DEF Admitted
    <3>5. \A d \in authed : Len(wire'[d]) <= sent'[d]
      BY <1>2, <1>3, <2>2, <3>1, <3>2 DEF Admitted
    <3>. QED BY <1>4, <2>1, <3>1, <3>4, <3>5 DEF Admitted
  <2>. QED BY <1>5, <2>3, <2>4 DEF Say
<1>6. CASE Accept
  <2>1. /\ backlog # <<>> /\ new_client' = Head(backlog) /\ server' = "start" /\ server = "accept"
        /\ UNCHANGED <<wire, step, sent, authfd, key, authed, sessions, pc>>
    BY <1>6 DEF Accept
  <2>2. new_client' = backlog[1] /\ 1 \in 1..Len(backlog) /\ backlog[1] \in Conns
    BY <2>1, EmptySeq, ElementOfSeq DEF TypeOK
  <2>3. step[new_client'] \in {"hello", "key"} /\ new_client' \notin authed /\ new_client' # None
    BY <2>2, BoundsAssumption DEF Awaited, Conns, None
  <2>. QED BY <2>1, <2>3 DEF Admitted, HandOver
<1>7. CASE ReadHello
  <2>1. /\ new_client \in Conns /\ server = "start" /\ step[new_client] \in {"hello", "key"}
        /\ new_client \notin authed
    BY <1>2, <1>7 DEF ReadHello, Admitted
  <2>2. wire[new_client] # <<>>
    BY <1>7 DEF ReadHello, ServerReads
  <2>3. PICK k \in 1..Len(wire[new_client]) :
            wire' = [wire EXCEPT ![new_client] = SubSeq(@, k + 1, Len(@))]
    BY <1>7 DEF ReadHello, ServerReads
  <2>4. step[new_client] = "key" /\ sent[new_client] = 0 /\ Len(wire[new_client]) <= 1
    BY <2>1, <2>2 DEF WireInOrder, InOrder
  <2>5. /\ Len(wire'[new_client]) = Len(wire[new_client]) - k
        /\ wire' \in [Conns -> Seq(Messages)]
        /\ \A d \in Conns : d # new_client => wire'[d] = wire[d]
    BY <2>1, <2>3, WireRead
  <2>6. wire'[new_client] = <<>>
    <3>1. Len(wire'[new_client]) = 0
      BY <1>3, <2>1, <2>4, <2>5
    <3>. QED BY <2>1, <2>5, <3>1, EmptySeq
  <2>7. /\ server' \in {"key", "accept"}
        /\ UNCHANGED <<step, sent, new_client, authfd, key, authed, sessions, pc>>
    BY <1>7 DEF ReadHello, ServerReads, Refuse
  <2>8. \A d \in authed : Len(wire'[d]) <= sent[d]
    BY <1>2, <2>1, <2>5 DEF Admitted
  <2>. QED BY <2>1, <2>4, <2>6, <2>7, <2>8 DEF Admitted, HandOver
<1>8. CASE SendServerKey
  <2>1. /\ new_client \in Conns /\ server = "key" /\ new_client \notin authed
        /\ server' = "auth" /\ step' = [step EXCEPT ![new_client] = "login"]
        /\ UNCHANGED <<wire, sent, new_client, authfd, key, authed, sessions, pc>>
    BY <1>2, <1>8 DEF SendServerKey, Admitted
  <2>2. step'[new_client] = "login" /\ \A d \in Conns : d # new_client => step'[d] = step[d]
    BY <2>1 DEF TypeOK
  <2>3. \A d \in authed : step'[d] = step[d]
    BY <1>2, <2>1, <2>2
  <2>. QED BY <2>1, <2>2, <2>3 DEF Admitted, HandOver
<1>9. CASE ReadLogin
  <2>1. /\ new_client \in Conns /\ server = "auth" /\ step[new_client] \in {"login", "command"}
        /\ new_client \notin authed
    BY <1>2, <1>9 DEF ReadLogin, Admitted
  <2>2. wire[new_client] # <<>>
    BY <1>9 DEF ReadLogin, ServerReads
  <2>3. step[new_client] = "command"
    BY <2>1, <2>2 DEF WireInOrder, InOrder
  <2>4. PICK k \in 1..Len(wire[new_client]) :
            wire' = [wire EXCEPT ![new_client] = SubSeq(@, k + 1, Len(@))]
    BY <1>9 DEF ReadLogin, ServerReads
  <2>5. /\ Len(wire'[new_client]) = Len(wire[new_client]) - k
        /\ \A d \in Conns : d # new_client => wire'[d] = wire[d]
    BY <2>1, <2>4, WireRead
  <2>6. Len(wire'[new_client]) <= sent[new_client]
    <3>1. Len(wire[new_client]) <= sent[new_client] + 1
      BY <2>1 DEF WireInOrder, InOrder
    <3>. QED BY <1>3, <2>1, <2>5, <3>1
  <2>7. /\ \/ server' = "close" /\ authed' = authed \cup {new_client}
           \/ server' = "accept" /\ authed' = authed
        /\ UNCHANGED <<step, sent, new_client, authfd, key, sessions, pc>>
    BY <1>9 DEF ReadLogin, ServerReads, Refuse
  <2>8. \A d \in authed' : step[d] = "command" /\ Len(wire'[d]) <= sent[d]
    BY <1>2, <2>1, <2>3, <2>5, <2>6, <2>7 DEF Admitted
  <2>9. Cardinality(authed') = IF server' \in HandOver THEN sessions + 1 ELSE sessions
    <3>1. Cardinality(authed) = sessions
      BY <2>1 DEF Admitted, HandOver
    <3>2. Cardinality(authed \cup {new_client}) = Cardinality(authed) + 1
      BY <1>2, <2>1, AuthedGrows
    <3>. QED BY <2>7, <3>1, <3>2 DEF HandOver
  <2>10. authfd \in authed' \cup {None} /\ key \in authed' \cup {None}
    BY <2>7 DEF Admitted
  <2>11. server' # "accept" => new_client # None
    BY <2>1 DEF Admitted
  <2>. QED BY <2>7, <2>8, <2>9, <2>10, <2>11 DEF Admitted, HandOver
<1>10. CASE Silent
  <2>1. /\ server \in {"start", "auth"} /\ server' = "accept"
        /\ UNCHANGED <<wire, step, sent, new_client, authfd, key, authed, sessions, pc>>
    BY <1>10 DEF Silent, Refuse
  <2>. QED BY <2>1 DEF Admitted, HandOver
<1>11. CASE CloseOld
  BY <1>11 DEF CloseOld, Admitted, HandOver
<1>12. CASE SetKey
  BY <1>12 DEF SetKey, Admitted, HandOver
<1>13. CASE SaveSocket
  BY <1>13 DEF SaveSocket, Admitted, HandOver
<1>14. CASE CreateThread
  <2>1. /\ server = "create" /\ server' = "accept" /\ sessions' = sessions + 1
        /\ pc' = [pc EXCEPT ![sessions + 1] = "read"]
        /\ UNCHANGED <<wire, step, sent, new_client, authfd, key, authed>>
    BY <1>14 DEF CreateThread
  <2>2. sessions \in Nat /\ key # None
    BY <2>1 DEF Admitted, TypeOK
  <2>3. \A t \in Conns : t > sessions + 1 => pc'[t] = "none"
    <3>1. SUFFICES ASSUME NEW t \in Conns, t > sessions + 1 PROVE pc'[t] = "none"
      BY <2>1
    <3>2. t # sessions + 1 /\ t > sessions
      BY <2>2, <3>1, BoundsAssumption DEF Conns
    <3>3. pc'[t] = pc[t]
      BY <2>1, <3>2 DEF TypeOK
    <3>. QED BY <3>2, <3>3 DEF Admitted
  <2>4. Cardinality(authed) = sessions + 1
    BY <2>1 DEF Admitted, HandOver
  <2>. QED BY <2>1, <2>2, <2>3, <2>4 DEF Admitted, HandOver
<1>15. ASSUME NEW t \in Conns, ThreadClient(t) PROVE Admitted'
  <2>1. /\ pc[t] # "none"
        /\ \A u \in Conns : u # t => pc'[u] = pc[u]
        /\ UNCHANGED <<step, sent, server, new_client, authfd, key, sessions, authed>>
    BY <1>15, ThreadRuns
  <2>2. \A u \in Conns : u > sessions => pc'[u] = "none"
    BY <2>1 DEF Admitted
  <2>3. \A d \in Conns : /\ wire'[d] = wire[d] \/ wire[d] # <<>>
                         /\ Len(wire'[d]) \in Nat /\ Len(wire'[d]) <= Len(wire[d])
    <3>1. CASE ReadReturns(t)
      <4>1. PICK k \in 1..Len(wire[fd[t]]) :
                wire' = [wire EXCEPT ![fd[t]] = SubSeq(@, k + 1, Len(@))]
        BY <3>1 DEF ReadReturns
      <4>2. fd[t] \in Conns
        BY <3>1, BlocksRead
      <4>3. /\ Len(wire[fd[t]]) \in Nat /\ Len(wire'[fd[t]]) = Len(wire[fd[t]]) - k
            /\ \A d \in Conns : d # fd[t] => wire'[d] = wire[d]
        BY <4>1, <4>2, WireRead
      <4>4. wire[fd[t]] # <<>>
        BY <4>1, <4>2, <4>3, EmptySeq
      <4>5. Len(wire'[fd[t]]) \in Nat /\ Len(wire'[fd[t]]) <= Len(wire[fd[t]])
        BY <4>1, <4>3
      <4>. QED BY <1>3, <4>2, <4>3, <4>4, <4>5
    <3>2. CASE UNCHANGED wire
      BY <1>3, <3>2
    <3>. QED BY <1>15, <3>1, <3>2
         DEF ThreadClient, EnterRead, ReadNothing, Decrypt, Execute, Skip, ParseEnds, Encrypt, Send
  <2>4. server = "key" => wire'[new_client] = <<>>
    BY <1>2, <2>3 DEF Admitted
  <2>5. \A c \in authed : Len(wire'[c]) <= sent[c]
    <3>1. SUFFICES ASSUME NEW c \in authed PROVE Len(wire'[c]) <= sent[c]
      OBVIOUS
    <3>2. c \in Conns /\ Len(wire[c]) <= sent[c]
      BY <1>2 DEF Admitted
    <3>. QED BY <1>3, <2>3, <3>2
  <2>. QED BY <2>1, <2>2, <2>4, <2>5 DEF Admitted
<1>16. CASE UNCHANGED <<wire, step, sent, server, new_client, authfd, key, authed, sessions, pc>>
  BY <1>16 DEF Admitted
<1>. QED
  BY <1>5, <1>6, <1>7, <1>8, <1>9, <1>10, <1>11, <1>12, <1>13, <1>14, <1>15, <1>16
  DEF Next, ThreadServer, Connect, HangUp, vars

-----------------------------------------------------------------------------
(* What is decrypted and executed                                          *)

\* Only a client that has authenticated has a command decrypted and executed.
LEMMA DecryptedNext ==
    TypeOK /\ WireInOrder /\ Admitted /\ Decrypted /\ [Next]_vars => Decrypted'
<1>1. SUFFICES ASSUME TypeOK, WireInOrder, Admitted, Decrypted, [Next]_vars PROVE Decrypted'
  OBVIOUS
<1>. USE <1>1
<1>2. rx \in Seq(Messages) /\ Len(rx) \in Nat /\ executed \in Seq(Messages) /\ authed \in SUBSET Conns
  BY DEF TypeOK, Decrypted
<1>3. \A c \in Conns : c \notin {None, Plain, Garbage}
  BY BoundsAssumption DEF Conns, None, Plain, Garbage
<1>4. ASSUME NEW t \in Conns, ReadReturns(t) PROVE Decrypted'
  <2>1. fd[t] \in Conns
    BY <1>4, BlocksRead
  <2>2. PICK k \in 1..Len(wire[fd[t]]) :
            /\ k \in Nat
            /\ got' = [got EXCEPT ![t] = k]
            /\ Len(rx') = IF k <= Len(rx) THEN Len(rx) ELSE k
            /\ \A i \in 1..k : rx'[i] = wire[fd[t]][i]
            /\ \A i \in k + 1..Len(rx') : i \in 1..Len(rx) /\ rx'[i] = rx[i]
    BY <1>4, BlocksRead
  <2>3. UNCHANGED <<executed, authed>>
    BY <1>4 DEF ReadReturns
  <2>4. ASSUME NEW u \in Conns PROVE got'[u] <= Len(rx')
    <3>1. CASE u = t
      BY <1>2, <2>2, <3>1 DEF TypeOK
    <3>2. CASE u # t
      <4>1. got'[u] = got[u] /\ got[u] \in Nat /\ got[u] <= Len(rx)
        BY <2>2, <3>2 DEF TypeOK, Decrypted
      <4>. QED BY <1>2, <2>2, <4>1
    <3>. QED BY <3>1, <3>2
  <2>5. ASSUME NEW i \in 1..Len(rx')
        PROVE  \/ rx'[i].seal \in {None, Garbage, rx'[i].of}
               \/ rx'[i].seal = Plain /\ rx'[i].of \in authed
    <3>1. CASE i \in 1..k
      <4>1. rx'[i] = wire[fd[t]][i] /\ i \in 1..Len(wire[fd[t]])
        BY <2>1, <2>2, <3>1, SMTT(30) DEF TypeOK
      <4>. QED BY <2>1, <4>1 DEF WireInOrder, InOrder
    <3>2. CASE i \in k + 1..Len(rx')
      BY <2>2, <3>2 DEF Decrypted
    <3>. QED BY <1>2, <2>2, <3>1, <3>2
  <2>. QED BY <2>3, <2>4, <2>5 DEF Decrypted, OnlyAuthenticated
<1>5. ASSUME NEW t \in Conns, Decrypt(t) PROVE Decrypted'
  <2>1. key \in authed
    BY <1>5, ThreadRuns DEF ThreadClient
  <2>2. /\ Len(rx') = Len(rx)
        /\ \A i \in 1..Len(rx) :
              /\ rx'[i].of = rx[i].of
              /\ rx'[i].seal = IF i <= got[t]
                               THEN IF rx[i].seal = key THEN Plain ELSE Garbage
                               ELSE rx[i].seal
    BY <1>5, BlocksDecrypted
  <2>3. UNCHANGED <<executed, authed, got>>
    BY <1>5 DEF Decrypt
  <2>4. \A i \in 1..Len(rx) : rx[i].seal = key => rx[i].of \in authed
    BY <1>2, <1>3, <2>1 DEF Decrypted
  <2>. QED BY <2>2, <2>3, <2>4 DEF Decrypted, OnlyAuthenticated
<1>6. ASSUME NEW t \in Conns, Execute(t) PROVE Decrypted'
  <2>1. /\ at[t] <= got[t] /\ rx[at[t]].seal = Plain /\ executed' = Append(executed, rx[at[t]])
        /\ UNCHANGED <<rx, got, authed>>
    BY <1>6 DEF Execute
  <2>2. at[t] \in 1..Len(rx) /\ rx[at[t]] \in Messages
    BY <2>1, Parsing
  <2>3. rx[at[t]].of \in Conns
    BY <2>2 DEF Messages
  <2>4. rx[at[t]].of \in authed
    BY <1>3, <2>1, <2>2, <2>3 DEF Decrypted, None, Plain, Garbage
  <2>5. /\ executed' \in Seq(Messages) /\ DOMAIN executed' = 1..Len(executed) + 1
        /\ \A i \in 1..Len(executed) : executed'[i] = executed[i]
        /\ executed'[Len(executed) + 1] = rx[at[t]]
    BY <1>2, <2>1, <2>2, AppendProperties
  <2>6. DOMAIN executed = 1..Len(executed)
    BY <1>2
  <2>7. \A i \in DOMAIN executed' : executed'[i].of \in authed
    BY <1>2, <2>4, <2>5, <2>6 DEF Decrypted, OnlyAuthenticated
  <2>. QED BY <2>1, <2>5, <2>7 DEF Decrypted, OnlyAuthenticated
<1>7. CASE authed \subseteq authed' /\ UNCHANGED <<executed, rx, got>>
  BY <1>7 DEF Decrypted, OnlyAuthenticated
<1>. QED
  BY <1>4, <1>5, <1>6, <1>7
  DEF Next, ThreadServer, ThreadClient, Connect, Say, HangUp, Accept, ReadHello, SendServerKey,
      ReadLogin, Silent, CloseOld, SetKey, SaveSocket, CreateThread, EnterRead, ReadNothing,
      Skip, ParseEnds, Encrypt, Send, vars

-----------------------------------------------------------------------------
(* One session                                                             *)

\* With one session there is one client, its thread is the first, and the
\* hand-over is over when the thread runs.
LEMMA OneClient ==
    ASSUME TypeOK, Admitted, OneSession
    PROVE  /\ \A a, b \in authed : a = b
           /\ \A t \in Conns : pc[t] # "none" => t = 1
           /\ server \in HandOver => sessions = 0
<1>1. Cardinality(authed) \in Nat /\ sessions \in Nat /\ \A a, b \in authed : a = b
  <2>1. authed \in SUBSET Conns /\ sessions \in Nat
    BY DEF TypeOK
  <2>. QED BY <2>1, AuthedFinite DEF OneSession
<1>2. sessions <= 1 /\ (server \in HandOver => sessions = 0)
  BY <1>1 DEF Admitted, OneSession
<1>3. ASSUME NEW t \in Conns, pc[t] # "none" PROVE t = 1
  <2>1. t \in Nat \ {0} /\ ~(t > sessions)
    BY <1>3, BoundsAssumption DEF Admitted, Conns
  <2>. QED BY <1>1, <1>2, <2>1
<1>. QED BY <1>1, <1>2, <1>3

\* Before a client authenticates for a session to be the only one, nothing has
\* been executed or answered, and no thread runs.
LEMMA FirstLogin ==
    ASSUME TypeOK, Admitted, Decrypted, InTurn, AnsweredToIt, ReadLogin, OneSession'
    PROVE  \/ authed' = authed
           \/ /\ authed = {} /\ OneSession /\ executed = <<>> /\ answers = {}
              /\ pc[1] = "none"
<1>1. new_client \in Conns /\ new_client \notin authed /\ authed \in SUBSET Conns
  BY DEF ReadLogin, Admitted, TypeOK
<1>2. SUFFICES ASSUME authed' = authed \cup {new_client}
               PROVE  /\ authed = {} /\ OneSession /\ executed = <<>> /\ answers = {}
                      /\ pc[1] = "none"
  BY DEF ReadLogin
<1>3. Cardinality(authed) = 0
  <2>1. Cardinality(authed') = Cardinality(authed) + 1 /\ Cardinality(authed) \in Nat
    BY <1>1, <1>2, AuthedGrows, AuthedFinite
  <2>. QED BY <2>1 DEF OneSession
<1>4. authed = {} /\ OneSession
  BY <1>1, <1>3, AuthedFinite DEF OneSession
<1>5. executed = <<>>
  <2>1. executed \in Seq(Messages) /\ \A i \in DOMAIN executed : FALSE
    BY <1>4 DEF Decrypted, OnlyAuthenticated
  <2>2. DOMAIN executed = 1..Len(executed) /\ Len(executed) \in Nat
    BY <2>1
  <2>3. Len(executed) = 0
    BY <2>1, <2>2
  <2>. QED BY <2>1, <2>3, EmptySeq
<1>6. answers = {}
  BY <1>4 DEF AnsweredToIt
<1>7. pc[1] = "none"
  <2>1. sessions = 0
    BY <1>3 DEF ReadLogin, Admitted, HandOver
  <2>2. 1 \in Conns
    BY BoundsAssumption DEF Conns
  <2>. QED BY <2>1, <2>2 DEF Admitted
<1>. QED BY <1>4, <1>5, <1>6, <1>7

\* The thread of the only session.
LEMMA OneThread ==
    ASSUME TypeOK, Admitted, OneSession, NEW t \in Conns, ThreadClient(t)
    PROVE  /\ t = 1 /\ authed = {key} /\ key \in Conns
           /\ UNCHANGED <<authed, sent, key, OneSession>>
<1>1. t = 1 /\ key \in authed /\ UNCHANGED <<authed, sent, key>>
  BY OneClient, ThreadRuns
<1>2. authed = {key}
  BY <1>1, OneClient
<1>. QED BY <1>1, <1>2 DEF TypeOK, OneSession

\* The commands of the only session stay in turn.
LEMMA InTurnNext ==
    /\ TypeOK /\ WireInOrder /\ Admitted /\ Decrypted /\ InTurn /\ AnsweredToIt
    /\ [Next]_vars
    => InTurn'
<1>1. SUFFICES ASSUME TypeOK, WireInOrder, Admitted, Decrypted, InTurn, AnsweredToIt,
                      [Next]_vars, OneSession'
               PROVE  InTurn'
  BY DEF InTurn
<1>. USE <1>1
<1>2. \A c \in Conns : Len(wire[c]) \in Nat /\ sent[c] \in Nat /\ Taken(c) \in Int
  BY SMTT(30) DEF TypeOK, Taken
<1>3. 1 \in Conns /\ authed \in SUBSET Conns
  BY BoundsAssumption DEF Conns, TypeOK
<1>4. got[1] \in Nat /\ at[1] \in Nat \ {0} /\ Len(rx) \in Nat /\ First \in Nat \ {0} /\ got[1] <= Len(rx)
  BY <1>3 DEF TypeOK, First, Decrypted
<1>5. ASSUME OneSession, UNCHANGED <<pc, fd, rx, got, at, tx, executed, authed>>,
             \A a \in authed : Taken(a)' = Taken(a)
      PROVE  InTurn'
  BY <1>5 DEF InTurn, First, Unparsed
<1>6. ASSUME NEW c \in Conns, Say(c) PROVE InTurn'
  <2>1. OneSession /\ UNCHANGED <<pc, fd, rx, got, at, tx, executed, authed>>
    BY <1>6 DEF Say, OneSession
  <2>2. ASSUME NEW a \in authed PROVE Taken(a)' = Taken(a)
    <3>1. CASE a # c
      BY <1>3, <1>6, <3>1 DEF Say, Taken, TypeOK
    <3>2. CASE a = c
      <4>1. step[c] = "command"
        BY <2>2, <3>2 DEF Admitted
      <4>2. /\ sent'[c] = sent[c] + 1 /\ sent[c] < MaxCommands
            /\ wire' = [wire EXCEPT ![c] = Append(@, Command(c, sent[c] + 1))]
        BY <1>6, <4>1 DEF Say, TypeOK
      <4>3. sent[c] + 1 \in 0..MaxCommands
        BY <1>2, <4>2, BoundsAssumption
      <4>4. Len(wire'[c]) = Len(wire[c]) + 1
        BY <4>2, <4>3, MessagesTyped, WireSaid
      <4>. QED BY <1>2, <3>2, <4>2, <4>4 DEF Taken
    <3>. QED BY <3>1, <3>2
  <2>. QED BY <1>5, <2>1, <2>2
<1>7. CASE ReadHello
  <2>1. OneSession /\ UNCHANGED <<sent, pc, fd, rx, got, at, tx, executed, authed>>
    BY <1>7 DEF ReadHello, ServerReads, OneSession
  <2>2. new_client \in Conns /\ new_client \notin authed
    BY <1>7 DEF ReadHello, Admitted, TypeOK
  <2>3. \A a \in authed : wire'[a] = wire[a]
    BY <1>3, <1>7, <2>2, WireRead DEF ReadHello, ServerReads
  <2>. QED BY <1>5, <2>1, <2>3 DEF Taken
<1>8. CASE ReadLogin
  <2>1. new_client \in Conns /\ new_client \notin authed
    BY <1>8 DEF ReadLogin, Admitted, TypeOK
  <2>2. UNCHANGED <<sent, pc, fd, rx, got, at, tx, executed>>
    BY <1>8 DEF ReadLogin, ServerReads
  <2>3. CASE authed' = authed
    <3>1. \A a \in authed : wire'[a] = wire[a]
      BY <1>3, <1>8, <2>1, WireRead DEF ReadLogin, ServerReads
    <3>. QED BY <1>5, <2>2, <2>3, <3>1 DEF Taken, OneSession
  <2>4. CASE authed' # authed
    <3>1. /\ authed = {} /\ OneSession /\ executed = <<>> /\ pc[1] = "none"
      BY <1>8, <2>4, FirstLogin
    <3>. QED BY <2>2, <3>1 DEF InTurn, First, Unparsed, Working
  <2>. QED BY <2>3, <2>4
<1>9. CASE CreateThread
  <2>1. /\ OneSession /\ server \in HandOver
        /\ pc' = [pc EXCEPT ![sessions + 1] = "read"]
        /\ UNCHANGED <<sent, wire, fd, rx, got, at, tx, executed, authed>>
    BY <1>9 DEF CreateThread, OneSession, HandOver
  <2>2. sessions = 0 /\ pc[1] = "none"
    BY <1>3, <2>1, OneClient DEF Admitted
  <2>3. pc'[1] = "read"
    BY <1>3, <2>1, <2>2 DEF TypeOK
  <2>. QED BY <2>1, <2>2, <2>3 DEF InTurn, First, Unparsed, Working, Taken
<1>10. ASSUME NEW t \in Conns, ThreadClient(t) PROVE InTurn'
  <2>1. OneSession
    BY <1>10, ThreadRuns DEF OneSession
  <2>2. t = 1 /\ authed = {key} /\ key \in Conns /\ UNCHANGED <<authed, sent, key>>
    BY <1>10, <2>1, OneThread
  <2>3. fd[1] \in {key, None} /\ Unparsed >= 0 /\ key # None
    BY <1>3, <2>1, <2>2 DEF InTurn, Conns, None
  <2>4. /\ pc[1] \in Working =>
              \A i \in First..got[1] :
                  /\ rx[i].of = key
                  /\ rx[i].n = Taken(key) - got[1] + i
                  /\ rx[i].seal = IF pc[1] = "decrypt" THEN key ELSE Plain
        /\ executed # <<>> => executed[Len(executed)].n = Taken(key) - Unparsed
        /\ pc[1] \in {"encrypt", "send"} =>
              tx.of = key /\ tx.seal = IF pc[1] = "send" THEN key ELSE Plain
    BY <2>1, <2>2 DEF InTurn
  <2>5. SUFFICES
           /\ \A u \in Conns : fd'[u] \in {key, None}
           /\ Unparsed' >= 0
           /\ pc'[1] \in Working =>
                 \A i \in First'..got'[1] :
                     /\ rx'[i].of = key
                     /\ rx'[i].n = Taken(key)' - got'[1] + i
                     /\ rx'[i].seal = IF pc'[1] = "decrypt" THEN key ELSE Plain
           /\ executed' # <<>> => executed'[Len(executed')].n = Taken(key)' - Unparsed'
           /\ pc'[1] \in {"encrypt", "send"} =>
                 tx'.of = key /\ tx'.seal = IF pc'[1] = "send" THEN key ELSE Plain
    <3>1. key' = key
      BY <1>10, ThreadRuns
    <3>. QED BY <2>2, <3>1 DEF InTurn, Taken
  <2>6. \A u \in Conns : fd[u] \in {key, None}
    BY <2>1, <2>2 DEF InTurn
  <2>7. CASE EnterRead(1)
    <3>1. /\ pc[1] = "read" /\ pc' = [pc EXCEPT ![1] = "reading"]
          /\ fd' = [fd EXCEPT ![1] = IF authfd \in open THEN authfd ELSE None]
          /\ UNCHANGED <<wire, sent, rx, tx, got, at, executed>>
      BY <2>7 DEF EnterRead
    <3>2. pc'[1] = "reading"
      BY <1>3, <3>1 DEF TypeOK
    <3>3. \A u \in Conns : fd'[u] \in {key, None}
      BY <2>2, <2>6, <3>1 DEF Admitted, TypeOK
    <3>4. Unparsed = 0 /\ Unparsed' = 0
      BY <3>1, <3>2 DEF Unparsed, Working
    <3>5. Taken(key)' = Taken(key)
      BY <2>2, <3>1 DEF Taken
    <3>. QED BY <2>4, <3>1, <3>2, <3>3, <3>4, <3>5 DEF Working
  <2>8. CASE ReadReturns(1)
    <3>1. fd[1] = key
      BY <1>3, <2>3, <2>8, BlocksRead DEF ReadReturns
    <3>2. PICK k \in 1..Len(wire[key]) :
              /\ k \in Nat
              /\ wire' = [wire EXCEPT ![key] = SubSeq(@, k + 1, Len(@))]
              /\ got' = [got EXCEPT ![1] = k]
              /\ \A i \in 1..k : rx'[i] = wire[key][i]
      <4>1. \E k \in 1..Len(wire[fd[1]]) :
                /\ k \in Nat
                /\ wire' = [wire EXCEPT ![fd[1]] = SubSeq(@, k + 1, Len(@))]
                /\ got' = [got EXCEPT ![1] = k]
                /\ \A i \in 1..k : rx'[i] = wire[fd[1]][i]
        BY <1>3, <2>8, BlocksRead
      <4>. QED BY <3>1, <4>1
    <3>3. /\ pc[1] = "reading" /\ pc' = [pc EXCEPT ![1] = "decrypt"]
          /\ UNCHANGED <<sent, fd, tx, executed>>
      BY <2>8 DEF ReadReturns
    <3>4. got'[1] = k /\ pc'[1] = "decrypt" /\ First' = 1 /\ Unparsed = 0 /\ Unparsed' = k
      BY <1>3, <3>2, <3>3 DEF TypeOK, First, Unparsed, Working
    <3>5. Len(wire'[key]) = Len(wire[key]) - k
      BY <2>2, <3>2, WireRead
    <3>6. Taken(key)' = Taken(key) + k
      <4>1. Taken(key)' = sent[key] - Len(wire'[key])
        BY <2>2 DEF Taken
      <4>. QED BY <1>2, <2>2, <3>2, <3>5, <4>1 DEF Taken
    <3>7. ASSUME NEW i \in 1..k
          PROVE  rx'[i].of = key /\ rx'[i].n = Taken(key)' - k + i /\ rx'[i].seal = key
      <4>1. i \in 1..Len(wire[key]) /\ rx'[i] = wire[key][i]
        BY <1>2, <2>2, <3>2
      <4>2. /\ wire[key][i].of = key /\ wire[key][i].n = sent[key] - Len(wire[key]) + i
            /\ wire[key][i].seal = IF wire[key][i].n = 0 THEN None ELSE key
        BY <2>2, <4>1 DEF WireInOrder, InOrder
      <4>3. Len(wire[key]) <= sent[key]
        BY <2>2 DEF Admitted
      <4>4. wire[key][i].n # 0
        <5>1. Len(wire[key]) \in Nat /\ sent[key] \in Nat
          BY <1>2, <2>2
        <5>. QED BY <4>1, <4>2, <4>3, <5>1
      <4>. QED BY <1>2, <2>2, <3>2, <3>6, <4>1, <4>2, <4>4 DEF Taken
    <3>8. executed' # <<>> => executed'[Len(executed')].n = Taken(key)' - Unparsed'
      <4>1. executed # <<>> => executed[Len(executed)].n = Taken(key)
        BY <1>2, <2>2, <2>4, <3>4
      <4>2. Taken(key)' - Unparsed' = Taken(key)
        BY <1>2, <2>2, <3>2, <3>4, <3>6
      <4>. QED BY <3>3, <4>1, <4>2
    <3>. QED BY <2>6, <3>2, <3>3, <3>4, <3>7, <3>8
  <2>9. CASE ReadNothing(1)
    <3>1. /\ pc[1] = "reading" /\ pc'[1] = "read"
          /\ UNCHANGED <<wire, sent, fd, rx, tx, got, at, executed>>
      BY <1>3, <2>9 DEF ReadNothing, TypeOK
    <3>2. Unparsed = 0 /\ Unparsed' = 0
      BY <3>1 DEF Unparsed, Working
    <3>3. Taken(key)' = Taken(key)
      BY <2>2, <3>1 DEF Taken
    <3>. QED BY <2>4, <2>6, <3>1, <3>2, <3>3 DEF Working
  <2>10. CASE Decrypt(1)
    <3>1. /\ pc[1] = "decrypt" /\ pc'[1] = "parse" /\ at'[1] = 1
          /\ UNCHANGED <<wire, sent, fd, tx, got, executed>>
      BY <1>3, <2>10 DEF Decrypt, TypeOK
    <3>2. First = 1 /\ First' = 1 /\ Unparsed' = Unparsed /\ Taken(key)' = Taken(key)
      <4>1. First = 1 /\ First' = 1
        BY <3>1 DEF First
      <4>. QED BY <2>2, <3>1, <4>1 DEF Unparsed, Working, Taken
    <3>3. ASSUME NEW i \in 1..got[1]
          PROVE  /\ rx'[i].of = key
                 /\ rx'[i].n = Taken(key) - got[1] + i
                 /\ rx'[i].seal = Plain
      <4>1. i \in 1..Len(rx) /\ i <= got[1]
        BY <1>4
      <4>2. rx[i].of = key /\ rx[i].n = Taken(key) - got[1] + i /\ rx[i].seal = key
        BY <2>4, <3>1, <3>2 DEF Working
      <4>. QED BY <1>3, <2>10, <4>1, <4>2, BlocksDecrypted
    <3>. QED BY <2>3, <2>4, <2>6, <3>1, <3>2, <3>3
  <2>11. CASE Execute(1)
    <3>1. /\ pc[1] = "parse" /\ pc'[1] = "encrypt" /\ at'[1] = at[1] + 1 /\ at[1] <= got[1]
          /\ executed' = Append(executed, rx[at[1]]) /\ tx' = rx[at[1]]
          /\ UNCHANGED <<wire, sent, fd, rx, got>>
      BY <1>3, <2>11 DEF Execute, TypeOK
    <3>2. /\ First = at[1] /\ First' = at[1] + 1 /\ Unparsed' = got[1] - at[1]
          /\ Taken(key)' = Taken(key)
      <4>1. First = at[1] /\ First' = at[1] + 1
        BY <3>1 DEF First
      <4>2. Unparsed' = got[1] - (at[1] + 1) + 1
        BY <3>1, <4>1 DEF Unparsed, Working
      <4>. QED BY <1>4, <2>2, <3>1, <4>1, <4>2 DEF Taken
    <3>3. at[1] \in First..got[1] /\ \A i \in at[1] + 1..got[1] : i \in First..got[1]
      BY <1>4, <3>1, <3>2
    <3>4. \A i \in First..got[1] :
              rx[i].of = key /\ rx[i].n = Taken(key) - got[1] + i /\ rx[i].seal = Plain
      BY <2>4, <3>1 DEF Working
    <3>5. executed'[Len(executed')] = rx[at[1]]
      <4>1. executed \in Seq(Messages) /\ rx[at[1]] \in Messages
        BY <1>3, <3>1, Parsing DEF Decrypted
      <4>. QED BY <3>1, <4>1, AppendProperties
    <3>6. executed'[Len(executed')].n = Taken(key)' - Unparsed'
      <4>1. rx[at[1]].n = Taken(key) - got[1] + at[1]
        BY <3>3, <3>4
      <4>. QED BY <1>2, <1>4, <2>2, <3>2, <3>5, <4>1, SMTT(30)
    <3>7. Unparsed' >= 0
      BY <1>4, <3>1, <3>2
    <3>. QED BY <2>6, <3>1, <3>2, <3>3, <3>4, <3>6, <3>7
  <2>12. CASE Skip(1)
    <3>1. pc[1] = "parse" /\ at[1] <= got[1] /\ rx[at[1]].seal # Plain
      BY <2>12 DEF Skip
    <3>2. at[1] \in First..got[1]
      BY <1>4, <3>1 DEF First
    <3>. QED BY <2>4, <3>1, <3>2 DEF Working
  <2>13. CASE ParseEnds(1)
    <3>1. /\ pc[1] = "parse" /\ pc'[1] = "read" /\ at[1] > got[1]
          /\ UNCHANGED <<wire, sent, fd, rx, tx, got, at, executed>>
      BY <1>3, <2>13 DEF ParseEnds, TypeOK
    <3>2. Unparsed = 0 /\ Unparsed' = 0
      BY <1>4, <2>3, <3>1 DEF First, Unparsed, Working
    <3>3. Taken(key)' = Taken(key)
      BY <2>2, <3>1 DEF Taken
    <3>. QED BY <2>4, <2>6, <3>1, <3>2, <3>3 DEF Working
  <2>14. CASE Encrypt(1)
    <3>1. /\ pc[1] = "encrypt" /\ pc'[1] = "send"
          /\ tx' = [tx EXCEPT !.seal = IF @ = Plain THEN key ELSE Garbage]
          /\ UNCHANGED <<wire, sent, fd, rx, got, at, executed>>
      BY <1>3, <2>14 DEF Encrypt, TypeOK
    <3>2. tx'.of = key /\ tx'.seal = key
      BY <2>4, <3>1 DEF TypeOK, Messages
    <3>3. First' = First /\ Unparsed' = Unparsed /\ Taken(key)' = Taken(key)
      <4>1. First' = First
        BY <3>1 DEF First
      <4>. QED BY <2>2, <3>1, <4>1 DEF Unparsed, Working, Taken
    <3>. QED BY <2>3, <2>4, <2>6, <3>1, <3>2, <3>3 DEF Working
  <2>15. CASE Send(1)
    <3>1. /\ pc[1] = "send" /\ pc'[1] = "parse"
          /\ UNCHANGED <<wire, sent, fd, rx, tx, got, at, executed>>
      BY <1>3, <2>15 DEF Send, TypeOK
    <3>2. First' = First /\ Unparsed' = Unparsed /\ Taken(key)' = Taken(key)
      <4>1. First' = First
        BY <3>1 DEF First
      <4>. QED BY <2>2, <3>1, <4>1 DEF Unparsed, Working, Taken
    <3>. QED BY <2>3, <2>4, <2>6, <3>1, <3>2 DEF Working
  <2>. QED BY <1>10, <2>2, <2>7, <2>8, <2>9, <2>10, <2>11, <2>12, <2>13, <2>14, <2>15
       DEF ThreadClient
<1>11. CASE UNCHANGED <<wire, sent, pc, fd, rx, got, at, tx, executed, authed>>
  BY <1>5, <1>11 DEF Taken, OneSession
<1>. QED
  BY <1>6, <1>7, <1>8, <1>9, <1>10, <1>11
  DEF Next, ThreadServer, Connect, HangUp, Accept, SendServerKey, Silent, CloseOld, SetKey,
      SaveSocket, vars

\* The commands of the only session are executed in the order sent.
LEMMA InOrderNext ==
    /\ TypeOK /\ Admitted /\ Decrypted /\ InTurn /\ AnsweredToIt /\ OneSessionInOrder
    /\ [Next]_vars
    => OneSessionInOrder'
<1>1. SUFFICES ASSUME TypeOK, Admitted, Decrypted, InTurn, AnsweredToIt, OneSessionInOrder,
                      [Next]_vars, OneSession'
               PROVE  OneSessionInOrder'
  BY DEF OneSessionInOrder
<1>. USE <1>1
<1>2. ASSUME NEW t \in Conns, Execute(t) PROVE OneSessionInOrder'
  <2>1. OneSession
    BY <1>2, ThreadRuns DEF ThreadClient, OneSession
  <2>2. t = 1 /\ authed = {key} /\ key \in Conns
    BY <1>2, <2>1, OneThread DEF ThreadClient
  <2>3. /\ pc[1] = "parse" /\ at[1] <= got[1] /\ executed' = Append(executed, rx[at[1]])
    BY <1>2, <2>2 DEF Execute
  <2>4. executed \in Seq(Messages) /\ Len(executed) \in Nat /\ rx[at[1]] \in Messages
    BY <1>2, <2>2, <2>3, Parsing DEF Decrypted
  <2>5. /\ Len(executed') = Len(executed) + 1 /\ executed'[Len(executed) + 1] = rx[at[1]]
        /\ \A i \in 1..Len(executed) : executed'[i] = executed[i]
    BY <2>3, <2>4, AppendProperties
  <2>6. at[1] \in Nat \ {0} /\ got[1] \in Nat /\ Taken(key) \in Int
    BY <1>2, <2>2 DEF TypeOK, Taken
  <2>7. executed # <<>> => rx[at[1]].n = executed[Len(executed)].n + 1
    <3>1. First = at[1] /\ Unparsed = got[1] - at[1] + 1 /\ at[1] \in First..got[1]
      BY <2>3, <2>6 DEF First, Unparsed, Working
    <3>2. /\ rx[at[1]].n = Taken(key) - got[1] + at[1]
          /\ executed # <<>> => executed[Len(executed)].n = Taken(key) - Unparsed
      BY <2>1, <2>2, <2>3, <3>1 DEF InTurn, Working
    <3>. QED BY <2>6, <3>1, <3>2
  <2>8. ASSUME NEW i \in 1..Len(executed') - 1 PROVE executed'[i + 1].n = executed'[i].n + 1
    <3>1. CASE i = Len(executed)
      <4>1. executed # <<>>
        BY <2>4, <3>1, EmptySeq
      <4>. QED BY <2>4, <2>5, <2>7, <3>1, <4>1
    <3>2. CASE i \in 1..Len(executed) - 1
      <4>1. executed[i + 1].n = executed[i].n + 1
        BY <2>1, <3>2 DEF OneSessionInOrder
      <4>. QED BY <2>4, <2>5, <3>2, <4>1
    <3>. QED BY <2>4, <2>5, <3>1, <3>2
  <2>. QED BY <2>8 DEF OneSessionInOrder
<1>3. CASE ReadLogin
  <2>1. OneSession /\ executed' = executed
    BY <1>3, FirstLogin DEF ReadLogin, OneSession
  <2>. QED BY <2>1 DEF OneSessionInOrder
<1>4. CASE UNCHANGED <<executed, authed>>
  BY <1>4 DEF OneSessionInOrder, OneSession
<1>. QED
  BY <1>2, <1>3, <1>4
  DEF Next, ThreadServer, ThreadClient, Connect, Say, HangUp, Accept, ReadHello, SendServerKey,
      Silent, CloseOld, SetKey, SaveSocket, CreateThread, EnterRead, ReadReturns, ReadNothing,
      Decrypt, Skip, ParseEnds, Encrypt, Send, vars

\* The answers of the only session go to its client, which can read them.
LEMMA AnsweredNext ==
    /\ TypeOK /\ Admitted /\ Decrypted /\ InTurn /\ AnsweredToIt /\ OneSessionAnswered
    /\ [Next]_vars
    => AnsweredToIt' /\ OneSessionAnswered'
<1>1. SUFFICES ASSUME TypeOK, Admitted, Decrypted, InTurn, AnsweredToIt, OneSessionAnswered,
                      [Next]_vars, OneSession'
               PROVE  AnsweredToIt' /\ OneSessionAnswered'
  BY DEF AnsweredToIt, OneSessionAnswered
<1>. USE <1>1
<1>2. ASSUME NEW t \in Conns, Send(t) PROVE AnsweredToIt' /\ OneSessionAnswered'
  <2>1. OneSession /\ UNCHANGED authed
    BY <1>2 DEF Send, OneSession
  <2>2. t = 1 /\ authed = {key} /\ key \in Conns
    BY <1>2, <2>1, OneThread DEF ThreadClient
  <2>3. tx.of = key /\ tx.seal = key
    BY <1>2, <2>1, <2>2 DEF InTurn, Send
  <2>4. authfd \in open => authfd = key
    BY <2>2, BoundsAssumption DEF Admitted, TypeOK, Conns, None
  <2>5. \A a \in answers' : a \in answers \/ a = [to |-> key, answer |-> tx]
    BY <1>2, <2>4 DEF Send
  <2>. QED BY <2>1, <2>2, <2>3, <2>5 DEF AnsweredToIt, OneSessionAnswered
<1>3. CASE ReadLogin
  <2>1. answers' = answers /\ (authed' = authed \/ answers = {})
    BY <1>3, FirstLogin DEF ReadLogin
  <2>. QED BY <2>1 DEF AnsweredToIt, OneSessionAnswered, OneSession
<1>4. CASE UNCHANGED <<answers, authed>>
  BY <1>4 DEF AnsweredToIt, OneSessionAnswered, OneSession
<1>. QED
  BY <1>2, <1>3, <1>4
  DEF Next, ThreadServer, ThreadClient, Connect, Say, HangUp, Accept, ReadHello, SendServerKey,
      Silent, CloseOld, SetKey, SaveSocket, CreateThread, EnterRead, ReadReturns, ReadNothing,
      Decrypt, Execute, Skip, ParseEnds, Encrypt, vars

-----------------------------------------------------------------------------
(* Theorems                                                                *)

\* The invariant holds when the program starts.
LEMMA InvInit == Init => SessionsInv
<1>1. SUFFICES ASSUME Init PROVE SessionsInv
  OBVIOUS
<1>2. TypeOK
  BY <1>1, TypeOKInit
<1>3. authed = {} /\ Cardinality(authed) = 0 /\ answers = {} /\ executed = <<>> /\ rx = <<>>
  BY <1>1, FS_EmptySet DEF Init
<1>4. 1 \in Conns
  BY BoundsAssumption DEF Conns
<1>5. WireInOrder
  BY <1>1 DEF Init, WireInOrder, InOrder
<1>6. Awaited
  BY <1>1, BoundsAssumption DEF Init, Awaited, Conns, None
<1>7. Admitted
  BY <1>1, <1>3 DEF Init, Admitted, HandOver
<1>8. Decrypted /\ OnlyAuthenticated
  BY <1>1, <1>3 DEF Init, Decrypted, OnlyAuthenticated
<1>9. InTurn
  BY <1>1, <1>3, <1>4 DEF Init, InTurn, Unparsed, Working
<1>. QED BY <1>2, <1>3, <1>5, <1>6, <1>7, <1>8, <1>9
     DEF SessionsInv, AnsweredToIt, OneSessionInOrder, OneSessionAnswered

\* The invariant of the command server: what is read, the hand-over and the
\* sessions' threads (MasterApp.cpp:76-255).
THEOREM SessionsInvariant == Spec => []SessionsInv
<1>1. SessionsInv /\ [Next]_vars => SessionsInv'
  BY TypeOKNext, WireInOrderNext, AwaitedNext, AdmittedNext, DecryptedNext, InTurnNext,
     InOrderNext, AnsweredNext, Zenon DEF SessionsInv
<1>. QED BY InvInit, <1>1, PTL DEF Spec

\* Only a client that has authenticated has a command executed, whichever of
\* the threads reads it (MasterApp.cpp:129-168, 243-246).
THEOREM AuthenticatedOnly == Spec => []OnlyAuthenticated
<1>1. SessionsInv => OnlyAuthenticated
  BY DEF SessionsInv, Decrypted
<1>. QED BY <1>1, SessionsInvariant, PTL

\* As long as one client only has authenticated, its commands are executed once
\* each and in the order sent, and every answer goes to it, encrypted with its
\* key (MasterApp.cpp:114-119, 242-246, 399-403, 538-552).
THEOREM SessionKept == Spec => []OneSessionKept
<1>1. SessionsInv => OneSessionKept
  BY DEF SessionsInv, OneSessionKept
<1>. QED BY <1>1, SessionsInvariant, PTL
=============================================================================
