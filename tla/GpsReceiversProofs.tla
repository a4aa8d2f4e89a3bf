------------------------- MODULE GpsReceiversProofs -------------------------
(***************************************************************************)
(* Proofs about the two GPS receivers and the main loop that reads them, for*)
(* all sizes of a port and numbers of lost sentences: GpsInv is inductive,  *)
(* and with it NoFurtherApart and OnlyBacklogAges hold.                     *)
(***************************************************************************)
EXTENDS GpsReceivers, FiniteSetTheorems, SequenceTheorems, TLAPS

USE DEF loopVars, receiverVars

-----------------------------------------------------------------------------
(* The sentences of a port                                                 *)

\* An epoch later the sentences of a port are the same but for their age.
Aged(s) == [i \in DOMAIN s |-> [s[i] EXCEPT !.age = @ + 1]]

\* The number of a sentence tells the order in which it was sent.
LEMMA NumberType ==
    ASSUME NEW m \in Sentences
    PROVE  Number(m) \in Int
BY DEF Sentences, Number

\* The sentence that is read is the first; the others move up.
LEMMA TailMovesUp ==
    ASSUME NEW s \in Seq(Sentences), s # <<>>
    PROVE  /\ Len(s) \in Nat \ {0} /\ DOMAIN s = 1..Len(s)
           /\ Head(s) = s[1] /\ s[1] \in Sentences
           /\ Tail(s) \in Seq(Sentences) /\ Len(Tail(s)) = Len(s) - 1
           /\ DOMAIN Tail(s) = 1..(Len(s) - 1)
           /\ \A i \in 1..(Len(s) - 1) : Tail(s)[i] = s[i + 1]
<1>1. Len(s) \in Nat \ {0} /\ DOMAIN s = 1..Len(s) /\ s[1] \in Sentences
  BY EmptySeq, ElementOfSeq, LenProperties
<1>2. Tail(s) \in Seq(Sentences) /\ Len(Tail(s)) = Len(s) - 1
  BY HeadTailProperties
<1>3. DOMAIN Tail(s) = 1..(Len(s) - 1)
  BY <1>2, LenProperties
<1>4. \A i \in 1..(Len(s) - 1) : Tail(s)[i] = s[i + 1]
  BY <1>2, HeadTailProperties
<1>5. Head(s) = s[1]
  OBVIOUS
<1>. QED BY <1>1, <1>2, <1>3, <1>4, <1>5

\* A sentence that arrives is the last.
LEMMA AppendIsLast ==
    ASSUME NEW s \in Seq(Sentences), NEW m \in Sentences
    PROVE  /\ Len(s) \in Nat /\ DOMAIN s = 1..Len(s)
           /\ Append(s, m) \in Seq(Sentences)
           /\ Len(Append(s, m)) = Len(s) + 1
           /\ DOMAIN Append(s, m) = 1..(Len(s) + 1)
           /\ \A i \in 1..Len(s) : Append(s, m)[i] = s[i]
           /\ Append(s, m)[Len(s) + 1] = m
<1>1. /\ Append(s, m) \in Seq(Sentences)
      /\ Len(Append(s, m)) = Len(s) + 1
      /\ \A i \in 1..Len(s) : Append(s, m)[i] = s[i]
      /\ Append(s, m)[Len(s) + 1] = m
  OBVIOUS
<1>2. Len(s) \in Nat /\ DOMAIN s = 1..Len(s)
  BY LenProperties
<1>3. DOMAIN Append(s, m) = 1..(Len(s) + 1)
  BY <1>1, LenProperties
<1>. QED BY <1>1, <1>2, <1>3

\* Ageing keeps the length of a port and the type of each sentence, and puts two
\* newer sentences after each.
LEMMA AgedKeeps ==
    ASSUME NEW s \in Seq(Sentences)
    PROVE  /\ Len(s) \in Nat /\ DOMAIN s = 1..Len(s)
           /\ Aged(s) \in Seq(Sentences) /\ Len(Aged(s)) = Len(s)
           /\ DOMAIN Aged(s) = DOMAIN s
           /\ \A i \in DOMAIN s : /\ Aged(s)[i].type = s[i].type
                                  /\ Number(Aged(s)[i]) = Number(s[i]) + 2
<1>1. Len(s) \in Nat /\ DOMAIN s = 1..Len(s)
  BY LenProperties
<1>2. DOMAIN Aged(s) = DOMAIN s
  BY DEF Aged
<1>3. ASSUME NEW i \in DOMAIN s
      PROVE  /\ Aged(s)[i] \in Sentences /\ Aged(s)[i].type = s[i].type
             /\ Aged(s)[i].age = s[i].age + 1
  <2>1. s[i] \in Sentences
    BY <1>1, ElementOfSeq
  <2>2. Aged(s)[i] = [s[i] EXCEPT !.age = @ + 1]
    BY DEF Aged
  <2>. QED BY <2>1, <2>2 DEF Sentences
<1>4. ASSUME NEW i \in DOMAIN s
      PROVE  Number(Aged(s)[i]) = Number(s[i]) + 2
  <2>1. s[i].age \in Nat
    <3>1. s[i] \in Sentences
      BY <1>1, ElementOfSeq
    <3>. QED BY <3>1 DEF Sentences
  <2>. QED BY <1>3, <2>1, SMTT(30) DEF Number
<1>5. Aged(s) \in [1..Len(s) -> Sentences]
  BY <1>1, <1>2, <1>3 DEF Aged
<1>6. Aged(s) \in Seq(Sentences) /\ Len(Aged(s)) = Len(s)
  BY <1>1, <1>5
<1>. QED BY <1>1, <1>2, <1>3, <1>4, <1>6

-----------------------------------------------------------------------------
(* How many of them are damaged                                            *)

\* The damaged sentences of a port are finitely many.
LEMMA DamagedFinite ==
    ASSUME NEW s \in Seq(Sentences)
    PROVE  /\ DamagedOf(s) \subseteq 1..Len(s) /\ IsFiniteSet(DamagedOf(s))
           /\ Cardinality(DamagedOf(s)) \in Nat
<1>1. Len(s) \in Nat /\ DOMAIN s = 1..Len(s)
  BY LenProperties
<1>2. DamagedOf(s) \subseteq 1..Len(s)
  BY <1>1 DEF DamagedOf
<1>3. IsFiniteSet(1..Len(s))
  BY <1>1, FS_Interval
<1>4. IsFiniteSet(DamagedOf(s))
  BY <1>2, <1>3, FS_Subset
<1>. QED BY <1>2, <1>4, FS_CardinalityType

\* An empty port has none.
LEMMA DamagedEmpty == Cardinality(DamagedOf(<<>>)) = 0
<1>1. DamagedOf(<<>>) = {}
  BY DEF DamagedOf
<1>. QED BY <1>1, FS_EmptySet

\* A sentence that arrives adds one when it is damaged, and none otherwise.
LEMMA DamagedAppend ==
    ASSUME NEW s \in Seq(Sentences), NEW m \in Sentences
    PROVE  Cardinality(DamagedOf(Append(s, m)))
             = Cardinality(DamagedOf(s)) + IF m.type = "CHECKSUM_ERR" THEN 1 ELSE 0
<1>1. /\ IsFiniteSet(DamagedOf(s)) /\ Cardinality(DamagedOf(s)) \in Nat
      /\ Len(s) + 1 \notin DamagedOf(s)
  <2>1. Len(s) \in Nat
    BY LenProperties
  <2>. QED BY <2>1, DamagedFinite
<1>2. CASE m.type = "CHECKSUM_ERR"
  <2>1. DamagedOf(Append(s, m)) = DamagedOf(s) \cup {Len(s) + 1}
    BY <1>2, AppendIsLast DEF DamagedOf
  <2>2. Cardinality(DamagedOf(s) \cup {Len(s) + 1}) = Cardinality(DamagedOf(s)) + 1
    BY <1>1, FS_AddElement
  <2>. QED BY <1>2, <2>1, <2>2
<1>3. CASE m.type # "CHECKSUM_ERR"
  <2>1. DamagedOf(Append(s, m)) = DamagedOf(s)
    BY <1>3, AppendIsLast DEF DamagedOf
  <2>. QED BY <1>1, <1>3, <2>1
<1>. QED BY <1>2, <1>3

\* The sentence that is read takes itself away.
LEMMA DamagedTail ==
    ASSUME NEW s \in Seq(Sentences), s # <<>>
    PROVE  Cardinality(DamagedOf(Tail(s)))
             = Cardinality(DamagedOf(s)) - IF Head(s).type = "CHECKSUM_ERR" THEN 1 ELSE 0
<1>. DEFINE rest == DamagedOf(s) \ {1}
            f == [i \in DamagedOf(Tail(s)) |-> i + 1]
<1>1. /\ Len(s) \in Nat \ {0} /\ DOMAIN s = 1..Len(s) /\ Head(s) = s[1]
      /\ DOMAIN Tail(s) = 1..(Len(s) - 1)
      /\ \A i \in 1..(Len(s) - 1) : Tail(s)[i] = s[i + 1]
      /\ Tail(s) \in Seq(Sentences)
  BY TailMovesUp
<1>2. ASSUME NEW i \in DamagedOf(Tail(s))
      PROVE  i \in 1..(Len(s) - 1) /\ f[i] = i + 1 /\ f[i] \in rest
  BY <1>1 DEF DamagedOf
<1>3. f \in [DamagedOf(Tail(s)) -> rest]
  BY <1>2
<1>4. \A i, j \in DamagedOf(Tail(s)) : f[i] = f[j] => i = j
  BY <1>2
<1>5. \A j \in rest : \E i \in DamagedOf(Tail(s)) : f[i] = j
  <2>1. SUFFICES ASSUME NEW j \in rest
                 PROVE  \E i \in DamagedOf(Tail(s)) : f[i] = j
    OBVIOUS
  <2>2. j \in 2..Len(s) /\ s[j].type = "CHECKSUM_ERR"
    BY <1>1, <2>1 DEF DamagedOf
  <2>3. j - 1 \in 1..(Len(s) - 1) /\ Tail(s)[j - 1] = s[j]
    BY <1>1, <2>2
  <2>4. j - 1 \in DamagedOf(Tail(s))
    BY <1>1, <2>2, <2>3 DEF DamagedOf
  <2>5. f[j - 1] = j
    BY <2>2, <2>4
  <2>. QED BY <2>4, <2>5
<1>6. f \in Bijection(DamagedOf(Tail(s)), rest)
  BY <1>3, <1>4, <1>5 DEF Bijection, Injection, Surjection, IsInjective
<1>7. /\ IsFiniteSet(DamagedOf(Tail(s))) /\ IsFiniteSet(DamagedOf(s))
      /\ Cardinality(DamagedOf(s)) \in Nat
  BY <1>1, DamagedFinite
<1>8. Cardinality(rest) = Cardinality(DamagedOf(Tail(s)))
  <2>1. ExistsBijection(DamagedOf(Tail(s)), rest)
    BY <1>6 DEF ExistsBijection
  <2>. QED BY <1>7, <2>1, FS_Bijection
<1>9. Cardinality(rest)
        = IF 1 \in DamagedOf(s) THEN Cardinality(DamagedOf(s)) - 1 ELSE Cardinality(DamagedOf(s))
  BY <1>7, FS_RemoveElement
<1>10. 1 \in DamagedOf(s) <=> Head(s).type = "CHECKSUM_ERR"
  BY <1>1 DEF DamagedOf
<1>. QED BY <1>7, <1>8, <1>9, <1>10

\* Ageing damages none, and repairs none.
LEMMA DamagedAged ==
    ASSUME NEW s \in Seq(Sentences)
    PROVE  DamagedOf(Aged(s)) = DamagedOf(s)
BY AgedKeeps DEF DamagedOf

-----------------------------------------------------------------------------
(* How what the port holds stays spaced                                    *)

\* An empty port is spaced, whatever is read next.
LEMMA SpacedEmpty ==
    ASSUME NEW u, NEW n
    PROVE  Spaced(<<>>, u, n)
BY DEF Spaced

\* A sentence that arrives is the next of those not yet sent, or is damaged.
LEMMA SpacedAppend ==
    ASSUME NEW s \in Seq(Sentences), NEW m \in Sentences, NEW u \in Int, NEW n \in Int,
           Spaced(s, u, n), n >= u + Len(s),
           m.type = "CHECKSUM_ERR" \/ Number(m) = u
    PROVE  Spaced(Append(s, m), u - 1, n)
<1>. DEFINE t == Append(s, m)
            good == (DOMAIN s) \ DamagedOf(s)
            goodNow == (DOMAIN t) \ DamagedOf(t)
<1>1. /\ Len(s) \in Nat /\ DOMAIN s = 1..Len(s) /\ Len(t) = Len(s) + 1
      /\ DOMAIN t = 1..(Len(s) + 1)
      /\ \A i \in 1..Len(s) : t[i] = s[i]
      /\ t[Len(s) + 1] = m
  BY AppendIsLast
<1>2. \A i \in DOMAIN s : Number(s[i]) \in Int
  BY <1>1, ElementOfSeq, NumberType
<1>3. ASSUME NEW i \in goodNow
      PROVE  \/ i \in good /\ i <= Len(s) /\ t[i] = s[i]
             \/ i = Len(s) + 1 /\ Number(t[i]) = u
  BY <1>1 DEF DamagedOf
<1>4. ASSUME NEW i \in good
      PROVE  /\ Number(s[i]) <= n - i + 1 /\ Number(s[i]) >= u + Len(s) - i + 1
             /\ i \in 1..Len(s) /\ Number(s[i]) \in Int
  BY <1>1, <1>2 DEF Spaced
<1>5. ASSUME NEW i \in goodNow
      PROVE  Number(t[i]) <= n - i + 1 /\ Number(t[i]) >= (u - 1) + Len(t) - i + 1
  <2>. DEFINE number == Number(t[i])
              l == Len(s)
  <2>1. l \in Nat /\ Len(t) = l + 1 /\ i \in 1..(l + 1)
    BY <1>1
  <2>2. CASE i \in good /\ t[i] = s[i]
    <3>1. number <= n - i + 1 /\ number >= u + l - i + 1 /\ number \in Int
      BY <1>4, <2>2
    <3>. HIDE DEF number, l
    <3>2. number <= n - i + 1 /\ number >= (u - 1) + (l + 1) - i + 1
      BY <2>1, <3>1
    <3>. QED BY <2>1, <3>2 DEF number
  <2>3. CASE i = l + 1 /\ number = u
    <3>. HIDE DEF number, l
    <3>1. n >= u + l
      BY DEF l
    <3>2. number <= n - i + 1 /\ number >= (u - 1) + (l + 1) - i + 1
      BY <2>1, <2>3, <3>1
    <3>. QED BY <2>1, <3>2 DEF number
  <2>. QED BY <1>3, <2>2, <2>3
<1>6. ASSUME NEW i \in goodNow, NEW j \in goodNow, i < j
      PROVE  Number(t[i]) - Number(t[j]) >= j - i
  <2>1. i \in good /\ t[i] = s[i]
    BY <1>1, <1>3, <1>6
  <2>2. CASE j \in good /\ t[j] = s[j]
    BY <1>6, <2>1, <2>2 DEF Spaced
  <2>3. CASE j = Len(s) + 1 /\ Number(t[j]) = u
    BY <1>1, <1>4, <2>1, <2>3
  <2>. QED BY <1>3, <2>2, <2>3
<1>. HIDE DEF t
<1>7. Spaced(t, u - 1, n)
  BY <1>5, <1>6 DEF Spaced
<1>. QED BY <1>7 DEF t

\* A sentence that is lost makes room.
LEMMA SpacedLost ==
    ASSUME NEW s \in Seq(Sentences), NEW u \in Int, NEW n \in Int, Spaced(s, u, n)
    PROVE  Spaced(s, u - 1, n)
<1>1. Len(s) \in Nat /\ DOMAIN s = 1..Len(s)
  BY LenProperties
<1>2. \A i \in DOMAIN s : Number(s[i]) \in Int
  BY <1>1, ElementOfSeq, NumberType
<1>. QED BY <1>1, <1>2 DEF Spaced

\* Ageing puts all two further back.
LEMMA SpacedAged ==
    ASSUME NEW s \in Seq(Sentences), NEW u \in Int, NEW n \in Int, Spaced(s, u, n)
    PROVE  Spaced(Aged(s), u + 2, n + 2)
<1>. DEFINE t == Aged(s)
<1>1. /\ Len(s) \in Nat /\ DOMAIN s = 1..Len(s) /\ DOMAIN t = DOMAIN s /\ Len(t) = Len(s)
      /\ \A i \in DOMAIN s : Number(t[i]) = Number(s[i]) + 2
  BY AgedKeeps
<1>2. DamagedOf(t) = DamagedOf(s)
  BY DamagedAged
<1>3. \A i \in DOMAIN s : Number(s[i]) \in Int
  BY <1>1, ElementOfSeq, NumberType
<1>. HIDE DEF t
<1>4. ASSUME NEW i \in (DOMAIN t) \ DamagedOf(t)
      PROVE  Number(t[i]) <= (n + 2) - i + 1 /\ Number(t[i]) >= (u + 2) + Len(t) - i + 1
  <2>1. i \in (DOMAIN s) \ DamagedOf(s) /\ i \in 1..Len(s)
    BY <1>1, <1>2
  <2>2. Number(s[i]) <= n - i + 1 /\ Number(s[i]) >= u + Len(s) - i + 1
    BY <2>1 DEF Spaced
  <2>. QED BY <1>1, <1>3, <2>1, <2>2, SMTT(30)
<1>5. ASSUME NEW i \in (DOMAIN t) \ DamagedOf(t), NEW j \in (DOMAIN t) \ DamagedOf(t), i < j
      PROVE  Number(t[i]) - Number(t[j]) >= j - i
  <2>1. i \in (DOMAIN s) \ DamagedOf(s) /\ j \in (DOMAIN s) \ DamagedOf(s)
    BY <1>1, <1>2
  <2>2. Number(s[i]) - Number(s[j]) >= j - i
    BY <1>5, <2>1 DEF Spaced
  <2>. QED BY <1>1, <1>3, <2>1, <2>2
<1>6. Spaced(t, u + 2, n + 2)
  BY <1>4, <1>5 DEF Spaced
<1>. QED BY <1>6 DEF t

\* After a damaged sentence what follows is one further on.
LEMMA SpacedPassed ==
    ASSUME NEW s \in Seq(Sentences), s # <<>>, NEW u \in Int, NEW n \in Int, Spaced(s, u, n)
    PROVE  Spaced(Tail(s), u, n - 1)
<1>. DEFINE t == Tail(s)
            good == (DOMAIN s) \ DamagedOf(s)
            goodNow == (DOMAIN t) \ DamagedOf(t)
<1>1. /\ Len(s) \in Nat \ {0} /\ DOMAIN s = 1..Len(s) /\ Len(t) = Len(s) - 1
      /\ DOMAIN t = 1..(Len(s) - 1)
      /\ \A i \in 1..(Len(s) - 1) : t[i] = s[i + 1]
  BY TailMovesUp
<1>2. \A i \in DOMAIN s : Number(s[i]) \in Int
  BY <1>1, ElementOfSeq, NumberType
<1>. HIDE DEF t
<1>3. ASSUME NEW i \in goodNow
      PROVE  i \in 1..(Len(s) - 1) /\ i + 1 \in good /\ t[i] = s[i + 1]
  BY <1>1 DEF DamagedOf
<1>4. ASSUME NEW i \in goodNow
      PROVE  Number(t[i]) <= (n - 1) - i + 1 /\ Number(t[i]) >= u + Len(t) - i + 1
  BY <1>1, <1>2, <1>3, SMTT(30) DEF Spaced
<1>5. ASSUME NEW i \in goodNow, NEW j \in goodNow, i < j
      PROVE  Number(t[i]) - Number(t[j]) >= j - i
  <2>1. Number(s[i + 1]) - Number(s[j + 1]) >= (j + 1) - (i + 1)
    BY <1>3, <1>5 DEF Spaced
  <2>. QED BY <1>1, <1>2, <1>3, <2>1
<1>6. Spaced(t, u, n - 1)
  BY <1>4, <1>5 DEF Spaced
<1>. QED BY <1>6 DEF t

\* A good sentence that is read is among what could come next, and what follows
\* is later than it.
LEMMA SpacedRead ==
    ASSUME NEW s \in Seq(Sentences), s # <<>>, NEW u \in Int, NEW n \in Int,
           Spaced(s, u, n), Head(s).type # "CHECKSUM_ERR"
    PROVE  /\ Number(Head(s)) <= n /\ Number(Head(s)) >= u + Len(s)
           /\ Spaced(Tail(s), u, Number(Head(s)) - 1)
<1>. DEFINE t == Tail(s)
            good == (DOMAIN s) \ DamagedOf(s)
            goodNow == (DOMAIN t) \ DamagedOf(t)
            read == Number(Head(s))
<1>1. /\ Len(s) \in Nat \ {0} /\ DOMAIN s = 1..Len(s) /\ Len(t) = Len(s) - 1
      /\ DOMAIN t = 1..(Len(s) - 1) /\ Head(s) = s[1]
      /\ \A i \in 1..(Len(s) - 1) : t[i] = s[i + 1]
  BY TailMovesUp
<1>2. \A i \in DOMAIN s : Number(s[i]) \in Int
  BY <1>1, ElementOfSeq, NumberType
<1>3. read = Number(s[1]) /\ read \in Int /\ 1 \in good
  BY <1>1, <1>2 DEF DamagedOf
<1>. HIDE DEF t, read
<1>4. read <= n /\ read >= u + Len(s)
  BY <1>1, <1>3 DEF Spaced
<1>5. ASSUME NEW i \in goodNow
      PROVE  i \in 1..(Len(s) - 1) /\ i + 1 \in good /\ t[i] = s[i + 1]
  BY <1>1 DEF DamagedOf
<1>6. ASSUME NEW i \in goodNow
      PROVE  Number(t[i]) <= (read - 1) - i + 1 /\ Number(t[i]) >= u + Len(t) - i + 1
  <2>1. Number(s[1]) - Number(s[i + 1]) >= (i + 1) - 1
    <3>1. 1 \in good /\ i + 1 \in good /\ 1 < i + 1
      BY <1>3, <1>5
    <3>. QED BY <3>1 DEF Spaced
  <2>. QED BY <1>1, <1>2, <1>3, <1>5, <2>1, SMTT(30) DEF Spaced
<1>7. ASSUME NEW i \in goodNow, NEW j \in goodNow, i < j
      PROVE  Number(t[i]) - Number(t[j]) >= j - i
  <2>1. Number(s[i + 1]) - Number(s[j + 1]) >= (j + 1) - (i + 1)
    BY <1>5, <1>7 DEF Spaced
  <2>. QED BY <1>1, <1>2, <1>5, <2>1
<1>8. Spaced(t, u, read - 1)
  BY <1>6, <1>7 DEF Spaced
<1>. QED BY <1>4, <1>8 DEF t, read

-----------------------------------------------------------------------------
(* Types                                                                   *)

\* What has been read in a call is nothing, or one of the two sentences.
LEMMA StatusType ==
    ASSUME TypeOK
    PROVE  status = {} \/ status = {"GPRMC"} \/ status = {"GPGGA"}
<1>1. status \subseteq COMPLETED /\ status # COMPLETED
  BY DEF TypeOK
<1>2. \A type \in status : type = "GPRMC" \/ type = "GPGGA"
  BY <1>1 DEF COMPLETED
<1>3. ~("GPRMC" \in status /\ "GPGGA" \in status)
  BY <1>1, <1>2 DEF COMPLETED
<1>. QED BY <1>2, <1>3

\* The numbers the invariant is made of.
LEMMA NumbersType ==
    ASSUME TypeOK, NEW r \in Receivers
    PROVE  /\ tty[r] \in Seq(Sentences) /\ Len(tty[r]) \in Nat
           /\ sent[r] \in Int /\ sent[r] >= 0 /\ sent[r] <= 2
           /\ lost[r] \in Nat /\ position[r] \in Nat /\ quality[r].age \in Nat
           /\ Cardinality(DamagedOf(tty[r])) \in Nat
           /\ Unsent(r) \in Int /\ Gone(r) \in Int /\ Gone(r) <= lost[r]
           /\ LastGood(r) \in Int
           /\ \A p \in Nat : NextRead(r, p) \in Int
<1>1. tty[r] \in Seq(Sentences) /\ Len(tty[r]) \in Nat
  BY LenProperties DEF TypeOK
<1>2. Cardinality(DamagedOf(tty[r])) \in Nat
  BY <1>1, DamagedFinite
<1>3. sent[r] \in Int /\ sent[r] >= 0 /\ sent[r] <= 2 /\ lost[r] \in Nat
  <2>1. sent[r] \in 0..2 /\ lost[r] \in 0..MaxLost
    BY DEF TypeOK
  <2>. QED BY <2>1, GpsAssumption
<1>4. position[r] \in Nat /\ quality[r].age \in Nat
  BY DEF TypeOK
<1>5. Unsent(r) \in Int /\ Gone(r) \in Int /\ Gone(r) <= lost[r] /\ LastGood(r) \in Int
  BY <1>2, <1>3, <1>4 DEF Unsent, Gone, LastGood
<1>6. \A p \in Nat : NextRead(r, p) \in Int
  BY <1>1, <1>5 DEF NextRead
<1>. QED BY <1>1, <1>2, <1>3, <1>4, <1>5, <1>6

\* The types hold at the start.
LEMMA TypeOKInit == Init => TypeOK
<1>. SUFFICES ASSUME Init PROVE TypeOK
  OBVIOUS
<1>1. \A r \in Receivers : tty[r] = <<>> /\ <<>> \in Seq(Sentences)
  BY EmptySeq DEF Init
<1>2. tty \in [Receivers -> Seq(Sentences)]
  BY <1>1 DEF Init
<1>3. getLocation \in Receivers \cup {"heading"} /\ status \in (SUBSET COMPLETED) \ {COMPLETED}
  BY DEF Init, Receivers, COMPLETED
<1>4. /\ position \in [Receivers -> Nat]
      /\ quality \in [Receivers -> [age : Nat, fix : BOOLEAN]]
  BY DEF Init
<1>5. 0 \in 0..2 /\ 0 \in 0..MaxLost
  BY GpsAssumption
<1>6. /\ sent \in [Receivers -> 0..2] /\ lost \in [Receivers -> 0..MaxLost]
      /\ fix \in [Receivers -> BOOLEAN] /\ gps_heading \in BOOLEAN /\ corrected \in BOOLEAN
  BY <1>5 DEF Init
<1>. QED BY <1>2, <1>3, <1>4, <1>6 DEF TypeOK

\* A read sentence keeps them.
LEMMA TypeOKRead ==
    ASSUME TypeOK, NEW r \in Receivers, ReadSentence(r)
    PROVE  TypeOK'
<1>1. Head(tty[r]) \in Sentences /\ Tail(tty[r]) \in Seq(Sentences)
  BY TailMovesUp DEF TypeOK, ReadSentence
<1>2. tty' \in [Receivers -> Seq(Sentences)]
  BY <1>1 DEF TypeOK, ReadSentence, Take
<1>3. /\ getLocation' \in Receivers \cup {"heading"}
      /\ status' \in (SUBSET COMPLETED) \ {COMPLETED}
      /\ position' \in [Receivers -> Nat]
      /\ quality' \in [Receivers -> [age : Nat, fix : BOOLEAN]]
  <2>1. CASE GoodSentence(r, Head(tty[r]))
    <3>1. /\ Head(tty[r]).type \in COMPLETED /\ Head(tty[r]).age \in Nat
          /\ Head(tty[r]).fix \in BOOLEAN
      BY <1>1, <2>1 DEF Sentences, GoodSentence, nmea_parse_gprmc, nmea_parse_gpgga, COMPLETED
    <3>2. /\ position' \in [Receivers -> Nat]
          /\ quality' \in [Receivers -> [age : Nat, fix : BOOLEAN]]
      <4>1. CASE nmea_parse_gprmc(r, Head(tty[r]))
        BY <3>1, <4>1 DEF TypeOK, nmea_parse_gprmc
      <4>2. CASE nmea_parse_gpgga(r, Head(tty[r]))
        <5>. DEFINE q == [age |-> Head(tty[r]).age, fix |-> Head(tty[r]).fix]
        <5>1. q \in [age : Nat, fix : BOOLEAN]
          BY <3>1
        <5>2. quality' = [quality EXCEPT ![r] = q] /\ position' = position
          BY <4>2 DEF nmea_parse_gpgga
        <5>. HIDE DEF q
        <5>. QED BY <5>1, <5>2 DEF TypeOK
      <4>. QED BY <2>1, <4>1, <4>2 DEF GoodSentence
    <3>3. /\ getLocation' \in Receivers \cup {"heading"}
          /\ status' \in (SUBSET COMPLETED) \ {COMPLETED}
      BY <2>1, <3>1 DEF TypeOK, GoodSentence, Seen, NextToRead, Receivers, COMPLETED
    <3>. QED BY <3>2, <3>3
  <2>2. CASE BadSentence(Head(tty[r]))
    BY <2>2 DEF TypeOK, BadSentence
  <2>. QED BY <2>1, <2>2 DEF ReadSentence
<1>. QED BY <1>2, <1>3 DEF TypeOK, ReadSentence

\* So does what a receiver sends.
LEMMA TypeOKSend ==
    ASSUME TypeOK, NEW r \in Receivers, SendSentence(r) \/ LoseSentence(r)
    PROVE  TypeOK'
<1>1. sent[r] \in Int /\ sent[r] >= 0 /\ sent[r] < 2 /\ lost[r] \in Nat
  BY NumbersType DEF SendSentence, LoseSentence, Sends
<1>2. SentNow(r) \in Sentences /\ Damaged \in Sentences
  <2>1. Epoch[sent[r] + 1] \in COMPLETED
    <3>1. sent[r] = 0 \/ sent[r] = 1
      BY <1>1
    <3>. QED BY <3>1 DEF Epoch, COMPLETED
  <2>2. (Epoch[sent[r] + 1] = "GPGGA" /\ fix[r]) \in BOOLEAN
    OBVIOUS
  <2>. QED BY <2>1, <2>2 DEF SentNow, Damaged, Sentences
<1>3. sent' \in [Receivers -> 0..2]
  <2>1. sent' = [sent EXCEPT ![r] = sent[r] + 1]
    BY DEF SendSentence, LoseSentence, Sends
  <2>2. sent[r] + 1 \in 0..2
    BY <1>1
  <2>. QED BY <2>1, <2>2 DEF TypeOK
<1>4. tty' \in [Receivers -> Seq(Sentences)]
  <2>1. \A m \in Sentences : Append(tty[r], m) \in Seq(Sentences)
    BY AppendIsLast DEF TypeOK
  <2>2. /\ Append(tty[r], SentNow(r)) \in Seq(Sentences)
        /\ Append(tty[r], Damaged) \in Seq(Sentences)
    BY <1>2, <2>1
  <2>. QED BY <2>2 DEF TypeOK, SendSentence, LoseSentence, Arrives
<1>5. lost' \in [Receivers -> 0..MaxLost]
  <2>1. CASE SendSentence(r)
    BY <2>1 DEF TypeOK, SendSentence
  <2>2. CASE LoseSentence(r)
    <3>1. lost' = [lost EXCEPT ![r] = lost[r] + 1] /\ lost[r] + 1 \in 0..MaxLost
      BY <1>1, <2>2, GpsAssumption DEF LoseSentence
    <3>. QED BY <3>1 DEF TypeOK
  <2>. QED BY <2>1, <2>2
<1>. QED BY <1>3, <1>4, <1>5 DEF TypeOK, SendSentence, LoseSentence

\* So does the next epoch.
LEMMA TypeOKEpoch ==
    ASSUME TypeOK, NextEpoch
    PROVE  TypeOK' /\ \A r \in Receivers : tty'[r] = Aged(tty[r])
<1>1. \A r \in Receivers : tty'[r] = Aged(tty[r])
  BY DEF NextEpoch, Aged
<1>2. \A r \in Receivers : Aged(tty[r]) \in Seq(Sentences)
  BY AgedKeeps DEF TypeOK
<1>3. tty' \in [Receivers -> Seq(Sentences)]
  BY <1>1, <1>2 DEF NextEpoch
<1>4. sent' \in [Receivers -> 0..2]
  BY DEF NextEpoch
<1>5. position' \in [Receivers -> Nat]
  BY DEF TypeOK, NextEpoch
<1>6. quality' \in [Receivers -> [age : Nat, fix : BOOLEAN]]
  <2>1. ASSUME NEW r \in Receivers
        PROVE  /\ quality[r] \in [age : Nat, fix : BOOLEAN]
               /\ [quality[r] EXCEPT !.age = @ + 1] \in [age : Nat, fix : BOOLEAN]
    <3>1. quality[r] \in [age : Nat, fix : BOOLEAN]
      BY DEF TypeOK
    <3>. QED BY <3>1
  <2>. QED BY <2>1 DEF NextEpoch
<1>. QED BY <1>1, <1>3, <1>4, <1>5, <1>6 DEF TypeOK, NextEpoch

\* Every step keeps the types.
LEMMA TypeOKStep == TypeOK /\ [Next]_vars => TypeOK'
<1>. SUFFICES ASSUME TypeOK, [Next]_vars PROVE TypeOK'
  OBVIOUS
<1>1. CASE \E r \in Receivers : ReadSentence(r)
  BY <1>1, TypeOKRead
<1>2. CASE Heading
  <2>1. IsLocationGood \in BOOLEAN
    BY DEF IsLocationGood
  <2>2. Unread \in [Receivers -> Nat] /\ NoQuality \in [Receivers -> [age : Nat, fix : BOOLEAN]]
    BY DEF Unread, NoQuality
  <2>3. getLocation' \in Receivers
    BY <1>2 DEF Heading, Receivers
  <2>4. gps_heading' \in BOOLEAN
    BY <1>2, <2>1 DEF Heading
  <2>. QED BY <1>2, <2>2, <2>3, <2>4 DEF TypeOK, Heading
<1>3. CASE NextEpoch
  BY <1>3, TypeOKEpoch
<1>4. CASE \E r \in Receivers : SendSentence(r) \/ LoseSentence(r)
  BY <1>4, TypeOKSend
<1>5. CASE GetFixes \/ (\E r \in Receivers : LoseFix(r)) \/ CorrectionsCome
  BY <1>5 DEF TypeOK, GetFixes, GetFix, LoseFix, CorrectionsCome
<1>6. CASE UNCHANGED vars
  BY <1>6 DEF TypeOK, vars
<1>. QED BY <1>1, <1>2, <1>3, <1>4, <1>5, <1>6 DEF Next, MainLoop, Receive

-----------------------------------------------------------------------------
(* Each receiver stays in pace                                             *)

\* A receiver that nothing is done with stays in pace.
LEMMA SameReceiver ==
    ASSUME TypeOK, NEW r \in Receivers, NEW base \in Int, NEW passed \in Nat,
           InPace(r, base, passed),
           tty'[r] = tty[r], sent'[r] = sent[r], lost'[r] = lost[r],
           position'[r] = position[r], quality'[r] = quality[r],
           Done(r)' <=> Done(r), Begun(r)' <=> Begun(r), Begun(r) => status' = status
    PROVE  InPace(r, base, passed)'
<1>1. Gone(r)' = Gone(r) /\ Unsent(r)' = Unsent(r)
  BY DEF Gone, Unsent
<1>2. NextRead(r, passed)' = NextRead(r, passed)
  BY <1>1 DEF NextRead
<1>3. Spaced(tty[r], Unsent(r), NextRead(r, passed))' = Spaced(tty[r], Unsent(r), NextRead(r, passed))
  BY <1>1, <1>2 DEF Spaced
<1>4. Begun(r) => LastGood(r)' = LastGood(r)
  BY DEF LastGood
<1>5. AfterRead(r, NextRead(r, passed), base, passed)' <=> AfterRead(r, NextRead(r, passed), base, passed)
  BY <1>2 DEF AfterRead
<1>. QED BY <1>1, <1>2, <1>3, <1>4, <1>5 DEF InPace, BeforeRead, WhileRead

\* The next number to be read is not changed by what a receiver sends, and
\* what it has sent is still spaced.
LEMMA SentInPace ==
    ASSUME TypeOK, NEW r \in Receivers, NEW base \in Int, NEW passed \in Nat,
           InPace(r, base, passed), SendSentence(r) \/ LoseSentence(r)
    PROVE  InPace(r, base, passed)'
<1>. DEFINE s == tty[r]
            t == tty'[r]
            damaged == Cardinality(DamagedOf(s))
            next == (1 - sent[r]) + Len(s) + (lost[r] - damaged) - passed
<1>1. /\ s \in Seq(Sentences) /\ Len(s) \in Nat /\ lost[r] \in Nat
      /\ sent[r] \in Int /\ sent[r] >= 0 /\ position[r] \in Nat /\ damaged \in Nat
  BY NumbersType
<1>2. sent[r] < 2 /\ sent'[r] = sent[r] + 1
  BY DEF TypeOK, SendSentence, LoseSentence, Sends
<1>3. sent[r] = 0 \/ sent[r] = 1
  <2>. HIDE DEF damaged, s, t
  <2>. QED BY <1>1, <1>2
<1>4. NextRead(r, passed) = next /\ Unsent(r) = 1 - sent[r]
  BY DEF NextRead, Unsent, Gone
<1>5. passed <= lost[r] - damaged /\ Spaced(s, 1 - sent[r], next)
  BY <1>4 DEF InPace, Gone
<1>. HIDE DEF next, damaged
<1>6. next \in Int /\ next >= (1 - sent[r]) + Len(s) /\ 1 - sent[r] \in Int
  <2>. HIDE DEF s, t
  <2>. QED BY <1>1, <1>5, SMTT(30) DEF next
\* Either the port has the sentence, or the number of those that are gone grows.
<1>7. \/ /\ Len(t) = Len(s) + 1 /\ lost'[r] = lost[r] /\ Cardinality(DamagedOf(t)) = damaged
         /\ Spaced(t, (1 - sent[r]) - 1, next)
      \/ /\ Len(t) = Len(s) + 1 /\ lost'[r] = lost[r] + 1
         /\ Cardinality(DamagedOf(t)) = damaged + 1
         /\ Spaced(t, (1 - sent[r]) - 1, next)
      \/ /\ Len(t) = Len(s) /\ lost'[r] = lost[r] + 1 /\ Cardinality(DamagedOf(t)) = damaged
         /\ Spaced(t, (1 - sent[r]) - 1, next)
  <2>1. CASE SendSentence(r)
    <3>1. /\ SentNow(r) \in Sentences /\ SentNow(r).type # "CHECKSUM_ERR"
          /\ Number(SentNow(r)) = 1 - sent[r]
      <4>1. (Epoch[sent[r] + 1] = "GPGGA" /\ fix[r]) \in BOOLEAN
        OBVIOUS
      <4>2. \/ sent[r] = 0 /\ Epoch[sent[r] + 1] = "GPRMC"
            \/ sent[r] = 1 /\ Epoch[sent[r] + 1] = "GPGGA"
        BY <1>3 DEF Epoch
      <4>3. SentNow(r) \in Sentences
        BY <4>1, <4>2 DEF SentNow, Sentences, COMPLETED
      <4>4. SentNow(r).type = Epoch[sent[r] + 1] /\ SentNow(r).age = 0
        BY DEF SentNow
      <4>5. Number(SentNow(r)) = 1 - sent[r]
        BY <4>2, <4>4 DEF Number
      <4>. QED BY <4>2, <4>3, <4>4, <4>5
    <3>2. t = Append(s, SentNow(r)) /\ lost' = lost
      BY <2>1 DEF TypeOK, SendSentence, Arrives
    <3>3. Len(t) = Len(s) + 1
      BY <1>1, <3>1, <3>2, AppendIsLast
    <3>4. Cardinality(DamagedOf(t)) = damaged
      BY <1>1, <3>1, <3>2, DamagedAppend DEF damaged
    <3>5. Spaced(t, (1 - sent[r]) - 1, next)
      <4>. HIDE DEF t
      <4>. QED BY <1>1, <1>5, <1>6, <3>1, <3>2, SpacedAppend
    <3>. QED BY <3>2, <3>3, <3>4, <3>5
  <2>2. CASE LoseSentence(r) /\ Arrives(r, Damaged)
    <3>1. Damaged \in Sentences /\ Damaged.type = "CHECKSUM_ERR"
      BY DEF Damaged, Sentences
    <3>2. t = Append(s, Damaged) /\ lost'[r] = lost[r] + 1
      BY <2>2 DEF TypeOK, LoseSentence, Arrives
    <3>3. Len(t) = Len(s) + 1
      BY <1>1, <3>1, <3>2, AppendIsLast
    <3>4. Cardinality(DamagedOf(t)) = damaged + 1
      BY <1>1, <3>1, <3>2, DamagedAppend DEF damaged
    <3>5. Spaced(t, (1 - sent[r]) - 1, next)
      <4>. HIDE DEF t
      <4>. QED BY <1>1, <1>5, <1>6, <3>1, <3>2, SpacedAppend
    <3>. QED BY <3>2, <3>3, <3>4, <3>5
  <2>3. CASE LoseSentence(r) /\ UNCHANGED tty
    <3>1. t = s /\ lost'[r] = lost[r] + 1
      BY <2>3 DEF TypeOK, LoseSentence
    <3>2. Spaced(s, (1 - sent[r]) - 1, next)
      BY <1>1, <1>5, <1>6, SpacedLost
    <3>. QED BY <3>1, <3>2 DEF damaged
  <2>. QED BY <2>1, <2>2, <2>3 DEF LoseSentence
<1>8. /\ (1 - sent'[r]) + Len(t) + (lost'[r] - Cardinality(DamagedOf(t))) - passed = next
      /\ passed <= lost'[r] - Cardinality(DamagedOf(t))
      /\ Spaced(t, 1 - sent'[r], next)
      /\ Len(t) + lost'[r] >= Len(s) + lost[r] + 1 /\ lost'[r] >= lost[r]
      /\ Len(t) \in Nat /\ lost'[r] \in Nat
  <2>1. 1 - sent'[r] = (1 - sent[r]) - 1
    <3>. HIDE DEF s, t
    <3>. QED BY <1>1, <1>2
  <2>2. Spaced(t, 1 - sent'[r], next)
    BY <1>7, <2>1
  <2>. DEFINE l == Len(s)
              l2 == Len(t)
              d2 == Cardinality(DamagedOf(t))
              n == sent[r]
              n2 == sent'[r]
              o == lost[r]
              o2 == lost'[r]
  <2>3. l2 \in Nat /\ o2 \in Nat /\ d2 \in Nat
    BY <1>1, <1>7, SMTT(30)
  <2>4. /\ l \in Nat /\ o \in Nat /\ n \in Int /\ damaged \in Nat
        /\ passed <= o - damaged /\ n2 = n + 1
        /\ next = (1 - n) + l + (o - damaged) - passed
    BY <1>1, <1>2, <1>5 DEF next
  <2>5. \/ l2 = l + 1 /\ o2 = o /\ d2 = damaged
        \/ l2 = l + 1 /\ o2 = o + 1 /\ d2 = damaged + 1
        \/ l2 = l /\ o2 = o + 1 /\ d2 = damaged
    BY <1>7
  <2>. HIDE DEF l, l2, d2, n, n2, o, o2
  <2>6. l2 + o2 >= l + o + 1 /\ o2 >= o
    BY <2>3, <2>4, <2>5
  <2>7. passed <= o2 - d2
    BY <2>3, <2>4, <2>5
  <2>8. (1 - n2) + l2 + (o2 - d2) - passed = next
    BY <2>3, <2>4, <2>5
  <2>. QED BY <2>2, <2>3, <2>6, <2>7, <2>8 DEF l, l2, d2, n, n2, o, o2
<1>9. NextRead(r, passed)' = next
  BY <1>8 DEF NextRead, Unsent, Gone
<1>10. UNCHANGED loopVars
  BY DEF SendSentence, LoseSentence
<1>11. (Done(r)' <=> Done(r)) /\ (Begun(r)' <=> Begun(r)) /\ LastGood(r)' = LastGood(r)
  BY <1>10 DEF Done, Begun, LastGood
<1>12. (passed <= Gone(r) /\ Spaced(tty[r], Unsent(r), NextRead(r, passed)))'
  BY <1>8, <1>9 DEF Gone, Unsent
<1>13. Done(r) => AfterRead(r, NextRead(r, passed), base, passed)'
  <2>1. SUFFICES ASSUME Done(r) PROVE AfterRead(r, NextRead(r, passed), base, passed)'
    OBVIOUS
  <2>2. AfterRead(r, next, base, passed)
    BY <1>4, <2>1 DEF InPace
  <2>3. position'[r] = position[r] /\ quality'[r] = quality[r]
    BY <1>10
  <2>4. Diff(position[r], quality[r].age) \in Nat
    <3>1. position[r] \in Nat /\ quality[r].age \in Nat
      BY NumbersType
    <3>. QED BY <3>1 DEF Diff
  <2>5. Diff(position'[r], quality'[r].age) = Diff(position[r], quality[r].age)
    BY <2>3
  <2>6. /\ next <= 2 * base - 1 /\ next >= 2 * base - 1 - 2 * passed
        /\ position[r] <= base /\ position[r] >= base - lost[r]
        /\ Diff(position[r], quality[r].age) <= lost[r]
        /\ 2 * position[r] + sent[r] <= Len(s) + lost[r] + 2
    BY <2>2 DEF AfterRead
  <2>7. /\ position'[r] <= base /\ position'[r] >= base - lost'[r]
        /\ Diff(position'[r], quality'[r].age) <= lost'[r]
        /\ 2 * position'[r] + sent'[r] <= Len(t) + lost'[r] + 2
    <3>. DEFINE l == Len(s)
                l2 == Len(t)
    <3>1. /\ l \in Nat /\ l2 \in Nat /\ lost[r] \in Nat /\ lost'[r] \in Nat
          /\ sent[r] \in Int /\ sent'[r] = sent[r] + 1
          /\ position[r] \in Nat /\ position'[r] = position[r]
          /\ lost'[r] >= lost[r] /\ l2 + lost'[r] >= l + lost[r] + 1
          /\ position[r] <= base /\ position[r] >= base - lost[r]
          /\ 2 * position[r] + sent[r] <= l + lost[r] + 2
      BY <1>1, <1>2, <1>8, <2>3, <2>6
    <3>. HIDE DEF l, l2
    <3>2. position'[r] <= base /\ position'[r] >= base - lost'[r]
      BY <3>1
    <3>3. Diff(position'[r], quality'[r].age) <= lost'[r]
      BY <1>1, <1>8, <2>4, <2>5, <2>6, SMTT(30)
    <3>4. 2 * position'[r] + sent'[r] <= l2 + lost'[r] + 2
      BY <3>1
    <3>. QED BY <3>2, <3>3, <3>4 DEF l2
  <2>. QED BY <1>9, <2>6, <2>7 DEF AfterRead
<1>14. /\ ~Done(r) /\ ~Begun(r) => BeforeRead(NextRead(r, passed), base, passed)'
       /\ Begun(r) => WhileRead(LastGood(r), NextRead(r, passed), base, passed)'
  BY <1>4, <1>9, <1>11 DEF InPace, BeforeRead, WhileRead
<1>. QED BY <1>11, <1>12, <1>13, <1>14 DEF InPace

\* In the next epoch all is one epoch older, what is read next too.
LEMMA EpochInPace ==
    ASSUME TypeOK, NEW r \in Receivers, NEW base \in Int, NEW passed \in Nat,
           InPace(r, base, passed), NextEpoch
    PROVE  InPace(r, base + 1, passed)'
<1>. DEFINE s == tty[r]
            l == Len(s)
            d == Cardinality(DamagedOf(s))
            o == lost[r]
            next == -1 + l + (o - d) - passed
            last == LastGood(r)
            pos == position[r]
            age == quality[r].age
<1>1. s \in Seq(Sentences) /\ l \in Nat /\ d \in Nat /\ o \in Nat /\ last \in Int /\ pos \in Nat /\ age \in Nat
  BY NumbersType
<1>2. sent[r] = 2 /\ sent'[r] = 0 /\ lost'[r] = o
  BY DEF NextEpoch
<1>3. tty'[r] = Aged(s) /\ Len(tty'[r]) = l /\ Cardinality(DamagedOf(tty'[r])) = d
  BY <1>1, TypeOKEpoch, AgedKeeps, DamagedAged
<1>4. NextRead(r, passed) = next /\ Unsent(r) = -1 /\ Gone(r) = o - d
  BY <1>2 DEF NextRead, Unsent, Gone
<1>5. passed <= o - d /\ Spaced(s, -1, next)
  BY <1>4 DEF InPace
<1>6. next \in Int /\ 1 + l + (o - d) - passed = next + 2
  <2>. HIDE DEF s, l, d, o
  <2>. QED BY <1>1
<1>7. NextRead(r, passed)' = next + 2 /\ Unsent(r)' = 1 /\ Gone(r)' = o - d
  BY <1>2, <1>3, <1>6 DEF NextRead, Unsent, Gone
<1>8. Spaced(tty'[r], 1, next + 2)
  <2>1. Spaced(Aged(s), -1 + 2, next + 2)
    <3>. HIDE DEF next
    <3>. QED BY <1>1, <1>5, <1>6, SpacedAged
  <2>2. -1 + 2 = 1
    OBVIOUS
  <2>. QED BY <1>3, <2>1, <2>2
<1>9. getLocation' = getLocation /\ status' = status
  BY DEF NextEpoch
<1>10. (Done(r)' <=> Done(r)) /\ (Begun(r)' <=> Begun(r))
  BY <1>9 DEF Done, Begun
<1>11. Begun(r) => LastGood(r)' = last + 2
  <2>1. SUFFICES ASSUME Begun(r) PROVE LastGood(r)' = last + 2
    OBVIOUS
  <2>2. CASE status = {"GPRMC"}
    <3>1. position'[r] = pos + 1
      BY <2>1, <2>2 DEF NextEpoch, Has, Begun
    <3>2. LastGood(r)' = 2 * (pos + 1) + 1 /\ last = 2 * pos + 1
      BY <1>9, <2>2, <3>1 DEF LastGood
    <3>. QED BY <1>1, <3>2
  <2>3. CASE status = {"GPGGA"}
    <3>1. quality'[r] = [quality[r] EXCEPT !.age = @ + 1]
      BY <2>1, <2>3 DEF NextEpoch, Has, Begun
    <3>2. quality'[r].age = age + 1
      <4>1. quality[r] \in [age : Nat, fix : BOOLEAN]
        BY DEF TypeOK
      <4>. QED BY <3>1, <4>1
    <3>3. LastGood(r)' = 2 * (age + 1) /\ last = 2 * age
      <4>1. status # {"GPRMC"}
        BY <2>3
      <4>. QED BY <1>9, <3>2, <4>1 DEF LastGood
    <3>. QED BY <1>1, <3>3
  <2>. QED BY <2>1, <2>2, <2>3, StatusType DEF Begun
<1>12. Done(r) => position'[r] = pos + 1 /\ quality'[r].age = age + 1
  <2>1. SUFFICES ASSUME Done(r) PROVE position'[r] = pos + 1 /\ quality'[r].age = age + 1
    OBVIOUS
  <2>2. Has(r, "GPRMC") /\ Has(r, "GPGGA")
    BY <2>1 DEF Done, Has
  <2>3. quality[r] \in [age : Nat, fix : BOOLEAN]
    BY DEF TypeOK
  <2>4. quality'[r] = [quality[r] EXCEPT !.age = @ + 1] /\ position'[r] = pos + 1
    BY <2>2 DEF NextEpoch
  <2>. QED BY <2>3, <2>4
<1>13. (~Done(r) /\ ~Begun(r) => BeforeRead(NextRead(r, passed), base + 1, passed))'
  <2>1. ~Done(r) /\ ~Begun(r) => next <= 2 * base + 1 /\ next >= 2 * base + 1 - 2 * passed
    BY <1>4 DEF InPace, BeforeRead
  <2>. HIDE DEF next
  <2>2. ~Done(r) /\ ~Begun(r) => /\ next + 2 <= 2 * (base + 1) + 1
                                 /\ next + 2 >= 2 * (base + 1) + 1 - 2 * passed
    BY <1>6, <2>1
  <2>. QED BY <1>7, <1>10, <2>2 DEF BeforeRead
<1>14. (Begun(r) => WhileRead(LastGood(r), NextRead(r, passed), base + 1, passed))'
  <2>1. Begun(r) => WhileRead(last, next, base, passed)
    BY <1>4 DEF InPace
  <2>. HIDE DEF next, last
  <2>2. WhileRead(last, next, base, passed) => WhileRead(last + 2, next + 2, base + 1, passed)
    BY <1>1, <1>6 DEF WhileRead
  <2>3. Begun(r)' => LastGood(r)' = last + 2 /\ NextRead(r, passed)' = next + 2
    BY <1>7, <1>10, <1>11
  <2>4. WhileRead(LastGood(r), NextRead(r, passed), base + 1, passed)'
          <=> WhileRead(LastGood(r)', NextRead(r, passed)', base + 1, passed)
    BY DEF WhileRead
  <2>. QED BY <1>10, <2>1, <2>2, <2>3, <2>4
<1>15. (Done(r) => AfterRead(r, NextRead(r, passed), base + 1, passed))'
  <2>1. SUFFICES ASSUME Done(r) PROVE AfterRead(r, NextRead(r, passed), base + 1, passed)'
    BY <1>10
  <2>2. /\ next <= 2 * base - 1 /\ next >= 2 * base - 1 - 2 * passed
        /\ pos <= base /\ pos >= base - o /\ Diff(pos, age) <= o
        /\ 2 * pos + 2 <= l + o + 2
    BY <1>2, <1>4, <2>1 DEF InPace, AfterRead
  <2>3. Diff(pos + 1, age + 1) = Diff(pos, age)
    <3>. HIDE DEF pos, age
    <3>. QED BY <1>1 DEF Diff
  <2>. HIDE DEF next, pos, age, o, l
  <2>4. /\ next + 2 <= 2 * (base + 1) - 1 /\ next + 2 >= 2 * (base + 1) - 1 - 2 * passed
        /\ pos + 1 <= base + 1 /\ pos + 1 >= (base + 1) - o
        /\ 2 * (pos + 1) + 0 <= l + o + 2
    BY <1>1, <1>6, <2>2
  <2>5. /\ position'[r] = pos + 1 /\ quality'[r].age = age + 1 /\ lost'[r] = o
        /\ sent'[r] = 0 /\ Len(tty'[r]) = l
    BY <1>2, <1>3, <1>12, <2>1
  <2>6. Diff(position'[r], quality'[r].age) <= o
    BY <2>2, <2>3, <2>5
  <2>. QED BY <1>7, <2>4, <2>5, <2>6 DEF AfterRead
<1>. QED BY <1>5, <1>7, <1>8, <1>13, <1>14, <1>15 DEF InPace

\* A pass over, the next is to read the epoch after.
LEMMA HeadingInPace ==
    ASSUME TypeOK, getLocation = "heading" => status = {}, NEW r \in Receivers,
           NEW base \in Int, NEW passed \in Nat, InPace(r, base, passed), Heading
    PROVE  InPace(r, base - 1, passed)'
<1>1. tty' = tty /\ sent' = sent /\ lost' = lost
  BY DEF Heading
<1>2. Gone(r)' = Gone(r) /\ Unsent(r)' = Unsent(r) /\ NextRead(r, passed)' = NextRead(r, passed)
  BY <1>1 DEF Gone, Unsent, NextRead
<1>3. Spaced(tty[r], Unsent(r), NextRead(r, passed))' = Spaced(tty[r], Unsent(r), NextRead(r, passed))
  BY <1>1, <1>2 DEF Spaced
<1>4. Done(r) /\ ~Done(r)' /\ ~Begun(r)'
  BY DEF Heading, Done, Begun
<1>5. BeforeRead(NextRead(r, passed), base - 1, passed)'
  <2>1. AfterRead(r, NextRead(r, passed), base, passed) /\ NextRead(r, passed) \in Int
    BY <1>4, NumbersType DEF InPace
  <2>. DEFINE next == NextRead(r, passed)
  <2>2. next \in Int /\ next <= 2 * base - 1 /\ next >= 2 * base - 1 - 2 * passed
    BY <2>1 DEF AfterRead
  <2>. HIDE DEF next
  <2>3. next <= 2 * (base - 1) + 1 /\ next >= 2 * (base - 1) + 1 - 2 * passed
    BY <2>2
  <2>. QED BY <1>2, <2>3 DEF BeforeRead, next
<1>. QED BY <1>2, <1>3, <1>4, <1>5 DEF InPace

\* The first good sentence of a call: what it passed over is counted.
LEMMA FirstRead ==
    ASSUME NEW base \in Int, NEW passed \in Nat, NEW next \in Int, NEW number \in Int,
           number <= next, BeforeRead(next, base, passed)
    PROVE  WhileRead(number, number - 1, base, passed + (next - number))
BY DEF BeforeRead, WhileRead

\* The same sentence of a later epoch: what it passed over is even more.
LEMMA ReadAnew ==
    ASSUME NEW base \in Int, NEW passed \in Nat, NEW next \in Int,
           NEW older \in Nat, NEW newer \in Nat, NEW last \in Int, NEW number \in Int,
           \/ last = 2 * older + 1 /\ number = 2 * newer + 1
           \/ last = 2 * older /\ number = 2 * newer,
           number <= next, WhileRead(last, next, base, passed)
    PROVE  WhileRead(number, number - 1, base, passed + (next - number))
BY DEF WhileRead

\* A sentence that is read leaves its receiver in pace, with more passed over when
\* it was damaged or some before it were lost.
LEMMA ReadInPace ==
    ASSUME TypeOK, NEW r \in Receivers, NEW base \in Int, NEW passed \in Nat,
           InPace(r, base, passed), ReadSentence(r)
    PROVE  \E now \in Nat : InPace(r, base, now)'
<1>. DEFINE s == tty[r]
            t == Tail(s)
            m == Head(s)
            l == Len(s)
            d == Cardinality(DamagedOf(s))
            o == lost[r]
            n == sent[r]
            next == (1 - n) + l + (o - d) - passed
            last == LastGood(r)
            number == Number(m)
<1>1. /\ s \in Seq(Sentences) /\ l \in Nat /\ d \in Nat /\ o \in Nat /\ n \in Int /\ last \in Int
      /\ s # <<>> /\ m \in Sentences /\ number \in Int
  <2>1. s # <<>>
    BY DEF ReadSentence
  <2>2. m \in Sentences
    BY <2>1, HeadTailProperties DEF TypeOK
  <2>. QED BY <2>1, <2>2, NumbersType, NumberType
<1>2. getLocation = r /\ sent'[r] = n /\ lost'[r] = o /\ tty'[r] = t /\ Len(t) = l - 1
  BY <1>1, TailMovesUp DEF TypeOK, ReadSentence, Take
<1>3. NextRead(r, passed) = next /\ Unsent(r) = 1 - n /\ Gone(r) = o - d
  BY DEF NextRead, Unsent, Gone
<1>4. passed <= o - d /\ Spaced(s, 1 - n, next)
  BY <1>3 DEF InPace
<1>5. next \in Int /\ 1 - n \in Int
  <2>. HIDE DEF s, m, l, d, o, n, last, number
  <2>. QED BY <1>1
<1>6. ~Done(r)
  BY <1>2 DEF Done, Receivers
<1>7. CASE BadSentence(m)
  <2>1. m.type = "CHECKSUM_ERR" /\ UNCHANGED <<getLocation, status, position, quality>>
    BY <1>7 DEF BadSentence
  <2>2. Cardinality(DamagedOf(t)) = d - 1
    BY <1>1, <2>1, DamagedTail
  <2>3. /\ passed + 1 \in Nat /\ passed + 1 <= o - (d - 1)
        /\ (1 - n) + (l - 1) + (o - (d - 1)) - (passed + 1) = next - 1
    <3>. HIDE DEF s, t, m, l, d, o, n, last, number
    <3>. QED BY <1>1, <1>4
  <2>4. NextRead(r, passed + 1)' = next - 1 /\ Unsent(r)' = 1 - n /\ Gone(r)' = o - (d - 1)
    BY <1>2, <2>2, <2>3 DEF NextRead, Unsent, Gone
  <2>5. Spaced(t, 1 - n, next - 1)
    <3>. HIDE DEF next, n
    <3>. QED BY <1>1, <1>4, <1>5, SpacedPassed
  <2>6. ~Done(r)' /\ (Begun(r)' <=> Begun(r)) /\ LastGood(r)' = last
    BY <1>6, <2>1 DEF Done, Begun, LastGood
  <2>7. ~Begun(r) => BeforeRead(next - 1, base, passed + 1)
    <3>1. ~Begun(r) => BeforeRead(next, base, passed)
      BY <1>3, <1>6 DEF InPace
    <3>. HIDE DEF next
    <3>. QED BY <1>5, <3>1 DEF BeforeRead
  <2>8. Begun(r) => WhileRead(last, next - 1, base, passed + 1)
    <3>1. Begun(r) => WhileRead(last, next, base, passed)
      BY <1>3 DEF InPace
    <3>. HIDE DEF next, last
    <3>. QED BY <1>1, <1>5, <3>1 DEF WhileRead
  <2>9. (passed + 1 <= Gone(r) /\ Spaced(tty[r], Unsent(r), NextRead(r, passed + 1)))'
    BY <1>2, <2>3, <2>4, <2>5
  <2>10. ~Begun(r)' => BeforeRead(NextRead(r, passed + 1), base, passed + 1)'
    BY <2>4, <2>6, <2>7 DEF BeforeRead
  <2>11. Begun(r)' => WhileRead(LastGood(r), NextRead(r, passed + 1), base, passed + 1)'
    BY <2>4, <2>6, <2>8 DEF WhileRead
  <2>12. InPace(r, base, passed + 1)'
    BY <2>6, <2>9, <2>10, <2>11 DEF InPace
  <2>. QED BY <2>3, <2>12
<1>8. CASE GoodSentence(r, m)
  <2>1. /\ m.type # "CHECKSUM_ERR" /\ m.age \in Nat
        /\ \/ /\ m.type = "GPRMC" /\ number = 2 * m.age + 1
              /\ position'[r] = m.age /\ quality'[r] = quality[r]
           \/ /\ m.type = "GPGGA" /\ number = 2 * m.age
              /\ quality'[r].age = m.age /\ position'[r] = position[r]
    <3>1. m.age \in Nat
      BY <1>1 DEF Sentences
    <3>2. CASE nmea_parse_gprmc(r, m)
      BY <3>1, <3>2 DEF TypeOK, nmea_parse_gprmc, Number
    <3>3. CASE nmea_parse_gpgga(r, m)
      BY <3>1, <3>3 DEF TypeOK, nmea_parse_gpgga, Number
    <3>. QED BY <1>8, <3>1, <3>2, <3>3 DEF GoodSentence
  <2>2. Cardinality(DamagedOf(t)) = d
    BY <1>1, <2>1, DamagedTail
  <2>3. number <= next /\ number >= (1 - n) + l /\ Spaced(t, 1 - n, number - 1)
    <3>. HIDE DEF next, n
    <3>. QED BY <1>1, <1>4, <1>5, <2>1, SpacedRead
  <2>4. PICK now \in Nat : /\ now = passed + (next - number) /\ now <= o - d
                          /\ (1 - n) + (l - 1) + (o - d) - now = number - 1
    <3>. DEFINE skip == passed + (next - number)
    <3>. HIDE DEF s, t, m, l, d, o, n, last, number
    <3>1. /\ skip \in Nat /\ skip <= o - d
          /\ (1 - n) + (l - 1) + (o - d) - skip = number - 1
      BY <1>1, <1>4, <2>3
    <3>. HIDE DEF skip, next
    <3>2. skip = passed + (next - number)
      BY DEF skip
    <3>. QED BY <3>1, <3>2
  <2>5. NextRead(r, now)' = number - 1 /\ Unsent(r)' = 1 - n /\ Gone(r)' = o - d
    BY <1>2, <2>2, <2>4 DEF NextRead, Unsent, Gone
  <2>6. (now <= Gone(r) /\ Spaced(tty[r], Unsent(r), NextRead(r, now)))'
    BY <1>2, <2>3, <2>4, <2>5
  <2>7. SUFFICES InPace(r, base, now)'
    BY <2>4
  <2>8. ~Begun(r) <=> status = {}
    BY <1>2 DEF Begun
  <2>9. Begun(r) => WhileRead(last, next, base, passed)
    BY <1>3 DEF InPace
\* The call goes on.
  <2>10. CASE Seen(m.type) # COMPLETED
    <3>1. status' = {m.type} /\ getLocation' = r
      <4>1. status' = status \cup {m.type} /\ getLocation' = getLocation
        BY <1>8, <2>10 DEF GoodSentence, Seen
      <4>2. status = {} \/ status = {m.type}
        BY <2>1, <2>10, StatusType DEF Seen, COMPLETED
      <4>. QED BY <1>2, <4>1, <4>2
    <3>2. ~Done(r)' /\ Begun(r)'
      BY <1>2, <1>6, <3>1 DEF Done, Begun
    <3>3. LastGood(r)' = number
      <4>1. m.type = "GPGGA" => {m.type} # {"GPRMC"}
        OBVIOUS
      <4>. QED BY <2>1, <3>1, <4>1 DEF LastGood
    <3>4. WhileRead(number, number - 1, base, now)
      <4>1. CASE status = {}
        <5>1. BeforeRead(next, base, passed)
          BY <1>3, <1>6, <2>8, <4>1 DEF InPace
        <5>. HIDE DEF number, next
        <5>. QED BY <1>1, <1>5, <2>3, <5>1, FirstRead, <2>4
      <4>2. CASE status = {m.type}
        <5>. DEFINE older == IF m.type = "GPRMC" THEN position[r] ELSE quality[r].age
                    newer == m.age
        <5>1. position[r] \in Nat /\ quality[r].age \in Nat
          BY NumbersType
        <5>2. ASSUME m.type = "GPRMC"
              PROVE  last = 2 * older + 1 /\ number = 2 * newer + 1
          BY <2>1, <4>2, <5>1, <5>2 DEF LastGood
        <5>3. ASSUME m.type = "GPGGA"
              PROVE  last = 2 * older /\ number = 2 * newer
          <6>1. status # {"GPRMC"}
            BY <4>2, <5>3
          <6>. QED BY <2>1, <4>2, <5>1, <5>3, <6>1 DEF LastGood
        <5>4. /\ older \in Nat /\ newer \in Nat
              /\ \/ last = 2 * older + 1 /\ number = 2 * newer + 1
                 \/ last = 2 * older /\ number = 2 * newer
          BY <2>1, <5>1, <5>2, <5>3
        <5>5. WhileRead(last, next, base, passed) /\ number <= next
          BY <2>3, <2>8, <2>9, <4>2
        <5>. HIDE DEF number, next, last, m, older, newer
        <5>6. WhileRead(number, number - 1, base, passed + (next - number))
          BY <1>1, <1>5, <5>4, <5>5, ReadAnew
        <5>. QED BY <2>4, <5>6
      <4>. QED BY <2>1, <2>10, <4>1, <4>2, StatusType DEF Seen, COMPLETED
    <3>5. WhileRead(LastGood(r), NextRead(r, now), base, now)'
      BY <2>5, <3>3, <3>4 DEF WhileRead
    <3>. QED BY <2>6, <3>2, <3>5 DEF InPace
\* It ends.
  <2>11. CASE Seen(m.type) = COMPLETED
    <3>1. status' = {} /\ getLocation' = NextToRead(r)
      BY <1>8, <2>11 DEF GoodSentence
    <3>2. ~Begun(r)' /\ Done(r)'
      BY <3>1 DEF Begun, Done, NextToRead, Receivers
    <3>3. \/ /\ m.type = "GPRMC" /\ status = {"GPGGA"}
         \/ /\ m.type = "GPGGA" /\ status = {"GPRMC"}
      BY <2>1, <2>11, StatusType DEF Seen, COMPLETED
    <3>. DEFINE pos == position'[r]
                age == quality'[r].age
    <3>4. /\ pos \in Nat /\ age \in Nat
          /\ \/ last = 2 * pos + 1 /\ number = 2 * age
             \/ last = 2 * age /\ number = 2 * pos + 1
      <4>1. position[r] \in Nat /\ quality[r].age \in Nat
        BY NumbersType
      <4>2. CASE m.type = "GPRMC" /\ status = {"GPGGA"}
        <5>1. status # {"GPRMC"}
          BY <4>2
        <5>. QED BY <2>1, <4>1, <4>2, <5>1 DEF LastGood
      <4>3. CASE m.type = "GPGGA" /\ status = {"GPRMC"}
        BY <2>1, <4>1, <4>3 DEF LastGood
      <4>. QED BY <3>3, <4>2, <4>3
    <3>5. WhileRead(last, next, base, passed)
      BY <2>8, <2>9, <3>3
    <3>6. /\ number - 1 <= 2 * base - 1 /\ number - 1 >= 2 * base - 1 - 2 * now
          /\ pos <= base /\ pos >= base - o /\ Diff(pos, age) <= o
          /\ 2 * pos + n <= (l - 1) + o + 2
      <4>. DEFINE gone == o - d
      <4>1. gone \in Int /\ gone <= o /\ next = (1 - n) + l + gone - passed
        <5>. HIDE DEF s, m, l, d, o, n, last, number
        <5>. QED BY <1>1
      <4>2. now = passed + (next - number) /\ passed + (next - number) <= gone /\ number <= next
        BY <2>3, <2>4
      <4>3. /\ next \in Int /\ pos \in Nat /\ age \in Nat /\ l \in Nat /\ gone \in Int /\ o \in Nat
            /\ n \in Int /\ last \in Int /\ number \in Int
        BY <1>1, <1>5, <3>4, <4>1
      <4>4. \/ last = 2 * pos + 1 /\ number = 2 * age
            \/ last = 2 * age /\ number = 2 * pos + 1
        BY <3>4
      <4>. HIDE DEF s, t, m, l, d, o, n, last, number, next, pos, age, gone
      <4>. DEFINE over == last - 1 - next
      <4>5. /\ over \in Int /\ over >= 0 /\ over <= passed
            /\ last <= 2 * base + 1 /\ last >= 2 * base + 1 - 2 * (passed - over)
        BY <3>5, <4>3 DEF WhileRead
      <4>6. number - 1 <= 2 * base - 1 /\ number - 1 >= 2 * base - 1 - 2 * now
        BY <4>2, <4>3, <4>4, <4>5
      <4>7. CASE last = 2 * pos + 1 /\ number = 2 * age
        <5>1. pos <= base /\ pos >= base - o
          BY <4>1, <4>2, <4>3, <4>5, <4>7
        <5>2. pos - age <= o /\ age <= pos
          BY <4>1, <4>2, <4>3, <4>5, <4>7
        <5>3. Diff(pos, age) <= o
          BY <4>3, <5>2 DEF Diff
        <5>4. 2 * pos + n <= (l - 1) + o + 2
          BY <4>1, <4>2, <4>3, <4>5, <4>7
        <5>. QED BY <4>6, <5>1, <5>3, <5>4
      <4>8. CASE last = 2 * age /\ number = 2 * pos + 1
        <5>1. pos <= base /\ pos >= base - o
          BY <4>1, <4>2, <4>3, <4>5, <4>8
        <5>2. age - pos <= o /\ pos <= age
          BY <4>1, <4>2, <4>3, <4>5, <4>8
        <5>3. Diff(pos, age) <= o
          BY <4>3, <5>2 DEF Diff
        <5>4. 2 * pos + n <= (l - 1) + o + 2
          BY <4>1, <4>2, <4>3, <4>5, <4>8
        <5>. QED BY <4>6, <5>1, <5>3, <5>4
      <4>. QED BY <4>4, <4>7, <4>8
    <3>7. AfterRead(r, NextRead(r, now), base, now)'
      BY <1>2, <2>5, <3>6 DEF AfterRead
    <3>. QED BY <2>6, <3>2, <3>7 DEF InPace
  <2>. QED BY <2>10, <2>11
<1>. QED BY <1>7, <1>8 DEF ReadSentence

-----------------------------------------------------------------------------
(* The invariant                                                           *)

\* The numbers of GpsInv.
Pace(base, passed) == \A r \in Receivers : InPace(r, base, passed[r])

\* While one receiver is read the other is as it was.
LEMMA OtherInPace ==
    ASSUME TypeOK, NEW r \in Receivers, NEW q \in Receivers, q # r,
           NEW base \in Int, NEW passed \in Nat, InPace(q, base, passed),
           ReadSentence(r) \/ SendSentence(r) \/ LoseSentence(r)
    PROVE  InPace(q, base, passed)'
<1>1. tty'[q] = tty[q] /\ sent'[q] = sent[q] /\ lost'[q] = lost[q]
  BY DEF TypeOK, ReadSentence, Take, SendSentence, LoseSentence, Sends, Arrives
<1>2. position'[q] = position[q] /\ quality'[q] = quality[q]
  BY DEF TypeOK, ReadSentence, GoodSentence, nmea_parse_gprmc, nmea_parse_gpgga, BadSentence,
         SendSentence, LoseSentence
<1>3. (Done(q)' <=> Done(q)) /\ (Begun(q)' <=> Begun(q)) /\ (Begun(q) => status' = status)
  <2>1. CASE ReadSentence(r)
    <3>1. getLocation = r
      BY <2>1 DEF ReadSentence
    <3>2. \/ getLocation' = r
          \/ getLocation' = NextToRead(r) /\ status' = {}
      BY <2>1 DEF ReadSentence, GoodSentence, BadSentence
    <3>. QED BY <3>1, <3>2 DEF Done, Begun, NextToRead, Receivers
  <2>2. CASE SendSentence(r) \/ LoseSentence(r)
    <3>1. getLocation' = getLocation /\ status' = status
      BY <2>2 DEF SendSentence, LoseSentence
    <3>. QED BY <3>1 DEF Done, Begun
  <2>. QED BY <2>1, <2>2
<1>. QED BY <1>1, <1>2, <1>3, SameReceiver

\* A read sentence keeps the receivers in pace with their epoch.
LEMMA PaceRead ==
    ASSUME TypeOK, NEW r \in Receivers, ReadSentence(r),
           NEW base \in Int, NEW passed \in [Receivers -> Nat], Pace(base, passed)
    PROVE  \E now \in [Receivers -> Nat] : Pace(base, now)'
<1>1. PICK m \in Nat : InPace(r, base, m)'
  BY ReadInPace DEF Pace
<1>. DEFINE now == [passed EXCEPT ![r] = m]
<1>2. now \in [Receivers -> Nat] /\ now[r] = m
  OBVIOUS
<1>3. ASSUME NEW q \in Receivers PROVE InPace(q, base, now[q])'
  <2>1. CASE q = r
    BY <1>1, <1>2, <2>1
  <2>2. CASE q # r
    <3>1. now[q] = passed[q]
      BY <2>2
    <3>2. InPace(q, base, passed[q])'
      BY <2>2, OtherInPace DEF Pace
    <3>. QED BY <3>1, <3>2
  <2>. QED BY <2>1, <2>2
<1>4. Pace(base, now)'
  BY <1>3 DEF Pace
<1>. QED BY <1>2, <1>4

\* GpsInv holds at the start: the first pass is to read the first epoch.
LEMMA GpsInvInit == Init => GpsInv
<1>. SUFFICES ASSUME Init PROVE GpsInv
  OBVIOUS
<1>. DEFINE passed == [r \in Receivers |-> 0]
<1>1. ASSUME NEW r \in Receivers PROVE InPace(r, 0, passed[r])
  <2>1. tty[r] = <<>> /\ Len(tty[r]) = 0 /\ sent[r] = 0 /\ lost[r] = 0 /\ passed[r] = 0
    BY DEF Init
  <2>2. Gone(r) = 0 /\ Unsent(r) = 1
    BY <2>1, DamagedEmpty DEF Gone, Unsent
  <2>3. NextRead(r, 0) = 1
    BY <2>1, <2>2 DEF NextRead
  <2>4. Spaced(tty[r], Unsent(r), NextRead(r, 0))
    BY <2>1, SpacedEmpty
  <2>5. ~Done(r) /\ ~Begun(r)
    BY DEF Init, Done, Begun
  <2>6. BeforeRead(1, 0, 0)
    BY DEF BeforeRead
  <2>7. InPace(r, 0, 0)
    BY <2>2, <2>3, <2>4, <2>5, <2>6 DEF InPace
  <2>. QED BY <2>1, <2>7
<1>2. passed \in [Receivers -> Nat] /\ 0 \in Int
  OBVIOUS
<1>3. getLocation = "heading" => status = {}
  BY DEF Init
<1>. HIDE DEF passed
<1>. QED BY <1>1, <1>2, <1>3, TypeOKInit DEF GpsInv

\* Every step keeps it.
LEMMA GpsInvStep == GpsInv /\ [Next]_vars => GpsInv'
<1>. SUFFICES ASSUME GpsInv, [Next]_vars PROVE GpsInv'
  OBVIOUS
<1>1. TypeOK /\ TypeOK' /\ (getLocation = "heading" => status = {})
  BY TypeOKStep DEF GpsInv
<1>2. PICK base \in Int, passed \in [Receivers -> Nat] : Pace(base, passed)
  BY DEF GpsInv, Pace
<1>3. (getLocation = "heading" => status = {})'
  <2>1. CASE \E r \in Receivers : ReadSentence(r)
    <3>1. PICK r \in Receivers : ReadSentence(r)
      BY <2>1
    <3>2. getLocation = r /\ r # "heading"
      BY <3>1 DEF ReadSentence, Receivers
    <3>. QED BY <3>1, <3>2 DEF ReadSentence, GoodSentence, BadSentence
  <2>2. CASE UNCHANGED <<getLocation, status>>
    BY <1>1, <2>2
  <2>3. CASE Heading
    BY <2>3 DEF Heading
  <2>. QED BY <2>1, <2>2, <2>3 DEF Next, MainLoop, Receive, NextEpoch, SendSentence, LoseSentence,
                                   GetFixes, GetFix, LoseFix, CorrectionsCome, vars
<1>4. SUFFICES \E b \in Int, p \in [Receivers -> Nat] : Pace(b, p)'
  BY <1>1, <1>3 DEF GpsInv, Pace
<1>5. CASE \E r \in Receivers : ReadSentence(r)
  BY <1>1, <1>2, <1>5, PaceRead
<1>6. CASE Heading
  <2>1. ASSUME NEW r \in Receivers PROVE InPace(r, base - 1, passed[r])'
    BY <1>1, <1>2, <1>6, HeadingInPace DEF Pace
  <2>2. Pace(base - 1, passed)' /\ base - 1 \in Int
    BY <2>1 DEF Pace
  <2>. QED BY <2>2
<1>7. CASE NextEpoch
  <2>1. ASSUME NEW r \in Receivers PROVE InPace(r, base + 1, passed[r])'
    BY <1>1, <1>2, <1>7, EpochInPace DEF Pace
  <2>2. Pace(base + 1, passed)' /\ base + 1 \in Int
    BY <2>1 DEF Pace
  <2>. QED BY <2>2
<1>8. CASE \E r \in Receivers : SendSentence(r) \/ LoseSentence(r)
  <2>1. PICK r \in Receivers : SendSentence(r) \/ LoseSentence(r)
    BY <1>8
  <2>2. ASSUME NEW q \in Receivers PROVE InPace(q, base, passed[q])'
    <3>1. CASE q = r
      BY <1>1, <1>2, <2>1, <3>1, SentInPace DEF Pace
    <3>2. CASE q # r
      BY <1>1, <1>2, <2>1, <3>2, OtherInPace DEF Pace
    <3>. QED BY <3>1, <3>2
  <2>3. Pace(base, passed)'
    BY <2>2 DEF Pace
  <2>. QED BY <2>3
<1>9. CASE UNCHANGED <<getLocation, status, position, quality, tty, sent, lost>>
  <2>1. ASSUME NEW r \in Receivers PROVE InPace(r, base, passed[r])'
    <3>1. (Done(r)' <=> Done(r)) /\ (Begun(r)' <=> Begun(r))
      BY <1>9 DEF Done, Begun
    <3>2. InPace(r, base, passed[r]) /\ passed[r] \in Nat
      BY <1>2 DEF Pace
    <3>. QED BY <1>1, <1>9, <3>1, <3>2, SameReceiver
  <2>2. Pace(base, passed)'
    BY <2>1 DEF Pace
  <2>. QED BY <2>2
<1>. QED BY <1>5, <1>6, <1>7, <1>8, <1>9 DEF Next, MainLoop, Receive, GetFixes, GetFix, LoseFix,
                                             CorrectionsCome, vars

\* Whatever the receivers send and the main loop reads, and whatever is lost,
\* both receivers are in pace with the same epoch: one counter of epochs, and
\* for each the sentences it has passed over (GPS.cpp:107-143,
\* Solarbot.cpp:753-767).
THEOREM GpsInvariant == Spec => []GpsInv
<1>. QED BY GpsInvInit, GpsInvStep, PTL DEF Spec

\* The positions of a heading are of one epoch, and each of the epoch of its
\* quality, but for as many epochs as sentences of a receiver were lost.
THEOREM Together == Spec => []NoFurtherApart
<1>1. GpsInv => NoFurtherApart
  <2>. SUFFICES ASSUME GpsInv, getLocation = "heading"
                PROVE  /\ Diff(position["gps"], position["gps2"]) <= MostLost
                       /\ \A r \in Receivers : Diff(position[r], quality[r].age) <= lost[r]
    BY DEF NoFurtherApart
  <2>1. PICK base \in Int, passed \in [Receivers -> Nat] : \A r \in Receivers : InPace(r, base, passed[r])
    BY DEF GpsInv
  <2>2. ASSUME NEW r \in Receivers
        PROVE  /\ position[r] <= base /\ position[r] >= base - lost[r]
               /\ Diff(position[r], quality[r].age) <= lost[r]
               /\ position[r] \in Nat /\ lost[r] \in Nat
    <3>1. AfterRead(r, NextRead(r, passed[r]), base, passed[r])
      BY <2>1 DEF InPace, Done
    <3>2. position[r] \in Nat /\ lost[r] \in Nat
      BY NumbersType DEF GpsInv
    <3>. QED BY <3>1, <3>2 DEF AfterRead
  <2>. DEFINE p1 == position["gps"]
              p2 == position["gps2"]
              o1 == lost["gps"]
              o2 == lost["gps2"]
  <2>3. /\ p1 \in Nat /\ p2 \in Nat /\ o1 \in Nat /\ o2 \in Nat
        /\ p1 <= base /\ p1 >= base - o1 /\ p2 <= base /\ p2 >= base - o2
    BY <2>2 DEF Receivers
  <2>4. MostLost = IF o1 < o2 THEN o2 ELSE o1
    BY DEF MostLost
  <2>. HIDE DEF p1, p2, o1, o2
  <2>5. Diff(p1, p2) <= MostLost
    BY <2>3, <2>4 DEF Diff
  <2>. QED BY <2>2, <2>5 DEF p1, p2
<1>. QED BY <1>1, GpsInvariant, PTL

\* A location is older than the present epoch only by what its port still holds
\* or has lost: nothing that was sent since was read and thrown away.
THEOREM NothingThrownAway == Spec => []OnlyBacklogAges
<1>1. GpsInv => OnlyBacklogAges
  <2>. SUFFICES ASSUME GpsInv, getLocation = "heading", NEW r \in Receivers
                PROVE  2 * position[r] + sent[r] <= Len(tty[r]) + lost[r] + 2
    BY DEF OnlyBacklogAges
  <2>1. PICK base \in Int, passed \in [Receivers -> Nat] : \A q \in Receivers : InPace(q, base, passed[q])
    BY DEF GpsInv
  <2>. QED BY <2>1 DEF InPace, Done, AfterRead
<1>. QED BY <1>1, GpsInvariant, PTL
=============================================================================
