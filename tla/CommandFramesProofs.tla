----------------------- MODULE CommandFramesProofs -----------------------
(***************************************************************************)
(* Proofs about the frames of the command server, for every checksum that   *)
(* SumAssumption allows, all frames, texts and sizes of the buffers: the    *)
(* invariant FramesInv, and from it that the buffers are not left, that what*)
(* is taken is what was sent, and that a frame is lost only when the one    *)
(* before it broke off.                                                     *)
(*                                                                          *)
(* AllNumbers is induction over the numbers, for a set of them; with it the *)
(* lengths of what Escaped computes are found, and its one equation.        *)
(***************************************************************************)
EXTENDS CommandFrames, SequenceTheorems, WellFoundedInduction, TLAPS

\* A set that has zero, and with each number the next one, has all numbers.
LEMMA AllNumbers ==
    ASSUME NEW S, 0 \in S, \A n \in Nat : n \in S => n + 1 \in S
    PROVE  Nat \subseteq S
<1>. DEFINE T == Nat \ S
            R == OpToRel(<, Nat)
<1>1. SUFFICES ASSUME T # {} PROVE FALSE
  OBVIOUS
<1>2. T \subseteq Nat /\ IsWellFoundedOn(R, Nat)
  BY NatLessThanWellFounded
<1>3. \E x \in T : \A y \in T : ~(<<y, x>> \in R)
  <2>. HIDE DEF T, R
  <2>. QED BY <1>1, <1>2, WFMin
<1>4. PICK x \in T : \A y \in T : ~(<<y, x>> \in R)
  BY <1>3
<1>5. x \in Nat /\ x # 0 /\ x - 1 \in Nat /\ x - 1 \in T /\ x - 1 < x
  OBVIOUS
<1>6. <<x - 1, x>> \in R
  BY <1>5 DEF OpToRel
<1>. QED BY <1>4, <1>5, <1>6

\* The recursion of Escaped is a definition: what is sent from the i-th byte on is
\* what is sent for it, and what is sent from the next one on.
LEMMA EscapedIs ==
    ASSUME NEW c, Len(c) \in Nat
    PROVE  Escaped(c) = [i \in 1..Len(c) + 1 |->
                           IF i = Len(c) + 1 THEN <<>>
                           ELSE AddWithEscape(c[i]) \o Escaped(c)[i + 1]]
<1>. DEFINE n == Len(c)
            Rest(g, k) == g = [i \in n + 1 - k..n + 1 |->
                                 IF i = n + 1 THEN <<>> ELSE AddWithEscape(c[i]) \o g[i + 1]]
            S == {k \in Nat : k <= n => \E g : Rest(g, k)}
<1>. HIDE DEF Rest
<1>0. \A k \in Nat : k \in S <=> (k <= n => \E g : Rest(g, k))
  OBVIOUS
<1>. HIDE DEF S
<1>1. 0 \in S
  <2>. DEFINE g == [i \in n + 1..n + 1 |-> <<>>]
  <2>1. Rest(g, 0)
    BY DEF Rest
  <2>. QED BY <1>0, <2>1
<1>2. ASSUME NEW k \in Nat, k \in S PROVE k + 1 \in S
  <2>1. SUFFICES ASSUME k + 1 <= n PROVE \E g : Rest(g, k + 1)
    BY <1>0, <1>2
  <2>2. PICK g : Rest(g, k)
    BY <1>0, <1>2, <2>1
  <2>. DEFINE j == n - k
              h == [i \in j..n + 1 |-> IF i = j THEN AddWithEscape(c[j]) \o g[j + 1] ELSE g[i]]
  <2>3. j \in Nat /\ j <= n /\ n + 1 - k = j + 1 /\ n + 1 - (k + 1) = j
    BY <2>1
  <2>4. \A i \in j + 1..n + 1 :
           g[i] = IF i = n + 1 THEN <<>> ELSE AddWithEscape(c[i]) \o g[i + 1]
    BY <2>2, <2>3 DEF Rest
  <2>5. \A i \in j + 1..n + 1 : h[i] = g[i] /\ i # j /\ i \in j..n + 1
    BY <2>3
  <2>6. \A i \in j..n + 1 :
           h[i] = IF i = n + 1 THEN <<>> ELSE AddWithEscape(c[i]) \o h[i + 1]
    <3>1. SUFFICES ASSUME NEW i \in j..n + 1
                   PROVE  h[i] = IF i = n + 1 THEN <<>> ELSE AddWithEscape(c[i]) \o h[i + 1]
      OBVIOUS
    <3>2. CASE i = j
      <4>1. h[i] = AddWithEscape(c[i]) \o g[i + 1] /\ h[i + 1] = g[i + 1] /\ i # n + 1
        <5>1. i + 1 \in j + 1..n + 1 /\ i # n + 1
          BY <2>3, <3>2
        <5>2. h[i + 1] = g[i + 1]
          BY <2>5, <5>1
        <5>. QED BY <3>2, <5>1, <5>2
      <4>. QED BY <4>1
    <3>3. CASE i # j
      <4>1. i \in j + 1..n + 1
        BY <2>3, <3>3
      <4>2. h[i] = g[i] /\ (i # n + 1 => h[i + 1] = g[i + 1])
        BY <2>3, <2>5, <4>1
      <4>. QED BY <2>4, <4>1, <4>2
    <3>. QED BY <3>2, <3>3
  <2>7. h = [i \in j..n + 1 |-> IF i = n + 1 THEN <<>> ELSE AddWithEscape(c[i]) \o h[i + 1]]
    BY <2>6
  <2>8. Rest(h, k + 1)
    BY <2>3, <2>7 DEF Rest
  <2>. QED BY <2>8
<1>3. n \in S
  BY <1>1, <1>2, AllNumbers
<1>4. PICK g : Rest(g, n)
  BY <1>0, <1>3
<1>5. g = [i \in 1..n + 1 |-> IF i = n + 1 THEN <<>> ELSE AddWithEscape(c[i]) \o g[i + 1]]
  <2>1. n + 1 - n = 1
    OBVIOUS
  <2>. QED BY <1>4, <2>1 DEF Rest
<1>. QED BY <1>5, Zenon DEF Escaped

\* A byte is sent as it is, or as the escape byte and another; neither is a start byte.
LEMMA ByteSent ==
    ASSUME NEW b \in Byte
    PROVE  /\ Flipped(b) \in Byte
           /\ b \notin Special => AddWithEscape(b) = <<b>> /\ b # Flag /\ b # Escape
           /\ b \in Special => /\ AddWithEscape(b) = <<Escape, Flipped(b)>>
                               /\ Flipped(b) \notin Special /\ Flipped(Flipped(b)) = b
           /\ AddWithEscape(b) \in Seq(Byte)
<1>1. Flipped(b) \in Byte
  BY DEF Byte, Flipped
<1>2. CASE b \notin Special
  BY <1>1, <1>2 DEF Special, AddWithEscape
<1>3. CASE b \in Special
  BY <1>1, <1>3 DEF Special, AddWithEscape, Flipped, Flag, Escape, Byte
<1>. QED BY <1>1, <1>2, <1>3

\* What is sent from the i-th byte on has a byte or two for each.
LEMMA EscapedLengths ==
    ASSUME NEW c, Len(c) \in Nat, NEW V,
           \A i \in 1..Len(c) :
              AddWithEscape(c[i]) \in Seq(V) /\ Len(AddWithEscape(c[i])) \in 1..2
    PROVE  \A i \in 1..Len(c) + 1 :
              /\ Escaped(c)[i] \in Seq(V)
              /\ Len(Escaped(c)[i]) \in Len(c) + 1 - i..2 * (Len(c) + 1 - i)
<1>. DEFINE n == Len(c)
            A(i) == AddWithEscape(c[i])
            E == Escaped(c)
            Good(i) == E[i] \in Seq(V) /\ Len(E[i]) \in n + 1 - i..2 * (n + 1 - i)
            S == {k \in Nat : k <= n => Good(n + 1 - k)}
<1>1. \A i \in 1..n + 1 : E[i] = IF i = n + 1 THEN <<>> ELSE A(i) \o E[i + 1]
  BY EscapedIs
<1>2. n \in Nat /\ \A i \in 1..n : A(i) \in Seq(V) /\ Len(A(i)) \in 1..2
  OBVIOUS
<1>3. (\A i \in 1..n + 1 : Good(i)) =>
         \A i \in 1..Len(c) + 1 :
              /\ Escaped(c)[i] \in Seq(V)
              /\ Len(Escaped(c)[i]) \in Len(c) + 1 - i..2 * (Len(c) + 1 - i)
  OBVIOUS
<1>. HIDE DEF E, A, n
<1>4. \A k \in Nat : k \in S <=> (k <= n => Good(n + 1 - k))
  OBVIOUS
<1>. HIDE DEF S
<1>5. 0 \in S
  <2>1. E[n + 1] = <<>>
    BY <1>1, <1>2
  <2>2. Good(n + 1)
    BY <1>2, <2>1
  <2>. QED BY <1>2, <1>4, <2>2
<1>6. ASSUME NEW k \in Nat, k \in S PROVE k + 1 \in S
  <2>1. SUFFICES ASSUME k + 1 <= n PROVE Good(n + 1 - (k + 1))
    BY <1>4
  <2>2. PICK i \in 1..n : i + 1 = n + 1 - k /\ i = n + 1 - (k + 1)
    BY <1>2, <2>1
  <2>3. E[i + 1] \in Seq(V) /\ Len(E[i + 1]) \in k..2 * k
    <3>1. Good(i + 1)
      BY <1>2, <1>4, <1>6, <2>1, <2>2
    <3>2. n + 1 - (i + 1) = k
      BY <1>2, <2>2
    <3>. QED BY <3>1, <3>2
  <2>4. E[i] = A(i) \o E[i + 1]
    <3>1. i \in 1..n + 1 /\ i # n + 1
      BY <1>2, <2>2
    <3>. QED BY <1>1, <3>1
  <2>5. E[i] \in Seq(V) /\ Len(E[i]) = Len(A(i)) + Len(E[i + 1])
    BY <1>2, <2>2, <2>3, <2>4, ConcatProperties
  <2>6. Len(A(i)) \in 1..2
    BY <1>2
  <2>7. Len(E[i]) \in k + 1..2 * (k + 1)
    <3>. DEFINE a == Len(A(i))
                b == Len(E[i + 1])
    <3>1. a \in 1..2 /\ b \in k..2 * k /\ Len(E[i]) = a + b
      BY <2>3, <2>5, <2>6
    <3>. HIDE DEF a, b
    <3>. QED BY <3>1
  <2>8. n + 1 - i = k + 1
    BY <1>2, <2>2
  <2>. QED BY <2>2, <2>5, <2>7, <2>8
<1>7. Nat \subseteq S
  BY <1>5, <1>6, AllNumbers
<1>8. ASSUME NEW i \in 1..n + 1 PROVE Good(i)
  <2>1. n + 1 - i \in Nat /\ n + 1 - i <= n /\ n + 1 - (n + 1 - i) = i
    BY <1>2
  <2>. QED BY <1>4, <1>7, <2>1
<1>. QED BY <1>3, <1>8

\* The same, byte by byte.
LEMMA EscapedRest ==
    ASSUME NEW c, Len(c) \in Nat, \A i \in 1..Len(c) : c[i] \in Byte
    PROVE  /\ Escaped(c)[Len(c) + 1] = <<>>
           /\ \A i \in 1..Len(c) + 1 :
                 /\ Escaped(c)[i] \in Seq(Byte)
                 /\ Len(Escaped(c)[i]) \in Nat /\ Len(Escaped(c)[i]) >= Len(c) + 1 - i
           /\ \A i \in 1..Len(c) :
                 /\ c[i] \notin Special => Escaped(c)[i] = <<c[i]>> \o Escaped(c)[i + 1]
                 /\ c[i] \in Special =>
                       Escaped(c)[i] = <<Escape>> \o (<<Flipped(c[i])>> \o Escaped(c)[i + 1])
<1>. DEFINE n == Len(c)
            E == Escaped(c)
<1>1. \A i \in 1..n + 1 : E[i] = IF i = n + 1 THEN <<>> ELSE AddWithEscape(c[i]) \o E[i + 1]
  BY EscapedIs
<1>2. ASSUME NEW i \in 1..n
      PROVE  AddWithEscape(c[i]) \in Seq(Byte) /\ Len(AddWithEscape(c[i])) \in 1..2
  <2>1. c[i] \in Byte
    OBVIOUS
  <2>2. /\ AddWithEscape(c[i]) \in Seq(Byte)
        /\ AddWithEscape(c[i]) = <<c[i]>> \/ AddWithEscape(c[i]) = <<Escape, Flipped(c[i])>>
    BY <2>1, ByteSent
  <2>. QED BY <2>2
<1>3. \A i \in 1..n + 1 : E[i] \in Seq(Byte) /\ Len(E[i]) \in n + 1 - i..2 * (n + 1 - i)
  BY <1>2, EscapedLengths
<1>4. n \in Nat
  OBVIOUS
<1>5. E[n + 1] = <<>>
  BY <1>1, <1>4
<1>6. ASSUME NEW i \in 1..n + 1
      PROVE  E[i] \in Seq(Byte) /\ Len(E[i]) \in Nat /\ Len(E[i]) >= n + 1 - i
  <2>1. E[i] \in Seq(Byte) /\ Len(E[i]) \in n + 1 - i..2 * (n + 1 - i) /\ n + 1 - i \in Nat
    BY <1>3, <1>4
  <2>. HIDE DEF E, n
  <2>. QED BY <2>1
<1>7. ASSUME NEW i \in 1..n
      PROVE  /\ c[i] \notin Special => E[i] = <<c[i]>> \o E[i + 1]
             /\ c[i] \in Special => E[i] = <<Escape>> \o (<<Flipped(c[i])>> \o E[i + 1])
  <2>1. c[i] \in Byte /\ i \in 1..n + 1 /\ i # n + 1 /\ i + 1 \in 1..n + 1
    BY <1>4
  <2>2. E[i] = AddWithEscape(c[i]) \o E[i + 1] /\ E[i + 1] \in Seq(Byte)
    BY <1>1, <1>6, <2>1
  <2>3. CASE c[i] \notin Special
    BY <2>1, <2>2, <2>3, ByteSent
  <2>4. CASE c[i] \in Special
    <3>1. E[i] = <<Escape, Flipped(c[i])>> \o E[i + 1] /\ Flipped(c[i]) \in Byte
      BY <2>1, <2>2, <2>4, ByteSent
    <3>2. <<Escape, Flipped(c[i])>> = <<Escape>> \o <<Flipped(c[i])>> /\ Escape \in Byte
      BY <3>1 DEF Escape, Byte
    <3>. DEFINE x == <<Escape>>
                y == <<Flipped(c[i])>>
                z == E[i + 1]
    <3>3. x \in Seq(Byte) /\ y \in Seq(Byte) /\ z \in Seq(Byte) /\ E[i] = (x \o y) \o z
      BY <2>2, <3>1, <3>2
    <3>. HIDE DEF x, y, z, E
    <3>4. (x \o y) \o z = x \o (y \o z)
      <4>1. x \in Seq(Byte) /\ y \in Seq(Byte) /\ z \in Seq(Byte)
        BY <3>3
      <4>. QED BY <4>1, ConcatAssociative
    <3>. QED BY <2>4, <3>3, <3>4 DEF x, y, z, E
  <2>. QED BY <2>3, <2>4
<1>. QED BY <1>5, <1>6, <1>7

\* A word of two bytes is the word.
LEMMA WordOfBytes ==
    ASSUME NEW n \in Word16
    PROVE  /\ Bytes(n) \in Seq(Byte) /\ Len(Bytes(n)) = 2
           /\ Bytes(n)[1] \in Byte /\ Bytes(n)[2] \in Byte
           /\ Bytes(n)[1] + 256 * Bytes(n)[2] = n
<1>1. n % 256 \in Byte /\ n \div 256 \in Byte /\ (n % 256) + 256 * (n \div 256) = n
  BY DEF Word16, Byte
<1>. QED BY <1>1 DEF Bytes

\* u is s, and t behind it.
Joined(u, s, t, W) ==
    /\ u \in Seq(W) /\ Len(u) = Len(s) + Len(t)
    /\ \A k \in 1..Len(s) : u[k] = s[k]
    /\ \A k \in 1..Len(t) : u[Len(s) + k] = t[k]

\* What a sequence put behind another consists of.
LEMMA JoinIs ==
    ASSUME NEW W, NEW s \in Seq(W), NEW t \in Seq(W)
    PROVE  Joined(s \o t, s, t, W)
<1>. DEFINE m == Len(s)
            n == Len(t)
            u == s \o t
<1>1. /\ u \in Seq(W) /\ Len(u) = m + n
      /\ \A k \in 1..m + n : u[k] = IF k <= m THEN s[k] ELSE t[k - m]
      /\ m \in Nat /\ n \in Nat
  BY ConcatProperties, LenProperties
<1>. HIDE DEF m, n, u
<1>2. ASSUME NEW k \in 1..n PROVE u[m + k] = t[k]
  <2>1. m + k \in 1..m + n /\ ~(m + k <= m) /\ m + k - m = k
    BY <1>1
  <2>. QED BY <1>1, <2>1
<1>3. ASSUME NEW k \in 1..m PROVE u[k] = s[k]
  <2>1. k \in 1..m + n /\ k <= m
    BY <1>1
  <2>. QED BY <1>1, <2>1
<1>4. /\ u \in Seq(W) /\ Len(u) = Len(s) + Len(t)
      /\ \A k \in 1..Len(s) : u[k] = s[k]
      /\ \A k \in 1..Len(t) : u[Len(s) + k] = t[k]
  BY <1>1, <1>2, <1>3 DEF m, n
<1>5. Joined(u, s, t, W)
  BY <1>4 DEF Joined
<1>. QED BY <1>5 DEF u

\* c is a header without its sum, the sum, a payload and its sum.
InParts(c, a, b, p, d, W) ==
    /\ c \in Seq(W) /\ Len(c) = 10 + Len(p)
    /\ \A k \in 1..6 : c[k] = a[k]
    /\ c[7] = b[1] /\ c[8] = b[2]
    /\ \A k \in 1..Len(p) : c[8 + k] = p[k]
    /\ c[9 + Len(p)] = d[1] /\ c[10 + Len(p)] = d[2]

\* Where the parts of a frame are.
LEMMA PartsJoined ==
    ASSUME NEW W, NEW a, NEW b, NEW p, NEW d, NEW ab, NEW abp, NEW c,
           Joined(ab, a, b, W), Joined(abp, ab, p, W), Joined(c, abp, d, W),
           Len(a) = 6, Len(b) = 2, Len(d) = 2, Len(p) \in Nat
    PROVE  InParts(c, a, b, p, d, W)
<1>. DEFINE n == Len(p)
<1>1. /\ Len(ab) = 8
      /\ \A k \in 1..6 : ab[k] = a[k]
      /\ \A k \in 1..2 : ab[6 + k] = b[k]
  BY DEF Joined
<1>2. /\ Len(abp) = 8 + n
      /\ \A k \in 1..8 : abp[k] = ab[k]
      /\ \A k \in 1..n : abp[8 + k] = p[k]
  BY <1>1 DEF Joined
<1>3. /\ c \in Seq(W) /\ Len(c) = 8 + n + 2
      /\ \A k \in 1..8 + n : c[k] = abp[k]
      /\ \A k \in 1..2 : c[8 + n + k] = d[k]
  BY <1>2 DEF Joined
<1>4. n \in Nat
  OBVIOUS
<1>. HIDE DEF n
<1>5. ASSUME NEW k \in 1..8 PROVE c[k] = ab[k]
  <2>1. k \in 1..8 + n
    BY <1>4
  <2>. QED BY <1>2, <1>3, <2>1
<1>6. ASSUME NEW k \in 1..n PROVE c[8 + k] = p[k]
  <2>1. 8 + k \in 1..8 + n
    BY <1>4
  <2>. QED BY <1>2, <1>3, <2>1
<1>7. c[9 + n] = d[1] /\ c[10 + n] = d[2]
  <2>1. 8 + n + 1 = 9 + n /\ 8 + n + 2 = 10 + n /\ 1 \in 1..2 /\ 2 \in 1..2
    BY <1>4
  <2>. QED BY <1>3, <2>1
<1>8. c[7] = b[1] /\ c[8] = b[2]
  <2>1. ab[6 + 1] = b[1] /\ ab[6 + 2] = b[2]
    BY <1>1
  <2>. QED BY <1>5, <2>1
<1>9. \A k \in 1..6 : c[k] = a[k]
  BY <1>1, <1>5
<1>10. 8 + n + 2 = 10 + n
  BY <1>4
<1>. QED BY <1>3, <1>6, <1>7, <1>8, <1>9, <1>10 DEF n, InParts

\* The four parts of a frame, put behind one another.
LEMMA FourParts ==
    ASSUME NEW W, NEW a \in Seq(W), NEW b \in Seq(W), NEW p \in Seq(W), NEW d \in Seq(W),
           Len(a) = 6, Len(b) = 2, Len(d) = 2
    PROVE  InParts(a \o b \o p \o d, a, b, p, d, W)
<1>. DEFINE ab == a \o b
            abp == ab \o p
            c == abp \o d
<1>1. Joined(ab, a, b, W) /\ ab \in Seq(W)
  BY JoinIs, ConcatProperties
<1>. HIDE DEF ab
<1>2. Joined(abp, ab, p, W) /\ abp \in Seq(W)
  BY <1>1, JoinIs, ConcatProperties
<1>. HIDE DEF abp
<1>3. Joined(c, abp, d, W)
  BY <1>2, JoinIs
<1>4. Len(p) \in Nat
  BY LenProperties
<1>. HIDE DEF c
<1>5. InParts(c, a, b, p, d, W)
  BY <1>1, <1>2, <1>3, <1>4, PartsJoined
<1>. QED BY <1>5, Zenon DEF c, abp, ab

\* The header without its sum holds type, identifier and length, in this order.
LEMMA FirstPartIs ==
    ASSUME NEW type \in Word16, NEW id \in Word16, NEW size \in Word16
    PROVE  /\ FirstPart(type, id, size) \in Seq(Byte)
           /\ Len(FirstPart(type, id, size)) = 6
           /\ Word(FirstPart(type, id, size), 1) = type
           /\ Word(FirstPart(type, id, size), 3) = id
           /\ Word(FirstPart(type, id, size), 5) = size
           /\ FirstPart(type, id, size)[1] = type % 256
           /\ FirstPart(type, id, size)[2] = type \div 256
<1>. DEFINE a == Bytes(type)
            b == Bytes(id)
            d == Bytes(size)
            s == FirstPart(type, id, size)
<1>1. /\ a \in Seq(Byte) /\ Len(a) = 2 /\ a[1] + 256 * a[2] = type
      /\ b \in Seq(Byte) /\ Len(b) = 2 /\ b[1] + 256 * b[2] = id
      /\ d \in Seq(Byte) /\ Len(d) = 2 /\ d[1] + 256 * d[2] = size
  BY WordOfBytes
<1>2. a[1] = type % 256 /\ a[2] = type \div 256
  BY DEF Bytes
<1>3. s = a \o b \o d
  BY DEF FirstPart
<1>. HIDE DEF a, b, d, s
<1>4. PICK ab : ab = a \o b
  OBVIOUS
<1>5. /\ ab \in Seq(Byte) /\ Len(ab) = 2 + 2
      /\ \A k \in 1..2 : ab[k] = a[k]
      /\ \A k \in 1..2 : ab[2 + k] = b[k]
  <2>1. Joined(ab, a, b, Byte)
    BY <1>1, <1>4, JoinIs
  <2>. QED BY <1>1, <2>1 DEF Joined
<1>6. Len(ab) = 4 /\ ab[1] = a[1] /\ ab[2] = a[2] /\ ab[3] = b[1] /\ ab[4] = b[2]
  <2>1. ab[2 + 1] = b[1] /\ ab[2 + 2] = b[2]
    BY <1>5
  <2>. QED BY <1>5, <2>1
<1>7. /\ s \in Seq(Byte) /\ Len(s) = 4 + 2
      /\ \A k \in 1..4 : s[k] = ab[k]
      /\ \A k \in 1..2 : s[4 + k] = d[k]
  <2>1. s = ab \o d
    BY <1>3, <1>4
  <2>2. Joined(s, ab, d, Byte)
    BY <1>1, <1>5, <2>1, JoinIs
  <2>. QED BY <1>1, <1>6, <2>2 DEF Joined
<1>8. /\ s[1] = a[1] /\ s[2] = a[2] /\ s[3] = b[1] /\ s[4] = b[2]
      /\ s[5] = d[1] /\ s[6] = d[2] /\ Len(s) = 6
  <2>1. s[4 + 1] = d[1] /\ s[4 + 2] = d[2]
    BY <1>7
  <2>. QED BY <1>6, <1>7, <2>1
<1>9. Word(s, 1) = s[1] + 256 * s[2] /\ Word(s, 3) = s[3] + 256 * s[4]
      /\ Word(s, 5) = s[5] + 256 * s[6]
  BY DEF Word
<1>10. /\ s \in Seq(Byte) /\ Len(s) = 6 /\ Word(s, 1) = type /\ Word(s, 3) = id
       /\ Word(s, 5) = size /\ s[1] = type % 256 /\ s[2] = type \div 256
  BY <1>1, <1>2, <1>7, <1>8, <1>9
<1>. QED BY <1>10 DEF s

\* What a frame is made of.
LEMMA ContentIs ==
    ASSUME NEW f \in Frames
    PROVE  /\ Of(f) \in Seq(Byte) /\ Len(f.payload) \in Word16 /\ Len(f.payload) \in Nat
           /\ Len(Of(f)) = 10 + Len(f.payload)
           /\ FirstOf(f) \in Seq(Byte) /\ Len(FirstOf(f)) = 6
           /\ \A k \in 1..6 : Of(f)[k] = FirstOf(f)[k]
           /\ Word(Of(f), 7) = crc(FirstOf(f))
           /\ \A k \in 1..Len(f.payload) : Of(f)[8 + k] = f.payload[k]
           /\ Word(Of(f), 9 + Len(f.payload)) = crc(f.payload)
           /\ Word(Of(f), 1) = f.type /\ Word(Of(f), 3) = f.id
           /\ Word(Of(f), 5) = Len(f.payload)
<1>. DEFINE n == Len(f.payload)
            a == FirstOf(f)
            b == Bytes(crc(a))
            p == f.payload
            d == Bytes(crc(p))
            c == Of(f)
<1>1. /\ f.type \in Word16 /\ f.id \in Word16 /\ p \in Seq(Byte) /\ n \in Word16
      /\ crc(a) \in Word16 /\ crc(p) \in Word16
  BY FrameAssumption, SumAssumption
<1>2. /\ a \in Seq(Byte) /\ Len(a) = 6
      /\ Word(a, 1) = f.type /\ Word(a, 3) = f.id /\ Word(a, 5) = n
  BY <1>1, FirstPartIs DEF FirstOf
<1>3. /\ b \in Seq(Byte) /\ Len(b) = 2 /\ b[1] + 256 * b[2] = crc(a)
      /\ d \in Seq(Byte) /\ Len(d) = 2 /\ d[1] + 256 * d[2] = crc(p)
  BY <1>1, WordOfBytes
<1>4. c = a \o b \o p \o d
  BY DEF Of, Content, FirstOf
<1>. HIDE DEF a, b, d, c, p
<1>0. InParts(c, a, b, p, d, Byte)
  <2>1. a \in Seq(Byte) /\ b \in Seq(Byte) /\ p \in Seq(Byte) /\ d \in Seq(Byte)
    BY <1>1, <1>2, <1>3 DEF p
  <2>2. Len(a) = 6 /\ Len(b) = 2 /\ Len(d) = 2
    BY <1>2, <1>3
  <2>. QED BY <1>4, <2>1, <2>2, FourParts
<1>5. /\ c \in Seq(Byte) /\ Len(c) = 10 + Len(p)
      /\ \A k \in 1..6 : c[k] = a[k]
      /\ c[7] = b[1] /\ c[8] = b[2]
      /\ \A k \in 1..Len(p) : c[8 + k] = p[k]
      /\ c[9 + Len(p)] = d[1] /\ c[10 + Len(p)] = d[2]
  BY <1>0 DEF InParts
<1>6. Word(c, 7) = c[7] + 256 * c[8]
  BY DEF Word
<1>7. Word(c, 9 + Len(p)) = c[9 + Len(p)] + 256 * c[10 + Len(p)]
  <2>1. Len(p) \in Nat
    BY <1>1, LenProperties
  <2>2. 9 + Len(p) + 1 = 10 + Len(p)
    BY <2>1
  <2>. QED BY <2>2 DEF Word
<1>8. Word(c, 1) = Word(a, 1) /\ Word(c, 3) = Word(a, 3) /\ Word(c, 5) = Word(a, 5)
  BY <1>5 DEF Word
<1>9. /\ c \in Seq(Byte) /\ Len(p) \in Word16 /\ Len(p) \in Nat
      /\ Len(c) = 10 + Len(p)
      /\ a \in Seq(Byte) /\ Len(a) = 6 /\ \A k \in 1..6 : c[k] = a[k]
      /\ Word(c, 7) = crc(a)
      /\ \A k \in 1..Len(p) : c[8 + k] = p[k]
      /\ Word(c, 9 + Len(p)) = crc(p)
      /\ Word(c, 1) = f.type /\ Word(c, 3) = f.id /\ Word(c, 5) = Len(p)
  <2>1. Len(p) \in Word16 /\ Word(a, 5) = Len(p)
    BY <1>1, <1>2 DEF p
  <2>2. Len(p) \in Nat
    BY <1>1, LenProperties
  <2>. QED BY <1>2, <1>3, <1>5, <1>6, <1>7, <1>8, <2>1, <2>2
<1>. QED BY <1>9 DEF a, c, p

-----------------------------------------------------------------------------
(* The stream                                                              *)

\* The byte that is read is the first of what follows; the rest follows then.
LEMMA FollowsOn ==
    ASSUME NEW x \in Byte, NEW rest \in Seq(Byte), Follows(<<x>> \o rest),
           stream \in Seq(Byte), stream # <<>>, stream' = Tail(stream), missing' = missing
    PROVE  Head(stream) = x /\ Follows(rest)'
<1>1. PICK u : u = <<x>> \o rest
  OBVIOUS
<1>2. Joined(u, <<x>>, rest, Byte)
  <2>1. <<x>> \in Seq(Byte)
    OBVIOUS
  <2>. QED BY <1>1, <2>1, JoinIs
<1>3. PICK n \in Nat : n = Len(rest)
  BY LenProperties
<1>4. Len(u) = 1 + n /\ u[1] = x /\ \A k \in 1..n : u[1 + k] = rest[k]
  <2>1. Len(<<x>>) = 1 /\ <<x>>[1] = x
    OBVIOUS
  <2>. QED BY <1>2, <1>3, <2>1 DEF Joined
<1>5. PICK m \in Nat : Len(stream) = m + 1
  <2>1. Len(stream) \in Nat \ {0}
    BY EmptySeq
  <2>2. Len(stream) - 1 \in Nat /\ Len(stream) = (Len(stream) - 1) + 1
    BY <2>1
  <2>. QED BY <2>2
<1>6. /\ Head(stream) = stream[1] /\ Len(stream') = m
      /\ \A k \in 1..m : stream'[k] = stream[k + 1]
  BY <1>5, HeadTailProperties
<1>7. Follows(u)
  BY <1>1
<1>8. /\ \A k \in 1..m + 1 : stream[k] = IF k <= 1 + n THEN u[k] ELSE 0
      /\ missing = IF m + 1 < 1 + n THEN 1 + n - (m + 1) ELSE 0
  BY <1>4, <1>5, <1>7 DEF Follows
<1>9. Head(stream) = x
  BY <1>4, <1>6, <1>8
<1>10. ASSUME NEW k \in 1..m PROVE stream'[k] = IF k <= n THEN rest[k] ELSE 0
  <2>1. k + 1 \in 1..m + 1 /\ (k + 1 <= 1 + n <=> k <= n)
    OBVIOUS
  <2>2. stream'[k] = IF k <= n THEN u[k + 1] ELSE 0
    BY <1>6, <1>8, <2>1
  <2>3. k <= n => u[1 + k] = rest[k] /\ 1 + k = k + 1
    BY <1>4
  <2>. QED BY <2>2, <2>3
<1>11. missing = IF m < n THEN n - m ELSE 0
  BY <1>8
<1>. QED BY <1>3, <1>6, <1>9, <1>10, <1>11 DEF Follows

\* After the frame there are zeros.
LEMMA ZerosFollow ==
    ASSUME Follows(<<>>), stream \in Seq(Byte), stream # <<>>, stream' = Tail(stream),
           missing' = missing
    PROVE  Head(stream) = 0 /\ Follows(<<>>)'
<1>1. PICK m \in Nat : Len(stream) = m + 1
  <2>1. Len(stream) \in Nat \ {0}
    BY EmptySeq
  <2>2. Len(stream) - 1 \in Nat /\ Len(stream) = (Len(stream) - 1) + 1
    BY <2>1
  <2>. QED BY <2>2
<1>2. /\ Head(stream) = stream[1] /\ Len(stream') = m
      /\ \A k \in 1..m : stream'[k] = stream[k + 1]
  BY <1>1, HeadTailProperties
<1>3. /\ \A k \in 1..m + 1 : stream[k] = 0
      /\ missing = 0
  BY <1>1 DEF Follows
<1>4. \A k \in 1..m : stream'[k] = 0
  BY <1>2, <1>3
<1>. QED BY <1>2, <1>3, <1>4 DEF Follows

\* When the stream is empty, as many bytes lack as would follow.
LEMMA NothingFollows ==
    ASSUME NEW rest \in Seq(Byte), Follows(rest), stream = <<>>
    PROVE  missing = Len(rest)
<1>1. Len(stream) = 0 /\ Len(rest) \in Nat
  BY LenProperties
<1>. QED BY <1>1 DEF Follows

-----------------------------------------------------------------------------
(* The decoder                                                             *)

\* The byte that completes a frame completes it if it is the right one.
LEMMA PayloadKnown ==
    ASSUME NEW f \in Frames, NEW got \in Seq(Byte), Len(got) = Len(Of(f)),
           \A k \in 1..Len(got) - 1 : got[k] = Of(f)[k]
    PROVE  /\ SubSeq(got, 9, 8 + Len(f.payload)) = f.payload
           /\ Word(got, 9 + Len(f.payload)) = crc(f.payload) <=>
                 got[Len(got)] = Of(f)[Len(got)]
<1>1. PICK n \in Nat : n = Len(f.payload)
  BY ContentIs
<1>2. PICK p \in Seq(Byte) : p = f.payload
  BY FrameAssumption
<1>3. PICK c \in Seq(Byte) : c = Of(f)
  BY ContentIs
<1>4. /\ Len(got) = 10 + n /\ Len(c) = 10 + n
      /\ \A k \in 1..n : c[8 + k] = p[k]
      /\ Word(c, 9 + n) = crc(p)
  BY <1>1, <1>2, <1>3, ContentIs
<1>5. \A k \in 1..9 + n : got[k] = c[k]
  BY <1>3, <1>4
<1>6. SubSeq(got, 9, 8 + n) = p
  <2>. DEFINE s == SubSeq(got, 9, 8 + n)
  <2>1. \A k \in 9..8 + n : got[k] \in Byte
    BY <1>4, ElementOfSeq
  <2>2. /\ s \in Seq(Byte)
        /\ Len(s) = IF 9 <= 8 + n THEN 8 + n - 9 + 1 ELSE 0
        /\ \A k \in 1..8 + n - 9 + 1 : s[k] = got[9 + k - 1]
    BY <2>1, SubSeqProperties
  <2>. HIDE DEF s
  <2>3. Len(s) = n
    BY <2>2
  <2>4. ASSUME NEW k \in 1..n PROVE s[k] = p[k]
    <3>1. k \in 1..8 + n - 9 + 1 /\ 9 + k - 1 = 8 + k /\ 8 + k \in 1..9 + n
      OBVIOUS
    <3>. QED BY <1>4, <1>5, <2>2, <3>1
  <2>5. s = p
    BY <1>1, <1>2, <2>2, <2>3, <2>4, SeqEqual
  <2>. QED BY <2>5 DEF s
<1>7. Word(got, 9 + n) = crc(p) <=> got[10 + n] = c[10 + n]
  <2>1. 9 + n + 1 = 10 + n /\ 9 + n \in 1..9 + n /\ 10 + n \in 1..10 + n
    OBVIOUS
  <2>2. got[9 + n] = c[9 + n] /\ c[9 + n] \in Byte /\ c[10 + n] \in Byte
        /\ got[10 + n] \in Byte
    BY <1>4, <1>5, <2>1, ElementOfSeq
  <2>3. /\ Word(got, 9 + n) = got[9 + n] + 256 * got[10 + n]
        /\ Word(c, 9 + n) = c[9 + n] + 256 * c[10 + n]
    BY <2>1 DEF Word
  <2>. DEFINE x == c[9 + n]
              y == c[10 + n]
              z == got[10 + n]
  <2>4. x \in Byte /\ y \in Byte /\ z \in Byte
        /\ Word(got, 9 + n) = x + 256 * z /\ crc(p) = x + 256 * y
    BY <1>4, <2>2, <2>3
  <2>. HIDE DEF x, y, z
  <2>5. x + 256 * z = x + 256 * y <=> z = y
    BY <2>4 DEF Byte
  <2>6. Word(got, 9 + n) = crc(p) <=> z = y
    BY <2>4, <2>5
  <2>. QED BY <2>6 DEF y, z
<1>. QED BY <1>1, <1>2, <1>3, <1>4, <1>6, <1>7

\* The first six bytes.
LEMMA SixBytes ==
    ASSUME NEW got \in Seq(Byte), Len(got) = 8, NEW s \in Seq(Byte), Len(s) = 6,
           \A k \in 1..6 : got[k] = s[k]
    PROVE  SubSeq(got, 1, 6) = s
<1>. DEFINE u == SubSeq(got, 1, 6)
<1>1. \A k \in 1..6 : got[k] \in Byte
  BY ElementOfSeq
<1>2. u \in Seq(Byte) /\ Len(u) = 6 /\ \A k \in 1..6 : u[k] = got[k]
  BY <1>1, SubSeqProperties
<1>. HIDE DEF u
<1>3. u = s
  BY <1>2, SeqEqual
<1>. QED BY <1>3 DEF u

\* The header of a frame is good, and says what the frame is.
LEMMA HeaderKnown ==
    ASSUME NEW f \in Frames, NEW got \in Seq(Byte), Len(got) = 8,
           \A k \in 1..8 : got[k] = Of(f)[k]
    PROVE  /\ GoodHeader(got)
           /\ Header(got) = [type |-> f.type, id |-> f.id, payload |-> Len(f.payload)]
<1>1. \A k \in 1..6 : got[k] = FirstOf(f)[k]
  BY ContentIs
<1>2. SubSeq(got, 1, 6) = FirstOf(f)
  BY <1>1, ContentIs, SixBytes
<1>3. /\ Word(got, 1) = Word(Of(f), 1) /\ Word(got, 3) = Word(Of(f), 3)
      /\ Word(got, 5) = Word(Of(f), 5) /\ Word(got, 7) = Word(Of(f), 7)
  BY DEF Word
<1>4. /\ Word(got, 1) = f.type /\ Word(got, 3) = f.id
      /\ Word(got, 5) = Len(f.payload) /\ Word(got, 7) = crc(FirstOf(f))
  BY <1>3, ContentIs
<1>. QED BY <1>2, <1>4 DEF GoodHeader, Header

\* ... and is not when its first byte was escaped and should not have been.
LEMMA HeaderSpoilt ==
    ASSUME NEW f \in Frames, NEW got \in Seq(Byte), Len(got) = 8,
           got[1] = Flipped(Of(f)[1]), \A k \in 2..8 : got[k] = Of(f)[k]
    PROVE  ~GoodHeader(got)
<1>1. PICK a \in Seq(Byte) : a = FirstOf(f)
  BY ContentIs
<1>2. Len(a) = 6 /\ (\A k \in 1..6 : Of(f)[k] = a[k]) /\ Word(Of(f), 7) = crc(a)
  BY <1>1, ContentIs
<1>3. crc([a EXCEPT ![1] = Flipped(@)]) # crc(a)
  BY <1>1, SumAssumption
<1>. DEFINE s == [a EXCEPT ![1] = Flipped(a[1])]
<1>4. 1 \in 1..Len(a) /\ a[1] \in Byte /\ Flipped(a[1]) \in Byte
  <2>1. 1 \in 1..Len(a)
    BY <1>2
  <2>2. a[1] \in Byte
    BY <2>1, ElementOfSeq
  <2>. QED BY <2>1, <2>2, ByteSent
<1>5. /\ s \in Seq(Byte) /\ Len(s) = 6 /\ s[1] = Flipped(a[1])
      /\ \A k \in 2..6 : s[k] = a[k]
  <2>1. /\ s \in Seq(Byte) /\ Len(s) = Len(a)
        /\ \A k \in 1..Len(a) : s[k] = IF k = 1 THEN Flipped(a[1]) ELSE a[k]
    BY <1>4, ExceptSeq
  <2>. HIDE DEF s
  <2>. QED BY <1>2, <2>1
<1>6. crc(s) # crc(a)
  BY <1>3
<1>. HIDE DEF s
<1>7. \A k \in 1..6 : got[k] = s[k]
  <2>1. got[1] = s[1]
    BY <1>2, <1>5
  <2>2. \A k \in 2..6 : got[k] = s[k]
    BY <1>2, <1>5
  <2>. QED BY <2>1, <2>2
<1>8. SubSeq(got, 1, 6) = s
  BY <1>5, <1>7, SixBytes
<1>9. Word(got, 7) = Word(Of(f), 7)
  BY DEF Word
<1>. QED BY <1>2, <1>6, <1>8, <1>9 DEF GoodHeader

\* One byte more in the buffer.
LEMMA OneByteMore ==
    ASSUME NEW S, NEW s \in Seq(S), NEW u \in S
    PROVE  /\ Append(s, u) \in Seq(S) /\ Len(Append(s, u)) = Len(s) + 1 /\ Len(s) \in Nat
           /\ \A k \in 1..Len(s) : Append(s, u)[k] = s[k]
           /\ Append(s, u)[Len(s) + 1] = u
<1>. DEFINE n == Len(s)
            v == Append(s, u)
<1>1. /\ v \in Seq(S) /\ Len(v) = n + 1
      /\ \A k \in 1..n : v[k] = s[k]
      /\ v[n + 1] = u
  BY AppendProperties
<1>2. n \in Nat
  BY LenProperties
<1>. QED BY <1>1, <1>2

\* What PayloadByte notes of a frame.
Noted(f) == [of |-> f, first |-> Len(stream) > 1 /\ stream[2] = Flag]

\* When the payload of a frame is taken, it is noted by its last byte only, if
\* that is the right one.
LEMMA PayloadOn ==
    ASSUME NEW f \in Frames, NEW n \in Nat, n >= 8, TypeOK, Taking(f, n),
           NEW a, PayloadByte(a), Unescaped(a) \in Byte
    PROVE  /\ frame_buffer' = Append(frame_buffer, Unescaped(a)) /\ ~escaping' /\ rx' = rx
           /\ IF n + 1 = Len(Of(f)) /\ Unescaped(a) = Of(f)[n + 1]
              THEN ~decoding' /\ taken' = Append(taken, Noted(f))
              ELSE decoding' /\ taken' = taken
<1>1. PICK u \in Byte : u = Unescaped(a)
  OBVIOUS
<1>2. PICK c \in Seq(Byte) : c = Of(f)
  BY ContentIs
<1>3. PICK l \in Nat : l = Len(f.payload) /\ Len(c) = 10 + l
  BY <1>2, ContentIs
<1>4. /\ frame_buffer \in Seq(Byte) /\ Len(frame_buffer) = n /\ n < 10 + l
      /\ \A k \in 1..n : frame_buffer[k] = c[k]
      /\ rx = [type |-> f.type, id |-> f.id, payload |-> l]
  BY <1>2, <1>3 DEF Taking, TypeOK
<1>5. PICK got \in Seq(Byte) :
         /\ got = Append(frame_buffer, u) /\ Len(got) = n + 1
         /\ \A k \in 1..n : got[k] = c[k]
         /\ got[n + 1] = u
  <2>. DEFINE v == Append(frame_buffer, u)
  <2>1. /\ v \in Seq(Byte) /\ Len(v) = n + 1 /\ \A k \in 1..n : v[k] = frame_buffer[k]
        /\ v[n + 1] = u
    BY <1>4, OneByteMore
  <2>. HIDE DEF v
  <2>2. \A k \in 1..n : v[k] = c[k]
    BY <1>4, <2>1
  <2>. QED BY <2>1, <2>2 DEF v
<1>. DEFINE done == n = l + 9 /\ Word(got, 9 + l) = crc(SubSeq(got, 9, 8 + l))
<1>6. /\ frame_buffer' = got /\ decoding' = ~done /\ escaping' = FALSE /\ rx' = rx
      /\ taken' = IF done
                  THEN Append(taken, [of |-> [rx EXCEPT !.payload = SubSeq(got, 9, 8 + l)],
                                      first |-> Len(stream) > 1 /\ stream[2] = Flag])
                  ELSE taken
  BY <1>1, <1>4, <1>5 DEF PayloadByte, GoodPayload
<1>7. n = l + 9 => /\ SubSeq(got, 9, 8 + l) = f.payload
                   /\ Word(got, 9 + l) = crc(f.payload) <=> u = c[n + 1]
  <2>1. SUFFICES ASSUME n = l + 9
                 PROVE  /\ SubSeq(got, 9, 8 + l) = f.payload
                        /\ Word(got, 9 + l) = crc(f.payload) <=> u = c[n + 1]
    OBVIOUS
  <2>2. Len(got) = Len(Of(f)) /\ Len(got) - 1 = n /\ \A k \in 1..n : got[k] = Of(f)[k]
    BY <1>2, <1>3, <1>5, <2>1
  <2>3. /\ SubSeq(got, 9, 8 + Len(f.payload)) = f.payload
        /\ Word(got, 9 + Len(f.payload)) = crc(f.payload) <=>
              got[Len(got)] = Of(f)[Len(got)]
    BY <2>2, PayloadKnown
  <2>4. got[Len(got)] = u /\ Of(f)[Len(got)] = c[n + 1]
    BY <1>2, <1>5
  <2>. QED BY <1>3, <2>3, <2>4
<1>8. done <=> n = l + 9 /\ u = c[n + 1]
  <2>1. CASE n = l + 9
    BY <1>7, <2>1
  <2>2. CASE n # l + 9
    BY <2>2
  <2>. QED BY <2>1, <2>2
<1>9. done => [rx EXCEPT !.payload = SubSeq(got, 9, 8 + l)] = f
  <2>1. f \in [type : Word16, id : Word16, payload : Seq(Byte)]
    BY FrameAssumption
  <2>2. f = [type |-> f.type, id |-> f.id, payload |-> f.payload]
    BY <2>1
  <2>. QED BY <1>4, <1>7, <2>2
<1>10. n + 1 = Len(Of(f)) <=> n = l + 9
  BY <1>2, <1>3
<1>11. done <=> n + 1 = Len(Of(f)) /\ Unescaped(a) = Of(f)[n + 1]
  BY <1>1, <1>2, <1>8, <1>10
<1>. HIDE DEF done
<1>12. CASE done
  BY <1>1, <1>5, <1>6, <1>9, <1>11, <1>12 DEF Noted
<1>13. CASE ~done
  BY <1>1, <1>5, <1>6, <1>11, <1>13
<1>. QED BY <1>12, <1>13

\* The next byte of a frame is taken, or there is no room for it.
LEMMA TakingOn ==
    ASSUME NEW f \in Frames, NEW n \in Nat, TypeOK, Taking(f, n),
           NEW a \in Byte, a \notin Special, Unescaped(a) = Of(f)[n + 1], DecodeFrame(a)
    PROVE  /\ ~escaping'
           /\ \/ ~Fits(f) /\ ~decoding' /\ taken' = taken
              \/ n + 1 < Len(Of(f)) /\ Taking(f, n + 1)' /\ taken' = taken
              \/ n + 1 = Len(Of(f)) /\ ~decoding' /\ taken' = Append(taken, Noted(f))
<1>1. PICK c \in Seq(Byte) : c = Of(f)
  BY ContentIs
<1>2. PICK l \in Nat : l = Len(f.payload) /\ Len(c) = 10 + l
  BY <1>1, ContentIs
<1>3. /\ frame_buffer \in Seq(Byte) /\ Len(frame_buffer) = n /\ n < 10 + l /\ decoding
      /\ \A k \in 1..n : frame_buffer[k] = c[k]
      /\ n >= 8 => rx = [type |-> f.type, id |-> f.id, payload |-> l]
  BY <1>1, <1>2 DEF Taking, TypeOK
<1>4. PICK u \in Byte : u = Unescaped(a) /\ u = c[n + 1]
  <2>1. n + 1 \in 1..Len(c)
    BY <1>2, <1>3
  <2>2. c[n + 1] \in Byte
    BY <2>1, ElementOfSeq
  <2>. QED BY <1>1, <2>2
<1>5. PICK got \in Seq(Byte) :
         /\ got = Append(frame_buffer, u) /\ Len(got) = n + 1
         /\ \A k \in 1..n + 1 : got[k] = c[k]
  <2>. DEFINE v == Append(frame_buffer, u)
  <2>1. /\ v \in Seq(Byte) /\ Len(v) = n + 1 /\ \A k \in 1..n : v[k] = frame_buffer[k]
        /\ v[n + 1] = u
    BY <1>3, OneByteMore
  <2>. HIDE DEF v
  <2>2. ASSUME NEW k \in 1..n + 1 PROVE v[k] = c[k]
    <3>1. k \in 1..n \/ k = n + 1
      OBVIOUS
    <3>2. k \in 1..n => v[k] = c[k]
      BY <1>3, <2>1
    <3>3. v[n + 1] = c[n + 1]
      BY <1>4, <2>1
    <3>. QED BY <3>1, <3>2, <3>3
  <2>. QED BY <2>1, <2>2 DEF v
<1>6. Overflow(a) \/ HeaderByte(a) \/ PayloadByte(a)
  BY <1>3 DEF DecodeFrame, StartByte, OutsideByte, EscapeByte, Special
<1>7. CASE Overflow(a)
  <2>1. n >= frame_buffer_size
    BY <1>3, <1>7 DEF Overflow, Full
  <2>2. ~Fits(f)
    BY <1>2, <1>3, <2>1, FrameAssumption DEF Fits
  <2>. QED BY <1>7, <2>2 DEF Overflow
<1>8. CASE HeaderByte(a)
  <2>1. n <= 7 /\ n + 1 < Len(Of(f))
    BY <1>1, <1>2, <1>3, <1>8 DEF HeaderByte
  <2>. DEFINE bad == Len(got) = 8 /\ ~GoodHeader(got)
  <2>2. /\ frame_buffer' = got
        /\ rx' = IF Len(got) = 8 /\ ~bad THEN Header(got) ELSE rx
        /\ decoding' = ~bad /\ escaping' = FALSE /\ taken' = taken
    BY <1>4, <1>5, <1>8 DEF HeaderByte
  <2>3. n = 7 => /\ GoodHeader(got)
                 /\ Header(got) = [type |-> f.type, id |-> f.id, payload |-> Len(f.payload)]
    <3>1. n = 7 => Len(got) = 8 /\ \A k \in 1..8 : got[k] = Of(f)[k]
      BY <1>1, <1>5
    <3>. QED BY <3>1, HeaderKnown
  <2>4. ~bad
    BY <1>5, <2>3
  <2>. HIDE DEF bad
  <2>5. n + 1 >= 8 => rx' = [type |-> f.type, id |-> f.id, payload |-> Len(f.payload)]
    BY <1>5, <2>1, <2>2, <2>3, <2>4
  <2>6. Taking(f, n + 1)'
    BY <1>1, <1>5, <2>1, <2>2, <2>4, <2>5 DEF Taking
  <2>. QED BY <2>1, <2>2, <2>6
<1>9. CASE PayloadByte(a)
  <2>1. n >= 8
    BY <1>3, <1>9 DEF PayloadByte
  <2>2. /\ frame_buffer' = got /\ ~escaping' /\ rx' = rx
        /\ IF n + 1 = Len(Of(f))
           THEN ~decoding' /\ taken' = Append(taken, Noted(f))
           ELSE decoding' /\ taken' = taken
    BY <1>1, <1>4, <1>5, <1>9, <2>1, PayloadOn
  <2>3. CASE n + 1 = Len(Of(f))
    BY <2>2, <2>3
  <2>4. CASE n + 1 # Len(Of(f))
    <3>1. n + 1 < Len(Of(f)) /\ Len(Of(f)) = 10 + l
      BY <1>1, <1>2, <1>3, <2>4
    <3>2. Taking(f, n + 1)'
      BY <1>1, <1>2, <1>3, <1>5, <2>1, <2>2, <2>4, <3>1 DEF Taking
    <3>. QED BY <2>2, <2>4, <3>1, <3>2
  <2>. QED BY <2>3, <2>4
<1>. QED BY <1>6, <1>7, <1>8, <1>9

\* In the header, a byte that is no start byte and no escape byte is one of it.
LEMMA HeaderComes ==
    ASSUME NEW n \in 0..7, Len(frame_buffer) = n, decoding, NEW a, a \notin Special,
           DecodeFrame(a)
    PROVE  Overflow(a) \/ HeaderByte(a)
<1>1. a # Flag /\ a # Escape
  BY DEF Special
<1>2. ~StartByte(a) /\ ~OutsideByte(a) /\ ~EscapeByte(a)
  BY <1>1 DEF StartByte, OutsideByte, EscapeByte
<1>3. ~PayloadByte(a)
  BY DEF PayloadByte
<1>. QED BY <1>2, <1>3 DEF DecodeFrame

\* The header that was spoilt stays so, and is the end of its frame.
LEMMA SpoiltOn ==
    ASSUME TypeOK, NEW n \in Nat, Spoilt(n), NEW a \in Byte, a \notin Special,
           Unescaped(a) = Of(frame)[n + 1], DecodeFrame(a),
           frame' = frame, before' = before
    PROVE  ~escaping' /\ taken' = taken /\ (Spoilt(n + 1)' \/ ~decoding')
<1>1. PICK f \in Frames : f = frame
  BY DEF TypeOK
<1>2. PICK c \in Seq(Byte) : c = Of(f)
  BY ContentIs
<1>3. /\ frame_buffer \in Seq(Byte) /\ Len(frame_buffer) = n /\ n \in 1..7 /\ decoding
      /\ frame_buffer[1] = Flipped(c[1]) /\ \A k \in 2..n : frame_buffer[k] = c[k]
  BY <1>1, <1>2 DEF Spoilt, TypeOK
<1>4. Len(c) >= 10 /\ Len(c) \in Nat
  BY <1>2, ContentIs
<1>5. PICK u \in Byte : u = Unescaped(a) /\ u = c[n + 1]
  <2>1. n + 1 \in 1..Len(c)
    BY <1>3, <1>4
  <2>2. c[n + 1] \in Byte
    BY <2>1, ElementOfSeq
  <2>. QED BY <1>1, <1>2, <2>2
<1>6. PICK got \in Seq(Byte) :
         /\ got = Append(frame_buffer, u) /\ Len(got) = n + 1
         /\ got[1] = Flipped(c[1]) /\ \A k \in 2..n + 1 : got[k] = c[k]
  <2>. DEFINE v == Append(frame_buffer, u)
  <2>1. /\ v \in Seq(Byte) /\ Len(v) = n + 1 /\ \A k \in 1..n : v[k] = frame_buffer[k]
        /\ v[n + 1] = u
    BY <1>3, OneByteMore
  <2>. HIDE DEF v
  <2>2. v[1] = Flipped(c[1]) /\ \A k \in 2..n + 1 : v[k] = c[k]
    BY <1>3, <1>5, <2>1
  <2>. QED BY <2>1, <2>2 DEF v
<1>7. Overflow(a) \/ HeaderByte(a)
  BY <1>3, HeaderComes
<1>8. CASE Overflow(a)
  BY <1>8 DEF Overflow
<1>9. CASE HeaderByte(a)
  <2>. DEFINE bad == Len(got) = 8 /\ ~GoodHeader(got)
  <2>1. frame_buffer' = got /\ decoding' = ~bad /\ escaping' = FALSE /\ taken' = taken
    BY <1>5, <1>6, <1>9 DEF HeaderByte
  <2>2. CASE n = 7
    <3>1. Len(got) = 8 /\ got[1] = Flipped(Of(f)[1]) /\ \A k \in 2..8 : got[k] = Of(f)[k]
      BY <1>2, <1>6, <2>2
    <3>2. bad
      BY <3>1, HeaderSpoilt
    <3>. QED BY <2>1, <3>2
  <2>3. CASE n # 7
    <3>1. n + 1 \in 1..7 /\ ~bad
      BY <1>3, <1>6, <2>3
    <3>2. Spoilt(n + 1)'
      BY <1>1, <1>2, <1>6, <2>1, <3>1 DEF Spoilt, BrokeOff
    <3>. QED BY <2>1, <3>2
  <2>. QED BY <2>2, <2>3
<1>. QED BY <1>7, <1>8, <1>9

\* The frames that were taken, and one more.
LEMMA OneFrameMore ==
    ASSUME NEW x, NEW y
    PROVE  Append(<<>>, y) = <<y>> /\ Append(<<x>>, y) = <<x, y>>
<1>. DEFINE s == <<x>>
            w == <<x, y>>
            S == {x, y}
<1>1. /\ s \in Seq(S) /\ Len(s) = 1 /\ s[1] = x /\ y \in S
      /\ w \in Seq(S) /\ Len(w) = 2 /\ w[1] = x /\ w[2] = y
  OBVIOUS
<1>. HIDE DEF s, w, S
<1>2. PICK v : v = Append(s, y)
  OBVIOUS
<1>3. /\ v \in Seq(S) /\ Len(v) = Len(s) + 1
      /\ \A k \in 1..Len(s) : v[k] = s[k]
      /\ v[Len(s) + 1] = y
  <2>1. s \in Seq(S) /\ y \in S
    BY <1>1
  <2>. QED BY <1>2, <2>1, OneByteMore
<1>4. v = w
  <2>1. Len(v) = 2 /\ v[1] = x /\ v[2] = y
    BY <1>1, <1>3
  <2>2. \A k \in 1..2 : v[k] = w[k]
    BY <1>1, <2>1
  <2>. QED BY <1>1, <1>3, <2>1, <2>2, SeqEqual
<1>5. Append(<<>>, y) = <<y>>
  OBVIOUS
<1>6. Append(s, y) = w
  BY <1>2, <1>4
<1>. QED BY <1>5, <1>6 DEF s, w

\* A byte that is no start byte and no escape byte ends at the next place of the
\* frame, whatever the decoder makes of it.
LEMMA ByteOn ==
    ASSUME TypeOK, NEW n \in Nat, n < Len(Of(frame)), Earlier,
           NEW a \in Byte, a \notin Special, DecodeFrame(a),
           UNCHANGED <<frame, previous, before>>,
           \/ (Taking(frame, n) \/ Spoilt(n)) /\ Unescaped(a) = Of(frame)[n + 1]
           \/ n = 0 /\ Taking(frame, n) /\ escaping /\ BrokeOff /\ a = Of(frame)[n + 1]
           \/ Off /\ ~escaping,
           n + 1 = Len(Of(frame)) => ~(Len(stream) > 1 /\ stream[2] = Flag)
    PROVE  /\ ~escaping'
           /\ \/ Earlier' /\ (Taking(frame, n + 1)' \/ Spoilt(n + 1)' \/ Off')
              \/ n + 1 = Len(Of(frame)) /\ Done'
<1>1. PICK f \in Frames : f = frame /\ f = frame'
  BY DEF TypeOK
<1>2. taken' = taken => Earlier'
  BY DEF Earlier, Completed
<1>3. (~decoding' /\ (BrokeOff \/ ~Fits(frame))) => Off'
  BY DEF Off, BrokeOff, Fits
<1>4. CASE Taking(frame, n) /\ Unescaped(a) = Of(frame)[n + 1]
  <2>1. /\ ~escaping'
        /\ \/ ~Fits(f) /\ ~decoding' /\ taken' = taken
           \/ n + 1 < Len(Of(f)) /\ Taking(f, n + 1)' /\ taken' = taken
           \/ n + 1 = Len(Of(f)) /\ ~decoding' /\ taken' = Append(taken, Noted(f))
    BY <1>1, <1>4, TakingOn
  <2>2. CASE ~Fits(f) /\ ~decoding' /\ taken' = taken
    BY <1>1, <1>2, <1>3, <2>1, <2>2
  <2>3. CASE n + 1 < Len(Of(f)) /\ Taking(f, n + 1)' /\ taken' = taken
    <3>1. Taking(frame, n + 1)'
      BY <1>1, <2>3 DEF Taking
    <3>. QED BY <1>2, <2>1, <2>3, <3>1
  <2>4. CASE n + 1 = Len(Of(f)) /\ ~decoding' /\ taken' = Append(taken, Noted(f))
    <3>1. Noted(f) = Own
      BY <1>1, <2>4 DEF Noted, Own
    <3>2. taken' = Append(taken, Own) /\ Own' = Own /\ Completed' = Completed
      BY <2>4, <3>1 DEF Own, Completed
    <3>3. taken' = <<Own>> \/ (before = "last" /\ taken' = <<Completed, Own>>)
      BY <3>2, OneFrameMore DEF Earlier
    <3>4. Done'
      BY <2>4, <3>2, <3>3 DEF Done
    <3>. QED BY <1>1, <2>1, <2>4, <3>4
  <2>. QED BY <2>1, <2>2, <2>3, <2>4
<1>5. CASE Spoilt(n) /\ Unescaped(a) = Of(frame)[n + 1]
  <2>1. ~escaping' /\ taken' = taken /\ (Spoilt(n + 1)' \/ ~decoding')
    BY <1>5, SpoiltOn
  <2>2. BrokeOff
    BY <1>5 DEF Spoilt
  <2>. QED BY <1>2, <1>3, <2>1, <2>2
<1>6. CASE n = 0 /\ Taking(frame, n) /\ escaping /\ BrokeOff /\ a = Of(frame)[n + 1]
  <2>1. /\ decoding /\ Len(frame_buffer) = 0 /\ frame_buffer \in Seq(Byte)
        /\ Unescaped(a) = Flipped(Of(f)[1]) /\ Flipped(a) \in Byte /\ a = Of(f)[1]
    BY <1>1, <1>6, ByteSent DEF Taking, Unescaped, TypeOK
  <2>2. Overflow(a) \/ HeaderByte(a)
    BY <2>1, HeaderComes
  <2>3. CASE Overflow(a)
    BY <1>2, <1>3, <1>6, <2>3 DEF Overflow
  <2>4. CASE HeaderByte(a)
    <3>1. PICK got \in Seq(Byte) :
             got = Append(frame_buffer, Flipped(a)) /\ Len(got) = 1 /\ got[1] = Flipped(a)
      <4>. DEFINE v == Append(frame_buffer, Flipped(a))
      <4>1. v \in Seq(Byte) /\ Len(v) = 0 + 1 /\ v[0 + 1] = Flipped(a)
        BY <2>1, OneByteMore
      <4>. HIDE DEF v
      <4>2. Len(v) = 1 /\ v[1] = Flipped(a)
        BY <4>1
      <4>. QED BY <4>1, <4>2 DEF v
    <3>2. frame_buffer' = got /\ decoding' /\ ~escaping' /\ taken' = taken
      <4>1. got = Append(frame_buffer, Unescaped(a))
        BY <1>1, <2>1, <3>1
      <4>2. /\ frame_buffer' = got /\ escaping' = FALSE /\ taken' = taken
            /\ decoding' = ~(Len(got) = 8 /\ ~GoodHeader(got))
        BY <2>4, <4>1 DEF HeaderByte
      <4>3. Len(got) # 8
        BY <3>1
      <4>. QED BY <4>2, <4>3, Zenon
    <3>3. Spoilt(1)'
      BY <1>1, <1>6, <2>1, <3>1, <3>2 DEF Spoilt, BrokeOff
    <3>4. n + 1 = 1
      BY <1>6
    <3>. QED BY <1>2, <3>2, <3>3, <3>4
  <2>. QED BY <2>2, <2>3, <2>4
<1>7. CASE Off /\ ~escaping
  <2>1. UNCHANGED <<framerVars, taken>>
    BY <1>7 DEF Off, DecodeFrame, StartByte, OutsideByte, EscapeByte, Overflow, HeaderByte,
                PayloadByte, Special
  <2>2. Off' /\ ~escaping'
    BY <1>1, <1>7, <2>1 DEF Off, framerVars, BrokeOff, Fits
  <2>. QED BY <1>2, <2>1, <2>2
<1>. QED BY <1>4, <1>5, <1>6, <1>7

-----------------------------------------------------------------------------
(* A byte is decoded                                                       *)

\* What the main loop hands to the decoder.
LEMMA Parsed ==
    ASSUME TypeOK, ParseRawRx
    PROVE  /\ stream \in Seq(Byte) /\ stream # <<>> /\ stream' = Tail(stream)
           /\ Head(stream) \in Byte /\ DecodeFrame(Head(stream))
           /\ Len(stream') = Len(stream) - 1 /\ Len(stream) \in Nat \ {0}
           /\ Len(stream) > 1 => stream[2] = stream'[1]
           /\ UNCHANGED <<frame, missing, previous, before>>
<1>1. stream \in Seq(Byte) /\ stream # <<>> /\ stream' = Tail(stream)
  BY DEF TypeOK, ParseRawRx
<1>2. /\ Head(stream) \in Byte /\ Len(Tail(stream)) = Len(stream) - 1
      /\ \A k \in 1..Len(Tail(stream)) : Tail(stream)[k] = stream[k + 1]
  BY <1>1, HeadTailProperties
<1>3. Len(stream) \in Nat \ {0}
  BY <1>1, EmptySeq
<1>4. Len(stream) > 1 => stream[2] = stream'[1]
  <2>1. SUFFICES ASSUME Len(stream) > 1 PROVE stream[2] = stream'[1]
    OBVIOUS
  <2>2. 1 \in 1..Len(Tail(stream)) /\ 1 + 1 = 2
    BY <1>2, <1>3, <2>1
  <2>. QED BY <1>1, <1>2, <2>2
<1>. QED BY <1>1, <1>2, <1>3, <1>4 DEF ParseRawRx, sentVars

\* What is still to come of a frame.
LEMMA RestOf ==
    ASSUME NEW f \in Frames, NEW n \in 0..Len(Of(f))
    PROVE  /\ Len(Of(f)) \in Nat /\ Len(Of(f)) >= 10
           /\ Escaped(Of(f))[n + 1] \in Seq(Byte)
           /\ n = Len(Of(f)) => Escaped(Of(f))[n + 1] = <<>>
           /\ n < Len(Of(f)) =>
                 /\ Of(f)[n + 1] \in Byte
                 /\ Escaped(Of(f))[n + 2] \in Seq(Byte)
                 /\ Len(Escaped(Of(f))[n + 1]) \in Nat /\ Len(Escaped(Of(f))[n + 1]) >= 1
                 /\ Of(f)[n + 1] \notin Special =>
                       Escaped(Of(f))[n + 1] = <<Of(f)[n + 1]>> \o Escaped(Of(f))[n + 2]
                 /\ Of(f)[n + 1] \in Special =>
                       /\ Escaped(Of(f))[n + 1] =
                             <<Escape>> \o (<<Flipped(Of(f)[n + 1])>> \o Escaped(Of(f))[n + 2])
                       /\ Flipped(Of(f)[n + 1]) \in Byte \ Special
                       /\ Flipped(Flipped(Of(f)[n + 1])) = Of(f)[n + 1]
<1>1. PICK c \in Seq(Byte) : c = Of(f)
  BY ContentIs
<1>2. PICK N \in Nat : N = Len(c) /\ N >= 10
  BY <1>1, ContentIs
<1>3. PICK E : E = Escaped(c)
  OBVIOUS
<1>4. \A i \in 1..N : c[i] \in Byte
  BY <1>2, ElementOfSeq
<1>5. /\ E[N + 1] = <<>>
      /\ \A i \in 1..N + 1 : E[i] \in Seq(Byte) /\ Len(E[i]) \in Nat /\ Len(E[i]) >= N + 1 - i
      /\ \A i \in 1..N :
            /\ c[i] \notin Special => E[i] = <<c[i]>> \o E[i + 1]
            /\ c[i] \in Special => E[i] = <<Escape>> \o (<<Flipped(c[i])>> \o E[i + 1])
  BY <1>2, <1>3, <1>4, EscapedRest
<1>6. n \in 0..N /\ n + 1 \in 1..N + 1
  BY <1>1, <1>2
<1>7. E[n + 1] \in Seq(Byte) /\ (n = N => E[n + 1] = <<>>)
  BY <1>5, <1>6
<1>8. ASSUME n < N
      PROVE  /\ c[n + 1] \in Byte /\ E[n + 2] \in Seq(Byte)
             /\ Len(E[n + 1]) \in Nat /\ Len(E[n + 1]) >= 1
             /\ c[n + 1] \notin Special => E[n + 1] = <<c[n + 1]>> \o E[n + 2]
             /\ c[n + 1] \in Special =>
                   /\ E[n + 1] = <<Escape>> \o (<<Flipped(c[n + 1])>> \o E[n + 2])
                   /\ Flipped(c[n + 1]) \in Byte \ Special
                   /\ Flipped(Flipped(c[n + 1])) = c[n + 1]
  <2>1. n + 1 \in 1..N /\ n + 2 \in 1..N + 1 /\ n + 1 + 1 = n + 2 /\ N + 1 - (n + 1) >= 1
    BY <1>6, <1>8
  <2>2. c[n + 1] \in Byte /\ E[n + 2] \in Seq(Byte)
    BY <1>4, <1>5, <2>1
  <2>3. Len(E[n + 1]) \in Nat /\ Len(E[n + 1]) >= 1
    <3>. DEFINE l == Len(E[n + 1])
    <3>1. l \in Nat /\ l >= N + 1 - (n + 1)
      BY <1>5, <1>6
    <3>. HIDE DEF l
    <3>2. l >= 1
      BY <1>6, <2>1, <3>1
    <3>. QED BY <3>1, <3>2 DEF l
  <2>4. /\ c[n + 1] \notin Special => E[n + 1] = <<c[n + 1]>> \o E[n + 2]
        /\ c[n + 1] \in Special =>
              E[n + 1] = <<Escape>> \o (<<Flipped(c[n + 1])>> \o E[n + 2])
    BY <1>5, <2>1
  <2>. QED BY <2>2, <2>3, <2>4, ByteSent
<1>. QED BY <1>1, <1>2, <1>3, <1>7, <1>8

\* The random byte completes the frame before at most.
LEMMA FromRandom ==
    ASSUME TypeOK, ParseRawRx, AtRandom
    PROVE  AtFlag'
<1>1. PICK f \in Frames : f = frame /\ f = frame'
  BY Parsed DEF TypeOK
<1>2. PICK a : a = Head(stream)
  OBVIOUS
<1>3. PICK E \in Seq(Byte) : E = Escaped(Of(f))[1]
  <2>1. 0 \in 0..Len(Of(f))
    BY ContentIs
  <2>2. Escaped(Of(f))[0 + 1] \in Seq(Byte)
    BY <2>1, RestOf
  <2>. QED BY <2>2
<1>4. PICK r \in Byte \ {Flag} : Follows(<<r, Flag>> \o E)
  BY <1>1, <1>3 DEF AtRandom
<1>5. <<r, Flag>> \o E = <<r>> \o (<<Flag>> \o E) /\ <<Flag>> \o E \in Seq(Byte)
  <2>1. Flag \in Byte
    BY DEF Flag, Byte
  <2>. DEFINE x == <<r>>
              y == <<Flag>>
  <2>2. x \in Seq(Byte) /\ y \in Seq(Byte) /\ <<r, Flag>> = x \o y
    BY <2>1
  <2>. HIDE DEF x, y
  <2>3. (x \o y) \o E = x \o (y \o E) /\ y \o E \in Seq(Byte)
    BY <2>2, ConcatAssociative, ConcatProperties
  <2>. QED BY <2>2, <2>3 DEF x, y
<1>6. a = r /\ Follows(<<Flag>> \o E)'
  BY <1>2, <1>4, <1>5, Parsed, FollowsOn
<1>7. Len(stream') \in Nat \ {0} /\ Len(stream) > 1 /\ Len(stream) \in Nat
  BY Parsed DEF AtRandom
<1>8. stream[2] = Flag
  <2>1. PICK u : u = <<Flag>> \o E
    OBVIOUS
  <2>2. Joined(u, <<Flag>>, E, Byte) /\ Len(<<Flag>>) = 1 /\ <<Flag>>[1] = Flag
    <3>1. <<Flag>> \in Seq(Byte)
      BY DEF Flag, Byte
    <3>. QED BY <2>1, <3>1, JoinIs
  <2>3. u[1] = Flag /\ Len(u) \in Nat /\ Len(u) >= 1
    <3>1. Len(E) \in Nat
      BY LenProperties
    <3>. QED BY <2>2, <3>1 DEF Joined
  <2>4. Follows(u)'
    BY <1>6, <2>1
  <2>5. stream'[1] = Flag
    BY <1>7, <2>3, <2>4 DEF Follows
  <2>. QED BY <1>7, <2>5, Parsed
<1>9. a # Flag /\ DecodeFrame(a)
  BY <1>2, <1>4, <1>6, Parsed
<1>10. CASE ~decoding /\ ~escaping
  <2>1. UNCHANGED <<framerVars, taken>>
    BY <1>9, <1>10 DEF DecodeFrame, StartByte, OutsideByte, EscapeByte, Overflow, HeaderByte,
                       PayloadByte
  <2>2. taken' = <<>> /\ ~escaping'
    BY <1>10, <2>1 DEF AtRandom, framerVars
  <2>. QED BY <1>1, <1>3, <1>6, <1>7, <2>2 DEF AtFlag, Earlier
<1>11. CASE decoding /\ Broken
  <2>1. taken = <<>> /\ BrokeOff
    BY <1>11 DEF AtRandom, Broken
  <2>2. taken' = taken \/ PayloadByte(a)
    BY <1>9 DEF DecodeFrame, StartByte, OutsideByte, EscapeByte, Overflow, HeaderByte
  <2>3. ASSUME PayloadByte(a), taken' # taken
        PROVE  before = "last" /\ taken' = <<Completed>>
    <3>1. Len(frame_buffer) > 7 /\ Len(frame_buffer) \in Nat
      BY <2>3, LenProperties DEF PayloadByte, TypeOK
    <3>2. PICK n \in 8..Len(Of(previous)) - 1 :
             /\ Taking(previous, n)
             /\ n = Len(Of(previous)) - 1 =>
                   before = "last" \/ (~escaping /\ Of(previous)[n + 1] \in Special)
      BY <1>11, <3>1 DEF Broken
    <3>3. PICK g \in Frames : g = previous
      BY DEF TypeOK
    <3>4. a \in Byte /\ a \notin Special /\ Unescaped(a) \in Byte
      BY <1>2, <2>3, Parsed, ByteSent DEF PayloadByte, Special, Unescaped
    <3>5. Len(Of(g)) \in Nat /\ n \in Nat /\ n >= 8
      BY <3>2, <3>3, ContentIs
    <3>6. IF n + 1 = Len(Of(g)) /\ Unescaped(a) = Of(g)[n + 1]
          THEN ~decoding' /\ taken' = Append(taken, Noted(g))
          ELSE decoding' /\ taken' = taken
      BY <2>3, <3>2, <3>3, <3>4, <3>5, PayloadOn
    <3>7. n + 1 = Len(Of(g)) /\ Unescaped(a) = Of(g)[n + 1] /\ taken' = Append(taken, Noted(g))
      BY <2>3, <3>6
    <3>8. n = Len(Of(previous)) - 1
      BY <3>3, <3>5, <3>7
    <3>9. before = "last"
      BY <3>2, <3>3, <3>4, <3>7, <3>8 DEF Unescaped
    <3>10. Noted(g) = Completed
      BY <1>7, <1>8, <3>3 DEF Noted, Completed
    <3>. QED BY <2>1, <3>7, <3>9, <3>10, OneFrameMore
  <2>4. Earlier' /\ BrokeOff'
    <3>1. before' = before /\ Completed' = Completed /\ BrokeOff'
      BY <2>1, Parsed DEF Completed, BrokeOff
    <3>2. taken' = <<>> \/ (before = "last" /\ taken' = <<Completed>>)
      BY <2>1, <2>2, <2>3
    <3>. QED BY <3>1, <3>2 DEF Earlier
  <2>. QED BY <1>1, <1>3, <1>6, <1>7, <2>4 DEF AtFlag
<1>. QED BY <1>10, <1>11 DEF AtRandom

\* A start byte begins the frame.
LEMMA FromFlag ==
    ASSUME TypeOK, ParseRawRx, AtFlag
    PROVE  AtByte(0)'
<1>1. PICK f \in Frames : f = frame /\ f = frame'
  BY Parsed DEF TypeOK
<1>2. PICK E \in Seq(Byte) : E = Escaped(Of(f))[1]
  <2>1. 0 \in 0..Len(Of(f))
    BY ContentIs
  <2>2. Escaped(Of(f))[0 + 1] \in Seq(Byte)
    BY <2>1, RestOf
  <2>. QED BY <2>2
<1>3. Head(stream) = Flag /\ Follows(E)'
  <2>1. Follows(<<Flag>> \o E) /\ Flag \in Byte
    BY <1>1, <1>2 DEF AtFlag, Flag, Byte
  <2>. QED BY <2>1, Parsed, FollowsOn
<1>4. StartByte(Flag)
  <2>1. DecodeFrame(Flag)
    BY <1>3, Parsed
  <2>2. Flag # Escape
    BY DEF Flag, Escape
  <2>3. ~OutsideByte(Flag) /\ ~EscapeByte(Flag)
    BY <2>2 DEF OutsideByte, EscapeByte
  <2>4. ~Overflow(Flag) /\ ~HeaderByte(Flag) /\ ~PayloadByte(Flag)
    BY DEF Overflow, HeaderByte, PayloadByte
  <2>. QED BY <2>1, <2>3, <2>4 DEF DecodeFrame
<1>5. decoding' /\ frame_buffer' = <<>> /\ escaping' = escaping /\ taken' = taken
  BY <1>4 DEF StartByte
<1>6. Taking(frame, 0)'
  <2>1. 0 < Len(Of(f))
    BY ContentIs
  <2>. QED BY <1>1, <1>5, <2>1 DEF Taking
<1>7. Earlier' /\ (escaping' => BrokeOff')
  BY <1>5, Parsed DEF AtFlag, Earlier, Completed, BrokeOff
<1>8. Follows(Escaped(Of(frame))[0 + 1])'
  BY <1>1, <1>2, <1>3
<1>. QED BY <1>6, <1>7, <1>8 DEF AtByte

\* After the last byte of a frame there is no start byte.
LEMMA NoFlagBehind ==
    ASSUME NEW f \in Frames, NEW n \in 0..Len(Of(f)), n + 1 = Len(Of(f)), TypeOK, ParseRawRx,
           Follows(Escaped(Of(f))[n + 2])'
    PROVE  ~(Len(stream) > 1 /\ stream[2] = Flag)
<1>1. Escaped(Of(f))[n + 2] = <<>>
  <2>1. n + 1 \in 0..Len(Of(f)) /\ n + 1 + 1 = n + 2
    BY ContentIs
  <2>. QED BY <2>1, RestOf
<1>2. Follows(<<>>)'
  BY <1>1
<1>3. Len(stream) > 1 => stream'[1] = 0
  <2>1. SUFFICES ASSUME Len(stream) > 1 PROVE stream'[1] = 0
    OBVIOUS
  <2>2. 1 \in 1..Len(stream')
    BY <2>1, Parsed
  <2>. QED BY <1>2, <2>2 DEF Follows
<1>. QED BY <1>3, Parsed DEF Flag

\* A byte of the frame is decoded.
LEMMA FromByte ==
    ASSUME TypeOK, ParseRawRx, NEW n \in 0..Len(Of(frame)), AtByte(n)
    PROVE  IF n = Len(Of(frame)) THEN AtByte(n)' ELSE AtByte(n + 1)' \/ AtSecond(n)'
<1>1. PICK f \in Frames : f = frame /\ f = frame'
  BY Parsed DEF TypeOK
<1>2. PICK N \in Nat : N = Len(Of(f)) /\ N >= 10 /\ n \in 0..N /\ n \in 0..Len(Of(f))
  BY <1>1, ContentIs
<1>3. Follows(Escaped(Of(f))[n + 1])
  BY <1>1 DEF AtByte
<1>4. PICK a : a = Head(stream) /\ a \in Byte /\ DecodeFrame(a)
  BY Parsed
<1>5. CASE n = N
  <2>1. Follows(<<>>) /\ Escaped(Of(f))[n + 1] = <<>>
    BY <1>2, <1>3, <1>5, RestOf
  <2>2. a = 0 /\ Follows(<<>>)'
    BY <1>4, <2>1, Parsed, ZerosFollow
  <2>3. ~Taking(frame, n) /\ ~Spoilt(n)
    BY <1>1, <1>2, <1>5 DEF Taking, Spoilt
  <2>4. ~decoding /\ ~escaping
    BY <2>3 DEF AtByte, Off, Done
  <2>5. UNCHANGED <<framerVars, taken>>
    BY <1>4, <2>2, <2>4 DEF DecodeFrame, StartByte, OutsideByte, EscapeByte, Overflow, HeaderByte,
                            PayloadByte, Flag
  <2>6. (Earlier /\ Off /\ ~escaping) \/ (n = Len(Of(frame)) /\ Done /\ ~escaping)
    BY <2>3 DEF AtByte
  <2>7. (Earlier /\ Off /\ ~escaping)' \/ (n = Len(Of(frame)) /\ Done /\ ~escaping)'
    BY <2>5, <2>6, Parsed DEF framerVars, Earlier, Off, Done, BrokeOff, Fits, Own, Completed
  <2>8. Follows(Escaped(Of(frame))[n + 1])'
    BY <1>1, <2>1, <2>2
  <2>9. AtByte(n)'
    BY <2>7, <2>8 DEF AtByte
  <2>. QED BY <1>1, <1>2, <1>5, <2>9
<1>6. CASE n < N
  <2>1. PICK b \in Byte : b = Of(f)[n + 1]
    BY <1>2, <1>6, RestOf
  <2>2. PICK E \in Seq(Byte) : E = Escaped(Of(f))[n + 2]
    BY <1>2, <1>6, RestOf
  <2>3. /\ Earlier
        /\ \/ Taking(frame, n) /\ (escaping => n = 0 /\ BrokeOff)
           \/ Spoilt(n) /\ ~escaping
           \/ Off /\ ~escaping
    BY <1>1, <1>2, <1>6 DEF AtByte
  <2>4. CASE b \notin Special
    <3>1. Follows(<<b>> \o E)
      BY <1>2, <1>3, <1>6, <2>1, <2>2, <2>4, RestOf
    <3>2. a = b /\ Follows(E)'
      BY <1>4, <3>1, Parsed, FollowsOn
    <3>3. n + 1 = Len(Of(frame)) => ~(Len(stream) > 1 /\ stream[2] = Flag)
      BY <1>1, <1>2, <2>2, <3>2, NoFlagBehind
    <3>4. \/ (Taking(frame, n) \/ Spoilt(n)) /\ Unescaped(a) = Of(frame)[n + 1]
          \/ n = 0 /\ Taking(frame, n) /\ escaping /\ BrokeOff /\ a = Of(frame)[n + 1]
          \/ Off /\ ~escaping
      BY <1>1, <2>1, <2>3, <3>2 DEF Unescaped
    <3>5. /\ ~escaping'
          /\ \/ Earlier' /\ (Taking(frame, n + 1)' \/ Spoilt(n + 1)' \/ Off')
             \/ n + 1 = Len(Of(frame)) /\ Done'
      <4>1. n \in Nat /\ n < Len(Of(frame)) /\ a \notin Special
        BY <1>1, <1>2, <1>6, <2>4, <3>2
      <4>2. UNCHANGED <<frame, previous, before>>
        BY Parsed
      <4>. QED BY <1>4, <2>3, <3>3, <3>4, <4>1, <4>2, ByteOn
    <3>6. Follows(Escaped(Of(frame))[(n + 1) + 1])'
      <4>1. (n + 1) + 1 = n + 2
        BY <1>2
      <4>. QED BY <1>1, <2>2, <3>2, <4>1
    <3>7. AtByte(n + 1)'
      BY <1>1, <3>5, <3>6 DEF AtByte
    <3>. QED BY <1>1, <1>2, <1>6, <3>7
  <2>5. CASE b \in Special
    <3>1. Follows(<<Escape>> \o (<<Flipped(b)>> \o E)) /\ Flipped(b) \in Byte
      BY <1>2, <1>3, <1>6, <2>1, <2>2, <2>5, RestOf
    <3>2. <<Flipped(b)>> \o E \in Seq(Byte) /\ Escape \in Byte
      <4>1. <<Flipped(b)>> \in Seq(Byte)
        BY <3>1
      <4>. QED BY <4>1, ConcatProperties DEF Escape, Byte
    <3>3. a = Escape /\ Follows(<<Flipped(b)>> \o E)'
      BY <1>4, <3>1, <3>2, Parsed, FollowsOn
    <3>4. CASE decoding
      <4>1. EscapeByte(a)
        BY <1>4, <3>3, <3>4 DEF DecodeFrame, StartByte, OutsideByte, Overflow, HeaderByte,
                                PayloadByte, Escape, Flag
      <4>2. escaping' /\ UNCHANGED <<decoding, frame_buffer, rx, taken>>
        BY <4>1 DEF EscapeByte
      <4>3. Taking(frame, n) \/ Spoilt(n)
        BY <2>3, <3>4 DEF Off
      <4>4. Taking(frame, n)' \/ Spoilt(n)'
        BY <4>2, <4>3, Parsed DEF Taking, Spoilt, BrokeOff
      <4>5. Earlier'
        BY <2>3, <4>2, Parsed DEF Earlier, Completed
      <4>6. AtSecond(n)'
        BY <1>1, <1>2, <1>6, <2>1, <2>2, <2>5, <3>3, <4>2, <4>4, <4>5 DEF AtSecond
      <4>. QED BY <1>1, <1>2, <1>6, <4>6
    <3>5. CASE ~decoding
      <4>1. Off /\ ~escaping
        BY <2>3, <3>5 DEF Taking, Spoilt
      <4>2. UNCHANGED <<framerVars, taken>>
        BY <1>4, <3>3, <3>5 DEF DecodeFrame, StartByte, OutsideByte, EscapeByte, Overflow,
                                HeaderByte, PayloadByte, Escape, Flag
      <4>3. Off' /\ ~escaping' /\ Earlier'
        BY <2>3, <4>1, <4>2, Parsed DEF framerVars, Off, BrokeOff, Fits, Earlier, Completed
      <4>4. AtSecond(n)'
        BY <1>1, <1>2, <1>6, <2>1, <2>2, <2>5, <3>3, <4>3 DEF AtSecond
      <4>. QED BY <1>1, <1>2, <1>6, <4>4
    <3>. QED BY <3>4, <3>5
  <2>. QED BY <2>4, <2>5
<1>. QED BY <1>2, <1>5, <1>6

\* ... or the second of the two that were sent for it.
LEMMA FromSecond ==
    ASSUME TypeOK, ParseRawRx, NEW n \in 0..Len(Of(frame)), AtSecond(n)
    PROVE  n < Len(Of(frame)) /\ AtByte(n + 1)'
<1>1. PICK f \in Frames : f = frame /\ f = frame'
  BY Parsed DEF TypeOK
<1>2. PICK N \in Nat : N = Len(Of(f)) /\ n \in 0..N /\ n < N /\ n \in 0..Len(Of(f))
  BY <1>1, ContentIs DEF AtSecond
<1>3. PICK b \in Byte : b = Of(f)[n + 1] /\ b \in Special
  BY <1>1, <1>2, RestOf DEF AtSecond
<1>4. PICK E \in Seq(Byte) : E = Escaped(Of(f))[n + 2]
  BY <1>2, RestOf
<1>5. PICK a : a = Head(stream) /\ a \in Byte /\ DecodeFrame(a)
  BY Parsed
<1>6. Flipped(b) \in Byte /\ Flipped(b) \notin Special /\ Flipped(Flipped(b)) = b
  BY <1>3, ByteSent
<1>7. a = Flipped(b) /\ Follows(E)'
  <2>1. Follows(<<Flipped(b)>> \o E)
    BY <1>1, <1>3, <1>4 DEF AtSecond
  <2>. QED BY <1>5, <1>6, <2>1, Parsed, FollowsOn
<1>8. n + 1 = Len(Of(frame)) => ~(Len(stream) > 1 /\ stream[2] = Flag)
  BY <1>1, <1>2, <1>4, <1>7, NoFlagBehind
<1>9. \/ (Taking(frame, n) \/ Spoilt(n)) /\ Unescaped(a) = Of(frame)[n + 1]
      \/ Off /\ ~escaping
  BY <1>1, <1>3, <1>6, <1>7 DEF AtSecond, Unescaped
<1>10. /\ ~escaping'
       /\ \/ Earlier' /\ (Taking(frame, n + 1)' \/ Spoilt(n + 1)' \/ Off')
          \/ n + 1 = Len(Of(frame)) /\ Done'
  <2>1. n \in Nat /\ n < Len(Of(frame)) /\ a \notin Special /\ Earlier
    BY <1>1, <1>2, <1>6, <1>7 DEF AtSecond
  <2>2. UNCHANGED <<frame, previous, before>>
    BY Parsed
  <2>. QED BY <1>5, <1>8, <1>9, <2>1, <2>2, ByteOn
<1>11. Follows(Escaped(Of(frame))[(n + 1) + 1])'
  <2>1. (n + 1) + 1 = n + 2
    BY <1>2
  <2>. QED BY <1>1, <1>4, <1>7, <2>1
<1>12. AtByte(n + 1)'
  BY <1>1, <1>10, <1>11 DEF AtByte
<1>. QED BY <1>1, <1>2, <1>12

-----------------------------------------------------------------------------
(* Types                                                                   *)

\* Two bytes are a word.
LEMMA WordOf ==
    ASSUME NEW s \in Seq(Byte), NEW i \in Nat, i >= 1, i + 1 <= Len(s)
    PROVE  Word(s, i) \in Word16
<1>1. s[i] \in Byte /\ s[i + 1] \in Byte
  <2>1. Len(s) \in Nat
    BY LenProperties
  <2>2. i \in 1..Len(s) /\ i + 1 \in 1..Len(s)
    BY <2>1
  <2>. QED BY <2>2, ElementOfSeq
<1>. DEFINE x == s[i]
            y == s[i + 1]
<1>2. Word(s, i) = x + 256 * y
  BY DEF Word
<1>3. x \in Byte /\ y \in Byte
  BY <1>1
<1>. HIDE DEF x, y
<1>4. x \in Int /\ y \in Int /\ 0 <= x /\ x <= 255 /\ 0 <= y /\ y <= 255
  BY <1>3 DEF Byte
<1>5. PICK w \in Int : w = x + 256 * y /\ 0 <= w /\ w <= 65535
  BY <1>4
<1>6. w \in Word16
  BY <1>5 DEF Word16
<1>. QED BY <1>2, <1>5, <1>6

\* One byte keeps the types, and the decoder's buffer is not left.
LEMMA DecodeTypes ==
    ASSUME TypeOK, Len(frame_buffer) <= frame_buffer_size, NEW a \in Byte, DecodeFrame(a)
    PROVE  /\ decoding' \in BOOLEAN /\ escaping' \in BOOLEAN
           /\ frame_buffer' \in Seq(Byte) /\ Len(frame_buffer') <= frame_buffer_size
           /\ rx' \in [type : Word16, id : Word16, payload : Word16]
<1>1. /\ decoding \in BOOLEAN /\ escaping \in BOOLEAN
      /\ frame_buffer \in Seq(Byte) /\ Len(frame_buffer) \in Nat
      /\ rx \in [type : Word16, id : Word16, payload : Word16]
      /\ frame_buffer_size \in Nat
  BY LenProperties, FrameAssumption DEF TypeOK
<1>2. PICK u \in Byte : u = Unescaped(a)
  BY ByteSent DEF Unescaped
<1>3. PICK got \in Seq(Byte) :
         got = Append(frame_buffer, u) /\ Len(got) = Len(frame_buffer) + 1
  <2>. DEFINE v == Append(frame_buffer, u)
  <2>1. v \in Seq(Byte) /\ Len(v) = Len(frame_buffer) + 1
    BY <1>1, OneByteMore
  <2>. QED BY <2>1
<1>4. ~Full => Len(got) <= frame_buffer_size
  BY <1>1, <1>3 DEF Full
<1>5. CASE StartByte(a)
  <2>1. /\ decoding' = TRUE /\ frame_buffer' = <<>> /\ rx' = [rx EXCEPT !.payload = 0]
        /\ escaping' = escaping
    BY <1>5 DEF StartByte
  <2>2. 0 \in Word16
    BY DEF Word16
  <2>3. [rx EXCEPT !.payload = 0] \in [type : Word16, id : Word16, payload : Word16]
    BY <1>1, <2>2
  <2>4. <<>> \in Seq(Byte) /\ Len(<<>>) = 0
    BY EmptySeq
  <2>. QED BY <1>1, <2>1, <2>3, <2>4
<1>6. CASE OutsideByte(a) \/ EscapeByte(a) \/ Overflow(a)
  BY <1>1, <1>6 DEF OutsideByte, EscapeByte, Overflow, framerVars
<1>7. CASE HeaderByte(a)
  <2>1. ~Full /\ frame_buffer' = got /\ escaping' = FALSE
    BY <1>2, <1>3, <1>7 DEF HeaderByte
  <2>2. decoding' \in BOOLEAN
    BY <1>7, Zenon DEF HeaderByte
  <2>3. rx' = rx \/ (Len(got) = 8 /\ rx' = Header(got))
    BY <1>2, <1>3, <1>7 DEF HeaderByte
  <2>4. Len(got) = 8 => Header(got) \in [type : Word16, id : Word16, payload : Word16]
    <3>1. SUFFICES ASSUME Len(got) = 8
                   PROVE  Header(got) \in [type : Word16, id : Word16, payload : Word16]
      OBVIOUS
    <3>2. /\ 1 \in Nat /\ 1 >= 1 /\ 1 + 1 <= Len(got)
          /\ 3 \in Nat /\ 3 >= 1 /\ 3 + 1 <= Len(got)
          /\ 5 \in Nat /\ 5 >= 1 /\ 5 + 1 <= Len(got)
      BY <3>1
    <3>3. Word(got, 1) \in Word16
      BY <3>2, WordOf
    <3>4. Word(got, 3) \in Word16
      BY <3>2, WordOf
    <3>5. Word(got, 5) \in Word16
      BY <3>2, WordOf
    <3>. QED BY <3>3, <3>4, <3>5 DEF Header
  <2>. QED BY <1>1, <1>3, <1>4, <2>1, <2>2, <2>3, <2>4
<1>8. CASE PayloadByte(a)
  <2>1. ~Full /\ frame_buffer' = got /\ escaping' = FALSE /\ rx' = rx
    BY <1>2, <1>3, <1>8 DEF PayloadByte
  <2>2. decoding' \in BOOLEAN
    BY <1>8, Zenon DEF PayloadByte
  <2>. QED BY <1>1, <1>3, <1>4, <2>1, <2>2
<1>. QED BY <1>5, <1>6, <1>7, <1>8 DEF DecodeFrame

-----------------------------------------------------------------------------
(* The answers                                                             *)

\* What is sent for bytes of which the first two are sent as they are: two for
\* each of the others at most.
LEMMA TwoSentPlain ==
    ASSUME NEW W, Byte \subseteq W, NEW c \in Seq(W), Len(c) >= 2,
           c[1] \notin Special, c[2] \notin Special
    PROVE  /\ Escaped(c)[1] \in Seq(W)
           /\ Len(Escaped(c)[1]) \in Nat /\ Len(Escaped(c)[1]) <= 2 * Len(c) - 2
<1>1. PICK n \in Nat : n = Len(c) /\ n >= 2
  BY LenProperties
<1>2. PICK E : E = Escaped(c)
  OBVIOUS
<1>3. ASSUME NEW i \in 1..n
      PROVE  AddWithEscape(c[i]) \in Seq(W) /\ Len(AddWithEscape(c[i])) \in 1..2
  <2>1. c[i] \in W
    BY <1>1, <1>3, ElementOfSeq
  <2>2. CASE c[i] \in Special
    <3>0. Flag \in Byte /\ Escape \in Byte
      BY DEF Flag, Escape, Byte
    <3>1. c[i] \in Byte /\ Escape \in W
      BY <2>2, <3>0 DEF Special
    <3>2. Flipped(c[i]) \in W /\ AddWithEscape(c[i]) = <<Escape, Flipped(c[i])>>
      BY <2>2, <3>1, ByteSent
    <3>. QED BY <3>1, <3>2
  <2>3. CASE c[i] \notin Special
    <3>1. AddWithEscape(c[i]) = <<c[i]>>
      BY <2>3 DEF Special, AddWithEscape
    <3>. QED BY <2>1, <3>1
  <2>. QED BY <2>2, <2>3
<1>4. /\ E[3] \in Seq(W) /\ Len(E[3]) \in n - 2..2 * (n - 2)
      /\ E[2] \in Seq(W) /\ E[1] \in Seq(W)
  <2>1. \A i \in 1..n + 1 : E[i] \in Seq(W) /\ Len(E[i]) \in n + 1 - i..2 * (n + 1 - i)
    BY <1>1, <1>2, <1>3, EscapedLengths
  <2>2. 1 \in 1..n + 1 /\ 2 \in 1..n + 1 /\ 3 \in 1..n + 1 /\ n + 1 - 3 = n - 2
    BY <1>1
  <2>. QED BY <2>1, <2>2
<1>5. E[1] = <<c[1]>> \o E[2] /\ E[2] = <<c[2]>> \o E[3]
  <2>1. \A i \in 1..n + 1 : E[i] = IF i = n + 1 THEN <<>> ELSE AddWithEscape(c[i]) \o E[i + 1]
    BY <1>1, <1>2, EscapedIs
  <2>2. 1 \in 1..n + 1 /\ 2 \in 1..n + 1 /\ 1 # n + 1 /\ 2 # n + 1 /\ 1 + 1 = 2 /\ 2 + 1 = 3
    BY <1>1
  <2>3. AddWithEscape(c[1]) = <<c[1]>> /\ AddWithEscape(c[2]) = <<c[2]>>
    BY DEF AddWithEscape, Special
  <2>. QED BY <2>1, <2>2, <2>3
<1>6. c[1] \in W /\ c[2] \in W
  BY <1>1, ElementOfSeq
<1>7. <<c[1]>> \in Seq(W) /\ <<c[2]>> \in Seq(W) /\ Len(<<c[1]>>) = 1 /\ Len(<<c[2]>>) = 1
  BY <1>6
<1>8. Len(E[1]) = 1 + Len(E[2]) /\ Len(E[2]) = 1 + Len(E[3])
  BY <1>4, <1>5, <1>7, ConcatProperties
<1>. DEFINE l1 == Len(E[1])
            l2 == Len(E[2])
            l3 == Len(E[3])
<1>9. l1 = 1 + l2 /\ l2 = 1 + l3 /\ l3 \in n - 2..2 * (n - 2)
  BY <1>4, <1>8
<1>. HIDE DEF l1, l2, l3
<1>10. l1 \in Nat /\ l1 <= 2 * n - 2
  BY <1>1, <1>9
<1>. QED BY <1>1, <1>2, <1>4, <1>10 DEF l1

\* The bytes of an answer, whatever its sums are, fit the buffer GenerateFrame was
\* given when its test lets it go on.
LEMMA AnswerFits ==
    ASSUME NEW size \in Nat, NEW type \in {PingACK, CommandACK}, NEW id, NEW payload \in Seq(Byte),
           2 * (10 + Len(payload)) <= size, NEW random
    PROVE  Len(GenerateFrame(random, size, type, id, payload)) \in 1..size
<1>1. PICK l \in Nat : l = Len(payload) /\ 2 * (10 + l) <= size
  BY LenProperties
<1>2. PICK a1, a2, a3 : a1 = Bytes(type) /\ a2 = Bytes(id) /\ a3 = Bytes(l)
  OBVIOUS
<1>3. PICK a : a = a1 \o a2 \o a3 /\ a = FirstPart(type, id, Len(payload))
  BY <1>1, <1>2 DEF FirstPart
<1>4. PICK b, d : b = Bytes(crc(a)) /\ d = Bytes(crc(payload))
  OBVIOUS
<1>5. PICK W : W = Byte \cup {a1[1], a1[2], a2[1], a2[2], a3[1], a3[2], b[1], b[2], d[1], d[2],
                              random, Flag}
  OBVIOUS
<1>6. /\ a1 \in Seq(W) /\ a2 \in Seq(W) /\ a3 \in Seq(W) /\ b \in Seq(W) /\ d \in Seq(W)
      /\ Len(a1) = 2 /\ Len(a2) = 2 /\ Len(a3) = 2 /\ Len(b) = 2 /\ Len(d) = 2
  BY <1>2, <1>4, <1>5 DEF Bytes
<1>7. a1[1] \notin Special /\ a1[2] \notin Special
  BY <1>2 DEF Bytes, PingACK, CommandACK, Special, Flag, Escape
<1>8. /\ a \in Seq(W) /\ Len(a) = 6 /\ a[1] = a1[1] /\ a[2] = a1[2]
  <2>1. PICK u : u = a1 \o a2
    OBVIOUS
  <2>2. Joined(u, a1, a2, W)
    BY <1>6, <2>1, JoinIs
  <2>3. u \in Seq(W) /\ Len(u) = 4 /\ u[1] = a1[1] /\ u[2] = a1[2]
    BY <1>6, <2>2 DEF Joined
  <2>4. Joined(a, u, a3, W)
    BY <1>3, <1>6, <2>1, <2>3, JoinIs
  <2>5. a[1] = u[1] /\ a[2] = u[2]
    BY <2>3, <2>4 DEF Joined
  <2>. QED BY <1>6, <2>3, <2>4, <2>5 DEF Joined
<1>9. payload \in Seq(W)
  BY <1>5
<1>10. PICK c : c = a \o b \o payload \o d /\ c = Content(type, id, payload)
  BY <1>3, <1>4 DEF Content
<1>11. InParts(c, a, b, payload, d, W)
  BY <1>6, <1>8, <1>9, <1>10, FourParts
<1>12. /\ c \in Seq(W) /\ Len(c) = 10 + l /\ c[1] = a1[1] /\ c[2] = a1[2]
  BY <1>1, <1>8, <1>11 DEF InParts
<1>13. PICK e : e = Escaped(c)[1]
  OBVIOUS
<1>14. e \in Seq(W) /\ Len(e) \in Nat /\ Len(e) <= 2 * (10 + l) - 2
  <2>1. Byte \subseteq W /\ Len(c) >= 2
    BY <1>5, <1>12
  <2>. QED BY <1>7, <1>12, <1>13, <2>1, TwoSentPlain
<1>15. GenerateFrame(random, size, type, id, payload) = <<random, Flag>> \o e
  BY <1>1, <1>10, <1>13 DEF GenerateFrame
<1>16. Len(<<random, Flag>> \o e) = 2 + Len(e)
  <2>1. <<random, Flag>> \in Seq(W) /\ Len(<<random, Flag>>) = 2
    BY <1>5
  <2>. QED BY <1>14, <2>1, ConcatProperties
<1>17. PICK k \in Nat : k = Len(e)
  BY <1>14
<1>18. 2 + k \in 1..size
  BY <1>1, <1>14, <1>17
<1>. QED BY <1>15, <1>16, <1>17, <1>18

\* An answer is made in its buffer.
LEMMA AnswerTypes ==
    ASSUME TypeOK, Answer, main = "decode"
    PROVE  /\ main' \in {"decode", "pad", "encrypt"}
           /\ DOMAIN buffer' = 1..Client_Tx_Buffer_Size + 16
           /\ length' \in 0..Client_Tx_Buffer_Size
           /\ main' # "decode" => length' > 0
<1>1. CASE taken' # taken /\ rx.type \in {Ping, Command}
  <2>1. PICK r \in RandomBytes, type \in {PingACK, CommandACK}, payload \in {<<>>, Message} :
           Put(GenerateFrame(r, Client_Tx_Buffer_Size, type, rx.id, payload))
    <3>1. CASE rx.type = Ping
      BY <1>1, <3>1 DEF Answer
    <3>2. CASE rx.type # Ping
      BY <1>1, <3>2 DEF Answer
    <3>. QED BY <3>1, <3>2
  <2>2. payload \in Seq(Byte) /\ 2 * (10 + Len(payload)) <= Client_Tx_Buffer_Size
        /\ Client_Tx_Buffer_Size \in Nat
    <3>1. Message \in Seq(Byte) /\ 2 * (10 + Len(Message)) <= Client_Tx_Buffer_Size
          /\ Client_Tx_Buffer_Size \in Nat
      BY FrameAssumption
    <3>2. CASE payload = Message
      BY <3>1, <3>2
    <3>3. CASE payload = <<>>
      <4>1. Len(payload) = 0 /\ payload \in Seq(Byte) /\ Len(Message) \in Nat
        BY <3>1, <3>3, EmptySeq, LenProperties
      <4>. QED BY <3>1, <4>1
    <3>. QED BY <3>2, <3>3
  <2>3. PICK g : g = GenerateFrame(r, Client_Tx_Buffer_Size, type, rx.id, payload)
    OBVIOUS
  <2>4. Len(g) \in 1..Client_Tx_Buffer_Size
    BY <2>2, <2>3, AnswerFits
  <2>5. length' = Len(g) /\ DOMAIN buffer' = DOMAIN buffer
    BY <2>1, <2>3 DEF Put
  <2>6. main' = "pad"
    BY <1>1 DEF Answer
  <2>7. length' \in 0..Client_Tx_Buffer_Size /\ length' > 0
    BY <2>2, <2>4, <2>5
  <2>. QED BY <2>5, <2>6, <2>7 DEF TypeOK
<1>2. CASE ~(taken' # taken /\ rx.type \in {Ping, Command})
  BY <1>2 DEF Answer, answerVars, TypeOK
<1>. QED BY <1>1, <1>2

\* A byte is decoded, and an answer may be made.
LEMMA ParseTypes ==
    ASSUME TypeOK, Len(frame_buffer) <= frame_buffer_size, ParseRawRx
    PROVE  /\ TypeOK' /\ Len(frame_buffer') <= frame_buffer_size
           /\ main' # "decode" => length' > 0
<1>1. /\ Head(stream) \in Byte /\ DecodeFrame(Head(stream))
      /\ UNCHANGED <<frame, missing, previous, before>>
  BY Parsed
<1>2. /\ decoding' \in BOOLEAN /\ escaping' \in BOOLEAN
      /\ frame_buffer' \in Seq(Byte) /\ Len(frame_buffer') <= frame_buffer_size
      /\ rx' \in [type : Word16, id : Word16, payload : Word16]
  BY <1>1, DecodeTypes
<1>3. /\ main' \in {"decode", "pad", "encrypt"}
      /\ DOMAIN buffer' = 1..Client_Tx_Buffer_Size + 16
      /\ length' \in 0..Client_Tx_Buffer_Size
      /\ main' # "decode" => length' > 0
  BY AnswerTypes DEF ParseRawRx
<1>4. stream' \in Seq(Byte)
  BY Parsed, HeadTailProperties
<1>. QED BY <1>1, <1>2, <1>3, <1>4 DEF TypeOK

-----------------------------------------------------------------------------
(* What the client sends                                                   *)

\* Whole blocks are not more than there is to send.
LEMMA WholeBlocks ==
    ASSUME NEW B \in Nat, B > 1, NEW P \in Nat, NEW n \in Nat, n >= 1, n <= P \div B
    PROVE  n * B \in Nat /\ n * B >= 2 /\ n * B <= P
<1>1. PICK d \in Nat : d = P \div B /\ d * B <= P
  OBVIOUS
<1>2. n * B <= d * B
  BY <1>1
<1>3. n * B >= B /\ n * B \in Nat
  OBVIOUS
<1>. QED BY <1>1, <1>2, <1>3

\* The blocks that arrive hold the bytes in their order, and zeros behind them.
LEMMA BlocksSent ==
    ASSUME NEW u \in Seq(Byte), Len(u) >= 1, NEW n \in 1..Len(Padded(u)) \div BlockSize
    PROVE  /\ SubSeq(Padded(u), 1, n * BlockSize) \in Seq(Byte)
           /\ Len(SubSeq(Padded(u), 1, n * BlockSize)) = n * BlockSize
           /\ n * BlockSize \in Nat /\ n * BlockSize >= 2
           /\ \A k \in 1..n * BlockSize :
                 SubSeq(Padded(u), 1, n * BlockSize)[k] = IF k <= Len(u) THEN u[k] ELSE 0
<1>1. PICK l \in Nat : l = Len(u) /\ l >= 1
  BY LenProperties
<1>2. PICK B \in Nat : B = BlockSize /\ B > 1
  BY FrameAssumption
<1>3. PICK q \in Nat : q = (B - 1) - ((l - 1) % B)
  <2>1. (l - 1) % B \in 0..B - 1
    BY <1>1, <1>2
  <2>. QED BY <1>2, <2>1
<1>4. PICK z : z = [i \in 1..q |-> 0]
  OBVIOUS
<1>5. z \in Seq(Byte) /\ Len(z) = q /\ \A k \in 1..q : z[k] = 0
  <2>1. 0 \in Byte
    BY DEF Byte
  <2>. QED BY <1>4, <2>1
<1>6. PICK p : p = Padded(u) /\ p = u \o z
  BY <1>1, <1>2, <1>3, <1>4 DEF Padded
<1>7. /\ p \in Seq(Byte) /\ Len(p) = l + q
      /\ \A k \in 1..l : p[k] = u[k]
      /\ \A k \in 1..q : p[l + k] = z[k]
  <2>1. Joined(p, u, z, Byte)
    BY <1>5, <1>6, JoinIs
  <2>. QED BY <1>1, <1>5, <2>1 DEF Joined
<1>8. PICK m \in Nat : m = n * B /\ m >= 2 /\ m <= l + q
  <2>1. l + q \in Nat /\ n \in Nat /\ n >= 1 /\ n <= (l + q) \div B
    <3>1. n \in 1..Len(p) \div B /\ Len(p) = l + q
      BY <1>2, <1>6, <1>7
    <3>2. PICK t \in Int : t = (l + q) \div B
      BY <1>2
    <3>3. n \in 1..t
      BY <3>1, <3>2
    <3>. QED BY <3>2, <3>3
  <2>. QED BY <1>2, <2>1, WholeBlocks
<1>9. PICK s : s = SubSeq(p, 1, m)
  OBVIOUS
<1>10. s \in Seq(Byte) /\ Len(s) = m /\ \A k \in 1..m : s[k] = p[k]
  <2>1. \A k \in 1..m : p[k] \in Byte
    BY <1>7, <1>8, ElementOfSeq
  <2>2. /\ s \in Seq(Byte)
        /\ Len(s) = IF 1 <= m THEN m - 1 + 1 ELSE 0
        /\ \A k \in 1..m - 1 + 1 : s[k] = p[1 + k - 1]
    BY <1>8, <1>9, <2>1, SubSeqProperties
  <2>3. m - 1 + 1 = m /\ \A k \in 1..m : 1 + k - 1 = k
    OBVIOUS
  <2>. QED BY <1>8, <2>2, <2>3
<1>11. ASSUME NEW k \in 1..m PROVE s[k] = IF k <= l THEN u[k] ELSE 0
  <2>1. CASE k <= l
    BY <1>7, <1>10, <2>1
  <2>2. CASE ~(k <= l)
    <3>1. PICK j \in 1..q : k = l + j
      <4>1. k - l \in 1..q /\ k = l + (k - l)
        BY <1>8, <2>2
      <4>. QED BY <4>1
    <3>2. p[k] = 0
      BY <1>5, <1>7, <3>1
    <3>. QED BY <1>10, <2>2, <3>2
  <2>. QED BY <2>1, <2>2
<1>. QED BY <1>1, <1>2, <1>6, <1>8, <1>9, <1>10, <1>11

\* What a client sends for a frame.
LEMMA EncodedIs ==
    ASSUME NEW f \in Frames, NEW r \in Byte
    PROVE  /\ Encoded(f, r) = <<r, Flag>> \o Escaped(Of(f))[1]
           /\ Encoded(f, r) \in Seq(Byte) /\ Len(Encoded(f, r)) >= 2
<1>1. PICK l \in Nat : l = Len(f.payload)
  BY ContentIs
<1>2. PICK e : e = Escaped(Of(f))[1]
  OBVIOUS
<1>3. Encoded(f, r) = <<r, Flag>> \o e
  <2>1. ~(2 * (10 + l) < 2 * (10 + l))
    OBVIOUS
  <2>. QED BY <1>1, <1>2, <2>1 DEF Encoded, GenerateFrame, Of
<1>4. e \in Seq(Byte)
  <2>1. 0 \in 0..Len(Of(f))
    BY ContentIs
  <2>2. Escaped(Of(f))[0 + 1] \in Seq(Byte)
    BY <2>1, RestOf
  <2>. QED BY <1>2, <2>2
<1>5. <<r, Flag>> \in Seq(Byte) /\ Len(<<r, Flag>>) = 2
  <2>1. Flag \in Byte
    BY DEF Flag, Byte
  <2>. QED BY <2>1
<1>6. PICK u : u = <<r, Flag>> \o e
  OBVIOUS
<1>7. u \in Seq(Byte) /\ Len(u) = 2 + Len(e) /\ Len(e) \in Nat
  BY <1>4, <1>5, <1>6, ConcatProperties, LenProperties
<1>8. Len(u) >= 2
  BY <1>7
<1>. QED BY <1>2, <1>3, <1>6, <1>7, <1>8

\* The frame in transmission broke off: the decoder holds some of it and waits for
\* the rest.
Abandoned ==
    /\ missing >= 1
    /\ \/ Len(frame_buffer) <= 7
       \/ \E n \in 8..Len(Of(frame)) - 1 :
             /\ Taking(frame, n)
             /\ n = Len(Of(frame)) - 1 =>
                   missing = 1 \/ (~escaping /\ Of(frame)[n + 1] \in Special)

\* When nothing is left to decode, the decoder is off or its frame broke off.
LEMMA EndOfStream ==
    ASSUME TypeOK, DecoderInv, stream = <<>>
    PROVE  (~decoding /\ ~escaping) \/ (decoding /\ Abandoned)
<1>1. PICK f \in Frames : f = frame
  BY DEF TypeOK
<1>2. PICK N \in Nat : N = Len(Of(f)) /\ N >= 10
  BY <1>1, ContentIs
<1>3. PICK n \in 0..N : AtByte(n) \/ AtSecond(n)
  <2>1. ~AtRandom /\ ~AtFlag
    <3>1. Len(stream) = 0
      BY EmptySeq
    <3>. QED BY <3>1 DEF AtRandom, AtFlag
  <2>. QED BY <1>1, <1>2, <2>1 DEF DecoderInv
<1>4. PICK E : E = Escaped(Of(f))
  OBVIOUS
<1>5. n = N - 1 => E[n + 2] = <<>>
  <2>1. SUFFICES ASSUME n = N - 1 PROVE E[n + 2] = <<>>
    OBVIOUS
  <2>2. N \in 0..Len(Of(f)) /\ n + 2 = N + 1
    BY <1>2, <2>1
  <2>. QED BY <1>2, <1>4, <2>2, RestOf
<1>6. CASE AtByte(n)
  <2>1. CASE Taking(frame, n) \/ Spoilt(n)
    <3>1. n < N /\ decoding /\ Len(frame_buffer) = n
      BY <1>1, <1>2, <2>1 DEF Taking, Spoilt
    <3>2. /\ E[n + 1] \in Seq(Byte) /\ Len(E[n + 1]) >= 1
          /\ Of(f)[n + 1] \notin Special => E[n + 1] = <<Of(f)[n + 1]>> \o E[n + 2]
      BY <1>2, <1>4, <3>1, RestOf
    <3>3. missing = Len(E[n + 1])
      BY <1>1, <1>4, <1>6, <3>2, NothingFollows DEF AtByte
    <3>4. n >= 8 => Taking(frame, n) /\ ~escaping
      BY <1>6, <2>1, <3>1 DEF Spoilt, AtByte, Off, Done
    <3>5. n = N - 1 => missing = 1 \/ Of(f)[n + 1] \in Special
      <4>1. SUFFICES ASSUME n = N - 1, Of(f)[n + 1] \notin Special PROVE missing = 1
        OBVIOUS
      <4>2. E[n + 1] = <<Of(f)[n + 1]>> \o <<>>
        BY <1>5, <3>2, <4>1
      <4>3. Len(<<Of(f)[n + 1]>> \o <<>>) = 1
        OBVIOUS
      <4>. QED BY <3>3, <4>2, <4>3
    <3>6. n >= 8 => n \in 8..Len(Of(frame)) - 1
      BY <1>1, <1>2, <3>1
    <3>7. n <= 7 \/ n >= 8
      OBVIOUS
    <3>. QED BY <1>1, <1>2, <3>1, <3>2, <3>3, <3>4, <3>5, <3>6, <3>7 DEF Abandoned
  <2>2. CASE ~(Taking(frame, n) \/ Spoilt(n))
    BY <1>6, <2>2 DEF AtByte, Off, Done
  <2>. QED BY <2>1, <2>2
<1>7. CASE AtSecond(n)
  <2>1. CASE Taking(frame, n) \/ Spoilt(n)
    <3>1. n < N /\ decoding /\ Len(frame_buffer) = n
      BY <1>1, <1>2, <2>1 DEF Taking, Spoilt
    <3>2. /\ Flipped(Of(f)[n + 1]) \in Byte /\ E[n + 2] \in Seq(Byte)
      BY <1>1, <1>2, <1>4, <1>7, <3>1, RestOf DEF AtSecond
    <3>3. PICK x \in Seq(Byte) : x = <<Flipped(Of(f)[n + 1])>> /\ Len(x) = 1
      <4>1. PICK y \in Byte : y = Flipped(Of(f)[n + 1])
        BY <3>2
      <4>2. <<y>> \in Seq(Byte) /\ Len(<<y>>) = 1
        OBVIOUS
      <4>. QED BY <4>1, <4>2
    <3>4. x \o E[n + 2] \in Seq(Byte) /\ Len(x \o E[n + 2]) = 1 + Len(E[n + 2])
      BY <3>2, <3>3, ConcatProperties
    <3>5. missing = Len(x \o E[n + 2])
      BY <1>1, <1>4, <1>7, <3>3, <3>4, NothingFollows DEF AtSecond
    <3>6. missing = 1 + Len(E[n + 2]) /\ Len(E[n + 2]) \in Nat
      BY <3>2, <3>4, <3>5, LenProperties
    <3>7. missing >= 1
      BY <3>6
    <3>8. n = N - 1 => missing = 1
      <4>1. SUFFICES ASSUME n = N - 1 PROVE missing = 1
        OBVIOUS
      <4>2. Len(E[n + 2]) = 0
        BY <1>5, <4>1, EmptySeq
      <4>. QED BY <3>6, <4>2
    <3>9. n >= 8 => Taking(frame, n) /\ n \in 8..Len(Of(frame)) - 1
      BY <1>1, <1>2, <2>1, <3>1 DEF Spoilt
    <3>10. n <= 7 \/ n >= 8
      OBVIOUS
    <3>. QED BY <1>1, <1>2, <3>1, <3>7, <3>8, <3>9, <3>10 DEF Abandoned
  <2>2. CASE ~(Taking(frame, n) \/ Spoilt(n))
    BY <1>7, <2>2 DEF AtSecond, Off
  <2>. QED BY <2>1, <2>2
<1>. QED BY <1>3, <1>6, <1>7

\* A transmission begins: the random byte is next, and the decoder is off, or has
\* something of the frame before, which broke off.
LEMMA FromEnd ==
    ASSUME TypeOK, DecoderInv, Transmit
    PROVE  TypeOK' /\ AtRandom' /\ UNCHANGED <<framerVars, main, answerVars>>
<1>1. /\ main = "decode" /\ stream = <<>> /\ taken' = <<>>
      /\ UNCHANGED <<framerVars, main, answerVars>> /\ previous' = frame /\ frame' \in Frames
      /\ before' = CASE missing = 0 -> IF Lost THEN "lost" ELSE "heard"
                     [] missing = 1 -> "last"
                     [] missing > 1 -> "cut"
  BY DEF Transmit
<1>2. PICK f \in Frames : f = frame'
  BY <1>1
<1>3. PICK r \in RandomBytes :
         \E n \in 1..Len(Padded(Encoded(f, r))) \div BlockSize :
            /\ stream' = SubSeq(Padded(Encoded(f, r)), 1, n * BlockSize)
            /\ missing' = IF n * BlockSize < Len(Encoded(f, r))
                          THEN Len(Encoded(f, r)) - n * BlockSize ELSE 0
  BY <1>2 DEF Transmit
<1>4. PICK u : u = Encoded(f, r)
  OBVIOUS
<1>5. r \in Byte \ {Flag}
  BY FrameAssumption
<1>6. u \in Seq(Byte) /\ Len(u) >= 2 /\ u = <<r, Flag>> \o Escaped(Of(f))[1] /\ Len(u) \in Nat
  BY <1>4, <1>5, EncodedIs, LenProperties
<1>7. PICK n \in 1..Len(Padded(u)) \div BlockSize :
         /\ stream' = SubSeq(Padded(u), 1, n * BlockSize)
         /\ missing' = IF n * BlockSize < Len(u) THEN Len(u) - n * BlockSize ELSE 0
  BY <1>3, <1>4
<1>8. PICK m \in Nat : m = n * BlockSize /\ m >= 2 /\ Len(stream') = m /\ stream' \in Seq(Byte)
                       /\ \A k \in 1..m : stream'[k] = IF k <= Len(u) THEN u[k] ELSE 0
  <2>1. Len(u) >= 1
    BY <1>6
  <2>2. PICK s : s = SubSeq(Padded(u), 1, n * BlockSize)
    OBVIOUS
  <2>3. /\ s \in Seq(Byte) /\ Len(s) = n * BlockSize
        /\ n * BlockSize \in Nat /\ n * BlockSize >= 2
        /\ \A k \in 1..n * BlockSize : s[k] = IF k <= Len(u) THEN u[k] ELSE 0
    BY <1>6, <2>1, <2>2, BlocksSent
  <2>. QED BY <1>7, <2>2, <2>3
<1>9. missing' = (IF m < Len(u) THEN Len(u) - m ELSE 0) /\ missing' \in Nat
  <2>1. PICK l \in Nat : l = Len(u)
    BY <1>6
  <2>2. missing' = IF m < l THEN l - m ELSE 0
    BY <1>7, <1>8, <2>1
  <2>3. missing' \in Nat
    BY <2>2
  <2>. QED BY <2>1, <2>2, <2>3
<1>10. Follows(u)'
  BY <1>8, <1>9 DEF Follows
<1>11. \E x \in Byte \ {Flag} : Follows(<<x, Flag>> \o Escaped(Of(frame))[1])'
  BY <1>2, <1>5, <1>6, <1>10
<1>12. before' \in {"heard", "lost", "cut", "last"}
  <2>1. missing \in Nat
    BY DEF TypeOK
  <2>2. missing = 0 \/ missing = 1 \/ missing > 1
    BY <2>1
  <2>. QED BY <1>1, <2>2
<1>13. TypeOK'
  BY <1>1, <1>8, <1>9, <1>12 DEF TypeOK, framerVars, answerVars
<1>14. (decoding /\ Broken)' \/ (~decoding /\ ~escaping)'
  <2>1. CASE ~decoding /\ ~escaping
    BY <1>1, <2>1 DEF framerVars
  <2>2. CASE decoding /\ Abandoned
    <3>1. /\ missing = 1 \/ missing > 1
          /\ \/ Len(frame_buffer) <= 7
             \/ \E k \in 8..Len(Of(frame)) - 1 :
                   /\ Taking(frame, k)
                   /\ k = Len(Of(frame)) - 1 =>
                         missing = 1 \/ (~escaping /\ Of(frame)[k + 1] \in Special)
      BY <2>2 DEF Abandoned, TypeOK
    <3>2. (missing = 1 => before' = "last") /\ (missing > 1 => before' = "cut")
      BY <1>1
    <3>3. BrokeOff'
      BY <3>1, <3>2 DEF BrokeOff
    <3>4. UNCHANGED <<decoding, escaping, frame_buffer, rx>>
      BY <1>1 DEF framerVars
    <3>5. CASE Len(frame_buffer) <= 7
      BY <2>2, <3>3, <3>4, <3>5 DEF Broken
    <3>6. CASE \E k \in 8..Len(Of(frame)) - 1 :
                   /\ Taking(frame, k)
                   /\ k = Len(Of(frame)) - 1 =>
                         missing = 1 \/ (~escaping /\ Of(frame)[k + 1] \in Special)
      <4>1. PICK k \in 8..Len(Of(frame)) - 1 :
                   /\ Taking(frame, k)
                   /\ k = Len(Of(frame)) - 1 =>
                         missing = 1 \/ (~escaping /\ Of(frame)[k + 1] \in Special)
        BY <3>6
      <4>2. PICK g : g = frame /\ g = previous'
        BY <1>1
      <4>3. Taking(previous, k)'
        BY <3>4, <4>1, <4>2 DEF Taking
      <4>4. k = Len(Of(g)) - 1 => before' = "last" \/ (~escaping' /\ Of(g)[k + 1] \in Special)
        BY <3>2, <3>4, <4>1, <4>2
      <4>5. k \in 8..Len(Of(g)) - 1
        BY <4>1, <4>2
      <4>6. \E j \in 8..Len(Of(previous')) - 1 :
             /\ Taking(previous, j)'
             /\ j = Len(Of(previous')) - 1 =>
                   before' = "last" \/ (~escaping' /\ Of(previous')[j + 1] \in Special)
        BY <4>2, <4>3, <4>4, <4>5
      <4>7. Broken'
        BY <3>3, <4>6 DEF Broken
      <4>. QED BY <2>2, <3>4, <4>7
    <3>. QED BY <3>1, <3>5, <3>6
  <2>. QED BY <1>1, <2>1, <2>2, EndOfStream
<1>15. Len(stream') >= 2 /\ taken' = <<>>
  BY <1>1, <1>8
<1>16. AtRandom'
  BY <1>11, <1>14, <1>15 DEF AtRandom
<1>. QED BY <1>1, <1>13, <1>16

-----------------------------------------------------------------------------
(* The invariant                                                           *)

\* It holds at the start: nothing is in transmission.
LEMMA FramesInit ==
    Init => FramesInv
<1>1. SUFFICES ASSUME Init PROVE FramesInv
  OBVIOUS
<1>2. PICK f \in Frames : f = frame
  BY <1>1 DEF Init
<1>3. PICK N \in Nat : N = Len(Of(f))
  BY <1>2, ContentIs
<1>4. /\ decoding = FALSE /\ escaping = FALSE /\ frame_buffer = <<>> /\ rx = NoHeader
      /\ stream = <<>> /\ main = "decode" /\ missing = 0 /\ length = 0
      /\ buffer = [i \in 1..Client_Tx_Buffer_Size + 16 |-> Cipher]
      /\ taken = <<[of |-> frame, first |-> FALSE]>> /\ previous = frame /\ before = "heard"
  BY <1>1 DEF Init
<1>5. TypeOK
  <2>1. <<>> \in Seq(Byte)
    BY EmptySeq
  <2>2. rx \in [type : Word16, id : Word16, payload : Word16]
    BY <1>4 DEF NoHeader, Word16
  <2>3. Client_Tx_Buffer_Size \in Nat
    BY FrameAssumption
  <2>4. length \in 0..Client_Tx_Buffer_Size
    BY <1>4, <2>3
  <2>5. DOMAIN buffer = 1..Client_Tx_Buffer_Size + 16
    BY <1>4
  <2>. QED BY <1>2, <1>4, <2>1, <2>2, <2>4, <2>5 DEF TypeOK
<1>6. Follows(Escaped(Of(f))[N + 1])
  <2>1. N \in 0..Len(Of(f)) /\ N = Len(Of(f))
    BY <1>3
  <2>2. Escaped(Of(f))[N + 1] = <<>>
    BY <2>1, RestOf
  <2>3. Follows(<<>>)
    <3>1. Len(<<>>) = 0 /\ Len(stream) = 0
      BY <1>4, EmptySeq
    <3>. QED BY <1>4, <3>1 DEF Follows
  <2>. QED BY <2>2, <2>3
<1>7. Done /\ ~escaping
  BY <1>4 DEF Done, Own
<1>8. AtByte(N)
  BY <1>2, <1>3, <1>6, <1>7 DEF AtByte
<1>9. DecoderInv
  BY <1>2, <1>3, <1>8 DEF DecoderInv
<1>10. Len(frame_buffer) <= frame_buffer_size
  <2>1. Len(frame_buffer) = 0 /\ frame_buffer_size \in Nat
    BY <1>4, EmptySeq, FrameAssumption
  <2>. QED BY <2>1
<1>. QED BY <1>4, <1>5, <1>9, <1>10 DEF FramesInv

\* Each byte that is decoded leads from one place of the frame to the next.
LEMMA DecoderParses ==
    ASSUME TypeOK, DecoderInv, ParseRawRx
    PROVE  DecoderInv'
<1>1. PICK f \in Frames : f = frame /\ f = frame'
  BY Parsed DEF TypeOK
<1>2. PICK N \in Nat : N = Len(Of(f)) /\ N = Len(Of(frame)) /\ N = Len(Of(frame'))
  BY <1>1, ContentIs
<1>3. CASE AtRandom
  BY <1>3, FromRandom DEF DecoderInv
<1>4. CASE AtFlag
  <2>1. AtByte(0)' /\ 0 \in 0..Len(Of(frame'))
    BY <1>2, <1>4, FromFlag
  <2>. QED BY <2>1 DEF DecoderInv
<1>5. CASE \E n \in 0..Len(Of(frame)) : AtByte(n) \/ AtSecond(n)
  <2>1. PICK n \in 0..Len(Of(frame)) : AtByte(n) \/ AtSecond(n)
    BY <1>5
  <2>2. n \in 0..N /\ (n < N => n + 1 \in 0..N)
    BY <1>2, <2>1
  <2>3. CASE AtByte(n)
    <3>1. IF n = N THEN AtByte(n)' ELSE AtByte(n + 1)' \/ AtSecond(n)'
      BY <1>2, <2>1, <2>3, FromByte
    <3>2. \E k \in 0..N : AtByte(k)' \/ AtSecond(k)'
      BY <2>2, <3>1
    <3>. QED BY <1>2, <3>2 DEF DecoderInv
  <2>4. CASE AtSecond(n)
    <3>1. n < N /\ AtByte(n + 1)'
      BY <1>2, <2>1, <2>4, FromSecond
    <3>2. \E k \in 0..N : AtByte(k)' \/ AtSecond(k)'
      BY <2>2, <3>1
    <3>. QED BY <1>2, <3>2 DEF DecoderInv
  <2>. QED BY <2>1, <2>3, <2>4
<1>. QED BY <1>3, <1>4, <1>5 DEF DecoderInv

\* What is padded and encrypted is the answer's.
LEMMA DecoderRests ==
    ASSUME DecoderInv, UNCHANGED <<framerVars, stream, sentVars, taken>>
    PROVE  DecoderInv'
<1>1. /\ UNCHANGED <<decoding, escaping, frame_buffer, rx, stream, frame, missing, previous, before,
                     taken>>
  BY DEF framerVars, sentVars
<1>2. PICK f : f = frame /\ f = frame'
  BY <1>1
<1>3. ASSUME NEW rest PROVE Follows(rest)' <=> Follows(rest)
  BY <1>1 DEF Follows
<1>4. ASSUME NEW g, NEW n PROVE Taking(g, n)' <=> Taking(g, n)
  BY <1>1 DEF Taking
<1>5. ASSUME NEW n PROVE Spoilt(n)' <=> Spoilt(n)
  BY <1>1 DEF Spoilt, BrokeOff
<1>6. /\ Off' <=> Off
      /\ Earlier' <=> Earlier
      /\ Done' <=> Done
      /\ BrokeOff' <=> BrokeOff
  BY <1>1 DEF Off, Earlier, Done, BrokeOff, Own, Completed, Fits
<1>7. Broken' <=> Broken
  <2>1. PICK g : g = previous /\ g = previous'
    BY <1>1
  <2>. QED BY <1>1, <1>4, <1>6, <2>1 DEF Broken
<1>8. AtRandom' <=> AtRandom
  BY <1>1, <1>2, <1>3, <1>7 DEF AtRandom
<1>9. AtFlag' <=> AtFlag
  BY <1>1, <1>2, <1>3, <1>6 DEF AtFlag
<1>10. ASSUME NEW n PROVE AtByte(n)' <=> AtByte(n)
  BY <1>1, <1>2, <1>3, <1>4, <1>5, <1>6 DEF AtByte
<1>11. ASSUME NEW n PROVE AtSecond(n)' <=> AtSecond(n)
  BY <1>1, <1>2, <1>3, <1>4, <1>5, <1>6 DEF AtSecond
<1>. QED BY <1>2, <1>8, <1>9, <1>10, <1>11 DEF DecoderInv

\* Every step keeps the invariant.
LEMMA FramesNext ==
    FramesInv /\ [Next]_vars => FramesInv'
<1>1. SUFFICES ASSUME FramesInv, [Next]_vars PROVE FramesInv'
  OBVIOUS
<1>2. TypeOK /\ DecoderInv /\ Len(frame_buffer) <= frame_buffer_size
      /\ (main # "decode" => length > 0)
  BY <1>1 DEF FramesInv
<1>3. CASE Transmit
  <2>1. TypeOK' /\ AtRandom' /\ UNCHANGED <<framerVars, main, answerVars>>
    BY <1>2, <1>3, FromEnd
  <2>2. DecoderInv'
    BY <2>1 DEF DecoderInv
  <2>. QED BY <1>2, <2>1, <2>2 DEF FramesInv, framerVars, answerVars
<1>4. CASE ParseRawRx
  <2>1. TypeOK' /\ Len(frame_buffer') <= frame_buffer_size /\ (main' # "decode" => length' > 0)
    BY <1>2, <1>4, ParseTypes
  <2>2. DecoderInv'
    BY <1>2, <1>4, DecoderParses
  <2>. QED BY <2>1, <2>2 DEF FramesInv
<1>5. CASE Pad \/ Encrypt \/ UNCHANGED vars
  <2>1. /\ UNCHANGED <<framerVars, stream, length, sentVars, taken>>
        /\ DOMAIN buffer' = DOMAIN buffer
        /\ main' \in {"decode", "pad", "encrypt"} /\ (main' # "decode" => main # "decode")
    <3>1. CASE Pad
      BY <3>1 DEF Pad
    <3>2. CASE Encrypt
      BY <3>2 DEF Encrypt
    <3>3. CASE UNCHANGED vars
      BY <1>2, <3>3 DEF vars, answerVars, TypeOK
    <3>. QED BY <1>5, <3>1, <3>2, <3>3
  <2>2. DecoderInv'
    BY <1>2, <2>1, DecoderRests
  <2>3. TypeOK'
    BY <1>2, <2>1 DEF TypeOK, framerVars, sentVars
  <2>. QED BY <1>2, <2>1, <2>2, <2>3 DEF FramesInv, framerVars
<1>. QED BY <1>1, <1>3, <1>4, <1>5 DEF Next

\* Wherever a transmission breaks off and whatever follows it, what waits to be
\* decoded is the rest of one frame, and the decoder holds what came before it, was
\* spoilt by what broke off, or is off (Frame.cpp:26-93, 115-160).
THEOREM FramesInvariant == Spec => []FramesInv
BY FramesInit, FramesNext, PTL DEF Spec

\* The decoder's buffer is not left by a frame of any length, nor the one answers
\* are padded and encrypted in by an answer of any text that fits it
\* (Frame.cpp:45-93, 101, MasterApp.cpp:538-552).
THEOREM BuffersKept == Spec => []StaysInBuffers
<1>1. FramesInv => StaysInBuffers
  <2>1. SUFFICES ASSUME FramesInv PROVE StaysInBuffers
    OBVIOUS
  <2>2. length \in 0..Client_Tx_Buffer_Size /\ Client_Tx_Buffer_Size \in Nat
    BY <2>1, FrameAssumption DEF FramesInv, TypeOK
  <2>3. 16 * (1 + (length \div 16)) <= Client_Tx_Buffer_Size + 16
    <3>1. PICK q \in Int : q = length \div 16 /\ 16 * q <= length
      BY <2>2
    <3>. QED BY <2>2, <3>1
  <2>. QED BY <2>1, <2>3 DEF FramesInv, StaysInBuffers, blocks
<1>. QED BY <1>1, FramesInvariant, PTL

\* What is taken is what was sent, whole and once; the first byte of a
\* transmission completes the frame before at most, if it lacked only its last
\* byte (Frame.cpp:26-92, 110-113).
THEOREM FramesAreIntact == Spec => []FramesIntact
<1>1. FramesInv => FramesIntact
  <2>1. SUFFICES ASSUME FramesInv PROVE FramesIntact
    OBVIOUS
  <2>2. TypeOK /\ DecoderInv
    BY <2>1 DEF FramesInv
  <2>3. CASE Earlier
    <3>1. CASE taken = <<>>
      <4>1. Len(taken) = 0 /\ DOMAIN taken = {}
        BY <3>1, EmptySeq
      <4>. QED BY <4>1 DEF FramesIntact
    <3>2. CASE before = "last" /\ taken = <<Completed>>
      <4>1. Len(taken) = 1 /\ DOMAIN taken = {1} /\ taken[1] = Completed
        BY <3>2
      <4>2. Completed = [of |-> previous, first |-> TRUE]
        BY DEF Completed
      <4>3. \A i \in DOMAIN taken :
               before = "last" /\ taken[i] = [of |-> previous, first |-> TRUE] /\ i = 1
        BY <3>2, <4>1, <4>2
      <4>4. Len(taken) <= 2
        BY <4>1
      <4>. QED BY <4>3, <4>4, Zenon DEF FramesIntact
    <3>. QED BY <2>3, <3>1, <3>2 DEF Earlier
  <2>4. CASE Done /\ missing = 0
    <3>1. CASE taken = <<Own>>
      <4>1. Len(taken) = 1 /\ DOMAIN taken = {1} /\ taken[1] = Own
        BY <3>1
      <4>. QED BY <2>4, <4>1 DEF FramesIntact, Own
    <3>2. CASE before = "last" /\ taken = <<Completed, Own>>
      <4>1. Len(taken) = 2 /\ DOMAIN taken = {1, 2} /\ taken[1] = Completed /\ taken[2] = Own
        BY <3>2
      <4>2. Own = [of |-> frame, first |-> FALSE] /\ Completed = [of |-> previous, first |-> TRUE]
        BY DEF Own, Completed
      <4>3. \A i \in DOMAIN taken :
               \/ missing = 0 /\ taken[i] = [of |-> frame, first |-> FALSE]
               \/ before = "last" /\ taken[i] = [of |-> previous, first |-> TRUE] /\ i = 1
        BY <2>4, <3>2, <4>1, <4>2
      <4>4. Len(taken) <= 2
        BY <4>1
      <4>. QED BY <4>3, <4>4, Zenon DEF FramesIntact
    <3>. QED BY <2>4, <3>1, <3>2 DEF Done
  <2>5. Earlier \/ (Done /\ missing = 0)
    <3>1. CASE AtRandom \/ AtFlag
      BY <3>1 DEF AtRandom, AtFlag, Earlier
    <3>2. CASE \E n \in 0..Len(Of(frame)) : AtByte(n) \/ AtSecond(n)
      <4>1. PICK n \in 0..Len(Of(frame)) : AtByte(n) \/ AtSecond(n)
        BY <3>2
      <4>2. CASE AtSecond(n)
        BY <4>2 DEF AtSecond
      <4>3. CASE AtByte(n) /\ ~Earlier
        <5>1. n = Len(Of(frame)) /\ Done /\ Follows(Escaped(Of(frame))[n + 1])
          BY <4>3 DEF AtByte
        <5>2. Follows(<<>>)
          BY <2>2, <5>1, RestOf DEF TypeOK
        <5>3. Len(stream) \in Nat /\ Len(<<>>) = 0
          BY <2>2, LenProperties, EmptySeq DEF TypeOK
        <5>4. missing = 0
          BY <5>2, <5>3 DEF Follows
        <5>. QED BY <5>1, <5>4
      <4>. QED BY <4>1, <4>2, <4>3
    <3>. QED BY <2>2, <3>1, <3>2 DEF DecoderInv
  <2>. QED BY <2>3, <2>4, <2>5
<1>. QED BY <1>1, FramesInvariant, PTL

\* A frame that fits the decoder and was sent whole is lost only if the one before
\* it broke off (Frame.cpp:26-93).
THEOREM OnlyCutsLose == Spec => []OnlyCutLoses
<1>1. FramesInv => OnlyCutLoses
  <2>1. SUFFICES ASSUME FramesInv, stream = <<>>, Lost PROVE BrokeOff
    BY DEF OnlyCutLoses, BrokeOff
  <2>2. TypeOK /\ DecoderInv /\ missing = 0 /\ Fits(frame)
        /\ \A i \in DOMAIN taken : taken[i].first
    BY <2>1 DEF FramesInv, Lost
  <2>3. ~decoding
    BY <2>1, <2>2, EndOfStream DEF Abandoned
  <2>4. Len(stream) = 0
    BY <2>1, EmptySeq
  <2>5. PICK n \in 0..Len(Of(frame)) : AtByte(n) \/ AtSecond(n)
    BY <2>2, <2>4 DEF DecoderInv, AtRandom, AtFlag
  <2>6. Off \/ Done
    BY <2>3, <2>5 DEF AtByte, AtSecond, Taking, Spoilt
  <2>7. ~Done
    <3>1. Own.first = FALSE
      BY DEF Own
    <3>2. taken # <<Own>>
      <4>1. SUFFICES ASSUME taken = <<Own>> PROVE FALSE
        OBVIOUS
      <4>2. 1 \in DOMAIN taken /\ taken[1] = Own
        BY <4>1
      <4>. QED BY <2>2, <3>1, <4>2
    <3>3. taken # <<Completed, Own>>
      <4>1. SUFFICES ASSUME taken = <<Completed, Own>> PROVE FALSE
        OBVIOUS
      <4>2. 2 \in DOMAIN taken /\ taken[2] = Own
        BY <4>1
      <4>. QED BY <2>2, <3>1, <4>2
    <3>. QED BY <3>2, <3>3 DEF Done
  <2>. QED BY <2>2, <2>6, <2>7 DEF Off
<1>. QED BY <1>1, FramesInvariant, PTL
=============================================================================
