----------------------------- MODULE CommandFrames -----------------------------
(***************************************************************************)
(* The frames of the command server: Frame::GenerateFrame makes them,       *)
(* Frame::DecodeFrame takes them apart byte by byte, and MasterApp::Send     *)
(* encrypts an answer in the one buffer answers are made in.                *)
(*                                                                          *)
(* Bytes are numbers; what CRC16::calculate computes is a parameter.  There *)
(* is one decoder for all sessions, so that a transmission that breaks off  *)
(* leaves it in any state for the next one.                                 *)
(***************************************************************************)
EXTENDS Integers, Sequences

CONSTANTS
    crc(_),              \* the checksum of a sequence of bytes
    Frames,              \* the frames that are sent
    RandomBytes,         \* values of the first byte
    BlockSize,           \* of the cipher, in what the client sends
    Message,             \* the text of an answer
    frame_buffer_size,
    Client_Tx_Buffer_Size

Flag == 126              \* 0x7E
Escape == 125            \* 0x7D
Ping == 0
PingACK == 1
Command == 2
CommandACK == 3
Cipher == -1             \* a byte nobody can foresee: encrypted, or never set

Byte == 0..255
Word16 == {n \in Nat : n < 65536}  \* two bytes
Bytes(n) == <<n % 256, n \div 256>>
Word(s, i) == s[i] + 256 * s[i + 1]

\* b ^ 0x20
Flipped(b) == IF (b \div 32) % 2 = 0 THEN b + 32 ELSE b - 32

\* The header without its sum.
FirstPart(type, id, length) == Bytes(type) \o Bytes(id) \o Bytes(length)
FirstOf(f) == FirstPart(f.type, f.id, Len(f.payload))

\* A block of the cipher has room for more than the random byte; the texts of all
\* answers fit the buffer they are made in.
ASSUME FrameAssumption ==
    /\ Frames \subseteq [type : Word16, id : Word16, payload : Seq(Byte)]
    /\ \A f \in Frames : Len(f.payload) \in Word16
    /\ RandomBytes \subseteq Byte \ {Flag}
    /\ BlockSize \in Nat /\ BlockSize > 1
    /\ frame_buffer_size \in Nat /\ Client_Tx_Buffer_Size \in Nat
    /\ Message \in Seq(Byte) /\ 2 * (10 + Len(Message)) <= Client_Tx_Buffer_Size

\* The sum has two bytes, and tells a header from the one that differs in bit 5 of
\* its first byte.
ASSUME SumAssumption ==
    \A f \in Frames :
       /\ crc(f.payload) \in Word16 /\ crc(FirstOf(f)) \in Word16
       /\ crc([FirstOf(f) EXCEPT ![1] = Flipped(@)]) # crc(FirstOf(f))

-----------------------------------------------------------------------------
(* Frames                                                                  *)

\* Fault: the escape byte is not escaped.
AddWithEscapeFlag(b) == IF b = Flag THEN <<Escape, Flipped(b)>> ELSE <<b>>

AddWithEscape(b) == IF b \in {Flag, Escape} THEN <<Escape, Flipped(b)>> ELSE <<b>>

Content(type, id, payload) ==
    LET first == FirstPart(type, id, Len(payload))
    IN  first \o Bytes(crc(first)) \o payload \o Bytes(crc(payload))

\* What is sent for the bytes of a sequence from the i-th on.
Escaped(content) ==
    LET escaped[i \in 1..Len(content) + 1] ==
            IF i = Len(content) + 1 THEN <<>>
            ELSE AddWithEscape(content[i]) \o escaped[i + 1]
    IN  escaped

\* Nothing, if the buffer may be too small.
GenerateFrame(random, size, type, id, payload) ==
    IF size < 2 * (10 + Len(payload)) THEN <<>>
    ELSE <<random, Flag>> \o Escaped(Content(type, id, payload))[1]

Fits(f) == 10 + Len(f.payload) <= frame_buffer_size

\* What a client sends: frames, those longer than the decoder's buffer among them.
Encoded(f, r) == GenerateFrame(r, 2 * (10 + Len(f.payload)), f.type, f.id, f.payload)

\* ... padded with zeros to whole blocks.
Padded(bytes) ==
    bytes \o [i \in 1..(BlockSize - 1) - ((Len(bytes) - 1) % BlockSize) |-> 0]

VARIABLES
    decoding, escaping, frame_buffer, rx, \* the decoder; rx: type, id, length
    stream,              \* bytes that have arrived and are not decoded
    main,                \* "decode", "pad" or "encrypt"
    buffer, length,      \* Client_Tx_Buffer and the length of the answer
    (* history *)
    frame, missing,      \* the frame in transmission and how many bytes it lacks
    taken,               \* the frames decoded, and whether at the first byte
    previous, before     \* the frame before, and how it ended

framerVars == <<decoding, escaping, frame_buffer, rx>>
answerVars == <<buffer, length>>
sentVars == <<frame, missing, previous, before>>
vars == <<framerVars, stream, main, answerVars, sentVars, taken>>

NoHeader == [type |-> 0, id |-> 0, payload |-> 0]

\* Of an answer, in whole blocks of sixteen bytes.
blocks == 1 + (length \div 16)

TypeOK ==
    /\ decoding \in BOOLEAN /\ escaping \in BOOLEAN
    /\ frame_buffer \in Seq(Byte)
    /\ rx \in [type : Word16, id : Word16, payload : Word16]
    /\ stream \in Seq(Byte)
    /\ main \in {"decode", "pad", "encrypt"}
    /\ DOMAIN buffer = 1..Client_Tx_Buffer_Size + 16
    /\ length \in 0..Client_Tx_Buffer_Size
    /\ frame \in Frames /\ missing \in Nat
    /\ previous \in Frames /\ before \in {"heard", "lost", "cut", "last"}

Init ==
    /\ decoding = FALSE /\ escaping = FALSE /\ frame_buffer = <<>> /\ rx = NoHeader
    /\ stream = <<>> /\ main = "decode"
    /\ buffer = [i \in 1..Client_Tx_Buffer_Size + 16 |-> Cipher] /\ length = 0
    /\ frame \in Frames /\ missing = 0 /\ taken = <<[of |-> frame, first |-> FALSE]>>
    /\ previous = frame /\ before = "heard"

-----------------------------------------------------------------------------
\* A frame the decoder has room for was sent whole and not taken.
Lost == missing = 0 /\ Fits(frame) /\ \A i \in DOMAIN taken : taken[i].first

\* The client sends a frame, or breaks off after some of its blocks.
Transmit ==
    /\ main = "decode" /\ stream = <<>>
    /\ before' = CASE missing = 0 -> IF Lost THEN "lost" ELSE "heard"
                   [] missing = 1 -> "last"
                   [] missing > 1 -> "cut"
    /\ previous' = frame /\ frame' \in Frames
    /\ \E bytes \in {Encoded(frame', r) : r \in RandomBytes} :
          \E n \in 1..Len(Padded(bytes)) \div BlockSize :
             /\ stream' = SubSeq(Padded(bytes), 1, n * BlockSize)
             /\ missing' = IF n * BlockSize < Len(bytes) THEN Len(bytes) - n * BlockSize ELSE 0
    /\ taken' = <<>>
    /\ UNCHANGED <<framerVars, main, answerVars>>

-----------------------------------------------------------------------------
(* The decoder                                                             *)

Header(got) == [type |-> Word(got, 1), id |-> Word(got, 3), payload |-> Word(got, 5)]

\* Fault: the sum of the header is not compared.
GoodHeaderAny(got) == TRUE

GoodHeader(got) == Word(got, 7) = crc(SubSeq(got, 1, 6))
GoodPayload(got) == Word(got, 9 + rx.payload) = crc(SubSeq(got, 9, 8 + rx.payload))

\* Fault: a frame is as long as its header says.
FullNever == FALSE

Full == Len(frame_buffer) >= frame_buffer_size

\* A start byte begins a frame, whatever the decoder was in.  What was escaped
\* before it still is.
StartByte(a) ==
    /\ a = Flag
    /\ decoding' = TRUE /\ frame_buffer' = <<>> /\ rx' = [rx EXCEPT !.payload = 0]
    /\ UNCHANGED <<escaping, taken>>

OutsideByte(a) ==
    /\ a # Flag /\ ~decoding
    /\ UNCHANGED <<framerVars, taken>>

EscapeByte(a) ==
    /\ a = Escape /\ decoding
    /\ escaping' = TRUE
    /\ UNCHANGED <<decoding, frame_buffer, rx, taken>>

Unescaped(a) == IF escaping THEN Flipped(a) ELSE a

Overflow(a) ==
    /\ a \notin {Flag, Escape} /\ decoding /\ Full
    /\ decoding' = FALSE /\ escaping' = FALSE
    /\ UNCHANGED <<frame_buffer, rx, taken>>

\* The first eight bytes are the header.
HeaderByte(a) ==
    /\ a \notin {Flag, Escape} /\ decoding /\ ~Full
    /\ Len(frame_buffer) <= 7
    /\ LET got == Append(frame_buffer, Unescaped(a))
           bad == Len(got) = 8 /\ ~GoodHeader(got)
       IN  /\ frame_buffer' = got
           /\ rx' = IF Len(got) = 8 /\ ~bad THEN Header(got) ELSE rx
           /\ decoding' = ~bad
    /\ escaping' = FALSE
    /\ UNCHANGED taken

\* The payload and its sum.
PayloadByte(a) ==
    /\ a \notin {Flag, Escape} /\ decoding /\ ~Full
    /\ Len(frame_buffer) > 7
    /\ LET got == Append(frame_buffer, Unescaped(a))
           done == Len(frame_buffer) = rx.payload + 9 /\ GoodPayload(got)
       IN  /\ frame_buffer' = got
           /\ decoding' = ~done
           /\ taken' = IF done
                       THEN Append(taken, [of |-> [rx EXCEPT !.payload = SubSeq(got, 9, 8 + rx.payload)],
                                           first |-> Len(stream) > 1 /\ stream[2] = Flag])
                       ELSE taken
    /\ escaping' = FALSE
    /\ UNCHANGED rx

DecodeFrame(a) ==
    StartByte(a) \/ OutsideByte(a) \/ EscapeByte(a) \/ Overflow(a) \/ HeaderByte(a) \/ PayloadByte(a)

-----------------------------------------------------------------------------
(* The answers                                                             *)

\* Into the buffer from its start; what it held further on stays.
Put(bytes) ==
    /\ buffer' = [i \in DOMAIN buffer |-> IF i <= Len(bytes) THEN bytes[i] ELSE buffer[i]]
    /\ length' = Len(bytes)

\* ParseRawRx: a ping and a command are answered when their frame is complete.
Answer ==
    IF taken' # taken /\ rx.type \in {Ping, Command}
    THEN /\ \E r \in RandomBytes :
               Put(GenerateFrame(r, Client_Tx_Buffer_Size,
                                 IF rx.type = Ping THEN PingACK ELSE CommandACK, rx.id,
                                 IF rx.type = Ping THEN <<>> ELSE Message))
         /\ main' = "pad"
    ELSE UNCHANGED <<answerVars, main>>

ParseRawRx ==
    /\ main = "decode" /\ stream # <<>>
    /\ DecodeFrame(Head(stream))
    /\ stream' = Tail(stream)
    /\ Answer
    /\ UNCHANGED sentVars

\* Send: the loop ends before it begins, since the last block is left out.
Pad ==
    /\ main = "pad" /\ main' = "encrypt"
    /\ LET pad_index_start == 16 * (blocks - 1)
       IN  buffer' = [i \in DOMAIN buffer |->
                        IF i \in length + 1..pad_index_start THEN 0 ELSE buffer[i]]
    /\ UNCHANGED <<framerVars, stream, length, sentVars, taken>>

\* ... and all blocks are encrypted in the buffer and sent.
Encrypt ==
    /\ main = "encrypt" /\ main' = "decode"
    /\ buffer' = [i \in DOMAIN buffer |-> IF i <= 16 * blocks THEN Cipher ELSE buffer[i]]
    /\ UNCHANGED <<framerVars, stream, length, sentVars, taken>>

Next == Transmit \/ ParseRawRx \/ Pad \/ Encrypt

Spec == Init /\ [][Next]_vars

-----------------------------------------------------------------------------
(* Properties                                                              *)

\* Lemma of the proofs, in parts: what waits in the stream is the rest of the frame
\* in transmission, cut or padded, and the decoder holds what came before it.
Special == {Flag, Escape}
Of(f) == Content(f.type, f.id, f.payload)
BrokeOff == before \in {"cut", "last"}
Own == [of |-> frame, first |-> FALSE]
Completed == [of |-> previous, first |-> TRUE]

Follows(rest) ==
    /\ \A k \in 1..Len(stream) : stream[k] = IF k <= Len(rest) THEN rest[k] ELSE 0
    /\ missing = IF Len(stream) < Len(rest) THEN Len(rest) - Len(stream) ELSE 0

\* The first n bytes of a frame are taken, the last is not.
Taking(f, n) ==
    /\ decoding /\ n < Len(Of(f))
    /\ Len(frame_buffer) = n /\ \A k \in 1..n : frame_buffer[k] = Of(f)[k]
    /\ n >= 8 => rx = [type |-> f.type, id |-> f.id, payload |-> Len(f.payload)]

\* ... and the first was escaped by what the frame before left.
Spoilt(n) ==
    /\ decoding /\ n \in 1..7 /\ BrokeOff
    /\ Len(frame_buffer) = n /\ frame_buffer[1] = Flipped(Of(frame)[1])
    /\ \A k \in 2..n : frame_buffer[k] = Of(frame)[k]

\* The frame is given up.
Off == ~decoding /\ (Fits(frame) => BrokeOff)

Earlier == taken = <<>> \/ (before = "last" /\ taken = <<Completed>>)
Done == ~decoding /\ (taken = <<Own>> \/ (before = "last" /\ taken = <<Completed, Own>>))

\* The frame before broke off: what is held of it the next byte does not complete,
\* or it lacked this byte only.
Broken ==
    /\ BrokeOff
    /\ \/ Len(frame_buffer) <= 7
       \/ \E n \in 8..Len(Of(previous)) - 1 :
             /\ Taking(previous, n)
             /\ n = Len(Of(previous)) - 1 =>
                   before = "last" \/ (~escaping /\ Of(previous)[n + 1] \in Special)

AtRandom ==
    /\ \E r \in Byte \ {Flag} : Follows(<<r, Flag>> \o Escaped(Of(frame))[1])
    /\ Len(stream) >= 2 /\ taken = <<>>
    /\ (decoding /\ Broken) \/ (~decoding /\ ~escaping)

AtFlag ==
    /\ Follows(<<Flag>> \o Escaped(Of(frame))[1])
    /\ Len(stream) >= 1 /\ Earlier
    /\ escaping => BrokeOff

AtByte(n) ==
    /\ Follows(Escaped(Of(frame))[n + 1])
    /\ \/ Earlier /\ Taking(frame, n) /\ (escaping => n = 0 /\ BrokeOff)
       \/ Earlier /\ (Spoilt(n) \/ Off) /\ ~escaping
       \/ n = Len(Of(frame)) /\ Done /\ ~escaping

AtSecond(n) ==
    /\ n < Len(Of(frame)) /\ Of(frame)[n + 1] \in Special
    /\ Follows(<<Flipped(Of(frame)[n + 1])>> \o Escaped(Of(frame))[n + 2])
    /\ Earlier
    /\ ((Taking(frame, n) \/ Spoilt(n)) /\ escaping) \/ (Off /\ ~escaping)

DecoderInv == AtRandom \/ AtFlag \/ \E n \in 0..Len(Of(frame)) : AtByte(n) \/ AtSecond(n)

FramesInv ==
    /\ TypeOK /\ DecoderInv
    /\ Len(frame_buffer) <= frame_buffer_size
    /\ main # "decode" => length > 0

\* Neither buffer is left: a frame of any length, after whatever came before it,
\* stays in the decoder's, and the blocks of an answer, whose end is encrypted with
\* what follows it, in the one of Send (Frame.cpp:45-93, 101, MasterApp.cpp:538-552).
StaysInBuffers ==
    /\ Len(frame_buffer) <= frame_buffer_size
    /\ main # "decode" => length > 0 /\ 16 * blocks <= Client_Tx_Buffer_Size + 16

\* Nothing is taken for a frame but what was sent whole, and once, wherever
\* transmissions before it broke off; only a frame that lacks just its last
\* byte may be completed, by the random one of the next (Frame.cpp:26-92, 110-113).
FramesIntact ==
    /\ Len(taken) <= 2
    /\ \A i \in DOMAIN taken :
          \/ missing = 0 /\ taken[i] = [of |-> frame, first |-> FALSE]
          \/ before = "last" /\ taken[i] = [of |-> previous, first |-> TRUE] /\ i = 1

\* A frame that fits the decoder is lost only when the one before it broke off;
\* the next one is heard, though the escape state outlives the start byte, and
\* a frame too long for the decoder spoils nothing (Frame.cpp:26-93).
OnlyCutLoses ==
    (stream = <<>> /\ Lost) => before \in {"cut", "last"}
=============================================================================
