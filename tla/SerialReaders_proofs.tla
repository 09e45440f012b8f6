------------------------- MODULE SerialReaders_proofs -------------------------
(***************************************************************************)
(* The readers at the two ends of the serial line.                         *)
(*                                                                         *)
(* The service's parser (TuyaParser): it writes no byte past data_buf,     *)
(* dispatches only frames that stand on the line byte for byte, and on a   *)
(* clean line every frame it is sent.  Everything rests on one relation,   *)
(* Stands: which byte of the frame is where in the parser's fields, and    *)
(* that checksum is the checksum of the bytes seen so far.                 *)
(*                                                                         *)
(* The MCU's receive ring (McuSerial): no byte is lost between the         *)
(* interrupt and the buffer of the main loop as long as the ring has room, *)
(* wherever the interrupt comes.                                           *)
(*                                                                         *)
(* The MCU's firmware as a whole (McuFirmware): the same, and on a line    *)
(* whose noise holds no head the frames are handled as they were sent and  *)
(* in their order.  OnLine says where each of them stands among the bytes  *)
(* that the search has not passed.                                         *)
(***************************************************************************)
EXTENDS TuyaParser, McuFirmware, TLAPS, SequenceTheorems, WellFoundedInduction

Data == Seq(Byte)

LEMMA ByteRange == \A n : n \in Byte <=> n \in Int /\ 0 <= n /\ n <= 255
<1>1. ByteMax = 255
  BY DEF ByteMax
<1> QED
  BY <1>1 DEF Byte

-----------------------------------------------------------------------------
(* Induction, as a fact about a set of numbers: a number that is not in P  *)
(* would have a least one below it.                                        *)

LEMMA NaturalsFrom ==
    ASSUME NEW P, 0 \in P, \A n \in Nat : n \in P => n + 1 \in P
    PROVE  \A n \in Nat : n \in P
<1> DEFINE R == OpToRel(<, Nat)
           Bad == {n \in Nat : n \notin P}
<1>1. \A x, y \in Nat : x < y => <<x, y>> \in R
  BY DEF OpToRel
<1>2. IsWellFoundedOn(R, Nat)
  BY NatLessThanWellFounded
<1> SUFFICES ASSUME Bad # {} PROVE FALSE
  OBVIOUS
<1>3. Bad \subseteq Nat
  OBVIOUS
<1>4. \E x \in Bad : \A y \in Bad : ~(<<y, x>> \in R)
  <2> HIDE DEF R, Bad
  <2> QED
    BY <1>2, <1>3, WFMin
<1>5. PICK x \in Bad : \A y \in Bad : ~(<<y, x>> \in R)
  BY <1>4
<1> HIDE DEF R
<1>6. x # 0 /\ x \in Nat
  OBVIOUS
<1>7. x - 1 \in Nat /\ x - 1 < x /\ x = (x - 1) + 1
  BY <1>6
<1>8. x - 1 \notin Bad
  BY <1>1, <1>5, <1>6, <1>7
<1> QED
  BY <1>6, <1>7, <1>8

-----------------------------------------------------------------------------
(* The checksum of tuya_check_sum, for every sequence of bytes.            *)

\* s are the values of sum in the loop over bytes.
Sums(bytes, s) ==
    s = [i \in 0..Len(bytes) |-> IF i = 0 THEN 0 ELSE (s[i - 1] + bytes[i]) % 256]

\* The same, up to the n-th round.
SumsUpTo(bytes, n, s) ==
    s = [i \in 0..n |-> IF i = 0 THEN 0 ELSE (s[i - 1] + bytes[i]) % 256]

LEMMA WrapsToByte == \A n \in Int : n % 256 \in Byte
<1>1. \A n \in Int : n % 256 \in Int /\ 0 <= n % 256 /\ n % 256 <= 255
  OBVIOUS
<1> QED
  BY <1>1, ByteRange

LEMMA SumsExist ==
    ASSUME NEW bytes \in Data
    PROVE  \E s \in [0..Len(bytes) -> Byte] : Sums(bytes, s)
<1> DEFINE P == {n \in Nat : n <= Len(bytes) => \E s \in [0..n -> Byte] : SumsUpTo(bytes, n, s)}
<1>l. Len(bytes) \in Nat /\ \A i \in 1..Len(bytes) : bytes[i] \in Byte
  BY DEF Data
<1>1. 0 \in P
  <2>1. [i \in 0..0 |-> 0] \in [0..0 -> Byte]
    BY ByteRange
  <2>2. SumsUpTo(bytes, 0, [i \in 0..0 |-> 0])
    BY DEF SumsUpTo
  <2> QED
    BY <2>1, <2>2
<1>2. ASSUME NEW n \in Nat, n \in P
      PROVE  n + 1 \in P
  <2> SUFFICES ASSUME n + 1 <= Len(bytes)
               PROVE  \E s \in [0..(n + 1) -> Byte] : SumsUpTo(bytes, n + 1, s)
    OBVIOUS
  <2>1. PICK s \in [0..n -> Byte] : SumsUpTo(bytes, n, s)
    BY <1>2, <1>l
  <2>2. s[n] \in Byte /\ bytes[n + 1] \in Byte
    BY <1>l
  <2>3. (s[n] + bytes[n + 1]) % 256 \in Byte
    <3>1. s[n] + bytes[n + 1] \in Int
      BY <2>2, ByteRange
    <3> QED
      BY <3>1, WrapsToByte
  <2>4. PICK next \in Byte : next = (s[n] + bytes[n + 1]) % 256
    BY <2>3
  <2> DEFINE t == [i \in 0..(n + 1) |-> IF i <= n THEN s[i] ELSE next]
  <2>5. t \in [0..(n + 1) -> Byte]
    OBVIOUS
  <2>6. \A i \in 0..(n + 1) : t[i] = IF i = 0 THEN 0 ELSE (t[i - 1] + bytes[i]) % 256
    <3> SUFFICES ASSUME NEW i \in 0..(n + 1)
                 PROVE  t[i] = IF i = 0 THEN 0 ELSE (t[i - 1] + bytes[i]) % 256
      OBVIOUS
    <3>1. CASE i = n + 1
      BY <3>1, <2>4
    <3>2. CASE i <= n
      <4>1. s[i] = IF i = 0 THEN 0 ELSE (s[i - 1] + bytes[i]) % 256
        BY <2>1, <3>2 DEF SumsUpTo
      <4> QED
        BY <4>1, <3>2
    <3> QED
      BY <3>1, <3>2
  <2>7. SumsUpTo(bytes, n + 1, t)
    BY <2>5, <2>6 DEF SumsUpTo
  <2> QED
    BY <2>5, <2>7
<1>3. Len(bytes) \in P
  <2> HIDE DEF P
  <2> QED
    BY <1>1, <1>2, <1>l, NaturalsFrom
<1> QED
  BY <1>3 DEF Sums, SumsUpTo

LEMMA SumsAgree ==
    ASSUME NEW bytes \in Data, NEW more \in Data, Len(bytes) <= Len(more),
           \A i \in 1..Len(bytes) : more[i] = bytes[i],
           NEW s, Sums(bytes, s), NEW t, Sums(more, t)
    PROVE  \A i \in 0..Len(bytes) : t[i] = s[i]
<1> DEFINE P == {n \in Nat : n <= Len(bytes) => t[n] = s[n]}
<1>l. Len(bytes) \in Nat /\ Len(more) \in Nat
  BY DEF Data
<1>s. \A i \in 0..Len(bytes) : s[i] = IF i = 0 THEN 0 ELSE (s[i - 1] + bytes[i]) % 256
  BY DEF Sums
<1>t. \A i \in 0..Len(more) : t[i] = IF i = 0 THEN 0 ELSE (t[i - 1] + more[i]) % 256
  BY DEF Sums
<1>1. 0 \in P
  BY <1>s, <1>t, <1>l
<1>2. ASSUME NEW n \in Nat, n \in P
      PROVE  n + 1 \in P
  <2> SUFFICES ASSUME n + 1 <= Len(bytes)
               PROVE  t[n + 1] = s[n + 1]
    OBVIOUS
  <2>1. t[n] = s[n] /\ more[n + 1] = bytes[n + 1]
    BY <1>2, <1>l
  <2>2. s[n + 1] = (s[n] + bytes[n + 1]) % 256
    BY <1>s, <1>l
  <2>3. t[n + 1] = (t[n] + more[n + 1]) % 256
    BY <1>t, <1>l
  <2> QED
    BY <2>1, <2>2, <2>3
<1>3. \A n \in Nat : n \in P
  <2> HIDE DEF P
  <2> QED
    BY <1>1, <1>2, NaturalsFrom
<1> QED
  BY <1>3, <1>l

LEMMA CheckSumIsLast ==
    ASSUME NEW bytes \in Data, NEW s, Sums(bytes, s)
    PROVE  CheckSum(bytes) = s[Len(bytes)]
<1> DEFINE sum == CHOOSE c : Sums(bytes, c)
<1>1. CheckSum(bytes) = sum[Len(bytes)]
  BY DEF CheckSum, Sums
<1>2. Sums(bytes, sum)
  OBVIOUS
<1> HIDE DEF sum
<1>3. Len(bytes) \in Nat /\ Len(bytes) <= Len(bytes)
  BY DEF Data
<1>4. \A i \in 0..Len(bytes) : s[i] = sum[i]
  BY <1>2, <1>3, SumsAgree
<1> QED
  BY <1>1, <1>3, <1>4

LEMMA CheckSumType == ASSUME NEW bytes \in Data PROVE CheckSum(bytes) \in Byte
<1>1. PICK s \in [0..Len(bytes) -> Byte] : Sums(bytes, s)
  BY SumsExist
<1>2. Len(bytes) \in Nat
  BY DEF Data
<1>3. CheckSum(bytes) = s[Len(bytes)]
  BY <1>1, CheckSumIsLast
<1> QED
  BY <1>2, <1>3

LEMMA CheckSumEmpty == CheckSum(<< >>) = 0
<1>1. << >> \in Data /\ Len(<< >>) = 0
  BY DEF Data
<1>2. PICK s : Sums(<< >>, s)
  BY <1>1, SumsExist
<1>3. s[0] = 0
  BY <1>1, <1>2 DEF Sums
<1> QED
  BY <1>1, <1>2, <1>3, CheckSumIsLast

\* One more byte is one more round of the loop.
LEMMA CheckSumAppend ==
    ASSUME NEW bytes \in Data, NEW byte \in Byte, NEW more, more = Append(bytes, byte)
    PROVE  CheckSum(more) = (CheckSum(bytes) + byte) % 256
<1>1. /\ more \in Data /\ Len(bytes) \in Nat /\ Len(more) = Len(bytes) + 1 /\ more[Len(bytes) + 1] = byte
      /\ \A i \in 1..Len(bytes) : more[i] = bytes[i]
  BY DEF Data
<1>2. PICK s : Sums(bytes, s)
  BY SumsExist
<1>3. PICK t : Sums(more, t)
  BY <1>1, SumsExist
<1>4. CheckSum(bytes) = s[Len(bytes)] /\ CheckSum(more) = t[Len(more)]
  BY <1>1, <1>2, <1>3, CheckSumIsLast
<1>5. \A i \in 0..Len(bytes) : t[i] = s[i]
  <2>1. Len(bytes) <= Len(more)
    BY <1>1
  <2>2. \A i \in 1..Len(bytes) : more[i] = bytes[i]
    BY <1>1
  <2>3. more \in Data /\ Sums(bytes, s) /\ Sums(more, t)
    BY <1>1, <1>2, <1>3
  <2> QED
    BY ONLY <2>1, <2>2, <2>3, SumsAgree, bytes \in Data
<1>6. t[Len(bytes) + 1] = (t[Len(bytes)] + byte) % 256
  BY <1>1, <1>3 DEF Sums
<1> QED
  BY <1>1, <1>4, <1>5, <1>6
-----------------------------------------------------------------------------
\* The receive loop with an arbitrary line: every read delivers some byte.
AnyInput ==
    parser = InitParser /\ [][\E byte \in Byte : parser' = Process(parser, byte)]_parser

ParserType == [state : ParseStates, version : Byte, cmd : Byte, data_len : Word,
               data : Data, checksum : Byte]

(***************************************************************************)
(* The inductive invariant.  Besides the range of the fields and NoOverrun *)
(* it says that the low byte of the length is still zero when the high     *)
(* byte has been read, so that adding the low one stays below 2^16.        *)
(***************************************************************************)
ParserInv ==
    /\ parser \in ParserType
    /\ NoOverrun
    /\ parser.state = "LEN_2" => \E high \in Byte : parser.data_len = 256 * high

LEMMA WordRange == \A n : n \in Word <=> n \in Int /\ 0 <= n /\ n <= WordMax
BY DEF Word

LEMMA AddIsByte ==
    ASSUME NEW p, p \in ParserType, NEW byte, byte \in Byte
    PROVE  Add(p, byte) \in Byte
<1>1. p.checksum \in Byte
  BY DEF ParserType
<1>2. p.checksum + byte \in Int
  BY <1>1, ByteRange
<1>3. \A n \in Int : n % 256 \in Int /\ 0 <= n % 256 /\ n % 256 <= 255
  OBVIOUS
<1> QED
  BY <1>2, <1>3, ByteRange DEF Add

LEMMA InitParserInv == parser = InitParser => ParserInv
<1> SUFFICES ASSUME parser = InitParser PROVE ParserInv
  OBVIOUS
<1>1. << >> \in Data
  BY DEF Data
<1>2. parser \in ParserType
  <2>1. 0 \in Byte /\ 0 \in Word
    BY ByteRange, WordRange DEF WordMax
  <2> QED
    BY <1>1, <2>1 DEF InitParser, ParserType, ParseStates
<1>3. parser.state = "HEAD_1"
  BY DEF InitParser
<1> QED
  BY <1>2, <1>3 DEF ParserInv, NoOverrun

(***************************************************************************)
(* One byte: a step per state of the parser.                               *)
(***************************************************************************)
LEMMA ByteStep ==
    ASSUME ParserInv, NEW byte \in Byte, parser' = Process(parser, byte)
    PROVE  ParserInv'
<1>t. parser \in ParserType
  BY DEF ParserInv
<1>b. 85 \in Byte /\ 170 \in Byte
  BY ByteRange
<1>a. Add(parser, byte) \in Byte /\ Add(parser, 170) \in Byte /\ 85 \in Byte
  BY <1>b, <1>t, AddIsByte
<1>s. /\ "HEAD_1" \in ParseStates /\ "HEAD_2" \in ParseStates /\ "VERSION" \in ParseStates
      /\ "CMD" \in ParseStates /\ "LEN_1" \in ParseStates /\ "LEN_2" \in ParseStates
      /\ "DATA" \in ParseStates /\ "CHECKSUM" \in ParseStates
  BY DEF ParseStates
<1>f. /\ parser.data \in Data /\ parser.data_len \in Word
      /\ parser.state \in ParseStates
  BY <1>t DEF ParserType
<1>h1. CASE parser.state = "HEAD_1"
  <2>1. parser' = AtHead1(parser, byte)
    BY <1>h1 DEF Process
  <2>2. \/ parser' = parser
        \/ parser' = [parser EXCEPT !.state = "HEAD_2", !.checksum = 85]
    BY <2>1 DEF AtHead1
  <2>3. parser' \in ParserType /\ parser'.state \in {"HEAD_1", "HEAD_2"}
    BY <2>2, <1>h1, <1>t, <1>a, <1>s DEF ParserType
  <2> QED
    BY <2>3 DEF ParserInv, NoOverrun
<1>h2. CASE parser.state = "HEAD_2"
  <2>1. parser' = AtHead2(parser, byte)
    BY <1>h2 DEF Process
  <2>2. \/ parser' = [parser EXCEPT !.state = "HEAD_1"]
        \/ parser' = [parser EXCEPT !.state = "VERSION", !.checksum = Add(parser, 170)]
    BY <2>1 DEF AtHead2
  <2>3. parser' \in ParserType /\ parser'.state \in {"HEAD_1", "VERSION"}
    <3>1. CASE parser' = [parser EXCEPT !.state = "HEAD_1"]
      BY <3>1, <1>t, <1>a, <1>s DEF ParserType
    <3>2. CASE parser' = [parser EXCEPT !.state = "VERSION", !.checksum = Add(parser, 170)]
      <4>1. PICK k \in Byte : parser' = [parser EXCEPT !.state = "VERSION", !.checksum = k]
        BY <3>2, <1>a
      <4> QED
        BY <4>1, <1>t, <1>s DEF ParserType
    <3> QED
      BY <2>2, <3>1, <3>2
  <2> QED
    BY <2>3 DEF ParserInv, NoOverrun
<1>v. CASE parser.state = "VERSION"
  <2>1. PICK k \in Byte : parser' = [parser EXCEPT !.state = "CMD", !.version = byte, !.checksum = k]
    BY <1>v, <1>a DEF Process, AtHeader
  <2>2. parser' \in ParserType /\ parser'.state = "CMD"
    BY <2>1, <1>t, <1>s DEF ParserType
  <2> QED
    BY <2>2 DEF ParserInv, NoOverrun
<1>c. CASE parser.state = "CMD"
  <2>1. PICK k \in Byte : parser' = [parser EXCEPT !.state = "LEN_1", !.cmd = byte, !.checksum = k]
    BY <1>c, <1>a DEF Process, AtHeader
  <2>2. parser' \in ParserType /\ parser'.state = "LEN_1"
    BY <2>1, <1>t, <1>s DEF ParserType
  <2> QED
    BY <2>2 DEF ParserInv, NoOverrun
<1>l1. CASE parser.state = "LEN_1"
  <2>1. 256 * byte \in Word
    <3>1. 256 * byte \in Int /\ 0 <= 256 * byte /\ 256 * byte <= WordMax
      BY ByteRange DEF WordMax
    <3> QED
      BY <3>1, WordRange
  <2>2. PICK n \in Word, k \in Byte :
          n = 256 * byte /\ parser' = [parser EXCEPT !.state = "LEN_2", !.data_len = n, !.checksum = k]
    BY <1>l1, <2>1, <1>a DEF Process, AtHeader
  <2>3. parser' \in ParserType /\ parser'.state = "LEN_2" /\ parser'.data_len = n
    BY <2>2, <1>t, <1>s DEF ParserType
  <2> QED
    BY <2>2, <2>3 DEF ParserInv, NoOverrun
<1>l2. CASE parser.state = "LEN_2"
  <2> DEFINE len == parser.data_len + byte
  <2>1. PICK high \in Byte : parser.data_len = 256 * high
    BY <1>l2 DEF ParserInv
  <2>2. 256 * high + byte \in Word
    <3>1. 256 * high + byte \in Int /\ 0 <= 256 * high + byte /\ 256 * high + byte <= WordMax
      BY ByteRange DEF WordMax
    <3> QED
      BY <3>1, WordRange
  <2>3. len \in Word
    BY <2>1, <2>2
  <2>4. AfterLength(len) \in {"CHECKSUM", "HEAD_1", "DATA"}
    BY DEF AfterLength
  <2>5. << >> \in Data
    BY DEF Data
  <2>6. PICK st \in ParseStates, n \in Word, d \in Data, k \in Byte :
          /\ st = AfterLength(len) /\ n = len /\ d = << >>
          /\ parser' = [parser EXCEPT !.state = st, !.data_len = n, !.data = d, !.checksum = k]
    BY <1>l2, <1>a, <1>s, <2>3, <2>4, <2>5 DEF Process, AtLen2
  <2>7. parser' \in ParserType /\ parser'.state = st /\ parser'.data_len = n /\ parser'.data = d
    BY <2>6, <1>t DEF ParserType
  <2>8. /\ parser' \in ParserType
        /\ parser'.state = AfterLength(len) /\ parser'.data_len = len /\ parser'.data = << >>
    BY <2>6, <2>7
  <2>9. AfterLength(len) = "DATA" => 0 < len /\ len <= MaxData
    <3>1. len \in Int /\ 0 <= len
      BY <2>3, WordRange
    <3> HIDE DEF len
    <3>2. CASE len = 0
      BY <3>2 DEF AfterLength
    <3>3. CASE len > MaxData
      BY <3>1, <3>3 DEF AfterLength
    <3>4. CASE len # 0 /\ ~(len > MaxData)
      BY <3>1, <3>4, FrameAssumption
    <3> QED
      BY <3>2, <3>3, <3>4
  <2>10. NoOverrun'
    BY <2>8, <2>9 DEF NoOverrun
  <2> QED
    BY <2>4, <2>8, <2>10 DEF ParserInv
<1>d. CASE parser.state = "DATA"
  <2> DEFINE next == IF Len(parser.data) + 1 = parser.data_len THEN "CHECKSUM" ELSE "DATA"
  <2>1. /\ Append(parser.data, byte) \in Data
        /\ Len(Append(parser.data, byte)) = Len(parser.data) + 1
        /\ Len(parser.data) \in Nat
    BY <1>f DEF Data
  <2>2. Len(parser.data) < parser.data_len /\ parser.data_len <= MaxData
    BY <1>d DEF ParserInv, NoOverrun
  <2>3. PICK st \in ParseStates, d \in Data, k \in Byte :
          /\ st = next /\ d = Append(parser.data, byte)
          /\ parser' = [parser EXCEPT !.state = st, !.data = d, !.checksum = k]
    BY <1>d, <1>a, <1>s, <2>1 DEF Process, AtData
  <2>4. parser' \in ParserType /\ parser'.state = st /\ parser'.data_len = parser.data_len /\ parser'.data = d
    BY <2>3, <1>t DEF ParserType
  <2>5. /\ parser' \in ParserType /\ parser'.state = next
        /\ parser'.data = Append(parser.data, byte) /\ parser'.data_len = parser.data_len
    BY <2>3, <2>4
  <2>6. next = "DATA" => Len(parser.data) + 1 < parser.data_len
    <3>1. parser.data_len \in Int /\ Len(parser.data) \in Int
      BY <2>1, <1>f, WordRange
    <3>2. \A m, n \in Int : m < n /\ m + 1 # n => m + 1 < n
      OBVIOUS
    <3>3. next = "DATA" => Len(parser.data) + 1 # parser.data_len
      OBVIOUS
    <3> QED
      BY <2>2, <3>1, <3>2, <3>3
  <2>7. NoOverrun'
    BY <2>1, <2>2, <2>5, <2>6 DEF NoOverrun
  <2> QED
    BY <2>5, <2>7 DEF ParserInv
<1>k. CASE parser.state = "CHECKSUM"
  <2>1. parser' = [parser EXCEPT !.state = "HEAD_1"]
    BY <1>k DEF Process, AtCheckSum
  <2>2. parser' \in ParserType /\ parser'.state = "HEAD_1"
    BY <2>1, <1>t, <1>s DEF ParserType
  <2> QED
    BY <2>2 DEF ParserInv, NoOverrun
<1> QED
  BY <1>h1, <1>h2, <1>v, <1>c, <1>l1, <1>l2, <1>d, <1>k, <1>f DEF ParseStates

LEMMA ParserInductive == AnyInput => []ParserInv
<1>1. ParserInv /\ [\E byte \in Byte : parser' = Process(parser, byte)]_parser => ParserInv'
  <2> SUFFICES ASSUME ParserInv, [\E byte \in Byte : parser' = Process(parser, byte)]_parser
               PROVE  ParserInv'
    OBVIOUS
  <2>1. CASE \E byte \in Byte : parser' = Process(parser, byte)
    BY <2>1, ByteStep
  <2>2. CASE UNCHANGED parser
    BY <2>2 DEF ParserInv, NoOverrun
  <2> QED
    BY <2>1, <2>2
<1> QED
  BY <1>1, InitParserInv, PTL DEF AnyInput

(***************************************************************************)
(* data_buf[data_idx++] is inside the buffer (tuya_protocol.c:238), for    *)
(* every size of the buffer and every sequence of bytes.                   *)
(***************************************************************************)
THEOREM ParserNeverOverruns == AnyInput => []NoOverrun
BY ParserInductive, PTL DEF ParserInv

(***************************************************************************)
(* The fields of tuya_parser_t keep to their integer types: the checksum   *)
(* wraps at 256 and the length fits 16 bits.                               *)
(***************************************************************************)
THEOREM ParserTypeCorrect == AnyInput => [](parser \in ParserType)
BY ParserInductive, PTL DEF ParserInv

-----------------------------------------------------------------------------
(* What stands on the line.                                                *)

(***************************************************************************)
(* One byte, state by state: where the parser goes, and the fields it      *)
(* fills.                                                                  *)
(***************************************************************************)
LEMMA HeadSteps ==
    ASSUME NEW p \in ParserType, NEW byte \in Byte, NEW q, q = Process(p, byte)
    PROVE  /\ p.state = "HEAD_1" =>
                 IF byte = 85 THEN q.state = "HEAD_2" /\ q.checksum = 85 ELSE q.state = "HEAD_1"
           /\ p.state = "HEAD_2" =>
                 IF byte = 170 THEN q.state = "VERSION" /\ q.checksum = Add(p, 170)
                 ELSE q.state = "HEAD_1"
<1>1. CASE p.state = "HEAD_1"
  <2>1. q = AtHead1(p, byte)
    BY <1>1 DEF Process
  <2>2. CASE byte = 85
    <3>1. q = [p EXCEPT !.state = "HEAD_2", !.checksum = 85]
      BY <2>1, <2>2 DEF AtHead1
    <3> QED
      BY <3>1, <2>2, <1>1 DEF ParserType
  <2>3. CASE byte # 85
    BY <2>1, <2>3, <1>1 DEF AtHead1
  <2> QED
    BY <2>2, <2>3
<1>2. CASE p.state = "HEAD_2"
  <2>1. q = AtHead2(p, byte)
    BY <1>2 DEF Process
  <2>2. CASE byte = 170
    <3>1. q = [p EXCEPT !.state = "VERSION", !.checksum = Add(p, 170)]
      BY <2>1, <2>2 DEF AtHead2
    <3> QED
      BY <3>1, <2>2, <1>2 DEF ParserType
  <2>3. CASE byte # 170
    <3>1. q = [p EXCEPT !.state = "HEAD_1"]
      BY <2>1, <2>3 DEF AtHead2
    <3> QED
      BY <3>1, <2>3, <1>2 DEF ParserType
  <2> QED
    BY <2>2, <2>3
<1> QED
  BY <1>1, <1>2

LEMMA HeaderSteps ==
    ASSUME NEW p \in ParserType, NEW byte \in Byte, NEW q, q = Process(p, byte),
           p.state \in {"VERSION", "CMD", "LEN_1"}
    PROVE  /\ q.checksum = Add(p, byte)
           /\ p.state = "VERSION" => q.state = "CMD" /\ q.version = byte
           /\ p.state = "CMD" => q.state = "LEN_1" /\ q.version = p.version /\ q.cmd = byte
           /\ p.state = "LEN_1" => /\ q.state = "LEN_2" /\ q.version = p.version /\ q.cmd = p.cmd
                                   /\ q.data_len = 256 * byte
<1>1. q = AtHeader(p, byte)
  BY DEF Process
<1>2. CASE p.state = "VERSION"
  <2>1. q = [p EXCEPT !.state = "CMD", !.version = byte, !.checksum = Add(p, byte)]
    BY <1>1, <1>2 DEF AtHeader
  <2> QED
    BY <2>1, <1>2 DEF ParserType
<1>3. CASE p.state = "CMD"
  <2>1. q = [p EXCEPT !.state = "LEN_1", !.cmd = byte, !.checksum = Add(p, byte)]
    BY <1>1, <1>3 DEF AtHeader
  <2> QED
    BY <2>1, <1>3 DEF ParserType
<1>4. CASE p.state = "LEN_1"
  <2>1. q = [p EXCEPT !.state = "LEN_2", !.data_len = 256 * byte, !.checksum = Add(p, byte)]
    BY <1>1, <1>4 DEF AtHeader
  <2> QED
    BY <2>1, <1>4 DEF ParserType
<1> QED
  BY <1>2, <1>3, <1>4

LEMMA BodySteps ==
    ASSUME NEW p \in ParserType, NEW byte \in Byte, NEW q, q = Process(p, byte)
    PROVE  /\ p.state = "LEN_2" =>
                 /\ q.state = AfterLength(p.data_len + byte) /\ q.data_len = p.data_len + byte
                 /\ q.data = << >> /\ q.version = p.version /\ q.cmd = p.cmd
                 /\ q.checksum = Add(p, byte)
           /\ p.state = "DATA" =>
                 /\ q.state = IF Len(p.data) + 1 = p.data_len THEN "CHECKSUM" ELSE "DATA"
                 /\ q.data = Append(p.data, byte) /\ q.data_len = p.data_len
                 /\ q.version = p.version /\ q.cmd = p.cmd
                 /\ q.checksum = Add(p, byte)
           /\ p.state = "CHECKSUM" => q.state = "HEAD_1"
<1>1. CASE p.state = "LEN_2"
  <2>1. q = [p EXCEPT !.state = AfterLength(p.data_len + byte), !.data_len = p.data_len + byte,
                      !.data = << >>, !.checksum = Add(p, byte)]
    BY <1>1 DEF Process, AtLen2
  <2> QED
    BY <2>1, <1>1 DEF ParserType
<1>2. CASE p.state = "DATA"
  <2>1. q = AtData(p, byte)
    BY <1>2 DEF Process
  <2>2. PICK st, d, k :
          /\ st = IF Len(p.data) + 1 = p.data_len THEN "CHECKSUM" ELSE "DATA"
          /\ d = Append(p.data, byte) /\ k = Add(p, byte)
          /\ q = [p EXCEPT !.state = st, !.data = d, !.checksum = k]
    BY <2>1 DEF AtData
  <2>3. /\ q.state = st /\ q.data = d /\ q.checksum = k /\ q.data_len = p.data_len
        /\ q.version = p.version /\ q.cmd = p.cmd
    BY <2>2 DEF ParserType
  <2> QED
    BY <2>2, <2>3, <1>2
<1>3. CASE p.state = "CHECKSUM"
  <2>1. q = [p EXCEPT !.state = "HEAD_1"]
    BY <1>3 DEF Process, AtCheckSum
  <2> QED
    BY <2>1, <1>3 DEF ParserType
<1> QED
  BY <1>1, <1>2, <1>3

\* s are the bytes of the frame that the parser p is in.
Stands(p, s) ==
    /\ s \in Data
    /\ p.state = "HEAD_1" => Len(s) = 0
    /\ p.state = "HEAD_2" => Len(s) = 1
    /\ p.state = "VERSION" => Len(s) = 2
    /\ p.state = "CMD" => Len(s) = 3
    /\ p.state = "LEN_1" => Len(s) = 4
    /\ p.state = "LEN_2" => Len(s) = 5 /\ p.data_len = 256 * s[5]
    /\ p.state \in {"DATA", "CHECKSUM"} =>
          /\ Len(s) = 6 + Len(p.data) /\ p.data_len = 256 * s[5] + s[6]
          /\ \A i \in 1..Len(p.data) : s[6 + i] = p.data[i]
    /\ Len(s) >= 1 => s[1] = 85
    /\ Len(s) >= 2 => s[2] = 170
    /\ Len(s) >= 3 => s[3] = p.version
    /\ Len(s) >= 4 => s[4] = p.cmd
    /\ p.state = "CHECKSUM" => Len(p.data) = p.data_len /\ p.data_len <= MaxData
    /\ p.state # "HEAD_1" => p.checksum = CheckSum(s)

Inside(p) == p.state = "DATA" => Len(p.data) < p.data_len /\ p.data_len <= MaxData

\* There is always room in seen.
LEMMA StandsShort ==
    ASSUME NEW p \in ParserType, NEW s, Stands(p, s), Inside(p)
    PROVE  Len(s) < LongestFrame
<1>1. p.data \in Data /\ MaxData \in Nat /\ p.data_len \in Int
  BY FrameAssumption, WordRange DEF ParserType
<1>2. Len(p.data) \in Nat
  BY <1>1 DEF Data
<1>3. CASE p.state \in {"DATA", "CHECKSUM"}
  <2>1. Len(s) = 6 + Len(p.data) /\ Len(p.data) <= MaxData
    BY <1>1, <1>2, <1>3 DEF Stands, Inside
  <2> QED
    BY <2>1, <1>1, <1>2 DEF LongestFrame
<1>4. CASE p.state \in {"HEAD_1", "HEAD_2", "VERSION", "CMD", "LEN_1", "LEN_2"}
  <2>1. PICK k \in 0..5 : Len(s) = k
    BY <1>4 DEF Stands
  <2> QED
    BY <2>1, <1>1 DEF LongestFrame
<1> QED
  BY <1>3, <1>4 DEF ParserType, ParseStates

LEMMA OneByteMore ==
    ASSUME NEW s \in Data, NEW byte \in Byte, NEW r, r = Append(s, byte)
    PROVE  /\ r \in Data /\ Len(s) \in Nat /\ Len(r) = Len(s) + 1 /\ r[Len(s) + 1] = byte
           /\ \A i \in 1..Len(s) : r[i] = s[i]
BY DEF Data

\* Every byte of the frame counts towards the checksum.
LEMMA SumGoesOn ==
    ASSUME NEW p \in ParserType, NEW s, Stands(p, s), p.state # "HEAD_1", NEW byte \in Byte,
           NEW r, r = Append(s, byte)
    PROVE  Add(p, byte) = CheckSum(r)
<1>1. s \in Data /\ p.checksum = CheckSum(s)
  BY DEF Stands
<1>2. CheckSum(r) = (CheckSum(s) + byte) % 256
  BY <1>1, CheckSumAppend
<1> QED
  BY <1>1, <1>2 DEF Add

(***************************************************************************)
(* The parser and the bytes of the frame stay together, byte by byte.      *)
(***************************************************************************)
LEMMA StandsStep ==
    ASSUME NEW p \in ParserType, NEW s, Stands(p, s), Inside(p), NEW byte \in Byte,
           NEW q, q = Process(p, byte),
           NEW r, r = IF q.state = "HEAD_1" THEN << >> ELSE Append(s, byte)
    PROVE  Stands(q, r)
<1>0. CASE q.state = "HEAD_1"
  <2>1. r \in Data /\ Len(r) = 0
    BY <1>0 DEF Data
  <2> QED
    BY <1>0, <2>1 DEF Stands
<1> SUFFICES ASSUME q.state # "HEAD_1", r = Append(s, byte)
             PROVE  Stands(q, r)
  BY <1>0
<1>s. s \in Data
  BY DEF Stands
<1>r. /\ r \in Data /\ Len(s) \in Nat /\ Len(r) = Len(s) + 1 /\ r[Len(s) + 1] = byte
      /\ \A i \in 1..Len(s) : r[i] = s[i]
  BY <1>s DEF Data
<1>h1. Len(s) >= 1 => s[1] = 85
  BY DEF Stands
<1>h2. Len(s) >= 2 => s[2] = 170
  BY DEF Stands
<1>h3. Len(s) >= 3 => s[3] = p.version
  BY DEF Stands
<1>h4. Len(s) >= 4 => s[4] = p.cmd
  BY DEF Stands
<1>k. p.state # "HEAD_1" => Add(p, byte) = CheckSum(r)
  BY SumGoesOn
<1>1. CASE p.state = "HEAD_1"
  <2>1. byte = 85 /\ q.state = "HEAD_2" /\ q.checksum = 85
    BY <1>1, HeadSteps
  <2>2. Len(s) = 0 /\ s = << >>
    BY <1>1, <1>s DEF Stands, Data
  <2>3. CheckSum(r) = 85
    <3>1. CheckSum(r) = (CheckSum(s) + byte) % 256
      BY <1>s, CheckSumAppend
    <3> QED
      BY <3>1, <2>1, <2>2, CheckSumEmpty
  <2> QED
    BY <2>1, <2>2, <2>3, <1>r DEF Stands
<1>2. CASE p.state = "HEAD_2"
  <2>1. byte = 170 /\ q.state = "VERSION" /\ q.checksum = CheckSum(r)
    BY <1>2, <1>k, HeadSteps
  <2>2. Len(s) = 1
    BY <1>2 DEF Stands
  <2> QED
    BY <2>1, <2>2, <1>r, <1>h1 DEF Stands
<1>3. CASE p.state = "VERSION"
  <2>1. q.state = "CMD" /\ q.version = byte /\ q.checksum = CheckSum(r)
    BY <1>3, <1>k, HeaderSteps
  <2>2. Len(s) = 2
    BY <1>3 DEF Stands
  <2> QED
    BY <2>1, <2>2, <1>r, <1>h1, <1>h2 DEF Stands
<1>4. CASE p.state = "CMD"
  <2>1. q.state = "LEN_1" /\ q.version = p.version /\ q.cmd = byte /\ q.checksum = CheckSum(r)
    BY <1>4, <1>k, HeaderSteps
  <2>2. Len(s) = 3
    BY <1>4 DEF Stands
  <2> QED
    BY <2>1, <2>2, <1>r, <1>h1, <1>h2, <1>h3 DEF Stands
<1>5. CASE p.state = "LEN_1"
  <2>1. /\ q.state = "LEN_2" /\ q.version = p.version /\ q.cmd = p.cmd
        /\ q.data_len = 256 * byte /\ q.checksum = CheckSum(r)
    BY <1>5, <1>k, HeaderSteps
  <2>2. Len(s) = 4
    BY <1>5 DEF Stands
  <2> QED
    BY <2>1, <2>2, <1>r, <1>h1, <1>h2, <1>h3, <1>h4 DEF Stands
<1>6. CASE p.state = "LEN_2"
  <2>1. /\ q.state = AfterLength(p.data_len + byte) /\ q.data_len = p.data_len + byte
        /\ q.data = << >> /\ q.version = p.version /\ q.cmd = p.cmd /\ q.checksum = CheckSum(r)
    BY <1>6, <1>k, BodySteps
  <2>2. Len(s) = 5 /\ p.data_len = 256 * s[5]
    BY <1>6 DEF Stands
  <2>3. q.state = "CHECKSUM" => q.data_len = 0
    BY <2>1 DEF AfterLength
  <2>4. q.state \in {"DATA", "CHECKSUM"}
    BY <2>1 DEF AfterLength
  <2>5. Len(q.data) = 0 /\ MaxData \in Nat
    BY <2>1, FrameAssumption
  <2>6. q.data_len = 256 * r[5] + r[6]
    BY <2>1, <2>2, <1>r
  <2> QED
    BY <2>1, <2>2, <2>3, <2>4, <2>5, <2>6, <1>r, <1>h1, <1>h2, <1>h3, <1>h4 DEF Stands
<1>7. CASE p.state = "DATA"
  <2>1. /\ q.state = IF Len(p.data) + 1 = p.data_len THEN "CHECKSUM" ELSE "DATA"
        /\ q.data = Append(p.data, byte) /\ q.data_len = p.data_len
        /\ q.version = p.version /\ q.cmd = p.cmd /\ q.checksum = CheckSum(r)
    BY <1>7, <1>k, BodySteps
  <2>2. /\ Len(s) = 6 + Len(p.data) /\ p.data_len = 256 * s[5] + s[6]
        /\ \A i \in 1..Len(p.data) : s[6 + i] = p.data[i]
    BY <1>7 DEF Stands
  <2>3. /\ Len(p.data) \in Nat /\ Len(q.data) = Len(p.data) + 1 /\ q.data[Len(p.data) + 1] = byte
        /\ \A i \in 1..Len(p.data) : q.data[i] = p.data[i]
    <3>1. p.data \in Data
      BY DEF ParserType
    <3> QED
      BY <3>1, <2>1, OneByteMore
  <2>4. \A i \in 1..Len(q.data) : r[6 + i] = q.data[i]
    <3> SUFFICES ASSUME NEW i \in 1..Len(q.data) PROVE r[6 + i] = q.data[i]
      OBVIOUS
    <3>1. CASE i = Len(p.data) + 1
      <4>1. 6 + i = Len(s) + 1
        BY <3>1, <2>2, <2>3
      <4>2. r[Len(s) + 1] = byte
        BY <1>r
      <4>3. q.data[Len(p.data) + 1] = byte
        BY <2>3
      <4> QED
        BY ONLY <4>1, <4>2, <4>3, <3>1, Zenon
    <3>2. CASE i \in 1..Len(p.data)
      <4>1. s[6 + i] = p.data[i] /\ 6 + i \in 1..Len(s)
        BY <3>2, <2>2, <2>3
      <4> QED
        BY <4>1, <3>2, <2>3, <1>r
    <3>3. i = Len(p.data) + 1 \/ i \in 1..Len(p.data)
      BY <2>3
    <3> QED
      BY ONLY <3>1, <3>2, <3>3, Zenon
  <2>5. q.state = "CHECKSUM" => Len(q.data) = q.data_len /\ q.data_len <= MaxData
    BY <2>1, <2>3, <1>7 DEF Inside
  <2>6. Len(r) = 6 + Len(q.data) /\ q.data_len = 256 * r[5] + r[6]
    BY <2>1, <2>2, <2>3, <1>r
  <2>7. r[1] = 85 /\ r[2] = 170 /\ r[3] = q.version /\ r[4] = q.cmd
    BY <2>1, <2>2, <2>3, <1>r, <1>h1, <1>h2, <1>h3, <1>h4
  <2>8. q.state \in {"DATA", "CHECKSUM"}
    BY <2>1
  <2> QED
    BY <2>1, <2>4, <2>5, <2>6, <2>7, <2>8, <1>r DEF Stands
<1>8. p.state # "CHECKSUM"
  BY BodySteps
<1> QED
  BY <1>1, <1>2, <1>3, <1>4, <1>5, <1>6, <1>7, <1>8 DEF ParserType, ParseStates

LEMMA HighAndLow ==
    \A h, l \in Byte : (256 * h + l) \div 256 = h /\ (256 * h + l) % 256 = l
<1>1. \A h, l \in Int : 0 <= l /\ l <= 255 => (256 * h + l) \div 256 = h /\ (256 * h + l) % 256 = l
  OBVIOUS
<1> QED
  BY <1>1, ByteRange

\* The head and the data of a frame, without its checksum.
Body(version, cmd, data) ==
    <<85, 170, version, cmd, Len(data) \div 256, Len(data) % 256>> \o data

LEMMA BodyPlaces ==
    ASSUME NEW version \in Byte, NEW cmd \in Byte, NEW data \in Data, Len(data) \in Word,
           NEW body, body = Body(version, cmd, data)
    PROVE  /\ body \in Data
           /\ Len(body) = 6 + Len(data)
           /\ body[1] = 85 /\ body[2] = 170 /\ body[3] = version /\ body[4] = cmd
           /\ body[5] = Len(data) \div 256 /\ body[6] = Len(data) % 256
           /\ \A i \in 1..Len(data) : body[6 + i] = data[i]
<1> DEFINE head == <<85, 170, version, cmd, Len(data) \div 256, Len(data) % 256>>
<1>1. Len(data) \div 256 \in Byte /\ Len(data) % 256 \in Byte /\ 85 \in Byte /\ 170 \in Byte
  <2>1. \A n \in Int : 0 <= n /\ n <= 65535 =>
          n \div 256 \in Int /\ 0 <= n \div 256 /\ n \div 256 <= 255
    OBVIOUS
  <2>2. Len(data) \in Int /\ 0 <= Len(data) /\ Len(data) <= 65535
    BY WordRange DEF WordMax
  <2> QED
    BY <2>1, <2>2, WrapsToByte, ByteRange
<1>2. head \in Data /\ Len(head) = 6
  BY <1>1 DEF Data
<1>3. /\ head[1] = 85 /\ head[2] = 170 /\ head[3] = version
      /\ head[4] = cmd /\ head[5] = Len(data) \div 256 /\ head[6] = Len(data) % 256
  OBVIOUS
<1>4. body = head \o data
  BY DEF Body
<1> HIDE DEF head
<1>5. PICK h \in Data, d \in Data, n \in {6} : h = head /\ d = data /\ n = Len(h)
  BY <1>2
<1>6. /\ body \in Data /\ Len(body) = n + Len(d)
      /\ \A i \in 1..n : body[i] = h[i]
      /\ \A i \in 1..Len(d) : body[n + i] = d[i]
  <2>1. body = h \o d /\ n = Len(h)
    BY ONLY <1>4, <1>5, Zenon
  <2>2. body \in Data /\ Len(body) = n + Len(d) /\ n \in Nat /\ Len(d) \in Nat
    BY ONLY <2>1 DEF Data
  <2>3. \A i \in 1..n : body[i] = h[i]
    BY ONLY <2>1 DEF Data
  <2>4. ASSUME NEW i \in 1..Len(d) PROVE body[n + i] = d[i]
    <3>1. PICK j : j = n + i
      OBVIOUS
    <3>2. j \in 1..(Len(h) + Len(d)) /\ ~(j <= Len(h)) /\ j - Len(h) = i
      BY <3>1, <2>1, <2>2
    <3>3. body[j] = d[i]
      BY ONLY <2>1, <3>2 DEF Data
    <3> QED
      BY ONLY <3>1, <3>3, Zenon
  <2> QED
    BY <2>2, <2>3, <2>4
<1>7. n = 6
  OBVIOUS
<1>8. \A i \in 1..Len(data) : body[6 + i] = data[i]
  BY ONLY <1>5, <1>6, <1>7, Zenon
<1>9. body \in Data /\ Len(body) = 6 + Len(data)
  BY ONLY <1>5, <1>6, <1>7, Zenon
<1>10. \A i \in 1..6 : body[i] = head[i]
  BY ONLY <1>5, <1>6, <1>7, Zenon
<1>11. 1 \in 1..6 /\ 2 \in 1..6 /\ 3 \in 1..6 /\ 4 \in 1..6 /\ 5 \in 1..6 /\ 6 \in 1..6
  OBVIOUS
<1>12. body[1] = 85 /\ body[2] = 170 /\ body[3] = version /\ body[4] = cmd
  BY ONLY <1>3, <1>10, <1>11
<1>13. body[5] = Len(data) \div 256 /\ body[6] = Len(data) % 256
  BY ONLY <1>3, <1>10, <1>11
<1> QED
  BY ONLY <1>8, <1>9, <1>12, <1>13, Zenon

\* Two frames that agree in their heads and their data agree.
LEMMA SamePlaces ==
    ASSUME NEW s \in Data, NEW t \in Data, NEW data \in Data,
           Len(s) = 6 + Len(data), Len(t) = 6 + Len(data),
           \A i \in 1..6 : s[i] = t[i],
           \A i \in 1..Len(data) : s[6 + i] = data[i],
           \A i \in 1..Len(data) : t[6 + i] = data[i]
    PROVE  s = t
<1>1. ASSUME NEW i \in 1..Len(s)
      PROVE  s[i] = t[i]
  <2>1. CASE i \in 1..6
    BY <2>1
  <2>2. CASE i \notin 1..6
    <3>1. PICK j \in 1..Len(data) : 6 + j = i
      <4>1. i - 6 \in 1..Len(data) /\ 6 + (i - 6) = i
        BY <2>2 DEF Data
      <4> QED
        BY <4>1
    <3> QED
      BY <3>1
  <2> QED
    BY <2>1, <2>2
<1> QED
  BY <1>1, SeqEqual DEF Data

(***************************************************************************)
(* Where the parser completes a frame, the frame stands on the line as the *)
(* sender would have packed it.                                            *)
(***************************************************************************)
LEMMA CompletesIntact ==
    ASSUME NEW p \in ParserType, NEW s, Stands(p, s), NEW byte \in Byte, Completes(p, byte)
    PROVE  Append(s, byte) = FrameBytes(p.version, p.cmd, p.data)
<1>1. p.state = "CHECKSUM" /\ p.checksum = byte
  BY DEF Completes
<1>2. /\ p.data \in Data /\ p.version \in Byte /\ p.cmd \in Byte /\ p.data_len \in Word
  BY DEF ParserType
<1>3. /\ s \in Data /\ Len(s) = 6 + Len(p.data) /\ Len(p.data) = 256 * s[5] + s[6]
      /\ Len(p.data) = p.data_len /\ byte = CheckSum(s)
      /\ \A i \in 1..Len(p.data) : s[6 + i] = p.data[i]
  BY <1>1 DEF Stands
<1>n. Len(p.data) \in Nat
  BY <1>2 DEF Data
<1>4. s[1] = 85 /\ s[2] = 170 /\ s[3] = p.version /\ s[4] = p.cmd
  <2>1. Len(s) >= 1 => s[1] = 85
    BY DEF Stands
  <2>2. Len(s) >= 2 => s[2] = 170
    BY DEF Stands
  <2>3. Len(s) >= 3 => s[3] = p.version
    BY DEF Stands
  <2>4. Len(s) >= 4 => s[4] = p.cmd
    BY DEF Stands
  <2> QED
    BY <2>1, <2>2, <2>3, <2>4, <1>3, <1>n
<1>5. s[5] = Len(p.data) \div 256 /\ s[6] = Len(p.data) % 256
  <2>1. s[5] \in Byte /\ s[6] \in Byte
    BY <1>3, <1>n DEF Data
  <2> QED
    BY <2>1, <1>3, HighAndLow
<1>6. PICK body : body = Body(p.version, p.cmd, p.data)
  OBVIOUS
<1>7. Len(p.data) \in Word
  BY <1>2, <1>3
<1>v. PICK v \in Byte, c \in Byte, d \in Data : v = p.version /\ c = p.cmd /\ d = p.data
  BY <1>2
<1>8. /\ body \in Data /\ Len(body) = 6 + Len(p.data)
      /\ body[1] = 85 /\ body[2] = 170 /\ body[3] = p.version /\ body[4] = p.cmd
      /\ body[5] = Len(p.data) \div 256 /\ body[6] = Len(p.data) % 256
      /\ \A i \in 1..Len(p.data) : body[6 + i] = p.data[i]
  <2>1. Len(d) \in Word /\ body = Body(v, c, d)
    BY ONLY <1>v, <1>6, <1>7
  <2>2. /\ body \in Data /\ Len(body) = 6 + Len(d)
        /\ body[1] = 85 /\ body[2] = 170 /\ body[3] = v /\ body[4] = c
        /\ body[5] = Len(d) \div 256 /\ body[6] = Len(d) % 256
        /\ \A i \in 1..Len(d) : body[6 + i] = d[i]
    BY ONLY <2>1, BodyPlaces
  <2> QED
    BY ONLY <1>v, <2>2
<1>9. \A i \in 1..6 : s[i] = body[i]
  <2>1. \A i \in 1..6 : i = 1 \/ i = 2 \/ i = 3 \/ i = 4 \/ i = 5 \/ i = 6
    OBVIOUS
  <2>2. s[1] = body[1] /\ s[2] = body[2]
    BY ONLY <1>4, <1>8, Zenon
  <2>3. s[3] = body[3] /\ s[4] = body[4]
    BY ONLY <1>4, <1>8, Zenon
  <2>4. s[5] = body[5] /\ s[6] = body[6]
    BY ONLY <1>5, <1>8, Zenon
  <2> QED
    BY ONLY <2>1, <2>2, <2>3, <2>4, <1>4, Zenon
<1>10. s = body
  <2>1. Len(s) = 6 + Len(d) /\ Len(body) = 6 + Len(d) /\ s \in Data /\ body \in Data
    BY ONLY <1>v, <1>3, <1>8
  <2>2. \A i \in 1..Len(d) : s[6 + i] = d[i]
    BY ONLY <1>v, <1>3
  <2>3. \A i \in 1..Len(d) : body[6 + i] = d[i]
    BY ONLY <1>v, <1>8
  <2> QED
    BY ONLY <1>v, <2>1, <2>2, <2>3, <1>9, SamePlaces
<1>11. FrameBytes(p.version, p.cmd, p.data) = Append(body, CheckSum(body))
  BY <1>6 DEF FrameBytes, Body
<1> QED
  BY <1>3, <1>10, <1>11

LEMMA FramePlaces ==
    ASSUME NEW version \in Byte, NEW cmd \in Byte, NEW data \in Data, Len(data) \in Word,
           NEW body, body = Body(version, cmd, data),
           NEW bytes, bytes = FrameBytes(version, cmd, data)
    PROVE  /\ bytes \in Data /\ Len(bytes) = 7 + Len(data)
           /\ \A i \in 1..(6 + Len(data)) : bytes[i] = body[i]
           /\ bytes[7 + Len(data)] = CheckSum(body)
<1>1. body \in Data /\ Len(body) = 6 + Len(data)
  BY ONLY BodyPlaces, version \in Byte, cmd \in Byte, data \in Data, Len(data) \in Word,
          body = Body(version, cmd, data)
<1>2. PICK k \in Byte : k = CheckSum(body)
  BY <1>1, CheckSumType
<1>3. bytes = Append(body, k)
  BY <1>2 DEF FrameBytes, Body
<1>4. /\ bytes \in Data /\ Len(bytes) = Len(body) + 1 /\ bytes[Len(body) + 1] = k
      /\ \A i \in 1..Len(body) : bytes[i] = body[i]
  BY ONLY <1>1, <1>3, k \in Byte DEF Data
<1>5. Len(data) \in Nat /\ (6 + Len(data)) + 1 = 7 + Len(data)
  BY DEF Data
<1> QED
  BY <1>1, <1>2, <1>4, <1>5

\* A frame the MCU sends.
LEMMA SentFrame ==
    ASSUME NEW f \in Frames
    PROVE  /\ f.version \in Byte /\ f.cmd \in Byte /\ f.data \in Data
           /\ Len(f.data) \in Word /\ Len(f.data) <= MaxData
BY ParserAssumption DEF Data

LEMMA HandlerKnown == \A cmd \in Byte : Handler(cmd) \in Receivers
<1> SUFFICES ASSUME NEW cmd \in Byte PROVE Handler(cmd) \in Receivers
  OBVIOUS
<1>1. CASE cmd = 0
  BY <1>1 DEF Handler, Receivers
<1>2. CASE cmd = 1
  BY <1>2 DEF Handler, Receivers
<1>3. CASE cmd = 2
  BY <1>3 DEF Handler, Receivers
<1>4. CASE cmd = 3
  BY <1>4 DEF Handler, Receivers
<1>5. CASE cmd = 4
  BY <1>5 DEF Handler, Receivers
<1>6. CASE cmd = 7
  BY <1>6 DEF Handler, Receivers
<1>7. CASE cmd \in {10, 11}
  BY <1>7 DEF Handler, Receivers
<1>8. CASE cmd = 34
  BY <1>8 DEF Handler, Receivers
<1>9. CASE cmd = 38
  BY <1>9 DEF Handler, Receivers
<1>10. CASE cmd = 113
  BY <1>10 DEF Handler, Receivers
<1>11. CASE cmd \notin {0, 1, 2, 3, 4, 7, 10, 11, 34, 38, 113}
  BY <1>11 DEF Handler, Receivers
<1> QED
  BY <1>1, <1>2, <1>3, <1>4, <1>5, <1>6, <1>7, <1>8, <1>9, <1>10, <1>11

LEMMA DeliveryType ==
    /\ NoFrame \in Delivery
    /\ \A f : f.cmd \in Byte /\ f.data \in Data => Dispatched(f) \in Delivery
<1>1. NoFrame \in Delivery
  BY DEF NoFrame, Delivery, Receivers
<1>2. ASSUME NEW f, f.cmd \in Byte, f.data \in Data
      PROVE  Dispatched(f) \in Delivery
  <2>1. Handler(f.cmd) \in Receivers
    BY <1>2, HandlerKnown
  <2> QED
    BY <1>2, <2>1 DEF Dispatched, Delivery, Data
<1> QED
  BY <1>1, <1>2

(***************************************************************************)
(* A byte of a frame that has arrived intact so far: the parser goes on    *)
(* with the frame, and completes it with its last byte, and only then.     *)
(***************************************************************************)
LEMMA CleanByte ==
    ASSUME NEW p \in ParserType, NEW s, Stands(p, s), Inside(p), NEW f \in Frames,
           NEW bytes, bytes = FrameBytes(f.version, f.cmd, f.data),
           Len(s) < Len(bytes), \A i \in 1..Len(s) : s[i] = bytes[i],
           NEW byte, byte = bytes[Len(s) + 1],
           NEW q, q = Process(p, byte)
    PROVE  IF Len(s) + 1 = Len(bytes)
           THEN Completes(p, byte) /\ Dispatched(p) = Dispatched(f)
           ELSE ~Completes(p, byte) /\ q.state # "HEAD_1"
<1>f. /\ f.version \in Byte /\ f.cmd \in Byte /\ f.data \in Data
      /\ Len(f.data) \in Word /\ Len(f.data) <= MaxData /\ Len(f.data) \in Nat
  BY SentFrame DEF Data
<1>p. p.data \in Data /\ p.state \in ParseStates /\ Len(p.data) \in Nat /\ p.data_len \in Int
  BY WordRange DEF ParserType, Data
<1>0. PICK body : body = Body(f.version, f.cmd, f.data)
  OBVIOUS
<1>1. /\ body \in Data
      /\ Len(body) = 6 + Len(f.data)
      /\ body[1] = 85 /\ body[2] = 170 /\ body[3] = f.version /\ body[4] = f.cmd
      /\ body[5] = Len(f.data) \div 256 /\ body[6] = Len(f.data) % 256
      /\ \A i \in 1..Len(f.data) : body[6 + i] = f.data[i]
  <2>1. PICK v \in Byte, c \in Byte, d \in Data : v = f.version /\ c = f.cmd /\ d = f.data
    BY <1>f
  <2>2. Len(d) \in Word /\ body = Body(v, c, d)
    BY ONLY <2>1, <1>f, <1>0
  <2>3. /\ body \in Data /\ Len(body) = 6 + Len(d)
        /\ body[1] = 85 /\ body[2] = 170 /\ body[3] = v /\ body[4] = c
        /\ body[5] = Len(d) \div 256 /\ body[6] = Len(d) % 256
        /\ \A i \in 1..Len(d) : body[6 + i] = d[i]
    BY ONLY <2>2, BodyPlaces
  <2> QED
    BY ONLY <2>1, <2>3
<1>2. /\ bytes \in Data /\ Len(bytes) = 7 + Len(f.data)
      /\ \A i \in 1..(6 + Len(f.data)) : bytes[i] = body[i]
      /\ bytes[7 + Len(f.data)] = CheckSum(body)
  BY ONLY <1>f, <1>0, FramePlaces, bytes = FrameBytes(f.version, f.cmd, f.data)
<1>3. /\ bytes[1] = 85 /\ bytes[2] = 170 /\ bytes[4] = f.cmd
      /\ bytes[5] = Len(f.data) \div 256 /\ bytes[6] = Len(f.data) % 256
  <2>1. /\ 1 \in 1..(6 + Len(f.data)) /\ 2 \in 1..(6 + Len(f.data)) /\ 4 \in 1..(6 + Len(f.data))
        /\ 5 \in 1..(6 + Len(f.data)) /\ 6 \in 1..(6 + Len(f.data))
    BY <1>f
  <2>2. bytes[1] = body[1] /\ bytes[2] = body[2]
    BY ONLY <2>1, <1>2, Zenon
  <2>3. bytes[4] = body[4]
    BY ONLY <2>1, <1>2, Zenon
  <2>4. bytes[5] = body[5] /\ bytes[6] = body[6]
    BY ONLY <2>1, <1>2, Zenon
  <2> QED
    BY ONLY <2>2, <2>3, <2>4, <1>1
<1>4. 256 * bytes[5] + bytes[6] = Len(f.data)
  <2>1. \A n \in Nat : 256 * (n \div 256) + (n % 256) = n
    OBVIOUS
  <2> QED
    BY <2>1, <1>3, <1>f
<1>s. s \in Data /\ Len(s) \in Nat
  BY DEF Stands, Data
<1>5. byte \in Byte
  <2>1. Len(s) + 1 \in 1..Len(bytes)
    BY <1>s, <1>2, <1>f
  <2> QED
    BY <2>1, <1>2 DEF Data
<1>h1. CASE p.state = "HEAD_1"
  <2>1. Len(s) = 0
    BY <1>h1 DEF Stands
  <2>2. q.state = "HEAD_2"
    BY <2>1, <1>h1, <1>3, <1>5, HeadSteps
  <2> QED
    BY <2>1, <2>2, <1>2, <1>f, <1>h1 DEF Completes
<1>h2. CASE p.state = "HEAD_2"
  <2>1. Len(s) = 1
    BY <1>h2 DEF Stands
  <2>2. q.state = "VERSION"
    BY <2>1, <1>h2, <1>3, <1>5, HeadSteps
  <2> QED
    BY <2>1, <2>2, <1>2, <1>f, <1>h2 DEF Completes
<1>v. CASE p.state \in {"VERSION", "CMD", "LEN_1"}
  <2>1. PICK k \in 2..4 : Len(s) = k
    BY <1>v DEF Stands
  <2>2. q.state \in {"CMD", "LEN_1", "LEN_2"}
    BY <1>v, <1>5, HeaderSteps
  <2> QED
    BY <2>1, <2>2, <1>2, <1>f, <1>v DEF Completes
<1>l. CASE p.state = "LEN_2"
  <2>1. Len(s) = 5 /\ p.data_len = 256 * s[5]
    BY <1>l DEF Stands
  <2>2. s[5] = bytes[5] /\ byte = bytes[6]
    BY <2>1
  <2>3. p.data_len + byte = Len(f.data)
    BY <2>1, <2>2, <1>4
  <2>4. q.state = AfterLength(Len(f.data))
    BY <1>l, <1>5, <2>3, BodySteps
  <2>5. q.state # "HEAD_1"
    BY <2>4, <1>f, FrameAssumption DEF AfterLength
  <2> QED
    BY <2>1, <2>5, <1>2, <1>f, <1>l DEF Completes
<1>6. p.state \in {"DATA", "CHECKSUM"} =>
        /\ Len(s) = 6 + Len(p.data) /\ p.data_len = Len(f.data) /\ s[4] = bytes[4]
        /\ \A i \in 1..Len(p.data) : s[6 + i] = p.data[i]
  <2> SUFFICES ASSUME p.state \in {"DATA", "CHECKSUM"}
               PROVE  /\ Len(s) = 6 + Len(p.data) /\ p.data_len = Len(f.data) /\ s[4] = bytes[4]
                      /\ \A i \in 1..Len(p.data) : s[6 + i] = p.data[i]
    OBVIOUS
  <2>1. /\ Len(s) = 6 + Len(p.data) /\ p.data_len = 256 * s[5] + s[6]
        /\ \A i \in 1..Len(p.data) : s[6 + i] = p.data[i]
    BY DEF Stands
  <2>2. 4 \in 1..Len(s) /\ 5 \in 1..Len(s) /\ 6 \in 1..Len(s)
    BY <2>1, <1>p
  <2>3. s[4] = bytes[4] /\ s[5] = bytes[5] /\ s[6] = bytes[6]
    BY <2>2, Zenon
  <2> QED
    BY <2>1, <2>3, <1>4
<1>d. CASE p.state = "DATA"
  <2>1. Len(p.data) < Len(f.data)
    BY <1>d, <1>6 DEF Inside
  <2>2. q.state \in {"DATA", "CHECKSUM"}
    BY <1>d, <1>5, BodySteps
  <2> QED
    BY <2>1, <2>2, <1>2, <1>6, <1>f, <1>p, <1>d DEF Completes
<1>k. CASE p.state = "CHECKSUM"
  <2>1. /\ Len(p.data) = Len(f.data) /\ p.checksum = CheckSum(s) /\ s[4] = p.cmd
        /\ Len(s) = 6 + Len(f.data)
    <3>1. Len(p.data) = p.data_len /\ p.checksum = CheckSum(s)
      BY <1>k DEF Stands
    <3>2. Len(s) >= 4 => s[4] = p.cmd
      BY DEF Stands
    <3> QED
      BY <3>1, <3>2, <1>6, <1>k, <1>f
  <2>2. \A i \in 1..Len(s) : s[i] = body[i]
    BY <2>1, <1>2
  <2>3. s = body
    BY <2>1, <2>2, <1>1, <1>s, SeqEqual DEF Data
  <2>4. byte = p.checksum
    <3>1. Len(s) + 1 = 7 + Len(f.data)
      BY <2>1, <1>f
    <3> QED
      BY <3>1, <2>1, <2>3, <1>2
  <2>5. p.cmd = f.cmd
    BY <2>1, <1>6, <1>3, <1>k
  <2>6. p.data = f.data
    <3>2. \A i \in 1..Len(p.data) : s[6 + i] = p.data[i]
      BY <1>k DEF Stands
    <3>3. \A i \in 1..Len(p.data) : body[6 + i] = f.data[i]
      BY ONLY <1>1, <2>1
    <3>1. \A i \in 1..Len(p.data) : p.data[i] = f.data[i]
      BY ONLY <3>2, <3>3, <2>3, Zenon
    <3> QED
      BY <3>1, <2>1, <1>p, <1>f, SeqEqual DEF Data
  <2> QED
    BY <2>1, <2>4, <2>5, <2>6, <1>2, <1>k, <1>f DEF Completes, Dispatched
<1> QED
  BY <1>p, <1>h1, <1>h2, <1>v, <1>l, <1>d, <1>k DEF ParseStates

-----------------------------------------------------------------------------
(* The receive side as a whole: TuyaParser with its line.                  *)

Wire == Seq([byte : Byte, ends : Delivery])

\* The rest of frame f is on the line, undamaged, and its first bytes are seen.
Delivering(f) ==
    LET bytes == FrameBytes(f.version, f.cmd, f.data) IN
    /\ wire # << >> /\ Len(seen) + Len(wire) = Len(bytes)
    /\ \A i \in 1..Len(seen) : seen[i] = bytes[i]
    /\ \A j \in 1..Len(wire) :
          /\ wire[j].byte = bytes[Len(seen) + j]
          /\ wire[j].ends = IF Len(seen) + j = Len(bytes) THEN Dispatched(f) ELSE NoFrame

CleanLine == faults = 0 => (wire = << >> /\ seen = << >>) \/ \E f \in Frames : Delivering(f)

LineTypes == wire \in Wire /\ out \in Delivery /\ faults \in 0..MaxFaults

(***************************************************************************)
(* The inductive invariant: the parser agrees with the bytes seen of the   *)
(* frame, and as long as nothing went wrong they are those of a frame the  *)
(* MCU sent.                                                               *)
(***************************************************************************)
ReceiverInv == ParserInv /\ Stands(parser, seen) /\ LineTypes /\ CleanLine

\* The bytes of a frame that is sent, as they stand on the line.
LEMMA SentLine ==
    ASSUME NEW f \in Frames, SendFrame(f)
    PROVE  /\ wire' \in Wire
           /\ Len(wire') = Len(FrameBytes(f.version, f.cmd, f.data)) /\ wire' # << >>
           /\ \A j \in 1..Len(wire') :
                /\ wire'[j].byte = FrameBytes(f.version, f.cmd, f.data)[j]
                /\ wire'[j].ends = IF j = Len(FrameBytes(f.version, f.cmd, f.data))
                                   THEN Dispatched(f) ELSE NoFrame
<1> DEFINE bytes == FrameBytes(f.version, f.cmd, f.data)
           end(i) == IF i = Len(bytes) THEN Dispatched(f) ELSE NoFrame
<1>1. bytes \in Data /\ Len(bytes) \in Nat /\ Len(bytes) >= 7
  <2>1. PICK v \in Byte, c \in Byte, d \in Data :
          v = f.version /\ c = f.cmd /\ d = f.data /\ Len(d) \in Word
    BY SentFrame
  <2>2. PICK bs, body : bs = FrameBytes(v, c, d) /\ body = Body(v, c, d)
    OBVIOUS
  <2>3. bs \in Data /\ Len(bs) = 7 + Len(d)
    BY ONLY <2>1, <2>2, FramePlaces
  <2>4. bs = bytes
    BY <2>1, <2>2
  <2>5. Len(d) \in Nat
    BY DEF Data
  <2> QED
    BY <2>3, <2>4, <2>5
<1>2. wire' = [i \in 1..Len(bytes) |-> [byte |-> bytes[i], ends |-> end(i)]]
  BY DEF SendFrame
<1>3. \A i \in 1..Len(bytes) : bytes[i] \in Byte
  BY <1>1 DEF Data
<1>4. \A i : end(i) \in Delivery
  BY SentFrame, DeliveryType
<1> HIDE DEF bytes, end
<1>5. wire' \in Wire /\ Len(wire') = Len(bytes)
  BY <1>1, <1>2, <1>3, <1>4 DEF Wire
<1>6. wire' # << >>
  BY <1>1, <1>5
<1>7. \A j \in 1..Len(wire') : wire'[j].byte = bytes[j] /\ wire'[j].ends = end(j)
  BY <1>2, <1>5
<1> QED
  BY <1>5, <1>6, <1>7 DEF bytes, end

\* A byte that is read takes the frame one byte further.
LEMMA ReadStands ==
    ASSUME ParserInv, Stands(parser, seen), LineTypes, ReadByte
    PROVE  /\ Head(wire).byte \in Byte
           /\ parser' = Process(parser, Head(wire).byte)
           /\ seen' = IF parser'.state = "HEAD_1" THEN << >> ELSE Append(seen, Head(wire).byte)
           /\ ParserInv' /\ Stands(parser', seen')
<1>1. wire # << >> /\ wire \in Wire
  BY DEF ReadByte, LineTypes
<1>2. Head(wire).byte \in Byte
  <2>1. Head(wire) \in [byte : Byte, ends : Delivery]
    <3>1. PICK R : R = [byte : Byte, ends : Delivery]
      OBVIOUS
    <3>2. wire \in Seq(R)
      BY <1>1, <3>1 DEF Wire
    <3>3. Head(wire) \in R
      BY ONLY <1>1, <3>2
    <3> QED
      BY <3>1, <3>3
  <2> QED
    BY <2>1
<1>3. PICK byte \in Byte : byte = Head(wire).byte
  BY <1>2
<1>4. parser' = Process(parser, byte)
  BY <1>3 DEF ReadByte
<1>5. parser \in ParserType /\ Inside(parser)
  BY DEF ParserInv, NoOverrun, Inside
<1>6. Len(seen) < LongestFrame
  BY <1>5, StandsShort
<1>7. seen' = IF parser'.state = "HEAD_1" THEN << >> ELSE Append(seen, byte)
  BY <1>3, <1>4, <1>6 DEF ReadByte
<1>8. ParserInv'
  BY <1>4, ByteStep
<1>9. Stands(parser', seen')
  BY ONLY <1>4, <1>5, <1>7, StandsStep, Stands(parser, seen), byte \in Byte
<1> QED
  BY <1>2, <1>3, <1>4, <1>7, <1>8, <1>9

\* Where a frame is being delivered, a byte that is read is its next one.
LEMMA ReadClean ==
    ASSUME ParserInv, Stands(parser, seen), LineTypes, ReadByte, NEW f \in Frames, Delivering(f)
    PROVE  /\ out' = Head(wire).ends
           /\ (wire' = << >> /\ seen' = << >>) \/ Delivering(f)'
<1>1. PICK bytes : bytes = FrameBytes(f.version, f.cmd, f.data)
  OBVIOUS
<1>2. /\ wire # << >> /\ Len(seen) + Len(wire) = Len(bytes)
      /\ \A i \in 1..Len(seen) : seen[i] = bytes[i]
      /\ \A j \in 1..Len(wire) :
            /\ wire[j].byte = bytes[Len(seen) + j]
            /\ wire[j].ends = IF Len(seen) + j = Len(bytes) THEN Dispatched(f) ELSE NoFrame
  BY <1>1 DEF Delivering
<1>3. wire \in Wire /\ seen \in Data
  BY DEF LineTypes, Stands
<1>4. /\ Len(wire) \in Nat /\ Len(wire) >= 1 /\ Len(seen) \in Nat /\ Head(wire) = wire[1]
      /\ wire' = Tail(wire)
  BY <1>2, <1>3 DEF Wire, Data, ReadByte
<1>5. PICK byte \in Byte : byte = Head(wire).byte
  BY ReadStands
<1>13. PICK q : q = Process(parser, byte)
  OBVIOUS
<1>6. byte = bytes[Len(seen) + 1]
  BY <1>2, <1>4, <1>5, <1>13
<1>7. /\ parser' = q
      /\ seen' = IF q.state = "HEAD_1" THEN << >> ELSE Append(seen, byte)
      /\ seen' \in Data
  <2>1. Stands(parser', seen')
    BY ReadStands
  <2> QED
    BY <2>1, <1>5, <1>13, ReadStands DEF Stands
<1>8. out' = IF Completes(parser, byte) THEN Dispatched(parser) ELSE NoFrame
  BY <1>5, <1>13 DEF ReadByte
<1>9. IF Len(seen) + 1 = Len(bytes)
      THEN Completes(parser, byte) /\ Dispatched(parser) = Dispatched(f)
      ELSE ~Completes(parser, byte) /\ q.state # "HEAD_1"
  <2>1. parser \in ParserType /\ Inside(parser) /\ Stands(parser, seen)
    BY DEF ParserInv, NoOverrun, Inside
  <2>2. Len(seen) < Len(bytes)
    BY <1>2, <1>4
  <2> QED
    BY ONLY <1>1, <1>2, <1>5, <1>13, <1>6, <2>1, <2>2, CleanByte, f \in Frames
<1>10. out' = wire[1].ends
  BY <1>2, <1>4, <1>8, <1>9
<1>11. CASE Len(seen) + 1 = Len(bytes)
  <2>1. wire' = << >>
    BY <1>2, <1>3, <1>4, <1>11 DEF Wire
  <2>2. q.state = "HEAD_1"
    <3>1. parser.state = "CHECKSUM" /\ parser \in ParserType
      BY <1>9, <1>11 DEF Completes, ParserInv
    <3> QED
      BY <3>1, <1>5, <1>13, BodySteps
  <2> QED
    BY <1>4, <1>7, <1>10, <2>1, <2>2
<1>12. CASE Len(seen) + 1 # Len(bytes)
  <2>1. seen' = Append(seen, byte)
    BY <1>7, <1>9, <1>12
  <2>2. /\ Len(seen') = Len(seen) + 1 /\ seen'[Len(seen) + 1] = byte
        /\ \A i \in 1..Len(seen) : seen'[i] = seen[i]
    BY ONLY <1>3, <1>4, <2>1 DEF Data
  <2>3. \A i \in 1..Len(seen') : seen'[i] = bytes[i]
    BY <1>2, <1>4, <1>6, <2>2
  <2>4. /\ Len(wire') = Len(wire) - 1 /\ wire' # << >>
        /\ \A j \in 1..Len(wire') : wire'[j] = wire[j + 1]
    <3>1. PICK R, w : wire \in Seq(R) /\ w = wire' /\ w = Tail(wire)
      BY <1>3, <1>4 DEF Wire
    <3>2. Len(w) = Len(wire) - 1 /\ \A j \in 1..Len(w) : w[j] = wire[j + 1]
      BY ONLY <3>1, <1>4
    <3>3. Len(w) # 0
      BY <3>2, <1>2, <1>4, <1>12
    <3>4. w # << >>
      BY <3>3
    <3> QED
      BY ONLY <3>1, <3>2, <3>4, Zenon
  <2>5. ASSUME NEW j \in 1..Len(wire')
        PROVE  /\ wire'[j].byte = bytes[Len(seen') + j]
               /\ wire'[j].ends = IF Len(seen') + j = Len(bytes) THEN Dispatched(f) ELSE NoFrame
    <3>1. j + 1 \in 1..Len(wire) /\ wire'[j] = wire[j + 1] /\ Len(seen') + j = Len(seen) + (j + 1)
      BY <1>4, <2>2, <2>4
    <3> QED
      BY ONLY <3>1, <1>2
  <2>6. Len(seen') + Len(wire') = Len(bytes)
    BY <1>2, <1>4, <2>2, <2>4
  <2>7. Delivering(f)'
    BY <1>1, <2>3, <2>4, <2>5, <2>6 DEF Delivering
  <2> QED
    BY <1>4, <1>10, <2>7
<1> QED
  BY <1>11, <1>12

LEMMA InitReceiver == Init => ReceiverInv
<1> SUFFICES ASSUME Init PROVE ReceiverInv
  OBVIOUS
<1>1. ParserInv
  BY InitParserInv DEF Init
<1>2. << >> \in Data /\ Len(<< >>) = 0 /\ << >> \in Wire
  BY DEF Data, Wire
<1>3. Stands(parser, seen)
  BY <1>2 DEF Init, InitParser, Stands
<1>4. LineTypes
  BY <1>2, DeliveryType, ParserAssumption DEF Init, LineTypes
<1>5. CleanLine
  BY DEF Init, CleanLine
<1> QED
  BY <1>1, <1>3, <1>4, <1>5 DEF ReceiverInv

LEMMA SendKeeps ==
    ASSUME ReceiverInv, NEW f \in Frames, SendFrame(f)
    PROVE  ReceiverInv'
<1>1. wire' \in Wire /\ UNCHANGED <<parser, out, seen, faults>> /\ wire = << >>
  BY SentLine DEF SendFrame
<1>2. ParserInv' /\ Stands(parser, seen)' /\ LineTypes'
  BY <1>1 DEF ReceiverInv, ParserInv, NoOverrun, Stands, LineTypes
<1>3. ASSUME faults = 0 PROVE Delivering(f)'
  <2>1. seen = << >>
    BY <1>1, <1>3 DEF ReceiverInv, CleanLine, Delivering
  <2>2. PICK bytes, n : bytes = FrameBytes(f.version, f.cmd, f.data) /\ n = Len(wire')
    OBVIOUS
  <2>n. n \in Nat
    BY <1>1, <2>2 DEF Wire
  <2>3. /\ Len(wire') = Len(bytes) /\ wire' # << >>
        /\ \A j \in 1..Len(wire') :
             /\ wire'[j].byte = bytes[j]
             /\ wire'[j].ends = IF j = Len(bytes) THEN Dispatched(f) ELSE NoFrame
    BY <2>2, SentLine
  <2>4. Len(seen') = 0
    BY <1>1, <2>1
  <2>5. \A j \in 1..n : Len(seen') + j = j
    BY <2>4
  <2> QED
    BY <2>2, <2>n, <2>3, <2>4, <2>5 DEF Delivering
<1>4. CleanLine'
  BY <1>1, <1>3 DEF CleanLine
<1> QED
  BY <1>2, <1>4 DEF ReceiverInv

LEMMA ReadKeeps ==
    ASSUME ReceiverInv, ReadByte
    PROVE  ReceiverInv'
<1>1. ParserInv /\ Stands(parser, seen) /\ LineTypes
  BY DEF ReceiverInv
<1>2. ParserInv' /\ Stands(parser, seen)'
  BY <1>1, ReadStands
<1>3. wire \in Wire /\ wire # << >> /\ wire' = Tail(wire) /\ faults' = faults
  BY <1>1 DEF ReadByte, LineTypes
<1>4. wire' \in Wire
  BY <1>3 DEF Wire
<1>5. out' \in Delivery
  <2>1. parser.cmd \in Byte /\ parser.data \in Data
    BY <1>1 DEF ParserInv, ParserType
  <2> QED
    BY <2>1, DeliveryType DEF ReadByte
<1>6. LineTypes'
  BY <1>1, <1>3, <1>4, <1>5 DEF LineTypes
<1>7. CleanLine'
  <2> SUFFICES ASSUME faults = 0
               PROVE  (wire' = << >> /\ seen' = << >>) \/ \E f \in Frames : Delivering(f)'
    BY <1>3 DEF CleanLine
  <2>1. PICK f \in Frames : Delivering(f)
    BY <1>3 DEF ReceiverInv, CleanLine
  <2> QED
    BY <1>1, <2>1, ReadClean
<1> QED
  BY <1>2, <1>6, <1>7 DEF ReceiverInv

LEMMA FaultKeeps ==
    ASSUME ReceiverInv, Fault
    PROVE  ReceiverInv'
<1>1. UNCHANGED <<parser, out, seen>> /\ wire \in Wire /\ wire # << >>
  BY DEF Fault, ReceiverInv, LineTypes
<1>2. faults' = faults + 1 /\ faults < MaxFaults /\ faults \in 0..MaxFaults
  BY DEF Fault, ReceiverInv, LineTypes
<1>3. faults' \in 0..MaxFaults /\ faults' # 0
  BY <1>2, ParserAssumption
<1>4. wire' \in Wire
  <2>1. CASE wire' = Tail(wire)
    BY <1>1, <2>1 DEF Wire
  <2>2. CASE \E b \in Noise : wire' = <<[byte |-> b, ends |-> NoFrame]>> \o wire
    <3>1. PICK b \in Noise : wire' = <<[byte |-> b, ends |-> NoFrame]>> \o wire
      BY <2>2
    <3>2. PICK r \in [byte : Byte, ends : Delivery] : r = [byte |-> b, ends |-> NoFrame]
      BY ParserAssumption, DeliveryType
    <3>3. wire' = <<r>> \o wire
      BY <3>1, <3>2
    <3> QED
      BY <1>1, <3>3 DEF Wire
  <2>3. CASE wire' = << >>
    BY <2>3 DEF Wire
  <2> QED
    BY <2>1, <2>2, <2>3 DEF Fault
<1>5. ParserInv' /\ Stands(parser, seen)'
  BY <1>1 DEF ReceiverInv, ParserInv, NoOverrun, Stands
<1>6. LineTypes'
  BY <1>1, <1>3, <1>4 DEF LineTypes, ReceiverInv
<1>7. CleanLine'
  BY <1>3 DEF CleanLine
<1> QED
  BY <1>5, <1>6, <1>7 DEF ReceiverInv

LEMMA ReceiverInductive == Spec => []ReceiverInv
<1>1. ReceiverInv /\ [Next]_vars => ReceiverInv'
  <2> SUFFICES ASSUME ReceiverInv, [Next]_vars PROVE ReceiverInv'
    OBVIOUS
  <2>1. CASE McuSends
    BY <2>1, SendKeeps DEF McuSends
  <2>2. CASE ReadByte
    BY <2>2, ReadKeeps
  <2>3. CASE Fault
    BY <2>3, FaultKeeps
  <2>4. CASE UNCHANGED vars
    BY <2>4 DEF vars, ReceiverInv, ParserInv, NoOverrun, Stands, LineTypes, CleanLine, Delivering
  <2> QED
    BY <2>1, <2>2, <2>3, <2>4 DEF Next
<1> QED
  BY <1>1, InitReceiver, PTL DEF Spec

(***************************************************************************)
(* The parser never writes past data_buf, whatever the MCU sends and       *)
(* whatever the line does to it.                                           *)
(***************************************************************************)
THEOREM ReceiverNeverOverruns == Spec => []NoOverrun
BY ReceiverInductive, PTL DEF ReceiverInv, ParserInv

(***************************************************************************)
(* Every variable of the receive side has its type: what is on the line    *)
(* are bytes, the checksum included, and what is dispatched is a frame for *)
(* a handler that tuya_dispatch_mcu_frame knows.                           *)
(***************************************************************************)
THEOREM ReceiverTypeCorrect == Spec => []TypeOK
<1>1. ReceiverInv => TypeOK
  BY DEF ReceiverInv, ParserInv, ParserType, Data, Stands, LineTypes, Wire, TypeOK
<1> QED
  BY <1>1, ReceiverInductive, PTL

(***************************************************************************)
(* A frame that is dispatched stands on the line byte for byte             *)
(* (tuya_protocol.c:244-254), whatever was lost or added before it.        *)
(***************************************************************************)
THEOREM DispatchesIntact == Spec => OnlyIntactFrames
<1>1. ASSUME ReceiverInv, NEW byte \in Byte, byte = Head(wire).byte, out' # NoFrame, ReadByte
      PROVE  Append(seen, byte) = FrameBytes(parser.version, out'.cmd, out'.data)
  <2>1. Completes(parser, byte) /\ out' = Dispatched(parser)
    BY <1>1 DEF ReadByte
  <2>2. out'.cmd = parser.cmd /\ out'.data = parser.data
    BY <2>1 DEF Dispatched
  <2>3. parser \in ParserType /\ Stands(parser, seen)
    BY <1>1 DEF ReceiverInv, ParserInv
  <2>4. Append(seen, byte) = FrameBytes(parser.version, parser.cmd, parser.data)
    BY ONLY <2>1, <2>3, CompletesIntact, byte \in Byte
  <2> QED
    BY <2>2, <2>4
<1>2. ReceiverInv /\ [Next]_vars =>
        [\A byte \in Byte :
           wire # << >> /\ byte = Head(wire).byte /\ out' # NoFrame /\ ReadByte =>
              Append(seen, byte) = FrameBytes(parser.version, out'.cmd, out'.data)]_vars
  BY <1>1
<1> QED
  BY <1>2, ReceiverInductive, PTL DEF Spec, OnlyIntactFrames

(***************************************************************************)
(* As long as the line does no damage, every frame the MCU sends is        *)
(* dispatched with the byte that completes it, and nothing else is.        *)
(***************************************************************************)
THEOREM CleanLineDispatches == Spec => CleanLineDelivers
<1>1. ReceiverInv /\ [Next]_vars => [faults = 0 /\ ReadByte => out' = Head(wire).ends]_vars
  <2> SUFFICES ASSUME ReceiverInv, faults = 0, ReadByte PROVE out' = Head(wire).ends
    OBVIOUS
  <2>1. PICK f \in Frames : Delivering(f)
    BY DEF ReceiverInv, CleanLine, ReadByte
  <2> QED
    BY <2>1, ReadClean DEF ReceiverInv
<1> QED
  BY <1>1, ReceiverInductive, PTL DEF Spec, CleanLineDelivers

-----------------------------------------------------------------------------
(* The ring as a function of its memory and the two pointers.  Held is the *)
(* number of bytes it holds, Place the slot of the k-th one, SlotFor the   *)
(* slot of the next.                                                       *)

Part(buf, from, to) == [k \in 1..(to - from) |-> buf[from + k - 1]]

Ring(buf, from, to) ==
    IF from <= to THEN Part(buf, from, to) ELSE Part(buf, from, N) \o Part(buf, 0, to)

Held(from, to) == IF from <= to THEN to - from ELSE N - from + to

Place(from, k) == IF from + k - 1 < N THEN from + k - 1 ELSE from + k - 1 - N

SlotFor(to) == IF to >= N THEN 0 ELSE to

Memory == [0..N-1 -> Byte]
Bytes == Seq(Byte)

LEMMA SizeOfRing == N \in Nat /\ N > 1
BY SerialAssumption

LEMMA PendingIsRing == Pending = Ring(rx_buf, rx_buf_out, rx_buf_in)
BY DEF Pending, Ring, Slots, Part

LEMMA PartProperties ==
    ASSUME NEW buf \in Memory, NEW from \in 0..N, NEW to \in 0..N, from <= to
    PROVE  /\ Part(buf, from, to) \in Bytes
           /\ Len(Part(buf, from, to)) = to - from
           /\ \A k \in 1..(to - from) : Part(buf, from, to)[k] = buf[from + k - 1]
<1>1. to - from \in Nat
  BY SizeOfRing
<1>2. \A k \in 1..(to - from) : from + k - 1 \in 0..N-1
  BY SizeOfRing
<1>3. \A k \in 1..(to - from) : buf[from + k - 1] \in Byte
  BY <1>2 DEF Memory
<1>4. Part(buf, from, to) \in [1..(to - from) -> Byte]
  BY <1>3 DEF Part
<1>5. Part(buf, from, to) \in Seq(Byte)
  BY <1>1, <1>4, SeqDef
<1>6. Len(Part(buf, from, to)) = to - from
  BY <1>1, <1>4, <1>5, LenProperties
<1> QED
  BY <1>5, <1>6 DEF Part, Bytes

LEMMA RingProperties ==
    ASSUME NEW buf \in Memory, NEW from \in 0..N, NEW to \in 0..N
    PROVE  /\ Ring(buf, from, to) \in Bytes
           /\ Len(Ring(buf, from, to)) = Held(from, to)
           /\ \A k \in 1..Held(from, to) : Ring(buf, from, to)[k] = buf[Place(from, k)]
<1>1. CASE from <= to
  <2>1. Ring(buf, from, to) = Part(buf, from, to) /\ Held(from, to) = to - from
    BY <1>1 DEF Ring, Held
  <2>2. \A k \in 1..(to - from) : Place(from, k) = from + k - 1
    BY <1>1, SizeOfRing DEF Place
  <2>3. /\ Part(buf, from, to) \in Bytes
        /\ Len(Part(buf, from, to)) = to - from
        /\ \A k \in 1..(to - from) : Part(buf, from, to)[k] = buf[from + k - 1]
    BY <1>1, PartProperties
  <2> QED
    BY <2>1, <2>2, <2>3
<1>2. CASE ~(from <= to)
  <2> DEFINE left == Part(buf, from, N)
             right == Part(buf, 0, to)
  <2>1. Ring(buf, from, to) = left \o right /\ Held(from, to) = N - from + to
    BY <1>2 DEF Ring, Held
  <2>2. N \in 0..N /\ 0 \in 0..N /\ from <= N /\ 0 <= to
    BY SizeOfRing
  <2>3. /\ left \in Bytes /\ Len(left) = N - from
        /\ \A k \in 1..(N - from) : left[k] = buf[from + k - 1]
    BY <2>2, PartProperties
  <2>4. /\ right \in Bytes /\ Len(right) = to - 0
        /\ \A k \in 1..(to - 0) : right[k] = buf[0 + k - 1]
    BY <2>2, PartProperties
  <2> HIDE DEF left, right
  <2>5. /\ left \o right \in Seq(Byte) /\ Len(left \o right) = Len(left) + Len(right)
        /\ \A i \in 1..Len(left) + Len(right) :
              (left \o right)[i] = IF i <= Len(left) THEN left[i] ELSE right[i - Len(left)]
    BY <2>3, <2>4, ConcatProperties DEF Bytes
  <2>6. ASSUME NEW k \in 1..(N - from + to)
        PROVE  (left \o right)[k] = buf[Place(from, k)]
    <3>1. (left \o right)[k] = IF k <= N - from THEN left[k] ELSE right[k - (N - from)]
      BY <2>3, <2>4, <2>5, SizeOfRing
    <3>2. CASE k <= N - from
      <4>1. Place(from, k) = from + k - 1
        BY <3>2, SizeOfRing DEF Place
      <4>2. k \in 1..(N - from)
        BY <3>2, SizeOfRing
      <4> QED
        BY <3>1, <3>2, <4>1, <4>2, <2>3
    <3>3. CASE ~(k <= N - from)
      <4>1. Place(from, k) = 0 + (k - (N - from)) - 1
        BY <3>3, SizeOfRing DEF Place
      <4>2. k - (N - from) \in 1..(to - 0)
        BY <3>3, SizeOfRing
      <4> QED
        BY <3>1, <3>3, <4>1, <4>2, <2>4
    <3> QED
      BY <3>2, <3>3
  <2>7. Len(left \o right) = N - from + to
    BY <2>3, <2>4, <2>5, SizeOfRing
  <2> QED
    BY <2>1, <2>5, <2>6, <2>7 DEF Bytes
<1> QED
  BY <1>1, <1>2

(***************************************************************************)
(* A byte written into the next slot comes behind those that wait.         *)
(***************************************************************************)
LEMMA WriteAppends ==
    ASSUME NEW buf \in Memory, NEW from \in 0..N, NEW to \in 0..N, NEW byte \in Byte,
           Held(from, to) < N - 1
    PROVE  /\ Held(from, SlotFor(to) + 1) = Held(from, to) + 1
           /\ Ring([buf EXCEPT ![SlotFor(to)] = byte], from, SlotFor(to) + 1)
                = Append(Ring(buf, from, to), byte)
<1> DEFINE slot == IF to >= N THEN 0 ELSE to
           buf2 == [buf EXCEPT ![slot] = byte]
           s == Ring(buf, from, to)
           t == Ring(buf2, from, slot + 1)
<1>1. slot \in 0..N-1 /\ slot + 1 \in 0..N
  BY SizeOfRing
<1>2. buf2 \in Memory
  BY <1>1 DEF Memory
<1>3. Held(from, to) \in Nat /\ Held(from, slot + 1) = Held(from, to) + 1
  BY SizeOfRing DEF Held
<1>4. s \in Bytes /\ Len(s) = Held(from, to) /\ \A k \in 1..Held(from, to) : s[k] = buf[Place(from, k)]
  BY RingProperties
<1>5. /\ t \in Bytes /\ Len(t) = Held(from, slot + 1)
      /\ \A k \in 1..Held(from, slot + 1) : t[k] = buf2[Place(from, k)]
  <2> HIDE DEF slot, buf2
  <2> QED
    BY <1>1, <1>2, RingProperties
<1>6. /\ Append(s, byte) \in Seq(Byte) /\ Len(Append(s, byte)) = Len(s) + 1
      /\ \A i \in 1..Len(s) : Append(s, byte)[i] = s[i]
      /\ Append(s, byte)[Len(s) + 1] = byte
  <2> HIDE DEF s
  <2> QED
    BY <1>4, AppendProperties DEF Bytes
<1>7. \A k \in 1..Held(from, to) : Place(from, k) \in 0..N-1 /\ Place(from, k) # slot
  BY SizeOfRing DEF Held, Place
<1>8. Place(from, Held(from, to) + 1) = slot
  BY SizeOfRing DEF Held, Place
<1>9. ASSUME NEW k \in 1..Len(t) PROVE t[k] = Append(s, byte)[k]
  <2>1. t[k] = buf2[Place(from, k)]
    BY <1>5
  <2>2. CASE k = Held(from, to) + 1
    <3>1. buf2[slot] = byte
      BY <1>1 DEF Memory
    <3> QED
      BY <2>1, <2>2, <3>1, <1>8, <1>6, <1>4
  <2>3. CASE k # Held(from, to) + 1
    <3>1. k \in 1..Held(from, to)
      BY <2>3, <1>3, <1>5
    <3>2. buf2[Place(from, k)] = buf[Place(from, k)]
      BY <3>1, <1>7 DEF Memory
    <3> QED
      BY <2>1, <3>1, <3>2, <1>4, <1>6
  <2> QED
    BY <2>2, <2>3
<1>10. Len(t) = Len(Append(s, byte))
  BY <1>3, <1>4, <1>5, <1>6
<1> HIDE DEF s, t
<1>11. t = Append(s, byte)
  BY <1>5, <1>6, <1>9, <1>10, SeqEqual DEF Bytes
<1> QED
  BY <1>3, <1>11 DEF s, t, SlotFor

(***************************************************************************)
(* The main loop steps over the end of the memory, and takes a byte.       *)
(***************************************************************************)
LEMMA WrapKeeps ==
    ASSUME NEW buf \in Memory, NEW to \in 0..N, to # N
    PROVE  Ring(buf, 0, to) = Ring(buf, N, to)
<1> DEFINE s == Ring(buf, N, to)
           t == Ring(buf, 0, to)
<1>1. N \in 0..N /\ 0 \in 0..N /\ Held(N, to) = to /\ Held(0, to) = to
  BY SizeOfRing DEF Held
<1>2. s \in Bytes /\ Len(s) = to /\ \A k \in 1..to : s[k] = buf[Place(N, k)]
  <2>1. s \in Bytes /\ Len(s) = Held(N, to) /\ \A k \in 1..Held(N, to) : s[k] = buf[Place(N, k)]
    BY <1>1, RingProperties
  <2> QED
    BY <1>1, <2>1
<1>3. t \in Bytes /\ Len(t) = to /\ \A k \in 1..to : t[k] = buf[Place(0, k)]
  <2>1. t \in Bytes /\ Len(t) = Held(0, to) /\ \A k \in 1..Held(0, to) : t[k] = buf[Place(0, k)]
    BY <1>1, RingProperties
  <2> QED
    BY <1>1, <2>1
<1>4. \A k \in 1..to : Place(0, k) = Place(N, k)
  BY SizeOfRing DEF Place
<1> HIDE DEF s, t
<1>5. s = t
  BY <1>2, <1>3, <1>4, SeqEqual DEF Bytes
<1> QED
  BY <1>5 DEF s, t

LEMMA TakeRemoves ==
    ASSUME NEW buf \in Memory, NEW from \in 0..N, NEW to \in 0..N, from < N, from # to
    PROVE  /\ buf[from] \in Byte
           /\ from + 1 \in 0..N
           /\ Held(from + 1, to) = Held(from, to) - 1
           /\ Ring(buf, from, to) = <<buf[from]>> \o Ring(buf, from + 1, to)
<1> DEFINE s == Ring(buf, from, to)
           t == Ring(buf, from + 1, to)
           h == <<buf[from]>>
<1>1. buf[from] \in Byte /\ from + 1 \in 0..N
  BY SizeOfRing DEF Memory
<1>2. Held(from, to) \in Nat /\ Held(from + 1, to) = Held(from, to) - 1
  BY SizeOfRing DEF Held
<1>3. s \in Bytes /\ Len(s) = Held(from, to) /\ \A k \in 1..Held(from, to) : s[k] = buf[Place(from, k)]
  BY RingProperties
<1>4. /\ t \in Bytes /\ Len(t) = Held(from + 1, to)
      /\ \A k \in 1..Held(from + 1, to) : t[k] = buf[Place(from + 1, k)]
  BY <1>1, RingProperties
<1>5. h \in Seq(Byte) /\ Len(h) = 1 /\ h[1] = buf[from]
  BY <1>1
<1>6. Place(from, 1) = from /\ \A k \in 1..Held(from + 1, to) : Place(from + 1, k) = Place(from, k + 1)
  BY SizeOfRing DEF Place, Held
<1> HIDE DEF s, t, h
<1>7. /\ h \o t \in Seq(Byte) /\ Len(h \o t) = 1 + Len(t)
      /\ \A i \in 1..(1 + Len(t)) : (h \o t)[i] = IF i <= 1 THEN h[i] ELSE t[i - 1]
  <2>1. h \in Seq(Byte) /\ t \in Seq(Byte)
    BY <1>4, <1>5 DEF Bytes
  <2>2. /\ h \o t \in Seq(Byte) /\ Len(h \o t) = Len(h) + Len(t)
        /\ \A i \in 1..(Len(h) + Len(t)) : (h \o t)[i] = IF i <= Len(h) THEN h[i] ELSE t[i - Len(h)]
    BY <2>1, ConcatProperties
  <2>3. Len(h) = 1
    BY <1>5
  <2> QED
    BY <2>2, <2>3
<1>8. ASSUME NEW i \in 1..Len(s) PROVE s[i] = (h \o t)[i]
  <2>1. s[i] = buf[Place(from, i)] /\ i \in Nat /\ i \in 1..(1 + Len(t))
    BY <1>2, <1>3, <1>4
  <2>2. CASE i = 1
    <3>1. (h \o t)[1] = h[1]
      BY <1>7, <2>1, <2>2
    <3> QED
      BY <2>1, <2>2, <3>1, <1>5, <1>6
  <2>3. CASE i # 1
    <3>1. i - 1 \in 1..Held(from + 1, to) /\ ~(i <= 1)
      BY <2>1, <2>3, <1>4, <1>2
    <3>2. (h \o t)[i] = t[i - 1]
      BY <1>7, <2>1, <3>1
    <3>3. t[i - 1] = buf[Place(from + 1, i - 1)]
      BY <1>4, <3>1
    <3>4. Place(from + 1, i - 1) = Place(from, (i - 1) + 1) /\ (i - 1) + 1 = i
      BY <1>6, <2>1, <3>1
    <3> QED
      BY <2>1, <3>2, <3>3, <3>4
  <2> QED
    BY <2>2, <2>3
<1>9. Len(s) = Len(h \o t)
  BY <1>2, <1>3, <1>4, <1>7
<1>10. s = h \o t
  BY <1>3, <1>7, <1>8, <1>9, SeqEqual DEF Bytes
<1> QED
  BY <1>1, <1>2, <1>10 DEF s, t, h

-----------------------------------------------------------------------------
(* Sequences                                                               *)

LEMMA AppendBehind ==
    ASSUME NEW p \in Bytes, NEW q \in Bytes, NEW byte \in Byte
    PROVE  Append(p \o q, byte) = p \o Append(q, byte)
<1>1. p \o q \in Seq(Byte) /\ <<byte>> \in Seq(Byte)
  BY ConcatProperties DEF Bytes
<1>2. Append(p \o q, byte) = (p \o q) \o <<byte>>
  BY <1>1, AppendIsConcat
<1>3. Append(q, byte) = q \o <<byte>>
  BY AppendIsConcat DEF Bytes
<1> QED
  BY <1>1, <1>2, <1>3, ConcatAssociative DEF Bytes

LEMMA MoveHead ==
    ASSUME NEW p \in Bytes, NEW q \in Bytes, NEW byte \in Byte
    PROVE  p \o (<<byte>> \o q) = Append(p, byte) \o q
<1>1. <<byte>> \in Seq(Byte)
  OBVIOUS
<1>2. Append(p, byte) = p \o <<byte>>
  BY AppendIsConcat DEF Bytes
<1> QED
  BY <1>1, <1>2, ConcatAssociative DEF Bytes

LEMMA DropFront ==
    ASSUME NEW p \in Bytes, NEW q \in Bytes, NEW k \in Nat, k <= Len(p)
    PROVE  /\ SubSeq(p, k + 1, Len(p)) \in Bytes
           /\ SubSeq(p \o q, k + 1, Len(p \o q)) = SubSeq(p, k + 1, Len(p)) \o q
<1> DEFINE a == SubSeq(p, k + 1, Len(p))
           c == p \o q
           b == SubSeq(c, k + 1, Len(c))
<1>1. Len(p) \in Nat /\ Len(q) \in Nat
  BY LenProperties DEF Bytes
<1>2. /\ c \in Seq(Byte) /\ Len(c) = Len(p) + Len(q)
      /\ \A i \in 1..Len(p) + Len(q) : c[i] = IF i <= Len(p) THEN p[i] ELSE q[i - Len(p)]
  BY ConcatProperties DEF Bytes
<1> HIDE DEF c
<1>3. \A i \in (k + 1)..Len(p) : p[i] \in Byte
  <2>1. \A i \in (k + 1)..Len(p) : i \in 1..Len(p)
    BY <1>1
  <2> QED
    BY <2>1, ElementOfSeq DEF Bytes
<1>4. /\ a \in Seq(Byte) /\ Len(a) = Len(p) - k
      /\ \A i \in 1..(Len(p) - k) : a[i] = p[k + i]
  <2>1. /\ a \in Seq(Byte) /\ Len(a) = IF k + 1 <= Len(p) THEN Len(p) - (k + 1) + 1 ELSE 0
        /\ \A i \in 1..(Len(p) - (k + 1) + 1) : a[i] = p[(k + 1) + i - 1]
    BY <1>1, <1>3, SubSeqProperties
  <2> HIDE DEF a
  <2> QED
    BY <1>1, <2>1
<1>5. \A i \in (k + 1)..Len(c) : c[i] \in Byte
  <2>1. \A i \in (k + 1)..Len(c) : i \in 1..Len(c)
    BY <1>1, <1>2
  <2> QED
    BY <1>2, <2>1, ElementOfSeq
<1>6. /\ b \in Seq(Byte) /\ Len(b) = Len(c) - k
      /\ \A i \in 1..(Len(c) - k) : b[i] = c[k + i]
  <2>1. /\ b \in Seq(Byte) /\ Len(b) = IF k + 1 <= Len(c) THEN Len(c) - (k + 1) + 1 ELSE 0
        /\ \A i \in 1..(Len(c) - (k + 1) + 1) : b[i] = c[(k + 1) + i - 1]
    BY <1>1, <1>2, <1>5, SubSeqProperties
  <2> HIDE DEF b
  <2> QED
    BY <1>1, <1>2, <2>1
<1> HIDE DEF a, b
<1>7. /\ a \o q \in Seq(Byte) /\ Len(a \o q) = Len(a) + Len(q)
      /\ \A i \in 1..Len(a) + Len(q) : (a \o q)[i] = IF i <= Len(a) THEN a[i] ELSE q[i - Len(a)]
  BY <1>4, ConcatProperties DEF Bytes
<1>8. ASSUME NEW i \in 1..Len(b) PROVE b[i] = (a \o q)[i]
  <2>1. /\ i \in 1..(Len(c) - k) /\ i \in 1..(Len(a) + Len(q)) /\ k + i \in 1..(Len(p) + Len(q))
    BY <1>1, <1>2, <1>4, <1>6
  <2>2. b[i] = c[k + i]
    BY <1>6, <2>1
  <2>3. CASE i <= Len(a)
    <3>1. i \in 1..(Len(p) - k) /\ k + i <= Len(p)
      BY <1>1, <1>4, <2>1, <2>3
    <3>2. c[k + i] = p[k + i] /\ a[i] = p[k + i] /\ (a \o q)[i] = a[i]
      BY <1>2, <1>4, <1>7, <2>1, <2>3, <3>1
    <3> QED
      BY <2>2, <3>2
  <2>4. CASE ~(i <= Len(a))
    <3>1. ~(k + i <= Len(p)) /\ k + i - Len(p) = i - Len(a)
      BY <1>1, <1>4, <2>1, <2>4
    <3>2. c[k + i] = q[k + i - Len(p)] /\ (a \o q)[i] = q[i - Len(a)]
      BY <1>2, <1>7, <2>1, <2>4, <3>1
    <3> QED
      BY <2>2, <3>1, <3>2
  <2> QED
    BY <2>3, <2>4
<1>9. Len(b) = Len(a \o q)
  BY <1>1, <1>2, <1>4, <1>6, <1>7
<1>10. b = a \o q
  BY <1>6, <1>7, <1>8, <1>9, SeqEqual
<1> QED
  BY <1>4, <1>10 DEF a, b, c, Bytes

-----------------------------------------------------------------------------
(***************************************************************************)
(* The inductive invariant.  Pointers: the write pointer leaves its first  *)
(* place for good with the first byte, and the read pointer is back from   *)
(* the end of the memory when the main loop reads.  Kept: until the ring   *)
(* overruns, the bytes that came are those in the buffer followed by those *)
(* in the ring, which keeps a slot free, so that equal pointers mean an    *)
(* empty ring and the one the main loop has found filled stays filled.     *)
(***************************************************************************)
SerialType ==
    /\ line \in Bytes /\ process_buf \in Bytes /\ arrived \in Bytes
    /\ rx_buf \in Memory /\ rx_buf_in \in 0..N /\ rx_buf_out \in 0..N
    /\ offset \in Nat /\ offset <= Len(process_buf)
    /\ pc \in {"main", "fill", "take", "read", "search"}
    /\ overrun \in BOOLEAN

Pointers ==
    /\ rx_buf_in = 0 => rx_buf_out = 0 /\ pc # "read"
    /\ pc = "read" => rx_buf_out < N

Kept ==
    ~overrun =>
        /\ arrived = process_buf \o Ring(rx_buf, rx_buf_out, rx_buf_in)
        /\ Held(rx_buf_out, rx_buf_in) < N
        /\ pc \in {"take", "read"} => rx_buf_in # rx_buf_out

SerialInv == SerialType /\ Pointers /\ Kept

SerialNext == ReceiveInput \/ Service \/ Dispatch \/ \E bytes \in Seq(Byte) : Transmit(bytes)

LEMMA InitHolds == SerialInit /\ line = << >> => SerialInv
<1> SUFFICES ASSUME SerialInit, line = << >> PROVE SerialInv
  OBVIOUS
<1>1. 0 \in Byte
  BY DEF Byte, ByteMax
<1>2. rx_buf \in Memory /\ 0 \in 0..N
  BY <1>1, SizeOfRing DEF SerialInit, Memory
<1>3. << >> \in Bytes /\ Len(<< >>) = 0
  BY EmptySeq DEF Bytes
<1>4. SerialType
  <2>1. line \in Bytes /\ process_buf \in Bytes /\ arrived \in Bytes
    BY <1>3 DEF SerialInit
  <2>2. offset \in Nat /\ offset <= Len(process_buf)
    BY <1>3 DEF SerialInit
  <2>3. rx_buf_in \in 0..N /\ rx_buf_out \in 0..N
    BY <1>2 DEF SerialInit
  <2>4. pc = "main" /\ overrun \in BOOLEAN
    BY DEF SerialInit
  <2> QED
    BY <1>2, <2>1, <2>2, <2>3, <2>4 DEF SerialType
<1>5. Ring(rx_buf, 0, 0) \in Bytes /\ Len(Ring(rx_buf, 0, 0)) = 0 /\ Held(0, 0) = 0
  BY <1>2, RingProperties DEF Held
<1>6. Ring(rx_buf, 0, 0) = << >>
  BY <1>5, EmptySeq DEF Bytes
<1>7. << >> \o << >> = << >>
  BY <1>3, ConcatEmptySeq DEF Bytes
<1>8. Kept
  BY <1>5, <1>6, <1>7, SizeOfRing DEF SerialInit, Kept
<1> QED
  BY <1>4, <1>8 DEF SerialInv, Pointers, SerialInit

(***************************************************************************)
(* The interrupt.  A ring that has room passes both tests for a full one.  *)
(***************************************************************************)
LEMMA ReceiveKeeps == SerialInv /\ ReceiveInput => SerialInv'
<1> SUFFICES ASSUME SerialInv, ReceiveInput PROVE SerialInv'
  OBVIOUS
<1> DEFINE byte == Head(line)
           slot == IF rx_buf_in >= N THEN 0 ELSE rx_buf_in
           held == Ring(rx_buf, rx_buf_out, rx_buf_in)
<1>1. /\ line \in Bytes /\ process_buf \in Bytes /\ arrived \in Bytes
      /\ rx_buf \in Memory /\ rx_buf_in \in 0..N /\ rx_buf_out \in 0..N
  BY DEF SerialInv, SerialType
<1>2. byte \in Byte /\ line' \in Bytes
  BY <1>1, HeadTailProperties DEF ReceiveInput, Bytes
<1>3. arrived' = Append(arrived, byte) /\ process_buf' = process_buf /\ offset' = offset /\ pc' = pc
  BY DEF ReceiveInput, loop
<1>4. arrived' \in Bytes
  BY <1>1, <1>2, <1>3, AppendProperties DEF Bytes
<1>5. held \in Bytes /\ Len(Pending) = Held(rx_buf_out, rx_buf_in)
  BY <1>1, PendingIsRing, RingProperties
<1>6. overrun' = (overrun \/ Held(rx_buf_out, rx_buf_in) >= N - 1)
  BY <1>5 DEF ReceiveInput
<1>7. \/ rx_buf' = rx_buf /\ rx_buf_in' = rx_buf_in /\ rx_buf_out' = rx_buf_out
      \/ /\ rx_buf' = [rx_buf EXCEPT ![slot] = byte]
         /\ rx_buf_in' = slot + 1 /\ rx_buf_out' = rx_buf_out
  BY DEF ReceiveInput, ring, WriteSlot
<1>8. slot \in 0..N-1 /\ slot + 1 \in 0..N /\ slot + 1 # 0
  BY <1>1, SizeOfRing
<1>9. rx_buf' \in Memory /\ rx_buf_in' \in 0..N /\ rx_buf_out' \in 0..N
  BY <1>1, <1>2, <1>7, <1>8 DEF Memory
<1>10. SerialType'
  <2>1. overrun' \in BOOLEAN
    BY <1>6 DEF SerialInv, SerialType
  <2> QED
    BY <1>2, <1>3, <1>4, <1>9, <1>1, <2>1 DEF SerialInv, SerialType
<1>11. Pointers'
  BY <1>3, <1>7, <1>8 DEF SerialInv, Pointers
<1>12. Kept'
  <2> SUFFICES ASSUME ~overrun' PROVE
        /\ arrived' = process_buf' \o Ring(rx_buf', rx_buf_out', rx_buf_in')
        /\ Held(rx_buf_out', rx_buf_in') < N
        /\ pc' \in {"take", "read"} => rx_buf_in' # rx_buf_out'
    BY DEF Kept
  <2>1. ~overrun /\ ~(Held(rx_buf_out, rx_buf_in) >= N - 1)
    BY <1>6
  <2>2. Held(rx_buf_out, rx_buf_in) < N - 1
    BY <1>1, <2>1, SizeOfRing DEF Held
  <2>3. ~IsFull
    BY <1>1, <2>2, SizeOfRing DEF IsFull, Held
  <2>4. /\ rx_buf' = [rx_buf EXCEPT ![slot] = byte]
        /\ rx_buf_in' = slot + 1 /\ rx_buf_out' = rx_buf_out
    BY <2>3 DEF ReceiveInput, WriteSlot
  <2>5. /\ Held(rx_buf_out, slot + 1) = Held(rx_buf_out, rx_buf_in) + 1
        /\ Ring([rx_buf EXCEPT ![slot] = byte], rx_buf_out, slot + 1) = Append(held, byte)
    <3>1. slot = SlotFor(rx_buf_in)
      BY DEF SlotFor
    <3> HIDE DEF byte, slot
    <3> QED
      BY <1>1, <1>2, <2>2, <3>1, WriteAppends
  <2>6. arrived = process_buf \o held
    BY <2>1 DEF SerialInv, Kept
  <2>7. Append(process_buf \o held, byte) = process_buf \o Append(held, byte)
    <3> HIDE DEF byte, held
    <3> QED
      BY <1>1, <1>2, <1>5, AppendBehind
  <2>8. arrived' = process_buf' \o Ring(rx_buf', rx_buf_out', rx_buf_in')
    BY <1>3, <2>4, <2>5, <2>6, <2>7
  <2>9. Held(rx_buf_out', rx_buf_in') < N
    BY <1>1, <2>2, <2>4, <2>5, SizeOfRing DEF Held
  <2>10. rx_buf_in' # rx_buf_out'
    BY <1>1, <2>2, <2>4, SizeOfRing DEF Held
  <2> QED
    BY <2>8, <2>9, <2>10
<1> QED
  BY <1>10, <1>11, <1>12 DEF SerialInv

(***************************************************************************)
(* The main loop.                                                          *)
(***************************************************************************)
LEMMA FillKeeps == SerialInv /\ (Call \/ Fill) => SerialInv'
<1> SUFFICES ASSUME SerialInv, Call \/ Fill PROVE SerialInv'
  OBVIOUS
<1>1. /\ UNCHANGED <<line, rx_buf, rx_buf_in, rx_buf_out, process_buf, offset, arrived, overrun>>
      /\ pc' \in {"main", "fill", "take", "search"}
      /\ pc' = "take" => rx_buf_in # rx_buf_out
  BY DEF Call, Fill, ring, ghosts
<1>2. SerialType'
  BY <1>1 DEF SerialInv, SerialType
<1>3. Pointers'
  BY <1>1 DEF SerialInv, Pointers
<1>4. Kept'
  BY <1>1 DEF SerialInv, Kept
<1> QED
  BY <1>2, <1>3, <1>4 DEF SerialInv

LEMMA TakeWrapKeeps == SerialInv /\ TakeWrap => SerialInv'
<1> SUFFICES ASSUME SerialInv, TakeWrap PROVE SerialInv'
  OBVIOUS
<1>1. /\ UNCHANGED <<line, rx_buf, rx_buf_in, process_buf, offset, arrived, overrun>>
      /\ pc' = "read" /\ rx_buf_in # rx_buf_out
      /\ rx_buf_out' = IF rx_buf_out >= N THEN 0 ELSE rx_buf_out
  BY DEF TakeWrap, ghosts
<1>2. rx_buf \in Memory /\ rx_buf_in \in 0..N /\ rx_buf_out \in 0..N
  BY DEF SerialInv, SerialType
<1>3. rx_buf_out' \in 0..N /\ rx_buf_out' < N
  BY <1>1, <1>2, SizeOfRing
<1>4. rx_buf_in # 0
  BY <1>1 DEF SerialInv, Pointers
<1>5. SerialType'
  BY <1>1, <1>3 DEF SerialInv, SerialType
<1>6. Pointers'
  BY <1>1, <1>3, <1>4 DEF Pointers
<1>7. Kept'
  <2>1. CASE rx_buf_out # N
    <3>1. rx_buf_out' = rx_buf_out
      BY <1>1, <1>2, <2>1, SizeOfRing
    <3> QED
      BY <1>1, <3>1 DEF SerialInv, Kept
  <2>2. CASE rx_buf_out = N
    <3>1. rx_buf_out' = 0 /\ rx_buf_in # N
      BY <1>1, <2>2, SizeOfRing
    <3>2. Ring(rx_buf, 0, rx_buf_in) = Ring(rx_buf, N, rx_buf_in)
      BY <1>2, <3>1, WrapKeeps
    <3>3. Held(0, rx_buf_in) < N
      BY <1>2, <3>1, SizeOfRing DEF Held
    <3>4. ~overrun => arrived = process_buf \o Ring(rx_buf, N, rx_buf_in)
      BY <2>2 DEF SerialInv, Kept
    <3> QED
      BY <1>1, <1>4, <3>1, <3>2, <3>3, <3>4 DEF Kept
  <2> QED
    BY <2>1, <2>2
<1> QED
  BY <1>5, <1>6, <1>7 DEF SerialInv

LEMMA TakeNothingKeeps == SerialInv /\ TakeNothing => SerialInv'
<1> SUFFICES ASSUME SerialInv, TakeNothing PROVE SerialInv'
  OBVIOUS
<1>1. /\ UNCHANGED <<line, rx_buf, rx_buf_in, rx_buf_out, offset, arrived, overrun>>
      /\ pc = "take" /\ pc' = "fill" /\ rx_buf_out = rx_buf_in
  BY DEF TakeNothing, ring, ghosts
<1>2. PICK byte \in Garbage : process_buf' = Append(process_buf, byte)
  BY DEF TakeNothing
<1>3. byte \in Byte /\ process_buf \in Seq(Byte) /\ offset \in Nat /\ offset <= Len(process_buf)
  BY SerialAssumption DEF SerialInv, SerialType, Bytes
<1>4. process_buf' \in Bytes /\ Len(process_buf') = Len(process_buf) + 1
  BY <1>2, <1>3, AppendProperties DEF Bytes
<1>5. offset' <= Len(process_buf')
  BY <1>1, <1>3, <1>4, LenProperties
<1>6. SerialType'
  BY <1>1, <1>4, <1>5 DEF SerialInv, SerialType
<1>7. Pointers'
  BY <1>1 DEF SerialInv, Pointers
<1>8. Kept'
  BY <1>1 DEF SerialInv, Kept
<1> QED
  BY <1>6, <1>7, <1>8 DEF SerialInv

LEMMA TakeByteKeeps == SerialInv /\ TakeByte => SerialInv'
<1> SUFFICES ASSUME SerialInv, TakeByte PROVE SerialInv'
  OBVIOUS
<1> DEFINE byte == rx_buf[rx_buf_out]
<1>1. /\ UNCHANGED <<line, rx_buf, rx_buf_in, offset, arrived, overrun>>
      /\ pc = "read" /\ pc' = "fill" /\ rx_buf_out' = rx_buf_out + 1
      /\ process_buf' = Append(process_buf, byte)
  BY DEF TakeByte, ghosts
<1>2. /\ rx_buf \in Memory /\ rx_buf_in \in 0..N /\ rx_buf_out \in 0..N
      /\ process_buf \in Bytes /\ offset \in Nat /\ offset <= Len(process_buf)
  BY DEF SerialInv, SerialType
<1>3. rx_buf_out < N /\ rx_buf_in # 0
  BY <1>1 DEF SerialInv, Pointers
<1>4. byte \in Byte /\ rx_buf_out + 1 \in 0..N
  BY <1>2, <1>3, SizeOfRing DEF Memory
<1> HIDE DEF byte
<1>5. process_buf' \in Bytes /\ Len(process_buf') = Len(process_buf) + 1
  BY <1>1, <1>2, <1>4, AppendProperties DEF Bytes
<1>6. offset' <= Len(process_buf')
  BY <1>1, <1>2, <1>5, LenProperties DEF Bytes
<1>7. SerialType'
  BY <1>1, <1>4, <1>5, <1>6 DEF SerialInv, SerialType
<1>8. Pointers'
  BY <1>1, <1>3 DEF Pointers
<1>9. Kept'
  <2> SUFFICES ASSUME ~overrun PROVE
        /\ arrived = process_buf' \o Ring(rx_buf, rx_buf_out + 1, rx_buf_in)
        /\ Held(rx_buf_out + 1, rx_buf_in) < N
    BY <1>1 DEF Kept
  <2>1. /\ arrived = process_buf \o Ring(rx_buf, rx_buf_out, rx_buf_in)
        /\ Held(rx_buf_out, rx_buf_in) < N /\ rx_buf_in # rx_buf_out
    BY <1>1 DEF SerialInv, Kept
  <2>2. /\ Held(rx_buf_out + 1, rx_buf_in) = Held(rx_buf_out, rx_buf_in) - 1
        /\ Ring(rx_buf, rx_buf_out, rx_buf_in) = <<byte>> \o Ring(rx_buf, rx_buf_out + 1, rx_buf_in)
    BY <1>2, <1>3, <2>1, TakeRemoves DEF byte
  <2>3. Ring(rx_buf, rx_buf_out + 1, rx_buf_in) \in Bytes
    BY <1>2, <1>4, RingProperties
  <2>4. arrived = Append(process_buf, byte) \o Ring(rx_buf, rx_buf_out + 1, rx_buf_in)
    <3> DEFINE rest == Ring(rx_buf, rx_buf_out + 1, rx_buf_in)
    <3>1. arrived = process_buf \o (<<byte>> \o rest) /\ rest \in Bytes
      BY <2>1, <2>2, <2>3
    <3> HIDE DEF rest
    <3>2. process_buf \o (<<byte>> \o rest) = Append(process_buf, byte) \o rest
      BY <1>2, <1>4, <3>1, MoveHead
    <3> QED
      BY <3>1, <3>2 DEF rest
  <2>5. Held(rx_buf_out + 1, rx_buf_in) < N
    BY <1>2, <2>1, <2>2, SizeOfRing DEF Held
  <2> QED
    BY <1>1, <2>4, <2>5
<1> QED
  BY <1>7, <1>8, <1>9 DEF SerialInv

(***************************************************************************)
(* The search moves offset inside the buffer only: a head has seven bytes, *)
(* and a whole frame has arrived.                                          *)
(***************************************************************************)
LEMMA SkipKeeps ==
    ASSUME SerialInv, NEW bytes \in Nat, bytes <= Len(process_buf) - offset, Skip(bytes)
    PROVE  SerialInv'
<1>1. /\ UNCHANGED <<line, rx_buf, rx_buf_in, rx_buf_out, process_buf, pc, arrived, overrun>>
      /\ offset' = offset + bytes
  BY DEF Skip, ring, ghosts
<1>2. offset \in Nat /\ Len(process_buf) \in Nat
  BY LenProperties DEF SerialInv, SerialType, Bytes
<1>3. offset' \in Nat /\ offset' <= Len(process_buf')
  BY <1>1, <1>2
<1>4. SerialType'
  BY <1>1, <1>3 DEF SerialInv, SerialType
<1>5. Pointers'
  BY <1>1 DEF SerialInv, Pointers
<1>6. Kept'
  BY <1>1 DEF SerialInv, Kept
<1> QED
  BY <1>4, <1>5, <1>6 DEF SerialInv

LEMMA SearchKeeps ==
    SerialInv /\ (SkipNoHead \/ SkipVersion \/ SkipTooLong \/ SkipBadSum \/ Dispatch) => SerialInv'
<1> SUFFICES ASSUME SerialInv,
                    SkipNoHead \/ SkipVersion \/ SkipTooLong \/ SkipBadSum \/ Dispatch
             PROVE  SerialInv'
  OBVIOUS
<1>1. process_buf \in Seq(Byte) /\ Len(process_buf) \in Nat /\ offset \in Nat
  BY LenProperties DEF SerialInv, SerialType, Bytes
<1>2. Len(process_buf) - offset >= 7
  BY DEF SkipNoHead, SkipVersion, SkipTooLong, SkipBadSum, Dispatch, Whole, Searching, PROTOCOL_HEAD
<1>3. ASSUME NEW bytes \in {1, 2, 3}, Skip(bytes) PROVE SerialInv'
  BY <1>1, <1>2, <1>3, SkipKeeps
<1>4. CASE Dispatch
  <2>1. At(4) \in Byte /\ At(5) \in Byte
    <3>1. offset + 4 + 1 \in 1..Len(process_buf) /\ offset + 5 + 1 \in 1..Len(process_buf)
      BY <1>1, <1>2
    <3> QED
      BY <1>1, <3>1, ElementOfSeq DEF At
  <2>2. FrameLen \in Nat
    <3>1. At(4) \in Nat /\ At(5) \in Nat
      BY <2>1 DEF Byte
    <3>2. PICK sum \in Nat : sum = At(4) * 256 + At(5) + 7
      BY <3>1
    <3>3. FrameLen = sum % 65536
      BY <3>2 DEF FrameLen, Total, PROTOCOL_HEAD
    <3>4. \A m \in Nat : m % 65536 \in Nat
      OBVIOUS
    <3> QED
      BY <3>3, <3>4
  <2>3. FrameLen <= Len(process_buf) - offset /\ Skip(FrameLen)
    BY <1>1, <1>4, <2>2 DEF Dispatch, Whole, Complete
  <2> QED
    BY <2>2, <2>3, SkipKeeps
<1> QED
  BY <1>3, <1>4 DEF SkipNoHead, SkipVersion, SkipTooLong, SkipBadSum

LEMMA CompactKeeps == SerialInv /\ Compact => SerialInv'
<1> SUFFICES ASSUME SerialInv, Compact PROVE SerialInv'
  OBVIOUS
<1> DEFINE held == Ring(rx_buf, rx_buf_out, rx_buf_in)
<1>1. /\ UNCHANGED <<line, rx_buf, rx_buf_in, rx_buf_out, overrun>>
      /\ pc' = "main" /\ offset' = 0
      /\ process_buf' = SubSeq(process_buf, offset + 1, Len(process_buf))
      /\ arrived' = SubSeq(arrived, offset + 1, Len(arrived))
  BY DEF Compact, ring
<1>2. /\ process_buf \in Bytes /\ offset \in Nat /\ offset <= Len(process_buf)
      /\ rx_buf \in Memory /\ rx_buf_in \in 0..N /\ rx_buf_out \in 0..N
      /\ arrived \in Bytes
  BY DEF SerialInv, SerialType
<1>3. held \in Bytes
  BY <1>2, RingProperties
<1> HIDE DEF held
<1>4. /\ process_buf' \in Bytes
      /\ SubSeq(process_buf \o held, offset + 1, Len(process_buf \o held)) = process_buf' \o held
  BY <1>1, <1>2, <1>3, DropFront
<1>5. arrived' \in Bytes
  <2>1. Len(arrived) \in Nat /\ \A i \in (offset + 1)..Len(arrived) : i \in 1..Len(arrived)
    BY <1>2, LenProperties DEF Bytes
  <2>2. \A i \in (offset + 1)..Len(arrived) : arrived[i] \in Byte
    BY <1>2, <2>1, ElementOfSeq DEF Bytes
  <2>3. offset + 1 \in Int /\ Len(arrived) \in Int
    BY <1>2, <2>1
  <2> QED
    BY <1>1, <2>2, <2>3, SubSeqProperties DEF Bytes
<1>6. Len(process_buf') \in Nat
  BY <1>4, LenProperties DEF Bytes
<1>7. SerialType'
  BY <1>1, <1>4, <1>5, <1>6 DEF SerialInv, SerialType
<1>8. Pointers'
  BY <1>1 DEF SerialInv, Pointers
<1>9. Kept'
  BY <1>1, <1>4 DEF SerialInv, Kept, held
<1> QED
  BY <1>7, <1>8, <1>9 DEF SerialInv

LEMMA TransmitKeeps ==
    ASSUME SerialInv, NEW bytes \in Seq(Byte), Transmit(bytes)
    PROVE  SerialInv'
<1>1. /\ UNCHANGED <<rx_buf, rx_buf_in, rx_buf_out, process_buf, offset, pc, arrived, overrun>>
      /\ line' \in Bytes
  BY DEF Transmit, ring, loop, ghosts, Bytes
<1>2. SerialType'
  BY <1>1 DEF SerialInv, SerialType
<1>3. Pointers'
  BY <1>1 DEF SerialInv, Pointers
<1>4. Kept'
  BY <1>1 DEF SerialInv, Kept
<1> QED
  BY <1>2, <1>3, <1>4 DEF SerialInv

LEMMA StutterKeeps == SerialInv /\ UNCHANGED serialVars => SerialInv'
<1> SUFFICES ASSUME SerialInv, UNCHANGED serialVars PROVE SerialInv'
  OBVIOUS
<1>1. UNCHANGED <<line, rx_buf, rx_buf_in, rx_buf_out, process_buf, offset, pc, arrived, overrun>>
  BY DEF serialVars
<1> QED
  BY <1>1 DEF SerialInv, SerialType, Pointers, Kept

LEMMA StepKeeps == SerialInv /\ [SerialNext]_serialVars => SerialInv'
<1> SUFFICES ASSUME SerialInv, [SerialNext]_serialVars PROVE SerialInv'
  OBVIOUS
<1>1. CASE ReceiveInput
  BY <1>1, ReceiveKeeps
<1>2. CASE Service
  BY <1>2, FillKeeps, TakeWrapKeeps, TakeNothingKeeps, TakeByteKeeps, SearchKeeps, CompactKeeps DEF Service
<1>3. CASE Dispatch
  BY <1>3, SearchKeeps
<1>4. CASE \E bytes \in Seq(Byte) : Transmit(bytes)
  BY <1>4, TransmitKeeps
<1>5. CASE UNCHANGED serialVars
  BY <1>5, StutterKeeps
<1> QED
  BY <1>1, <1>2, <1>3, <1>4, <1>5 DEF SerialNext

\* As long as the ring has room for every byte that comes, none is lost, doubled
\* or moved between the interrupt and the buffer: for every size of the ring and
\* of the buffer, any bytes on the line, and an interrupt between any two steps of
\* uart_receive_input, take_byte_rxbuff and cellular_uart_service.
THEOREM SerialLosesNothing == SerialSpec => []NothingLost
<1>1. SerialInit /\ line = << >> => SerialInv
  BY InitHolds
<1>2. SerialInv /\ [SerialNext]_serialVars => SerialInv'
  BY StepKeeps
<1>3. SerialInv => NothingLost
  BY PendingIsRing DEF SerialInv, Kept, NothingLost
<1> QED
  BY <1>1, <1>2, <1>3, PTL DEF SerialSpec, SerialNext

-----------------------------------------------------------------------------
(* The firmware as a whole keeps what came.                                *)

\* A memory of zeros with both pointers at its start is an empty ring.
LEMMA EmptyRing ==
    ASSUME NEW zeros, zeros = [i \in 0..N-1 |-> 0]
    PROVE  zeros \in Memory /\ Ring(zeros, 0, 0) = << >> /\ Held(0, 0) = 0 /\ 0 \in 0..N
<1>1. 0 \in Byte
  BY DEF Byte, ByteMax
<1>2. zeros \in Memory /\ 0 \in 0..N
  BY <1>1, SizeOfRing DEF Memory
<1>3. Held(0, 0) = 0
  BY DEF Held
<1>4. Ring(zeros, 0, 0) \in Bytes /\ Len(Ring(zeros, 0, 0)) = 0
  BY <1>2, <1>3, RingProperties
<1>5. Ring(zeros, 0, 0) = << >>
  BY <1>4, EmptySeq DEF Bytes
<1> QED
  BY <1>2, <1>3, <1>5

\* A restart empties buffer and ring together.
LEMMA RestartKeeps == SerialInv /\ Restart => SerialInv'
<1> SUFFICES ASSUME SerialInv, Restart PROVE SerialInv'
  OBVIOUS
<1>1. /\ rx_buf' = [i \in 0..N-1 |-> 0] /\ rx_buf_in' = 0 /\ rx_buf_out' = 0
      /\ process_buf' = << >> /\ offset' = 0 /\ pc' = "main" /\ arrived' = << >>
      /\ line' = line /\ overrun' = overrun
  BY DEF Restart
<1>2. line \in Bytes /\ overrun \in BOOLEAN
  BY DEF SerialInv, SerialType
<1>3. << >> \in Bytes /\ Len(<< >>) = 0 /\ << >> \o << >> = << >>
  BY EmptySeq, ConcatEmptySeq DEF Bytes
<1>4. rx_buf' \in Memory /\ Ring(rx_buf', 0, 0) = << >> /\ Held(0, 0) = 0 /\ 0 \in 0..N
  BY <1>1, EmptyRing
<1>5. SerialType'
  BY <1>1, <1>2, <1>3, <1>4 DEF SerialType
<1>6. Pointers'
  BY <1>1 DEF Pointers
<1>7. Kept'
  BY <1>1, <1>3, <1>4, SizeOfRing DEF Kept
<1> QED
  BY <1>5, <1>6, <1>7 DEF SerialInv

\* What the module puts on the line is a packed frame that fits the buffer.
LEMMA FrameOnLine ==
    ASSUME NEW cmd \in Byte, NEW data \in Seq(Byte), Len(data) \in Word, NEW answer,
           ModuleSends(cmd, data, answer)
    PROVE  \E bytes \in Seq(Byte) :
              /\ bytes = FrameBytes(0, cmd, data) /\ Transmit(bytes) /\ Len(bytes) <= ProcessBuf
              /\ expected' = Append(expected, [bytes |-> bytes, answer |-> answer])
<1>1. PICK bytes, body : bytes = FrameBytes(0, cmd, data) /\ body = Body(0, cmd, data)
  OBVIOUS
<1>2. 0 \in Byte /\ data \in Data
  BY ByteRange DEF Data
<1>3. bytes \in Seq(Byte)
  BY ONLY <1>1, <1>2, FramePlaces, cmd \in Byte, Len(data) \in Word DEF Data
<1>4. /\ Transmit(bytes) /\ Len(bytes) <= ProcessBuf
      /\ expected' = Append(expected, [bytes |-> bytes, answer |-> answer])
  BY <1>1 DEF ModuleSends, Transmit, MCU_RX_VER
<1> QED
  BY <1>1, <1>3, <1>4

\* Every step of the firmware is one of the serial input, a restart, or none of its business.
LEMMA FirmwareKeeps == SerialInv /\ [FirmwareNext]_mcuVars => SerialInv'
<1> SUFFICES ASSUME SerialInv, [FirmwareNext]_mcuVars PROVE SerialInv'
  OBVIOUS
<1>1. CASE Interrupt
  BY <1>1, ReceiveKeeps DEF Interrupt
<1>2. CASE MainLoop
  <2>1. Service \/ Dispatch
    BY <1>2 DEF MainLoop, Deliver
  <2> QED
    BY <2>1, StepKeeps DEF SerialNext
<1>3. CASE Restart
  BY <1>3, RestartKeeps
<1>4. CASE \E call, args : ApiCall(call, args)
  <2>1. UNCHANGED serialVars
    BY <1>4 DEF ApiCall
  <2> QED
    BY <2>1, StutterKeeps
<1>5. CASE \E r : ApiReport(r)
  <2>1. UNCHANGED serialVars
    BY <1>5 DEF ApiReport
  <2> QED
    BY <2>1, StutterKeeps
<1>6. ASSUME NEW cmd \in Byte, NEW data \in Seq(Byte), NEW answer \in BOOLEAN,
             Len(data) \in Word, ModuleSends(cmd, data, answer)
      PROVE  SerialInv'
  BY <1>6, FrameOnLine, TransmitKeeps
<1>7. CASE \E bytes \in Seq(Byte) : Disturb(bytes)
  BY <1>7, TransmitKeeps DEF Disturb
<1>8. CASE UNCHANGED mcuVars
  BY <1>8, StutterKeeps DEF mcuVars
<1> QED
  BY <1>1, <1>2, <1>3, <1>4, <1>5, <1>6, <1>7, <1>8 DEF FirmwareNext

\* The same for the whole firmware, with any calls of the application, any module
\* at the other end, any noise and restarts of the MCU, which empty the ring in the
\* middle of a frame (uart_receive_input, cellular_uart_service).
THEOREM FirmwareLosesNothing == FirmwareSpec => []NothingLost
<1>1. McuInit => SerialInv
  BY InitHolds DEF McuInit
<1>2. SerialInv /\ [FirmwareNext]_mcuVars => SerialInv'
  BY FirmwareKeeps
<1>3. SerialInv => NothingLost
  BY PendingIsRing DEF SerialInv, Kept, NothingLost
<1> QED
  BY <1>1, <1>2, <1>3, PTL DEF FirmwareSpec

-----------------------------------------------------------------------------
(* What is unread, in the buffer, the ring and on the line.                *)

\* The bytes that the search has not passed, in the buffer, the ring and on the line.
UnreadOf(came, k, rest) == [i \in 1..(Len(came) - k + Len(rest)) |->
                               IF k + i <= Len(came) THEN came[k + i] ELSE rest[k + i - Len(came)]]

\* A byte of the line arrives.
ByteArrives(came, rest, came2, rest2) ==
    rest # << >> /\ came2 = Append(came, Head(rest)) /\ rest2 = Tail(rest)

\* Receiving it leaves what is unread as it is.
LEMMA UnreadReceive ==
    ASSUME NEW came \in Bytes, NEW k \in Nat, k <= Len(came), NEW rest \in Bytes,
           NEW came2, NEW rest2, ByteArrives(came, rest, came2, rest2)
    PROVE  UnreadOf(came2, k, rest2) = UnreadOf(came, k, rest)
<1>a. rest # << >> /\ came2 = Append(came, Head(rest)) /\ rest2 = Tail(rest)
  BY DEF ByteArrives
<1>1. /\ Head(rest) \in Byte /\ rest2 \in Seq(Byte) /\ Len(rest2) = Len(rest) - 1 /\ Len(rest) \in Nat
      /\ Len(rest) >= 1 /\ Head(rest) = rest[1]
      /\ \A i \in 1..Len(rest2) : rest2[i] = rest[i + 1]
  BY <1>a DEF Bytes
<1>2. PICK byte \in Byte : byte = Head(rest)
  BY <1>1
<1>3. /\ came2 \in Seq(Byte) /\ Len(came2) = Len(came) + 1 /\ Len(came) \in Nat
      /\ \A i \in 1..Len(came) : came2[i] = came[i]
      /\ came2[Len(came) + 1] = byte
  BY <1>a, <1>2 DEF Bytes
<1>4. Len(came2) - k + Len(rest2) = Len(came) - k + Len(rest)
  BY <1>1, <1>3
<1>5. ASSUME NEW i \in 1..(Len(came) - k + Len(rest))
      PROVE  (IF k + i <= Len(came2) THEN came2[k + i] ELSE rest2[k + i - Len(came2)])
              = (IF k + i <= Len(came) THEN came[k + i] ELSE rest[k + i - Len(came)])
  <2>1. i \in Nat /\ i >= 1
    BY <1>1, <1>3
  <2>2. CASE k + i <= Len(came)
    <3>1. k + i \in 1..Len(came) /\ k + i <= Len(came2)
      BY <2>1, <2>2, <1>3
    <3> QED
      BY <2>2, <3>1, <1>3
  <2>3. CASE k + i = Len(came) + 1
    <3>1. k + i - Len(came) = 1 /\ k + i <= Len(came2) /\ ~(k + i <= Len(came))
      BY <2>1, <2>3, <1>3
    <3> QED
      BY <2>3, <3>1, <1>1, <1>2, <1>3
  <2>4. CASE k + i > Len(came) + 1
    <3>1. /\ ~(k + i <= Len(came)) /\ ~(k + i <= Len(came2))
          /\ k + i - Len(came2) \in 1..Len(rest2) /\ (k + i - Len(came2)) + 1 = k + i - Len(came)
      BY <2>1, <2>4, <1>1, <1>3
    <3> QED
      BY <3>1, <1>1
  <2> QED
    BY <2>1, <2>2, <2>3, <2>4, <1>3
<1> QED
  BY <1>4, <1>5 DEF UnreadOf

\* What is left moves to the start of the buffer.
LEMMA UnreadCompact ==
    ASSUME NEW came \in Bytes, NEW k \in Nat, k <= Len(came), NEW rest \in Bytes,
           NEW left, left = SubSeq(came, k + 1, Len(came))
    PROVE  UnreadOf(left, 0, rest) = UnreadOf(came, k, rest)
<1>1. Len(came) \in Nat /\ Len(rest) \in Nat
  BY DEF Bytes
<1>2. Len(left) = Len(came) - k /\ \A i \in 1..(Len(came) - k) : left[i] = came[k + i]
  BY <1>1 DEF Bytes
<1>3. Len(left) - 0 + Len(rest) = Len(came) - k + Len(rest)
  BY <1>1, <1>2
<1>4. ASSUME NEW i \in 1..(Len(came) - k + Len(rest))
      PROVE  (IF 0 + i <= Len(left) THEN left[0 + i] ELSE rest[0 + i - Len(left)])
              = (IF k + i <= Len(came) THEN came[k + i] ELSE rest[k + i - Len(came)])
  <2>1. i \in Nat /\ i >= 1 /\ 0 + i = i
    BY <1>1
  <2>2. CASE i <= Len(left)
    BY <2>1, <2>2, <1>1, <1>2
  <2>3. CASE ~(i <= Len(left))
    BY <2>1, <2>3, <1>1, <1>2
  <2> QED
    BY <2>2, <2>3
<1> QED
  BY <1>3, <1>4 DEF UnreadOf

\* v are the m values of u behind the first n.
Behind(u, n, v, m) == \A i \in 1..m : v[i] = u[n + i]

\* The search passes n bytes.
LEMMA UnreadSkip ==
    ASSUME NEW came \in Bytes, NEW k \in Nat, NEW n \in Nat, k + n <= Len(came), NEW rest \in Bytes
    PROVE  Behind(UnreadOf(came, k, rest), n, UnreadOf(came, k + n, rest),
                  Len(came) - (k + n) + Len(rest))
<1> DEFINE u == UnreadOf(came, k, rest)
           v == UnreadOf(came, k + n, rest)
<1>1. Len(came) \in Nat /\ Len(rest) \in Nat
  BY DEF Bytes
<1> SUFFICES ASSUME NEW i \in 1..(Len(came) - (k + n) + Len(rest)) PROVE v[i] = u[n + i]
  BY DEF Behind
<1>2. n + i \in 1..(Len(came) - k + Len(rest)) /\ (k + n) + i = k + (n + i) /\ i \in Nat
  BY <1>1
<1>3. v[i] = IF (k + n) + i <= Len(came) THEN came[(k + n) + i] ELSE rest[(k + n) + i - Len(came)]
  BY DEF UnreadOf
<1>4. u[n + i] = IF k + (n + i) <= Len(came) THEN came[k + (n + i)] ELSE rest[k + (n + i) - Len(came)]
  BY <1>2 DEF UnreadOf
<1> QED
  BY <1>2, <1>3, <1>4

\* v are the n values of u and then those of bytes.
Followed(u, n, bytes, v) ==
    /\ \A i \in 1..n : v[i] = u[i]
    /\ \A i \in 1..Len(bytes) : v[n + i] = bytes[i]

\* Bytes are put on the empty line.
LEMMA UnreadTransmit ==
    ASSUME NEW came \in Bytes, NEW k \in Nat, k <= Len(came), NEW bytes \in Bytes
    PROVE  Followed(UnreadOf(came, k, << >>), Len(came) - k, bytes, UnreadOf(came, k, bytes))
<1> DEFINE u == UnreadOf(came, k, << >>)
           v == UnreadOf(came, k, bytes)
           n == Len(came) - k
<1>1. Len(came) \in Nat /\ Len(bytes) \in Nat /\ Len(<< >>) = 0 /\ n \in Nat
  BY DEF Bytes
<1>2. ASSUME NEW i \in 1..n PROVE v[i] = u[i]
  <2>1. i \in 1..(Len(came) - k + Len(bytes)) /\ i \in 1..(Len(came) - k + Len(<< >>)) /\ k + i <= Len(came)
    BY <1>1
  <2>2. v[i] = came[k + i]
    BY <2>1 DEF UnreadOf
  <2>3. u[i] = came[k + i]
    BY <2>1 DEF UnreadOf
  <2> QED
    BY <2>2, <2>3
<1>3. ASSUME NEW i \in 1..Len(bytes) PROVE v[n + i] = bytes[i]
  <2>1. /\ n + i \in 1..(Len(came) - k + Len(bytes)) /\ ~(k + (n + i) <= Len(came))
        /\ k + (n + i) - Len(came) = i
    BY <1>1
  <2> QED
    BY <2>1 DEF UnreadOf
<1> QED
  BY <1>2, <1>3 DEF Followed

-----------------------------------------------------------------------------
(* The frames among the unread bytes.                                      *)

\* A frame that the firmware accepts: head, version, length and checksum agree.
GoodFrame(b) ==
    /\ Len(b) >= 7 /\ Len(b) <= ProcessBuf
    /\ b[1] = 85 /\ b[2] = 170 /\ b[3] = MCU_RX_VER
    /\ b[5] * 256 + b[6] + 7 = Len(b)
    /\ b[Len(b)] = CheckSum(SubSeq(b, 1, Len(b) - 1))

\* What expected lists.
FrameRecords == [bytes : Bytes, answer : BOOLEAN]

\* frames[j] stands behind the first at[j] of the n unread bytes u.
Placed(u, n, frames, at) ==
    \A j \in 1..Len(frames) :
        /\ GoodFrame(frames[j].bytes)
        /\ at[j] + Len(frames[j].bytes) <= n
        /\ \A i \in 1..Len(frames[j].bytes) : u[at[j] + i] = frames[j].bytes[i]

\* They stand in the order in which they were sent.
Ordered(frames, at) ==
    \A j, k \in 1..Len(frames) : j < k => at[j] + Len(frames[j].bytes) <= at[k]

\* The first byte of a head, 85, occurs only inside them.
Covered(u, n, frames, at) ==
    \A i \in 1..n : u[i] = 85 =>
        \E j \in 1..Len(frames) : at[j] < i /\ i <= at[j] + Len(frames[j].bytes)

\* The frames stand, in their order, at these places of the unread bytes.
FramesAt(u, n, frames, at) ==
    /\ at \in [1..Len(frames) -> Nat]
    /\ Placed(u, n, frames, at) /\ Ordered(frames, at) /\ Covered(u, n, frames, at)

\* What that says of one frame.
LEMMA PlacedFrame ==
    ASSUME NEW u, NEW n \in Nat, NEW frames \in Seq(FrameRecords), NEW at, FramesAt(u, n, frames, at),
           NEW j \in 1..Len(frames)
    PROVE  /\ at[j] \in Nat /\ frames[j] \in FrameRecords /\ frames[j].bytes \in Bytes
           /\ Len(frames[j].bytes) \in Nat /\ Len(frames[j].bytes) >= 7
           /\ at[j] + Len(frames[j].bytes) <= n
           /\ \A i \in 1..Len(frames[j].bytes) : u[at[j] + i] = frames[j].bytes[i]
           /\ u[at[j] + 1] = 85
<1>1. at[j] \in Nat
  BY DEF FramesAt
<1>2. frames[j] \in FrameRecords
  OBVIOUS
<1>3. frames[j].bytes \in Bytes
  BY <1>2 DEF FrameRecords
<1>4. Len(frames[j].bytes) \in Nat
  BY <1>3 DEF Bytes
<1>5. /\ GoodFrame(frames[j].bytes) /\ at[j] + Len(frames[j].bytes) <= n
      /\ \A i \in 1..Len(frames[j].bytes) : u[at[j] + i] = frames[j].bytes[i]
  BY DEF FramesAt, Placed
<1>6. Len(frames[j].bytes) >= 7 /\ frames[j].bytes[1] = 85
  BY <1>5 DEF GoodFrame
<1>7. 1 \in 1..Len(frames[j].bytes)
  BY <1>4, <1>6
<1> QED
  BY <1>1, <1>2, <1>3, <1>4, <1>5, <1>6, <1>7

\* A byte that begins no head is passed.
LEMMA PassJunk ==
    ASSUME NEW u, NEW n \in Nat, NEW frames \in Seq(FrameRecords), NEW at, FramesAt(u, n, frames, at),
           n >= 1, u[1] # 85, NEW v, \A i \in 1..(n - 1) : v[i] = u[1 + i]
    PROVE  \E at2 : FramesAt(v, n - 1, frames, at2)
<1> DEFINE at2 == [j \in 1..Len(frames) |-> at[j] - 1]
<1>l. Len(frames) \in Nat
  OBVIOUS
<1>1. ASSUME NEW j \in 1..Len(frames)
      PROVE  at[j] \in Nat /\ at[j] # 0 /\ at2[j] = at[j] - 1 /\ at2[j] \in Nat
  <2>1. at[j] \in Nat /\ u[at[j] + 1] = 85
    BY PlacedFrame
  <2>2. at[j] # 0
    BY <2>1
  <2> QED
    BY <2>1, <2>2
<1>2. at2 \in [1..Len(frames) -> Nat]
  BY <1>1
<1> HIDE DEF at2
<1>3. ASSUME NEW j \in 1..Len(frames)
      PROVE  /\ GoodFrame(frames[j].bytes) /\ at2[j] + Len(frames[j].bytes) <= n - 1
             /\ \A i \in 1..Len(frames[j].bytes) : v[at2[j] + i] = frames[j].bytes[i]
  <2>1. /\ at[j] + Len(frames[j].bytes) <= n /\ Len(frames[j].bytes) \in Nat
        /\ \A i \in 1..Len(frames[j].bytes) : u[at[j] + i] = frames[j].bytes[i]
    <3>1. Len(frames[j].bytes) \in Nat
      BY PlacedFrame
    <3> QED
      BY <3>1 DEF FramesAt, Placed
  <2>2. GoodFrame(frames[j].bytes)
    BY DEF FramesAt, Placed
  <2>3. ASSUME NEW i \in 1..Len(frames[j].bytes) PROVE v[at2[j] + i] = frames[j].bytes[i]
    <3>1. PICK a \in Nat, l \in Nat : a = at[j] /\ l = Len(frames[j].bytes)
      BY <1>1, <2>1
    <3>2. at2[j] = a - 1 /\ a # 0 /\ a + l <= n /\ i \in 1..l
      BY <1>1, <2>1, <3>1
    <3>3. at2[j] + i \in 1..(n - 1) /\ 1 + (at2[j] + i) = a + i
      BY ONLY <3>2, a \in Nat, l \in Nat, n \in Nat
    <3>4. v[at2[j] + i] = u[a + i]
      BY <3>3
    <3> QED
      BY <3>1, <3>4, <2>1
  <2>4. at2[j] + Len(frames[j].bytes) <= n - 1
    BY <1>1, <2>1
  <2> QED
    BY <2>2, <2>3, <2>4
<1>4. Placed(v, n - 1, frames, at2)
  BY <1>3 DEF Placed
<1>5. Ordered(frames, at2)
  <2> SUFFICES ASSUME NEW j \in 1..Len(frames), NEW k \in 1..Len(frames), j < k
               PROVE  at2[j] + Len(frames[j].bytes) <= at2[k]
    BY DEF Ordered
  <2>1. at[j] + Len(frames[j].bytes) <= at[k]
    BY DEF FramesAt, Ordered
  <2>2. Len(frames[j].bytes) \in Nat
    BY PlacedFrame
  <2> QED
    BY <2>1, <2>2, <1>1
<1>6. Covered(v, n - 1, frames, at2)
  <2> SUFFICES ASSUME NEW i \in 1..(n - 1), v[i] = 85
               PROVE  \E j \in 1..Len(frames) : at2[j] < i /\ i <= at2[j] + Len(frames[j].bytes)
    BY DEF Covered
  <2>1. u[1 + i] = 85 /\ 1 + i \in 1..n /\ i \in Nat
    OBVIOUS
  <2>2. PICK j \in 1..Len(frames) : at[j] < 1 + i /\ 1 + i <= at[j] + Len(frames[j].bytes)
    BY <2>1 DEF FramesAt, Covered
  <2>3. Len(frames[j].bytes) \in Nat
    BY PlacedFrame
  <2>4. at2[j] < i /\ i <= at2[j] + Len(frames[j].bytes)
    <3>1. PICK a \in Nat, l \in Nat : a = at[j] /\ l = Len(frames[j].bytes) /\ at2[j] = a - 1
      BY <1>1, <2>3
    <3>2. a < 1 + i /\ 1 + i <= a + l
      BY <2>2, <3>1
    <3>3. a - 1 < i /\ i <= (a - 1) + l
      BY ONLY <3>2, <2>1, a \in Nat, l \in Nat
    <3> QED
      BY <3>1, <3>3
  <2> QED
    BY <2>4
<1> QED
  BY <1>2, <1>4, <1>5, <1>6 DEF FramesAt

\* A first byte of a head is the first byte of the next frame.
LEMMA FrameIsFirst ==
    ASSUME NEW u, NEW n \in Nat, NEW frames \in Seq(FrameRecords), NEW at, FramesAt(u, n, frames, at),
           n >= 1, u[1] = 85
    PROVE  /\ frames # << >> /\ Len(frames) \in Nat /\ 1 \in 1..Len(frames) /\ at[1] = 0
           /\ Head(frames) = frames[1]
<1>1. PICK j \in 1..Len(frames) : at[j] < 1 /\ 1 <= at[j] + Len(frames[j].bytes)
  BY DEF FramesAt, Covered
<1>2. Len(frames) \in Nat /\ 1 \in 1..Len(frames) /\ frames # << >>
  BY <1>1
<1>3. at[1] \in Nat /\ Len(frames[1].bytes) \in Nat /\ Len(frames[1].bytes) >= 7
  BY <1>2, PlacedFrame
<1>5. at[j] \in Nat
  BY PlacedFrame
<1>4. j = 1
  <2> SUFFICES ASSUME 1 < j PROVE FALSE
    BY <1>2
  <2>1. at[1] + Len(frames[1].bytes) <= at[j]
    BY <1>2 DEF FramesAt, Ordered
  <2> QED
    BY <2>1, <1>1, <1>3, <1>5
<1> QED
  BY <1>1, <1>2, <1>3, <1>4

\* The oldest frame is passed.
LEMMA PassFrame ==
    ASSUME NEW u, NEW n \in Nat, NEW frames \in Seq(FrameRecords), NEW at, FramesAt(u, n, frames, at),
           n >= 1, u[1] = 85, NEW len, len = Len(frames[1].bytes),
           NEW v, \A i \in 1..(n - len) : v[i] = u[len + i],
           NEW rest, rest = Tail(frames)
    PROVE  len \in Nat /\ len <= n /\ rest \in Seq(FrameRecords) /\ \E at2 : FramesAt(v, n - len, rest, at2)
<1>1. frames # << >> /\ Len(frames) \in Nat /\ 1 \in 1..Len(frames) /\ at[1] = 0
  BY FrameIsFirst
<1>2. len \in Nat /\ len >= 7 /\ len <= n
  BY <1>1, PlacedFrame
<1>3. /\ rest \in Seq(FrameRecords) /\ Len(rest) = Len(frames) - 1 /\ Len(rest) \in Nat
      /\ \A j \in 1..Len(rest) : rest[j] = frames[j + 1]
  BY <1>1
<1> DEFINE at2 == [j \in 1..Len(rest) |-> at[j + 1] - len]
<1>4. ASSUME NEW j \in 1..Len(rest)
      PROVE  /\ j + 1 \in 1..Len(frames) /\ rest[j] = frames[j + 1]
             /\ at[j + 1] \in Nat /\ at2[j] = at[j + 1] - len /\ at2[j] \in Nat
             /\ Len(rest[j].bytes) \in Nat
  <2>1. j + 1 \in 1..Len(frames) /\ 1 < j + 1 /\ rest[j] = frames[j + 1]
    BY <1>3
  <2>2. at[j + 1] \in Nat /\ Len(frames[j + 1].bytes) \in Nat
    BY <2>1, PlacedFrame
  <2>3. at[1] + len <= at[j + 1]
    BY <1>1, <2>1 DEF FramesAt, Ordered
  <2> QED
    BY <1>1, <1>2, <2>1, <2>2, <2>3
<1>5. at2 \in [1..Len(rest) -> Nat]
  BY <1>4
<1> HIDE DEF at2
<1>6. ASSUME NEW j \in 1..Len(rest)
      PROVE  /\ GoodFrame(rest[j].bytes) /\ at2[j] + Len(rest[j].bytes) <= n - len
             /\ \A i \in 1..Len(rest[j].bytes) : v[at2[j] + i] = rest[j].bytes[i]
  <2>1. /\ at[j + 1] + Len(rest[j].bytes) <= n
        /\ \A i \in 1..Len(rest[j].bytes) : u[at[j + 1] + i] = rest[j].bytes[i]
    <3>1. PICK k \in 1..Len(frames) : k = j + 1
      BY <1>4
    <3>2. /\ at[k] + Len(frames[k].bytes) <= n
          /\ \A i \in 1..Len(frames[k].bytes) : u[at[k] + i] = frames[k].bytes[i]
      BY ONLY PlacedFrame, n \in Nat, frames \in Seq(FrameRecords), FramesAt(u, n, frames, at), k \in 1..Len(frames)
    <3>3. rest[j] = frames[k]
      BY <1>4, <3>1
    <3> QED
      BY <3>1, <3>2, <3>3
  <2>2. GoodFrame(rest[j].bytes)
    BY <1>4 DEF FramesAt, Placed
  <2>3. ASSUME NEW i \in 1..Len(rest[j].bytes) PROVE v[at2[j] + i] = rest[j].bytes[i]
    <3>1. PICK a \in Nat, l \in Nat : a = at[j + 1] /\ l = Len(rest[j].bytes)
      BY <1>4
    <3>2. at2[j] = a - len /\ at2[j] \in Nat /\ a + l <= n /\ i \in 1..l
      BY <1>4, <2>1, <3>1
    <3>3. at2[j] + i \in 1..(n - len) /\ len + (at2[j] + i) = a + i
      BY ONLY <1>2, <3>2, a \in Nat, l \in Nat, n \in Nat
    <3>4. v[at2[j] + i] = u[a + i]
      BY <3>3
    <3> QED
      BY <3>1, <3>4, <2>1
  <2>4. at2[j] + Len(rest[j].bytes) <= n - len
    <3>1. PICK a \in Nat, l \in Nat : a = at[j + 1] /\ l = Len(rest[j].bytes)
      BY <1>4
    <3>2. at2[j] = a - len /\ a + l <= n
      BY <1>4, <2>1, <3>1
    <3>3. (a - len) + l <= n - len
      BY ONLY <1>2, <3>2, a \in Nat, l \in Nat, n \in Nat
    <3> QED
      BY <3>1, <3>2, <3>3
  <2> QED
    BY <2>2, <2>3, <2>4
<1>7. Placed(v, n - len, rest, at2)
  BY <1>6 DEF Placed
<1>8. Ordered(rest, at2)
  <2> SUFFICES ASSUME NEW j \in 1..Len(rest), NEW k \in 1..Len(rest), j < k
               PROVE  at2[j] + Len(rest[j].bytes) <= at2[k]
    BY DEF Ordered
  <2>1. j + 1 < k + 1
    BY <1>3
  <2>2. at[j + 1] + Len(frames[j + 1].bytes) <= at[k + 1]
    BY <2>1, <1>4 DEF FramesAt, Ordered
  <2>3. PICK a \in Nat, l \in Nat, b \in Nat : a = at[j + 1] /\ l = Len(rest[j].bytes) /\ b = at[k + 1]
    BY <1>4
  <2>4. a + l <= b
    BY <2>2, <2>3, <1>4
  <2>5. at2[j] = a - len /\ at2[k] = b - len
    BY <2>3, <1>4
  <2>6. (a - len) + l <= b - len
    BY ONLY <2>4, <1>2, a \in Nat, l \in Nat, b \in Nat
  <2> QED
    BY <2>3, <2>5, <2>6
<1>9. Covered(v, n - len, rest, at2)
  <2> SUFFICES ASSUME NEW i \in 1..(n - len), v[i] = 85
               PROVE  \E j \in 1..Len(rest) : at2[j] < i /\ i <= at2[j] + Len(rest[j].bytes)
    BY DEF Covered
  <2>1. u[len + i] = 85 /\ len + i \in 1..n /\ i \in Nat /\ i >= 1
    BY <1>2
  <2>2. PICK k \in 1..Len(frames) : at[k] < len + i /\ len + i <= at[k] + Len(frames[k].bytes)
    BY <2>1 DEF FramesAt, Covered
  <2>3. k # 1
    BY <2>1, <2>2, <1>1, <1>2
  <2>4. k - 1 \in 1..Len(rest) /\ (k - 1) + 1 = k
    BY <2>3, <1>1, <1>3
  <2>5. at2[k - 1] = at[k] - len /\ rest[k - 1] = frames[k] /\ at[k] \in Nat /\ Len(rest[k - 1].bytes) \in Nat
    BY <2>4, <1>4
  <2>6. at2[k - 1] < i /\ i <= at2[k - 1] + Len(rest[k - 1].bytes)
    <3>1. PICK a \in Nat, l \in Nat : a = at[k] /\ l = Len(rest[k - 1].bytes)
      BY <2>5
    <3>2. a < len + i /\ len + i <= a + l /\ at2[k - 1] = a - len
      BY <2>2, <2>5, <3>1
    <3>3. a - len < i /\ i <= (a - len) + l
      BY ONLY <3>2, <2>1, <1>2, a \in Nat, l \in Nat
    <3> QED
      BY <3>1, <3>2, <3>3
  <2> QED
    BY <2>4, <2>6
<1> QED
  BY <1>2, <1>3, <1>5, <1>7, <1>8, <1>9 DEF FramesAt

\* No byte of these begins a head.
NoHeadIn(bytes) == \A i \in 1..Len(bytes) : bytes[i] # 85

\* A frame is put behind the others.
LEMMA AddFrame ==
    ASSUME NEW u, NEW n \in Nat, NEW frames \in Seq(FrameRecords), NEW at, FramesAt(u, n, frames, at),
           NEW frame \in FrameRecords, GoodFrame(frame.bytes),
           NEW v, Followed(u, n, frame.bytes, v)
    PROVE  \E at2 : FramesAt(v, n + Len(frame.bytes), Append(frames, frame), at2)
<1> DEFINE len == Len(frame.bytes)
           more == Append(frames, frame)
           last == Len(frames) + 1
           at2 == [j \in 1..Len(more) |-> IF j = last THEN n ELSE at[j]]
<1>f. (\A i \in 1..n : v[i] = u[i]) /\ (\A i \in 1..len : v[n + i] = frame.bytes[i])
  BY DEF Followed
<1>1. len \in Nat /\ len >= 7 /\ len = Len(frame.bytes)
  BY DEF FrameRecords, Bytes, GoodFrame
<1>2. /\ more \in Seq(FrameRecords) /\ Len(more) = last /\ Len(frames) \in Nat /\ more[last] = frame
      /\ \A j \in 1..Len(frames) : more[j] = frames[j]
  OBVIOUS
<1> HIDE DEF len, more
<1>0. len \in Nat
  BY <1>1
<1>3. at2[last] = n /\ \A j \in 1..Len(frames) : at2[j] = at[j]
  BY <1>2
<1>4. ASSUME NEW j \in 1..Len(more) PROVE j = last \/ j \in 1..Len(frames)
  BY <1>2
<1>5. at2 \in [1..Len(more) -> Nat]
  <2>1. \A j \in 1..Len(frames) : at[j] \in Nat
    BY DEF FramesAt
  <2> QED
    BY <2>1, <1>2, <1>4
<1> HIDE DEF at2, last
<1>6. ASSUME NEW j \in 1..Len(frames)
      PROVE  /\ at[j] \in Nat /\ Len(frames[j].bytes) \in Nat /\ Len(frames[j].bytes) >= 7
             /\ at[j] + Len(frames[j].bytes) <= n
  BY PlacedFrame
<1>7. ASSUME NEW j \in 1..Len(more)
      PROVE  /\ GoodFrame(more[j].bytes) /\ at2[j] + Len(more[j].bytes) <= n + len
             /\ \A i \in 1..Len(more[j].bytes) : v[at2[j] + i] = more[j].bytes[i]
  <2>1. CASE j = last
    BY <2>1, <1>1, <1>2, <1>3, <1>f
  <2>2. CASE j \in 1..Len(frames)
    <3>1. /\ GoodFrame(frames[j].bytes)
          /\ \A i \in 1..Len(frames[j].bytes) : u[at[j] + i] = frames[j].bytes[i]
      BY <2>2 DEF FramesAt, Placed
    <3>2. PICK a \in Nat, l \in Nat : a = at[j] /\ l = Len(frames[j].bytes) /\ a + l <= n
      BY <2>2, <1>6
    <3>3. ASSUME NEW i \in 1..l PROVE v[a + i] = frames[j].bytes[i]
      <4>1. a + i \in 1..n
        BY <3>2
      <4>2. v[a + i] = u[a + i]
        BY <4>1, <1>f
      <4> QED
        BY <4>2, <3>1, <3>2
    <3>4. a + l <= n + len
      BY ONLY <3>2, <1>0, a \in Nat, l \in Nat, n \in Nat
    <3>5. more[j] = frames[j] /\ at2[j] = a
      BY <2>2, <3>2, <1>2, <1>3
    <3> QED
      BY <3>1, <3>2, <3>3, <3>4, <3>5
  <2> QED
    BY <2>1, <2>2, <1>4
<1>8. Placed(v, n + len, more, at2)
  BY <1>7 DEF Placed
<1>9. Ordered(more, at2)
  <2> SUFFICES ASSUME NEW j \in 1..Len(more), NEW k \in 1..Len(more), j < k
               PROVE  at2[j] + Len(more[j].bytes) <= at2[k]
    BY DEF Ordered
  <2>1. j \in 1..Len(frames)
    BY <1>2, <1>4 DEF last
  <2>2. more[j] = frames[j] /\ at2[j] = at[j]
    BY <2>1, <1>2, <1>3
  <2>3. CASE k = last
    BY <2>1, <2>2, <2>3, <1>3, <1>6
  <2>4. CASE k \in 1..Len(frames)
    <3>1. at[j] + Len(frames[j].bytes) <= at[k]
      BY <2>1, <2>4 DEF FramesAt, Ordered
    <3> QED
      BY <2>2, <2>4, <3>1, <1>3
  <2> QED
    BY <2>3, <2>4, <1>4
<1>10. Covered(v, n + len, more, at2)
  <2> SUFFICES ASSUME NEW i \in 1..(n + len), v[i] = 85
               PROVE  \E j \in 1..Len(more) : at2[j] < i /\ i <= at2[j] + Len(more[j].bytes)
    BY DEF Covered
  <2>1. CASE i <= n
    <3>1. i \in 1..n /\ u[i] = 85
      BY <2>1, <1>1, <1>f
    <3>2. PICK j \in 1..Len(frames) : at[j] < i /\ i <= at[j] + Len(frames[j].bytes)
      BY <3>1 DEF FramesAt, Covered
    <3>3. j \in 1..Len(more) /\ more[j] = frames[j] /\ at2[j] = at[j]
      BY <1>2, <1>3 DEF last
    <3> QED
      BY <3>2, <3>3
  <2>2. CASE ~(i <= n)
    <3>1. last \in 1..Len(more) /\ at2[last] = n /\ Len(more[last].bytes) = len
      BY <1>1, <1>2, <1>3 DEF last
    <3>2. n < i /\ i <= n + len
      BY <2>2, <1>1
    <3> QED
      BY <3>1, <3>2
  <2> QED
    BY <2>1, <2>2
<1>11. FramesAt(v, n + len, more, at2)
  BY <1>5, <1>8, <1>9, <1>10 DEF FramesAt
<1> QED
  BY <1>11 DEF len, more

\* Noise without the first byte of a head is put behind them.
LEMMA AddNoise ==
    ASSUME NEW u, NEW n \in Nat, NEW frames \in Seq(FrameRecords), NEW at, FramesAt(u, n, frames, at),
           NEW bytes \in Bytes, NoHeadIn(bytes), NEW v, Followed(u, n, bytes, v)
    PROVE  FramesAt(v, n + Len(bytes), frames, at)
<1>f. PICK len \in Nat : /\ len = Len(bytes) /\ \A i \in 1..n : v[i] = u[i]
                         /\ \A i \in 1..len : v[n + i] = bytes[i]
  BY DEF Followed, Bytes
<1>1. len \in Nat
  OBVIOUS
<1>6. ASSUME NEW j \in 1..Len(frames)
      PROVE  /\ at[j] \in Nat /\ Len(frames[j].bytes) \in Nat
             /\ at[j] + Len(frames[j].bytes) <= n
  BY PlacedFrame
<1>7. ASSUME NEW j \in 1..Len(frames)
      PROVE  /\ GoodFrame(frames[j].bytes) /\ at[j] + Len(frames[j].bytes) <= n + len
             /\ \A i \in 1..Len(frames[j].bytes) : v[at[j] + i] = frames[j].bytes[i]
  <2>1. /\ GoodFrame(frames[j].bytes)
        /\ \A i \in 1..Len(frames[j].bytes) : u[at[j] + i] = frames[j].bytes[i]
    BY DEF FramesAt, Placed
  <2>2. PICK a \in Nat, l \in Nat : a = at[j] /\ l = Len(frames[j].bytes) /\ a + l <= n
    BY <1>6
  <2>3. ASSUME NEW i \in 1..l PROVE v[a + i] = frames[j].bytes[i]
    <3>1. a + i \in 1..n
      BY <2>2
    <3>2. v[a + i] = u[a + i]
      BY <3>1, <1>f
    <3> QED
      BY <3>2, <2>1, <2>2
  <2>4. a + l <= n + len
    BY ONLY <2>2, <1>1, a \in Nat, l \in Nat, n \in Nat
  <2> QED
    BY <2>1, <2>2, <2>3, <2>4
<1>8. Placed(v, n + len, frames, at)
  BY <1>7 DEF Placed
<1>9. Covered(v, n + len, frames, at)
  <2> SUFFICES ASSUME NEW i \in 1..(n + len), v[i] = 85
               PROVE  \E j \in 1..Len(frames) : at[j] < i /\ i <= at[j] + Len(frames[j].bytes)
    BY DEF Covered
  <2>1. CASE i <= n
    <3>1. i \in 1..n /\ u[i] = 85
      BY <2>1, <1>1, <1>f
    <3> QED
      BY <3>1 DEF FramesAt, Covered
  <2>2. CASE ~(i <= n)
    <3>1. i - n \in 1..len /\ n + (i - n) = i
      BY <2>2, <1>1
    <3>2. v[i] = bytes[i - n]
      BY <3>1, <1>f
    <3>3. bytes[i - n] # 85
      BY <3>1, <1>f DEF NoHeadIn
    <3> QED
      BY <3>2, <3>3
  <2> QED
    BY <2>1, <2>2
<1> QED
  BY <1>f, <1>8, <1>9 DEF FramesAt

\* Without frames there is no byte of a head.
LEMMA NoFrames ==
    ASSUME NEW u, NEW n \in Nat, \A i \in 1..n : u[i] # 85
    PROVE  \E at : FramesAt(u, n, << >>, at)
<1> DEFINE at == [j \in 1..Len(<< >>) |-> 0]
<1>1. Len(<< >>) = 0 /\ at \in [1..Len(<< >>) -> Nat]
  OBVIOUS
<1>2. Placed(u, n, << >>, at) /\ Ordered(<< >>, at) /\ Covered(u, n, << >>, at)
  BY <1>1 DEF Placed, Ordered, Covered
<1> QED
  BY <1>1, <1>2 DEF FramesAt

-----------------------------------------------------------------------------
(* What the search sees.                                                   *)

\* What the module packs is a frame that the firmware accepts.
LEMMA MadeFrame ==
    ASSUME NEW cmd \in Byte, NEW data \in Data, Len(data) \in Word,
           NEW bytes, bytes = FrameBytes(0, cmd, data), Len(bytes) <= ProcessBuf
    PROVE  bytes \in Bytes /\ GoodFrame(bytes)
<1>1. PICK body : body = Body(0, cmd, data)
  OBVIOUS
<1>2. 0 \in Byte
  BY ByteRange
<1>3. /\ bytes \in Data /\ Len(bytes) = 7 + Len(data)
      /\ \A i \in 1..(6 + Len(data)) : bytes[i] = body[i]
      /\ bytes[7 + Len(data)] = CheckSum(body)
  BY ONLY <1>1, <1>2, FramePlaces, cmd \in Byte, data \in Data, Len(data) \in Word,
          bytes = FrameBytes(0, cmd, data)
<1>4. /\ body \in Data /\ Len(body) = 6 + Len(data)
      /\ body[1] = 85 /\ body[2] = 170 /\ body[3] = 0
      /\ body[5] = Len(data) \div 256 /\ body[6] = Len(data) % 256
  BY ONLY <1>1, <1>2, BodyPlaces, cmd \in Byte, data \in Data, Len(data) \in Word
<1>5. PICK n \in Nat : n = Len(data)
  BY DEF Data
<1>6. /\ 1 \in 1..(6 + n) /\ 2 \in 1..(6 + n) /\ 3 \in 1..(6 + n)
      /\ 5 \in 1..(6 + n) /\ 6 \in 1..(6 + n)
  OBVIOUS
<1>p. \A i \in 1..(6 + n) : bytes[i] = body[i]
  BY <1>3, <1>5
<1>q. /\ bytes[1] = body[1] /\ bytes[2] = body[2] /\ bytes[3] = body[3]
      /\ bytes[5] = body[5] /\ bytes[6] = body[6]
  BY ONLY <1>p, <1>6, Zenon
<1>7. bytes[1] = 85 /\ bytes[2] = 170 /\ bytes[3] = 0
  BY ONLY <1>4, <1>q
<1>8. bytes[5] = n \div 256 /\ bytes[6] = n % 256
  BY ONLY <1>4, <1>5, <1>q
<1>9. bytes[5] * 256 + bytes[6] + 7 = Len(bytes)
  <2>1. \A m \in Nat : 256 * (m \div 256) + (m % 256) = m /\ m \div 256 \in Nat /\ m % 256 \in Nat
    OBVIOUS
  <2>2. PICK h \in Nat, l \in Nat : h = n \div 256 /\ l = n % 256 /\ 256 * h + l = n
    BY <2>1
  <2>3. h * 256 + l + 7 = 7 + n
    BY ONLY <2>2, h \in Nat, l \in Nat, n \in Nat
  <2> QED
    BY <2>2, <2>3, <1>3, <1>5, <1>8
<1>10. SubSeq(bytes, 1, Len(bytes) - 1) = body
  <2> DEFINE front == SubSeq(bytes, 1, Len(bytes) - 1)
  <2>1. Len(bytes) = 7 + n /\ Len(body) = 6 + n
    BY <1>3, <1>4, <1>5
  <2>2. front \in Seq(Byte) /\ Len(front) = 6 + n /\ \A i \in 1..(6 + n) : front[i] = bytes[i]
    BY <1>3, <2>1 DEF Data
  <2> HIDE DEF front
  <2>3. \A i \in 1..Len(front) : front[i] = body[i]
    BY <1>3, <1>5, <2>2
  <2>4. front = body
    BY <1>4, <2>1, <2>2, <2>3, SeqEqual DEF Data
  <2> QED
    BY <2>4 DEF front
<1>11. bytes[Len(bytes)] = CheckSum(SubSeq(bytes, 1, Len(bytes) - 1))
  BY <1>3, <1>10
<1>12. Len(bytes) >= 7
  BY <1>3, <1>5
<1> QED
  BY <1>3, <1>7, <1>9, <1>11, <1>12 DEF GoodFrame, Data, Bytes, MCU_RX_VER

(***************************************************************************)
(* The inductive invariant: until the ring overruns, the frames that are   *)
(* expected stand among the unread bytes in their order, and nothing       *)
(* outside of them begins like a head.                                     *)
(***************************************************************************)
OnLine ==
    /\ expected \in Seq(FrameRecords)
    /\ ~overrun => \E at : FramesAt(UnreadOf(arrived, offset, line),
                                     Len(arrived) - offset + Len(line), expected, at)

\* Until the ring overruns, the buffer holds the first of the bytes that came.
LEMMA InBuffer ==
    ASSUME SerialInv, ~overrun
    PROVE  /\ arrived \in Bytes /\ process_buf \in Bytes /\ line \in Bytes
           /\ Len(arrived) \in Nat /\ Len(process_buf) \in Nat /\ Len(line) \in Nat
           /\ offset \in Nat /\ offset <= Len(process_buf) /\ Len(process_buf) <= Len(arrived)
           /\ \A i \in 1..Len(process_buf) : arrived[i] = process_buf[i]
<1>1. /\ arrived \in Bytes /\ process_buf \in Bytes /\ line \in Bytes
      /\ offset \in Nat /\ offset <= Len(process_buf)
      /\ rx_buf \in Memory /\ rx_buf_in \in 0..N /\ rx_buf_out \in 0..N
  BY DEF SerialInv, SerialType
<1>2. PICK held \in Bytes : arrived = process_buf \o held
  BY <1>1, RingProperties DEF SerialInv, Kept
<1>3. /\ Len(arrived) = Len(process_buf) + Len(held)
      /\ \A i \in 1..(Len(process_buf) + Len(held)) :
           arrived[i] = IF i <= Len(process_buf) THEN process_buf[i] ELSE held[i - Len(process_buf)]
  BY <1>1, <1>2, ConcatProperties DEF Bytes
<1>4. Len(arrived) \in Nat /\ Len(process_buf) \in Nat /\ Len(line) \in Nat /\ Len(held) \in Nat
  BY <1>1, LenProperties DEF Bytes
<1> QED
  BY <1>1, <1>3, <1>4

\* What the search sees is what comes next.
LEMMA SearchSees ==
    ASSUME SerialInv, ~overrun, NEW k \in Nat, offset + k + 1 <= Len(process_buf)
    PROVE  UnreadOf(arrived, offset, line)[k + 1] = At(k) /\ At(k) \in Byte
<1>1. /\ process_buf \in Bytes
      /\ Len(arrived) \in Nat /\ Len(process_buf) \in Nat /\ Len(line) \in Nat
      /\ offset \in Nat /\ Len(process_buf) <= Len(arrived)
      /\ \A i \in 1..Len(process_buf) : arrived[i] = process_buf[i]
  BY InBuffer
<1>2. /\ k + 1 \in 1..(Len(arrived) - offset + Len(line)) /\ offset + (k + 1) <= Len(arrived)
      /\ offset + (k + 1) \in 1..Len(process_buf) /\ offset + (k + 1) = offset + k + 1
  BY <1>1
<1>3. UnreadOf(arrived, offset, line)[k + 1] = arrived[offset + (k + 1)]
  BY <1>2 DEF UnreadOf
<1>4. process_buf[offset + k + 1] \in Byte
  BY <1>1, <1>2, ElementOfSeq DEF Bytes
<1> QED
  BY <1>1, <1>2, <1>3, <1>4 DEF At

\* At offset the oldest frame is found, as soon as it is complete with its checksum.
Found ==
    /\ expected # << >> /\ IsHead /\ At(2) = MCU_RX_VER /\ FrameLen = Len(Head(expected).bytes)
    /\ ~TooLong
    /\ Complete => FrameAtOffset = Head(expected).bytes /\ SumMatches

\* Where a head begins, the search finds that frame.
LEMMA FrameFound ==
    ASSUME SerialInv, OnLine, ~overrun, Searching, At(0) = 85
    PROVE  Found
<1> DEFINE u == UnreadOf(arrived, offset, line)
           n == Len(arrived) - offset + Len(line)
<1>1. PICK at : FramesAt(u, n, expected, at)
  BY DEF OnLine
<1>2. /\ process_buf \in Bytes /\ Len(arrived) \in Nat /\ Len(process_buf) \in Nat /\ Len(line) \in Nat
      /\ offset \in Nat /\ Len(process_buf) <= Len(arrived)
  BY InBuffer
<1>3. Len(process_buf) - offset >= 7
  BY DEF Searching, PROTOCOL_HEAD
<1>4. n \in Nat /\ n >= 1 /\ expected \in Seq(FrameRecords)
  BY <1>2, <1>3 DEF OnLine
<1>5. ASSUME NEW k \in Nat, offset + k + 1 <= Len(process_buf) PROVE u[k + 1] = At(k) /\ At(k) \in Byte
  BY <1>5, SearchSees
<1> HIDE DEF u, n
<1>6. u[1] = 85
  <2>1. 0 \in Nat /\ offset + 0 + 1 <= Len(process_buf) /\ 0 + 1 = 1
    BY <1>2, <1>3
  <2>2. u[0 + 1] = At(0)
    BY <1>5, <2>1
  <2> QED
    BY <2>1, <2>2
<1>7. expected # << >> /\ 1 \in 1..Len(expected) /\ at[1] = 0 /\ Head(expected) = expected[1]
  BY <1>1, <1>4, <1>6, FrameIsFirst
<1>8. PICK b : b = Head(expected).bytes
  OBVIOUS
<1>9. /\ b \in Bytes /\ Len(b) \in Nat /\ GoodFrame(b) /\ Len(b) >= 7
      /\ \A i \in 1..Len(b) : u[i] = b[i]
  <2>1. b = expected[1].bytes
    BY <1>7, <1>8
  <2>2. b \in Bytes /\ Len(b) \in Nat /\ Len(b) >= 7
    <3>1. /\ expected[1].bytes \in Bytes /\ Len(expected[1].bytes) \in Nat /\ Len(expected[1].bytes) >= 7
      BY ONLY <1>1, <1>4, <1>7, PlacedFrame
    <3> QED
      BY ONLY <2>1, <3>1
  <2>3. GoodFrame(b) /\ \A i \in 1..Len(b) : u[0 + i] = b[i]
    BY <1>1, <1>7, <2>1 DEF FramesAt, Placed
  <2>4. \A i \in 1..Len(b) : 0 + i = i
    BY <2>2
  <2> QED
    BY <2>2, <2>3, <2>4
<1>10. ASSUME NEW k \in Nat, k + 1 <= Len(b), offset + k + 1 <= Len(process_buf)
       PROVE  At(k) = b[k + 1]
  <2>1. k + 1 \in 1..Len(b)
    BY <1>9, <1>10
  <2>2. u[k + 1] = At(k)
    BY <1>5, <1>10
  <2> QED
    BY <2>1, <2>2, <1>9
<1>11. At(0) = b[1] /\ At(1) = b[2] /\ At(2) = b[3]
  <2>1. /\ 0 + 1 <= Len(b) /\ 1 + 1 <= Len(b) /\ 2 + 1 <= Len(b)
        /\ offset + 0 + 1 <= Len(process_buf) /\ offset + 1 + 1 <= Len(process_buf)
        /\ offset + 2 + 1 <= Len(process_buf) /\ 0 + 1 = 1 /\ 1 + 1 = 2 /\ 2 + 1 = 3
    BY <1>2, <1>3, <1>9
  <2>2. At(0) = b[0 + 1] /\ At(1) = b[1 + 1] /\ At(2) = b[2 + 1]
    BY <2>1, <1>10
  <2> QED
    BY <2>1, <2>2
<1>12. At(4) = b[5] /\ At(5) = b[6]
  <2>1. /\ 4 + 1 <= Len(b) /\ 5 + 1 <= Len(b)
        /\ offset + 4 + 1 <= Len(process_buf) /\ offset + 5 + 1 <= Len(process_buf)
        /\ 4 + 1 = 5 /\ 5 + 1 = 6
    BY <1>2, <1>3, <1>9
  <2>2. At(4) = b[4 + 1] /\ At(5) = b[5 + 1]
    BY <2>1, <1>10
  <2> QED
    BY <2>1, <2>2
<1>13. IsHead /\ At(2) = MCU_RX_VER
  BY <1>9, <1>11 DEF IsHead, GoodFrame
<1>14. FrameLen = Len(b)
  <2>1. FrameLen = (b[5] * 256 + b[6] + 7) % 65536 /\ b[5] * 256 + b[6] + 7 = Len(b)
    BY <1>9, <1>12 DEF FrameLen, Total, PROTOCOL_HEAD, GoodFrame
  <2>2. Len(b) < 65536
    <3>1. Len(b) <= ProcessBuf /\ ProcessBuf < 65536 /\ ProcessBuf \in Nat
      BY <1>9, SerialAssumption DEF GoodFrame
    <3> QED
      BY <3>1, <1>9
  <2>3. \A m \in Nat : m < 65536 => m % 65536 = m
    OBVIOUS
  <2> QED
    BY <2>1, <2>2, <2>3, <1>9
<1>15. ~TooLong
  <2>1. Len(b) <= ProcessBuf /\ ProcessBuf \in Nat
    BY <1>9, SerialAssumption DEF GoodFrame
  <2> QED
    BY <2>1, <1>9, <1>14 DEF TooLong, PROTOCOL_HEAD
<1>16. ASSUME Complete PROVE FrameAtOffset = b /\ SumMatches
  <2>1. Len(process_buf) - offset >= Len(b)
    BY <1>14, <1>16 DEF Complete
  <2> DEFINE f == SubSeq(process_buf, offset + 1, offset + Len(b))
  <2>2. FrameAtOffset = f
    BY <1>14 DEF FrameAtOffset
  <2>3. f \in Seq(Byte) /\ Len(f) = Len(b) /\ \A i \in 1..Len(b) : f[i] = process_buf[offset + i]
    <3>1. \A i \in (offset + 1)..(offset + Len(b)) : process_buf[i] \in Byte
      <4>1. \A i \in (offset + 1)..(offset + Len(b)) : i \in 1..Len(process_buf)
        BY <1>2, <1>9, <2>1
      <4> QED
        BY <4>1, <1>2, ElementOfSeq DEF Bytes
    <3>2. /\ f \in Seq(Byte)
          /\ Len(f) = IF offset + 1 <= offset + Len(b) THEN offset + Len(b) - (offset + 1) + 1 ELSE 0
          /\ \A i \in 1..(offset + Len(b) - (offset + 1) + 1) : f[i] = process_buf[(offset + 1) + i - 1]
      BY <1>2, <1>9, <3>1, SubSeqProperties
    <3> HIDE DEF f
    <3>3. PICK l \in Nat : l = Len(b)
      BY <1>9
    <3>4. /\ offset + 1 <= offset + l /\ offset + l - (offset + 1) + 1 = l
          /\ \A i \in 1..l : (offset + 1) + i - 1 = offset + i
      BY ONLY <1>2, <1>9, <3>3
    <3> QED
      BY ONLY <3>2, <3>3, <3>4
  <2> HIDE DEF f
  <2>4. ASSUME NEW i \in 1..Len(f) PROVE f[i] = b[i]
    <3>1. i - 1 \in Nat /\ (i - 1) + 1 = i /\ (i - 1) + 1 <= Len(b) /\ offset + (i - 1) + 1 <= Len(process_buf)
          /\ offset + (i - 1) + 1 = offset + i
      BY <1>2, <1>9, <2>1, <2>3
    <3>2. At(i - 1) = b[(i - 1) + 1]
      BY <3>1, <1>10
    <3>3. At(i - 1) = process_buf[offset + i]
      BY <3>1 DEF At
    <3> QED
      BY <3>1, <3>2, <3>3, <2>3
  <2>5. f = b
    BY <1>9, <2>3, <2>4, SeqEqual DEF Bytes
  <2>6. SumMatches
    <3>1. Seqs!Last(b) = b[Len(b)] /\ Seqs!Front(b) = SubSeq(b, 1, Len(b) - 1)
      BY DEF Seqs!Last, Seqs!Front
    <3>2. FrameLen > 0
      BY <1>9, <1>14
    <3> QED
      BY <2>2, <2>5, <3>1, <3>2, <1>9 DEF SumMatches, GoodFrame
  <2> QED
    BY <2>2, <2>5, <2>6
<1> QED
  BY <1>7, <1>8, <1>13, <1>14, <1>15, <1>16 DEF Found

-----------------------------------------------------------------------------
(* The steps.                                                              *)

\* Steps that leave the bytes alone.
LEMMA StillOnLine ==
    ASSUME OnLine, UNCHANGED <<arrived, offset, line, expected, overrun>>
    PROVE  OnLine'
BY DEF OnLine

\* The interrupt.
LEMMA ReceiveOnLine ==
    ASSUME SerialInv, OnLine, ReceiveInput, expected' = expected
    PROVE  OnLine'
<1>1. /\ line # << >> /\ line' = Tail(line) /\ arrived' = Append(arrived, Head(line))
      /\ offset' = offset /\ (~overrun' => ~overrun)
  BY DEF ReceiveInput, loop
<1>2. expected' \in Seq(FrameRecords)
  BY DEF OnLine
<1>3. ASSUME ~overrun'
      PROVE  \E at : FramesAt(UnreadOf(arrived', offset', line'),
                               Len(arrived') - offset' + Len(line'), expected', at)
  <2>1. /\ arrived \in Bytes /\ line \in Bytes /\ offset \in Nat /\ offset <= Len(arrived)
        /\ Len(arrived) \in Nat /\ Len(line) \in Nat
    BY <1>1, <1>3, InBuffer
  <2>2. UnreadOf(arrived', offset', line') = UnreadOf(arrived, offset, line)
    <3>1. ByteArrives(arrived, line, arrived', line')
      BY <1>1 DEF ByteArrives
    <3>2. UnreadOf(arrived', offset, line') = UnreadOf(arrived, offset, line)
      BY ONLY <2>1, <3>1, UnreadReceive
    <3> QED
      BY <1>1, <3>2
  <2>3. Len(arrived') - offset' + Len(line') = Len(arrived) - offset + Len(line)
    <3>1. Len(arrived') = Len(arrived) + 1 /\ Len(line') = Len(line) - 1
      BY <1>1, <2>1 DEF Bytes
    <3> QED
      BY <3>1, <1>1, <2>1
  <2>4. PICK at : FramesAt(UnreadOf(arrived, offset, line), Len(arrived) - offset + Len(line), expected, at)
    BY <1>1, <1>3 DEF OnLine
  <2> QED
    BY <2>2, <2>3, <2>4
<1> QED
  BY <1>2, <1>3 DEF OnLine

\* What is left moves to the start of the buffer.
LEMMA CompactOnLine ==
    ASSUME SerialInv, OnLine, Compact, expected' = expected
    PROVE  OnLine'
<1>1. /\ line' = line /\ arrived' = SubSeq(arrived, offset + 1, Len(arrived))
      /\ offset' = 0 /\ overrun' = overrun
  BY DEF Compact
<1>2. expected' \in Seq(FrameRecords)
  BY DEF OnLine
<1>3. ASSUME ~overrun'
      PROVE  \E at : FramesAt(UnreadOf(arrived', offset', line'),
                               Len(arrived') - offset' + Len(line'), expected', at)
  <2>1. /\ arrived \in Bytes /\ line \in Bytes /\ offset \in Nat /\ offset <= Len(arrived)
        /\ Len(arrived) \in Nat /\ Len(line) \in Nat
    BY <1>1, <1>3, InBuffer
  <2>2. UnreadOf(arrived', offset', line') = UnreadOf(arrived, offset, line)
    BY <1>1, <2>1, UnreadCompact
  <2>3. Len(arrived') - offset' + Len(line') = Len(arrived) - offset + Len(line)
    <3>1. Len(arrived') = Len(arrived) - offset
      BY <1>1, <2>1 DEF Bytes
    <3> QED
      BY <3>1, <1>1, <2>1
  <2>4. PICK at : FramesAt(UnreadOf(arrived, offset, line), Len(arrived) - offset + Len(line), expected, at)
    BY <1>1, <1>3 DEF OnLine
  <2> QED
    BY <2>2, <2>3, <2>4
<1> QED
  BY <1>2, <1>3 DEF OnLine

\* A byte that begins no head.
LEMMA NoHeadOnLine ==
    ASSUME SerialInv, OnLine, SkipNoHead, expected' = expected
    PROVE  OnLine'
<1>1. line' = line /\ arrived' = arrived /\ offset' = offset + 1 /\ overrun' = overrun
  BY DEF SkipNoHead, Skip, ghosts
<1>2. expected \in Seq(FrameRecords)
  BY DEF OnLine
<1>3. ASSUME ~overrun'
      PROVE  \E at : FramesAt(UnreadOf(arrived', offset', line'),
                               Len(arrived') - offset' + Len(line'), expected', at)
  <2>1. /\ arrived \in Bytes /\ line \in Bytes /\ offset \in Nat /\ Len(process_buf) <= Len(arrived)
        /\ Len(arrived) \in Nat /\ Len(line) \in Nat /\ Len(process_buf) \in Nat
    BY <1>1, <1>3, InBuffer
  <2>2. Searching /\ ~IsHead /\ ~overrun
    BY <1>1, <1>3 DEF SkipNoHead
  <2>3. Len(process_buf) - offset >= 7
    BY <2>2 DEF Searching, PROTOCOL_HEAD
  <2>4. At(0) # 85
    <3> SUFFICES ASSUME At(0) = 85 PROVE FALSE
      OBVIOUS
    <3>1. Found
      BY <2>2, FrameFound
    <3> QED
      BY <2>2, <3>1 DEF Found
  <2>5. PICK u, n, at : /\ u = UnreadOf(arrived, offset, line) /\ n = Len(arrived) - offset + Len(line)
                        /\ FramesAt(u, n, expected, at)
    BY <2>2 DEF OnLine
  <2>6. PICK v : v = UnreadOf(arrived, offset + 1, line)
    OBVIOUS
  <2>7. n \in Nat /\ n >= 1 /\ offset + 1 <= Len(arrived) /\ Len(arrived) - (offset + 1) + Len(line) = n - 1
    BY <2>1, <2>3, <2>5
  <2>8. \A i \in 1..(n - 1) : v[i] = u[1 + i]
    <3>1. Behind(u, 1, v, Len(arrived) - (offset + 1) + Len(line))
      BY <2>1, <2>5, <2>6, <2>7, UnreadSkip
    <3> QED
      BY <2>7, <3>1 DEF Behind
  <2>9. u[1] # 85
    <3>1. 0 \in Nat /\ offset + 0 + 1 <= Len(process_buf) /\ 0 + 1 = 1
      BY <2>1, <2>3
    <3>2. UnreadOf(arrived, offset, line)[0 + 1] = At(0)
      BY <2>2, <3>1, SearchSees
    <3> QED
      BY <2>4, <2>5, <3>1, <3>2
  <2>10. \E at2 : FramesAt(v, n - 1, expected, at2)
    BY ONLY <1>2, <2>5, <2>7, <2>8, <2>9, PassJunk
  <2> QED
    BY <1>1, <2>6, <2>7, <2>10
<1> QED
  BY <1>2, <1>3 DEF OnLine

\* A frame on the line is whole or not yet here, never one to leave.
LEMMA NothingSkipped ==
    ASSUME SerialInv, OnLine, ~overrun
    PROVE  ~SkipVersion /\ ~SkipTooLong /\ ~SkipBadSum
<1> SUFFICES ASSUME SkipVersion \/ SkipTooLong \/ SkipBadSum PROVE FALSE
  OBVIOUS
<1>1. Searching /\ IsHead
  BY DEF SkipVersion, SkipTooLong, SkipBadSum, Whole
<1>2. Found
  BY <1>1, FrameFound DEF IsHead
<1> QED
  BY <1>2 DEF Found, SkipVersion, SkipTooLong, SkipBadSum, SumWrong, Whole

\* What the search leaves with a wrong version, length or sum.
LEMMA SkippedOnLine ==
    ASSUME SerialInv, OnLine, SkipVersion \/ SkipTooLong \/ SkipBadSum, expected' = expected
    PROVE  OnLine'
<1>1. overrun
  BY NothingSkipped
<1>2. overrun' = overrun
  BY DEF SkipVersion, SkipTooLong, SkipBadSum, Skip, ghosts
<1> QED
  BY <1>1, <1>2 DEF OnLine

\* A frame is handled.
LEMMA DeliverOnLine ==
    ASSUME SerialInv, OnLine, Deliver
    PROVE  OnLine'
<1>1. /\ line' = line /\ arrived' = arrived /\ offset' = offset + FrameLen /\ overrun' = overrun
      /\ expected' = IF IsOldest THEN Tail(expected) ELSE expected
      /\ Searching /\ IsHead /\ Complete
  BY DEF Deliver, Dispatch, Whole, Skip, ghosts
<1>2. expected \in Seq(FrameRecords)
  BY DEF OnLine
<1>3. expected' \in Seq(FrameRecords)
  <2>1. expected # << >> => Tail(expected) \in Seq(FrameRecords)
    BY <1>2
  <2> QED
    BY <1>1, <1>2, <2>1 DEF IsOldest
<1>4. ASSUME ~overrun'
      PROVE  \E at : FramesAt(UnreadOf(arrived', offset', line'),
                               Len(arrived') - offset' + Len(line'), expected', at)
  <2>1. /\ arrived \in Bytes /\ line \in Bytes /\ offset \in Nat /\ Len(process_buf) <= Len(arrived)
        /\ Len(arrived) \in Nat /\ Len(line) \in Nat /\ Len(process_buf) \in Nat
    BY <1>1, <1>4, InBuffer
  <2>2. ~overrun /\ At(0) = 85
    BY <1>1, <1>4 DEF IsHead
  <2>3. Found
    BY <1>1, <2>2, FrameFound
  <2>4. Len(process_buf) - offset >= 7
    BY <1>1 DEF Searching, PROTOCOL_HEAD
  <2>5. PICK u, n, at : /\ u = UnreadOf(arrived, offset, line) /\ n = Len(arrived) - offset + Len(line)
                        /\ FramesAt(u, n, expected, at)
    BY <2>2 DEF OnLine
  <2>6. n \in Nat /\ n >= 1
    BY <2>1, <2>4, <2>5
  <2>7. u[1] = 85
    <3>1. 0 \in Nat /\ offset + 0 + 1 <= Len(process_buf) /\ 0 + 1 = 1
      BY <2>1, <2>4
    <3>2. UnreadOf(arrived, offset, line)[0 + 1] = At(0)
      BY <2>2, <3>1, SearchSees
    <3> QED
      BY <2>2, <2>5, <3>1, <3>2
  <2>8. Head(expected) = expected[1] /\ 1 \in 1..Len(expected)
    BY ONLY <1>2, <2>5, <2>6, <2>7, FrameIsFirst
  <2>9. PICK len : len = Len(expected[1].bytes) /\ FrameLen = len
    BY <2>3, <2>8 DEF Found
  <2>10. len \in Nat /\ offset + len <= Len(process_buf)
    <3>1. len \in Nat
      BY ONLY <1>2, <2>5, <2>6, <2>8, <2>9, PlacedFrame
    <3>2. Len(process_buf) - offset >= len
      BY <1>1, <2>9 DEF Complete
    <3> QED
      BY <2>1, <3>1, <3>2
  <2>11. PICK v, rest : v = UnreadOf(arrived, offset + len, line) /\ rest = Tail(expected)
    OBVIOUS
  <2>12. offset + len <= Len(arrived) /\ Len(arrived) - (offset + len) + Len(line) = n - len
    BY <2>1, <2>5, <2>10
  <2>13. \A i \in 1..(n - len) : v[i] = u[len + i]
    <3>1. Behind(u, len, v, Len(arrived) - (offset + len) + Len(line))
      BY <2>1, <2>5, <2>10, <2>11, <2>12, UnreadSkip
    <3> QED
      BY <2>12, <3>1 DEF Behind
  <2>14. \E at2 : FramesAt(v, n - len, rest, at2)
    BY ONLY <1>2, <2>5, <2>6, <2>7, <2>9, <2>11, <2>13, PassFrame
  <2>15. expected' = rest
    BY <1>1, <2>3, <2>11 DEF Found, IsOldest
  <2> QED
    BY <1>1, <2>9, <2>11, <2>12, <2>14, <2>15
<1> QED
  BY <1>3, <1>4 DEF OnLine

\* Bytes are put on the empty line.
LEMMA LineFilled ==
    ASSUME SerialInv, ~overrun, NEW bytes \in Bytes, Transmit(bytes)
    PROVE  \E u, n, v :
              /\ u = UnreadOf(arrived, offset, line) /\ n = Len(arrived) - offset + Len(line) /\ n \in Nat
              /\ v = UnreadOf(arrived', offset', line')
              /\ Len(arrived') - offset' + Len(line') = n + Len(bytes)
              /\ Followed(u, n, bytes, v)
<1>1. line = << >> /\ line' = bytes /\ arrived' = arrived /\ offset' = offset
  BY DEF Transmit, loop, ghosts
<1>2. arrived \in Bytes /\ offset \in Nat /\ offset <= Len(arrived) /\ Len(arrived) \in Nat
  BY InBuffer
<1>3. Len(<< >>) = 0 /\ Len(bytes) \in Nat
  BY DEF Bytes
<1>4. PICK u, n, v : /\ u = UnreadOf(arrived, offset, << >>) /\ v = UnreadOf(arrived, offset, bytes)
                     /\ n = Len(arrived) - offset
  OBVIOUS
<1>5. Followed(u, n, bytes, v)
  BY <1>2, <1>4, UnreadTransmit
<1>6. n \in Nat /\ n = Len(arrived) - offset + Len(line)
      /\ Len(arrived') - offset' + Len(line') = n + Len(bytes)
  BY <1>1, <1>2, <1>3, <1>4
<1>7. u = UnreadOf(arrived, offset, line) /\ v = UnreadOf(arrived', offset', line')
  BY <1>1, <1>4
<1> QED
  BY <1>5, <1>6, <1>7

\* A frame of the module.
LEMMA SendOnLine ==
    ASSUME SerialInv, OnLine,
           NEW cmd \in Byte, NEW data \in Seq(Byte), NEW answer \in BOOLEAN,
           Len(data) \in Word, ModuleSends(cmd, data, answer)
    PROVE  OnLine'
<1>1. PICK bytes \in Seq(Byte) :
          /\ bytes = FrameBytes(0, cmd, data) /\ Transmit(bytes) /\ Len(bytes) <= ProcessBuf
          /\ expected' = Append(expected, [bytes |-> bytes, answer |-> answer])
  BY FrameOnLine
<1>2. bytes \in Bytes /\ GoodFrame(bytes)
  <2>1. data \in Data
    BY DEF Data
  <2> QED
    BY <1>1, <2>1, MadeFrame
<1>3. PICK frame : frame = [bytes |-> bytes, answer |-> answer]
  OBVIOUS
<1>4. frame \in FrameRecords /\ frame.bytes = bytes
  BY <1>2, <1>3 DEF FrameRecords
<1>5. expected \in Seq(FrameRecords) /\ expected' = Append(expected, frame)
  BY <1>1, <1>3 DEF OnLine
<1>6. expected' \in Seq(FrameRecords)
  BY <1>4, <1>5
<1>7. overrun' = overrun
  BY <1>1 DEF Transmit, ghosts
<1>8. ASSUME ~overrun'
      PROVE  \E at : FramesAt(UnreadOf(arrived', offset', line'),
                               Len(arrived') - offset' + Len(line'), expected', at)
  <2>1. PICK u, n, v :
              /\ u = UnreadOf(arrived, offset, line) /\ n = Len(arrived) - offset + Len(line) /\ n \in Nat
              /\ v = UnreadOf(arrived', offset', line')
              /\ Len(arrived') - offset' + Len(line') = n + Len(bytes)
              /\ Followed(u, n, bytes, v)
    BY <1>1, <1>2, <1>7, <1>8, LineFilled
  <2>2. PICK at : FramesAt(u, n, expected, at)
    BY <1>7, <1>8, <2>1 DEF OnLine
  <2>3. GoodFrame(frame.bytes) /\ Followed(u, n, frame.bytes, v)
    BY <1>2, <1>4, <2>1
  <2>4. \E at2 : FramesAt(v, n + Len(frame.bytes), Append(expected, frame), at2)
    BY ONLY <1>4, <1>5, <2>1, <2>2, <2>3, AddFrame
  <2> QED
    BY <1>4, <1>5, <2>1, <2>4
<1> QED
  BY <1>6, <1>8 DEF OnLine

\* Noise.
LEMMA DisturbOnLine ==
    ASSUME SerialInv, OnLine, NEW bytes \in Seq(Byte), Disturb(bytes), NoHeadIn(bytes)
    PROVE  OnLine'
<1>1. Transmit(bytes) /\ expected' = expected /\ bytes \in Bytes
  BY DEF Disturb, Quietly, Bytes
<1>2. overrun' = overrun
  BY <1>1 DEF Transmit, ghosts
<1>3. expected \in Seq(FrameRecords)
  BY DEF OnLine
<1>4. ASSUME ~overrun'
      PROVE  \E at : FramesAt(UnreadOf(arrived', offset', line'),
                               Len(arrived') - offset' + Len(line'), expected', at)
  <2>1. PICK u, n, v :
              /\ u = UnreadOf(arrived, offset, line) /\ n = Len(arrived) - offset + Len(line) /\ n \in Nat
              /\ v = UnreadOf(arrived', offset', line')
              /\ Len(arrived') - offset' + Len(line') = n + Len(bytes)
              /\ Followed(u, n, bytes, v)
    BY <1>1, <1>2, <1>4, LineFilled
  <2>2. PICK at : FramesAt(u, n, expected, at)
    BY <1>2, <1>4, <2>1 DEF OnLine
  <2>3. FramesAt(v, n + Len(bytes), expected, at)
    BY ONLY <1>1, <1>3, <2>1, <2>2, NoHeadIn(bytes), AddNoise
  <2> QED
    BY <1>1, <2>1, <2>3
<1> QED
  BY <1>1, <1>3, <1>4 DEF OnLine

\* Before anything has come, the line is what there is.
LEMMA FreshUnread ==
    ASSUME NEW rest \in Bytes
    PROVE  /\ Len(<< >>) - 0 + Len(rest) = Len(rest) /\ Len(rest) \in Nat
           /\ \A i \in 1..Len(rest) : UnreadOf(<< >>, 0, rest)[i] = rest[i]
<1>1. Len(<< >>) = 0 /\ Len(rest) \in Nat
  BY DEF Bytes
<1>2. ASSUME NEW i \in 1..Len(rest) PROVE UnreadOf(<< >>, 0, rest)[i] = rest[i]
  <2>1. i \in 1..(Len(<< >>) - 0 + Len(rest)) /\ ~(0 + i <= Len(<< >>)) /\ 0 + i - Len(<< >>) = i
    BY <1>1
  <2> QED
    BY <2>1 DEF UnreadOf
<1> QED
  BY <1>1, <1>2

\* Nothing is on the line at first.
LEMMA InitOnLine == SerialInv /\ McuInit => OnLine
<1> SUFFICES ASSUME SerialInv, McuInit PROVE OnLine
  OBVIOUS
<1>1. arrived = << >> /\ offset = 0 /\ line = << >> /\ expected = << >> /\ line \in Bytes
  BY DEF McuInit, SerialInit, SerialInv, SerialType
<1>2. Len(arrived) - offset + Len(line) = 0
  BY <1>1
<1>3. \A i \in 1..0 : UnreadOf(arrived, offset, line)[i] # 85
  OBVIOUS
<1>4. \E at : FramesAt(UnreadOf(arrived, offset, line), 0, << >>, at)
  BY <1>3, NoFrames
<1> QED
  BY <1>1, <1>2, <1>4 DEF OnLine

\* The frame that is left for an MCU that starts again.
Untouched == IF expected # << >> /\ line = Seqs!Last(expected).bytes
             THEN << Seqs!Last(expected) >> ELSE << >>

\* The MCU starts again: the line keeps the frame it holds as a whole, or a piece of one.
LEMMA RestartOnLine ==
    ASSUME SerialInv, OnLine, Restart, expected' # << >> \/ NoHeadIn(line)
    PROVE  OnLine'
<1>1. /\ arrived' = << >> /\ offset' = 0 /\ line' = line /\ overrun' = overrun
      /\ expected' = Untouched
  BY DEF Restart, Untouched
<1>2. line \in Bytes /\ expected \in Seq(FrameRecords)
  BY DEF SerialInv, SerialType, OnLine
<1>3. PICK v, len : v = UnreadOf(<< >>, 0, line) /\ len = Len(line)
  OBVIOUS
<1>4. /\ len \in Nat /\ Len(<< >>) - 0 + Len(line) = len
      /\ \A i \in 1..len : v[i] = line[i]
  BY <1>2, <1>3, FreshUnread
<1>5. CASE expected # << >> /\ line = Seqs!Last(expected).bytes
  <2>1. PICK j : j = Len(expected)
    OBVIOUS
  <2>2. j \in 1..Len(expected) /\ Seqs!Last(expected) = expected[j]
    BY <1>2, <1>5, <2>1 DEF Seqs!Last
  <2>3. PICK frame : frame = expected[j]
    OBVIOUS
  <2>4. frame \in FrameRecords /\ frame.bytes = line /\ expected' = << frame >>
    BY <1>1, <1>2, <1>5, <2>2, <2>3 DEF Untouched
  <2>5. expected' \in Seq(FrameRecords)
    BY <2>4
  <2>6. ASSUME ~overrun' PROVE \E at : FramesAt(v, len, << frame >>, at)
    <3>1. PICK at : FramesAt(UnreadOf(arrived, offset, line),
                             Len(arrived) - offset + Len(line), expected, at)
      BY <1>1, <2>6 DEF OnLine
    <3>2. GoodFrame(frame.bytes)
      BY <2>2, <2>3, <3>1 DEF FramesAt, Placed
    <3>3. PICK none : FramesAt(v, 0, << >>, none)
      <4>1. \A i \in 1..0 : v[i] # 85
        OBVIOUS
      <4> QED
        BY <4>1, NoFrames
    <3>4. Followed(v, 0, frame.bytes, v)
      <4>1. \A i \in 1..len : 0 + i = i
        BY <1>4
      <4> QED
        BY <1>3, <1>4, <2>4, <4>1 DEF Followed
    <3>5. << >> \in Seq(FrameRecords) /\ 0 \in Nat /\ 0 + Len(frame.bytes) = len
          /\ Append(<< >>, frame) = << frame >>
      BY <1>3, <1>4, <2>4
    <3>6. \E at2 : FramesAt(v, 0 + Len(frame.bytes), Append(<< >>, frame), at2)
      BY ONLY <2>4, <3>2, <3>3, <3>4, <3>5, AddFrame
    <3> QED
      BY <3>5, <3>6
  <2> QED
    BY <1>1, <1>3, <1>4, <2>4, <2>5, <2>6 DEF OnLine
<1>6. CASE ~(expected # << >> /\ line = Seqs!Last(expected).bytes)
  <2>1. expected' = << >>
    BY <1>1, <1>6 DEF Untouched
  <2>2. \A i \in 1..len : v[i] # 85
    BY <1>3, <1>4, <2>1 DEF NoHeadIn
  <2>3. \E at : FramesAt(v, len, << >>, at)
    BY <1>4, <2>2, NoFrames
  <2>4. expected' \in Seq(FrameRecords)
    BY <2>1
  <2> QED
    BY <1>1, <1>3, <1>4, <2>1, <2>3, <2>4 DEF OnLine
<1> QED
  BY <1>5, <1>6

\* The service, until it has found a frame.
LEMMA ServiceOnLine ==
    ASSUME SerialInv, OnLine, Service, expected' = expected
    PROVE  OnLine'
<1>1. CASE Call \/ Fill \/ TakeWrap \/ TakeNothing \/ TakeByte
  <2>1. UNCHANGED <<arrived, offset, line, expected, overrun>>
    BY <1>1 DEF Call, Fill, TakeWrap, TakeNothing, TakeByte, ghosts
  <2> QED
    BY <2>1, StillOnLine
<1>2. CASE Compact
  BY <1>2, CompactOnLine
<1>3. CASE SkipNoHead
  BY <1>3, NoHeadOnLine
<1>4. CASE SkipVersion \/ SkipTooLong \/ SkipBadSum
  BY <1>4, SkippedOnLine
<1> QED
  BY <1>1, <1>2, <1>3, <1>4 DEF Service

\* The noise, and what a restart leaves of a frame on the line, hold no byte with
\* which a head begins.
PlainStep ==
    /\ \A bytes \in Seq(Byte) : Disturb(bytes) => NoHeadIn(bytes)
    /\ Restart => expected' # << >> \/ NoHeadIn(line)

\* A run with nothing but such noise.
PlainNoise == [][PlainStep]_mcuVars

\* Every step of the firmware, the module, the application and the line.
LEMMA FirmwareOnLine ==
    ASSUME SerialInv, OnLine, [FirmwareNext]_mcuVars, [PlainStep]_mcuVars
    PROVE  OnLine'
<1>1. CASE UNCHANGED mcuVars
  BY <1>1, StillOnLine DEF mcuVars, serialVars, ghosts, loop, env
<1>2. CASE FirmwareNext /\ PlainStep
  <2>1. CASE Interrupt
    BY <2>1, ReceiveOnLine DEF Interrupt, Quietly
  <2>2. CASE Service /\ Quietly
    BY <2>2, ServiceOnLine DEF Quietly
  <2>3. CASE Deliver
    BY <2>3, DeliverOnLine
  <2>4. CASE Restart
    BY <1>2, <2>4, RestartOnLine DEF PlainStep
  <2>5. CASE (\E call, args : ApiCall(call, args)) \/ (\E r : ApiReport(r))
    <3>1. UNCHANGED <<serialVars, expected>>
      BY <2>5 DEF ApiCall, ApiReport
    <3> QED
      BY <3>1, StillOnLine DEF serialVars, ghosts, loop
  <2>6. ASSUME NEW cmd \in Byte, NEW data \in Seq(Byte), NEW answer \in BOOLEAN,
               Len(data) \in Word, ModuleSends(cmd, data, answer)
        PROVE  OnLine'
    BY <2>6, SendOnLine
  <2>7. ASSUME NEW bytes \in Seq(Byte), Disturb(bytes) PROVE OnLine'
    BY <1>2, <2>7, DisturbOnLine DEF PlainStep
  <2> QED
    BY <1>2, <2>1, <2>2, <2>3, <2>4, <2>5, <2>6, <2>7 DEF FirmwareNext, MainLoop
<1> QED
  BY <1>1, <1>2

\* The frame that is handled is the oldest one.
LEMMA OldestDelivered ==
    SerialInv /\ OnLine /\ Deliver /\ ~overrun => IsOldest
<1> SUFFICES ASSUME SerialInv, OnLine, Deliver, ~overrun PROVE IsOldest
  OBVIOUS
<1>1. Searching /\ IsHead /\ Complete
  BY DEF Deliver, Dispatch, Whole
<1>2. Found
  BY <1>1, FrameFound DEF IsHead
<1> QED
  BY <1>1, <1>2 DEF Found, IsOldest

\* Such noise is harmless.
LEMMA NoHeadHarmless ==
    ASSUME NEW bytes \in Bytes, NoHeadIn(bytes)
    PROVE  Harmless(bytes)
<1> DEFINE next == bytes \o <<85, 170, MCU_RX_VER>>
           total == [i \in 1..Len(bytes) |->
                        IF i + 5 <= Len(next) /\ SubSeq(next, i, i + 2) = <<85, 170, MCU_RX_VER>>
                        THEN Total(next[i + 4], next[i + 5]) ELSE ProcessBuf + PROTOCOL_HEAD + 1]
<1>1. ASSUME NEW i \in 1..Len(bytes) PROVE ~(total[i] <= ProcessBuf + PROTOCOL_HEAD)
  <2>1. next[i] = bytes[i] /\ next[i] # 85
    BY <1>1 DEF NoHeadIn, Bytes
  <2>2. SubSeq(next, i, i + 2)[1] = next[i]
    BY <1>1 DEF Bytes
  <2> HIDE DEF next
  <2>3. SubSeq(next, i, i + 2) # <<85, 170, MCU_RX_VER>>
    <3>1. <<85, 170, MCU_RX_VER>>[1] = 85
      OBVIOUS
    <3>2. SubSeq(next, i, i + 2)[1] # 85
      BY <2>1, <2>2
    <3> QED
      BY ONLY <3>1, <3>2, Zenon
  <2>4. total[i] = ProcessBuf + PROTOCOL_HEAD + 1
    BY <2>3
  <2> HIDE DEF total
  <2> QED
    BY <2>4, SerialAssumption DEF PROTOCOL_HEAD
<1> HIDE DEF total
<1>2. Harmless(bytes) <=> \A i \in 1..Len(bytes) : total[i] <= ProcessBuf + PROTOCOL_HEAD =>
            /\ total[i] \in 1..ProcessBuf /\ i + total[i] - 1 <= Len(next)
            /\ CheckSum(SubSeq(next, i, i + total[i] - 2)) # next[i + total[i] - 1]
  BY DEF Harmless, total
<1> QED
  BY <1>1, <1>2

NoiseInv == noise \in Bytes /\ NoHeadIn(noise) /\ plain

LEMMA NoiseKeeps ==
    ASSUME SerialInv, NoiseInv, [FirmwareNext]_mcuVars, [PlainStep]_mcuVars
    PROVE  NoiseInv'
<1>1. << >> \in Bytes /\ NoHeadIn(<< >>)
  BY DEF Bytes, NoHeadIn
<1>2. CASE UNCHANGED <<noise, plain>>
  BY <1>2 DEF NoiseInv
<1>3. CASE Restart /\ PlainStep
  <2>1. noise' = << >> \/ (noise' = line /\ expected' = << >>)
    <3> DEFINE untouched == IF expected # << >> /\ line = Seqs!Last(expected).bytes
                            THEN << Seqs!Last(expected) >> ELSE << >>
    <3>1. expected' = untouched /\ noise' = IF untouched = << >> THEN line ELSE << >>
      BY <1>3 DEF Restart
    <3> HIDE DEF untouched
    <3> QED
      BY <3>1
  <2>2. noise' \in Bytes /\ NoHeadIn(noise')
    BY <1>1, <1>3, <2>1 DEF PlainStep, SerialInv, SerialType
  <2>3. plain'
    BY <1>3, <2>2, NoHeadHarmless DEF Restart
  <2> QED
    BY <2>2, <2>3 DEF NoiseInv
<1>4. ASSUME NEW bytes \in Seq(Byte), Disturb(bytes), PlainStep PROVE NoiseInv'
  <2>1. noise' = noise \o bytes /\ plain' = (plain /\ Harmless(noise')) /\ NoHeadIn(bytes)
    BY <1>4 DEF Disturb, PlainStep
  <2>2. noise \o bytes \in Bytes /\ NoHeadIn(noise \o bytes)
    <3>1. /\ noise \in Seq(Byte) /\ NoHeadIn(noise) /\ NoHeadIn(bytes)
      BY <2>1 DEF NoiseInv, Bytes
    <3>2. noise \o bytes \in Seq(Byte) /\ Len(noise \o bytes) = Len(noise) + Len(bytes)
      BY <3>1
    <3>3. ASSUME NEW i \in 1..Len(noise \o bytes) PROVE (noise \o bytes)[i] # 85
      <4>1. CASE i <= Len(noise)
        BY <3>1, <3>2, <4>1 DEF NoHeadIn
      <4>2. CASE i > Len(noise)
        <5>1. i - Len(noise) \in 1..Len(bytes) /\ (noise \o bytes)[i] = bytes[i - Len(noise)]
          BY <3>1, <3>2, <4>2
        <5> QED
          BY <3>1, <5>1 DEF NoHeadIn
      <4> QED
        BY <3>1, <4>1, <4>2
    <3> QED
      BY <3>2, <3>3 DEF NoHeadIn, Bytes
  <2>3. Harmless(noise')
    BY <2>1, <2>2, NoHeadHarmless
  <2> QED
    BY <2>1, <2>2, <2>3 DEF NoiseInv
<1>5. ASSUME NEW cmd, NEW data, NEW answer, ModuleSends(cmd, data, answer) PROVE NoiseInv'
  BY <1>1, <1>5 DEF ModuleSends, NoiseInv
<1>6. CASE UNCHANGED mcuVars
  BY <1>2, <1>6 DEF mcuVars, env
<1>7. CASE FirmwareNext /\ PlainStep
  <2>1. CASE Interrupt \/ MainLoop
    BY <1>2, <2>1 DEF Interrupt, MainLoop, Deliver, Quietly
  <2>2. ASSUME NEW call, NEW args, ApiCall(call, args) PROVE NoiseInv'
    <3>1. UNCHANGED <<noise, plain>>
      BY <2>2, Zenon DEF ApiCall
    <3> QED
      BY <1>2, <3>1
  <2>3. ASSUME NEW r, ApiReport(r) PROVE NoiseInv'
    <3>1. UNCHANGED <<noise, plain>>
      BY <2>3, Zenon DEF ApiReport
    <3> QED
      BY <1>2, <3>1
  <2> QED
    BY <1>3, <1>4, <1>5, <1>7, <2>1, <2>2, <2>3 DEF FirmwareNext
<1> QED
  BY <1>6, <1>7

\* With such noise InOrder leaves nothing out.
LEMMA StaysPlain == FirmwareSpec /\ PlainNoise => []plain
<1>1. McuInit => SerialInv /\ NoiseInv
  <2>1. << >> \in Bytes /\ NoHeadIn(<< >>)
    BY DEF Bytes, NoHeadIn
  <2> QED
    BY <2>1, InitHolds DEF McuInit, NoiseInv
<1>2. SerialInv /\ NoiseInv /\ [FirmwareNext]_mcuVars /\ [PlainStep]_mcuVars => (SerialInv /\ NoiseInv)'
  BY FirmwareKeeps, NoiseKeeps
<1>3. NoiseInv => plain
  BY DEF NoiseInv
<1> QED
  BY <1>1, <1>2, <1>3, PTL DEF FirmwareSpec, PlainNoise

\* With such noise the MCU handles the frames that were sent, byte by byte and in
\* their order: none is passed over, taken twice or read across its end, for frames
\* with any data, heads among them, for every size of the ring and the buffer until
\* the ring overruns, and with restarts (cellular_uart_service).
THEOREM CleanLineInOrder == FirmwareSpec /\ PlainNoise => InOrder
<1>1. McuInit => SerialInv /\ OnLine
  BY InitHolds, InitOnLine DEF McuInit
<1>2. SerialInv /\ OnLine /\ [FirmwareNext]_mcuVars /\ [PlainStep]_mcuVars => (SerialInv /\ OnLine)'
  BY FirmwareKeeps, FirmwareOnLine
<1>3. SerialInv /\ OnLine
        => [Deliver /\ ~overrun /\ plain => IsOldest]_mcuVars
  BY OldestDelivered
<1> QED
  BY <1>1, <1>2, <1>3, PTL DEF FirmwareSpec, PlainNoise, InOrder
=============================================================================
