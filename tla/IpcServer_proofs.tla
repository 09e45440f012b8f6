-------------------------- MODULE IpcServer_proofs --------------------------
(***************************************************************************)
(* Proofs about the control channel, for every table of data points, every *)
(* set of requests and texts, every size of the line buffer and the queue. *)
(***************************************************************************)
EXTENDS IpcServer, TLAPS, SequenceTheorems

-----------------------------------------------------------------------------
(* The value of a command                                                  *)

Int32 == {n \in Int : -2147483647 - 1 <= n /\ n <= 2147483647}

\* Four bytes, the first one signed, give back the number they were cut from.
LEMMA FourBytes ==
    ASSUME NEW v \in Int32
    PROVE  /\ \A w \in {1, 256, 65536, 16777216} : ByteOf(v, w) \in 0..255
           /\ BigEndian(v) \in Seq(0..255) /\ Len(BigEndian(v)) = 4
           /\ FromBytes(BigEndian(v)) = v
<1> DEFINE q1 == v \div 256
           q2 == v \div 65536
           q3 == v \div 16777216
<1>1. v \in Int /\ q1 \in Int /\ q2 \in Int /\ q3 \in Int
  BY SMT DEF Int32
<1>2. /\ v = 256 * q1 + (v % 256) /\ v % 256 \in 0..255
      /\ q1 = 256 * q2 + (q1 % 256) /\ q1 % 256 \in 0..255
      /\ q2 = 256 * q3 + (q2 % 256) /\ q2 % 256 \in 0..255
  BY SMT DEF Int32
<1>3. q3 \in -128..127
  BY SMT DEF Int32
<1>4. q3 % 256 \in 0..255 /\ q3 % 256 = IF q3 < 0 THEN q3 + 256 ELSE q3
  <2> HIDE DEF q3
  <2> QED
    BY SMT, <1>3
<1>5. /\ ByteOf(v, 1) = v % 256 /\ ByteOf(v, 256) = q1 % 256
      /\ ByteOf(v, 65536) = q2 % 256 /\ ByteOf(v, 16777216) = q3 % 256
  BY SMT, <1>1 DEF ByteOf
<1> HIDE DEF q1, q2, q3
<1> DEFINE b1 == q3 % 256
           b2 == q2 % 256
           b3 == q1 % 256
           b4 == v % 256
<1>6. BigEndian(v) = <<b1, b2, b3, b4>>
  BY SMT, <1>5 DEF BigEndian
<1>7. b1 \in 0..255 /\ b2 \in 0..255 /\ b3 \in 0..255 /\ b4 \in 0..255
  BY SMT, <1>2, <1>4
<1>8. (IF b1 > 127 THEN b1 - 256 ELSE b1) = q3
  BY SMT, <1>3, <1>4
<1>9. v = q3 * 16777216 + b2 * 65536 + b3 * 256 + b4
  BY SMT, <1>1, <1>2
<1> HIDE DEF b1, b2, b3, b4
<1>10. FromBytes(<<b1, b2, b3, b4>>) = (IF b1 > 127 THEN b1 - 256 ELSE b1) * 16777216 + b2 * 65536 + b3 * 256 + b4
  BY SMT DEF FromBytes
<1>11. <<b1, b2, b3, b4>> \in Seq(0..255) /\ Len(<<b1, b2, b3, b4>>) = 4
  BY SMT, <1>7
<1>12. \A w \in {1, 256, 65536, 16777216} : ByteOf(v, w) \in 0..255
  BY SMT, <1>5, <1>7 DEF b1, b2, b3, b4
<1> QED
  BY SMT, <1>6, <1>8, <1>9, <1>10, <1>11, <1>12

Cell == 0..255 \cup DpTypes
Bytes == Seq(Cell)

\* The MCU finds in a packed data point what was packed.
LEMMA Unpacked ==
    ASSUME NEW method \in DOMAIN DpMap, NEW bytes \in Seq(0..255), Len(bytes) \in {1, 4}
    PROVE  LET dp == DpMap[method]
               p  == PackDp(dp, bytes)
           IN  /\ p \in Bytes
               /\ McuUnpacks(p) = [dp_id |-> dp.dp_id, dp_type |-> dp.dp_type,
                      value |-> IF dp.dp_type = "VALUE" THEN FromBytes(bytes) ELSE bytes[1]]
<1> DEFINE dp == DpMap[method]
           n == Len(bytes)
           h == <<dp.dp_id, dp.dp_type, n \div 256, n % 256>>
           p == h \o bytes
<1>1. dp.dp_id \in Cell /\ dp.dp_type \in Cell
  <2>1. dp.dp_id \in 1..255 /\ dp.dp_type \in DpTypes
    BY SMT, IotAssumption
  <2> HIDE DEF dp
  <2> QED
    BY SMT, <2>1 DEF Cell
<1>2. n \div 256 = 0 /\ n % 256 = n /\ n \in {1, 4}
  <2>1. n \in {1, 4}
    OBVIOUS
  <2> HIDE DEF n
  <2> QED
    BY SMT, <2>1
<1>3. h \in Seq(Cell) /\ Len(h) = 4 /\ h[1] = dp.dp_id /\ h[2] = dp.dp_type /\ h[3] = 0 /\ h[4] = n
  <2> HIDE DEF dp, n, Cell
  <2>1. 0 \in Cell /\ n \in Cell
    BY SMT, <1>2 DEF Cell
  <2> QED
    BY SMT, <1>1, <1>2, <2>1
<1>4. bytes \in Seq(Cell)
  BY SMT DEF Cell
<1> HIDE DEF h, Cell
<1>5. /\ p \in Seq(Cell) /\ Len(p) = Len(h) + n
      /\ \A i \in 1..Len(h) + n : p[i] = IF i <= Len(h) THEN h[i] ELSE bytes[i - Len(h)]
  BY <1>3, <1>4, ConcatProperties, Zenon
<1> HIDE DEF p
<1>6. \A i \in 1..4 : p[i] = h[i]
  <2> HIDE DEF n
  <2> QED
    BY SMT, <1>2, <1>3, <1>5
<1>7. SubSeq(p, 5, 4 + n) = bytes
  <2> DEFINE q == SubSeq(p, 5, 4 + n)
  <2> HIDE DEF n
  <2>1. \A i \in 5..4 + n : p[i] \in Cell
    BY SMT, <1>2, <1>3, <1>5, ElementOfSeq
  <2>2. 5 \in Int /\ 4 + n \in Int
    BY SMT, <1>2
  <2>3. /\ q \in Seq(Cell)
        /\ Len(q) = IF 5 <= 4 + n THEN (4 + n) - 5 + 1 ELSE 0
        /\ \A i \in 1..(4 + n) - 5 + 1 : q[i] = p[5 + i - 1]
    <3> DEFINE l == 4 + n
    <3>1. l \in Int /\ \A i \in 5..l : p[i] \in Cell
      BY Zenon, <2>1, <2>2
    <3> HIDE DEF l
    <3>2. /\ SubSeq(p, 5, l) \in Seq(Cell)
          /\ Len(SubSeq(p, 5, l)) = IF 5 <= l THEN l - 5 + 1 ELSE 0
          /\ \A i \in 1..l - 5 + 1 : SubSeq(p, 5, l)[i] = p[5 + i - 1]
      BY SMT, <2>2, <3>1, SubSeqProperties
    <3> QED
      BY Zenon, <3>2 DEF l
  <2> HIDE DEF q
  <2>4. Len(q) = n
    <3>1. 5 <= 4 + n /\ (4 + n) - 5 + 1 = n
      BY SMT, <1>2
    <3> QED
      BY Zenon, <2>3, <3>1
  <2>5. ASSUME NEW i \in 1..n PROVE q[i] = bytes[i]
    <3>1. q[i] = p[5 + i - 1]
      BY SMT, <1>2, <2>3
    <3>2. 5 + i - 1 = 4 + i /\ 4 + i \in 1..Len(h) + n /\ ~(4 + i <= Len(h)) /\ (4 + i) - Len(h) = i
      BY SMT, <1>2, <1>3
    <3>3. p[4 + i] = bytes[(4 + i) - Len(h)]
      BY Zenon, <1>5, <3>2
    <3> QED
      BY Zenon, <3>1, <3>2, <3>3
  <2>6. q = bytes
    BY Zenon, <1>4, <2>3, <2>4, <2>5, SeqEqual DEF n
  <2> QED
    BY Zenon, <2>6 DEF q
<1>8. p[1] = dp.dp_id /\ p[2] = dp.dp_type /\ p[3] * 256 + p[4] = n
  <2> HIDE DEF dp, n
  <2> QED
    BY SMT, <1>2, <1>3, <1>6
<1>9. PackDp(dp, bytes) = p
  BY Zenon DEF PackDp, h, p
<1> HIDE DEF dp, n
<1>10. McuUnpacks(p) = [dp_id |-> dp.dp_id, dp_type |-> dp.dp_type,
                       value |-> IF dp.dp_type = "VALUE" THEN FromBytes(bytes) ELSE bytes[1]]
  <2>1. SubSeq(p, 5, 4 + (p[3] * 256 + p[4])) = bytes
    BY Zenon, <1>7, <1>8
  <2> QED
    BY Zenon, <1>8, <2>1 DEF McuUnpacks
<1> QED
  BY Zenon, <1>5, <1>9, <1>10 DEF dp, Bytes

\* The MCU reads the value that was asked for.
LEMMA MeaningArrives ==
    ASSUME NEW method, NEW val, val.valueint \in Int32, Payload(method, val) # NoPayload
    PROVE  /\ Payload(method, val) \in Bytes
           /\ Typed(method, val) => McuUnpacks(Payload(method, val)) = Meaning(method, val)
<1> DEFINE dp == DpMap[method]
<1>1. method \in DOMAIN DpMap /\ val # Absent /\ dp.dp_type \in {"BOOL", "VALUE", "ENUM"}
  BY SMT DEF Payload
<1>2. CASE dp.dp_type = "BOOL"
  <2> DEFINE b == <<IF val.kind = "true" THEN 1 ELSE 0>>
  <2>1. b \in Seq(0..255) /\ Len(b) = 1 /\ b[1] = IF val.kind = "true" THEN 1 ELSE 0
    BY SMT
  <2>2. Payload(method, val) = PackDp(dp, b)
    BY SMT, <1>1, <1>2 DEF Payload
  <2> HIDE DEF b
  <2>3. /\ PackDp(dp, b) \in Bytes
        /\ McuUnpacks(PackDp(dp, b)) = [dp_id |-> dp.dp_id, dp_type |-> dp.dp_type, value |-> b[1]]
    BY SMT, <1>1, <1>2, <2>1, Unpacked
  <2>4. Typed(method, val) => val.kind \in {"true", "false"}
    BY SMT, <1>2 DEF Typed
  <2>5. Typed(method, val) => Meaning(method, val) = [dp_id |-> dp.dp_id, dp_type |-> dp.dp_type, value |-> b[1]]
    BY SMT, <2>1, <2>4 DEF Meaning
  <2> QED
    BY SMT, <2>2, <2>3, <2>5
<1>3. CASE dp.dp_type = "VALUE"
  <2> DEFINE b == BigEndian(val.valueint)
  <2>1. b \in Seq(0..255) /\ Len(b) = 4 /\ FromBytes(b) = val.valueint
    BY SMT, FourBytes
  <2>2. Payload(method, val) = PackDp(dp, b)
    BY SMT, <1>1, <1>3 DEF Payload
  <2> HIDE DEF b
  <2>3. /\ PackDp(dp, b) \in Bytes
        /\ McuUnpacks(PackDp(dp, b)) = [dp_id |-> dp.dp_id, dp_type |-> dp.dp_type, value |-> FromBytes(b)]
    BY SMT, <1>1, <1>3, <2>1, Unpacked
  <2>4. Typed(method, val) => val.kind = "number"
    BY SMT, <1>3 DEF Typed
  <2>5. Typed(method, val) => Meaning(method, val) = [dp_id |-> dp.dp_id, dp_type |-> dp.dp_type, value |-> FromBytes(b)]
    BY SMT, <2>1, <2>4 DEF Meaning
  <2> QED
    BY SMT, <2>2, <2>3, <2>5
<1>4. CASE dp.dp_type = "ENUM"
  <2> DEFINE b == <<val.valueint % 256>>
  <2>1. b \in Seq(0..255) /\ Len(b) = 1
    BY SMT DEF Int32
  <2>2. Payload(method, val) = PackDp(dp, b) /\ ~Typed(method, val)
    BY SMT, <1>1, <1>4 DEF Payload, Typed
  <2> HIDE DEF b
  <2>3. PackDp(dp, b) \in Bytes
    BY SMT, <1>1, <2>1, Unpacked
  <2> QED
    BY SMT, <2>2, <2>3
<1> QED
  BY SMT, <1>1, <1>2, <1>3, <1>4

-----------------------------------------------------------------------------
(* The order of the commands                                               *)

Command == Bytes \ {None}
Parties == {"ipc", "main"}
Hand(t) == IF hand[t] = None THEN << >> ELSE << hand[t] >>

\* The intents for which there is a command.
Accepted == {r \in {Requests[text] : text \in DOMAIN Requests} : Payload(r.method, r.val) # NoPayload}

\* The command the main thread dealt with last was the accepted intent's.
LastRight ==
    mcu # None => /\ mcu.intent \in Accepted
                  /\ mcu.payload = Payload(mcu.intent.method, mcu.intent.val)

\* In the main thread's hand, queued and in the server's hand: each accepted
\* intent has its command, in the order of the requests.
OrderInv ==
    /\ items \in Seq(Command)
    /\ LastRight
    /\ hand \in [Parties -> Command \cup {None}]
    /\ wanted \in Seq(Accepted)
    /\ Len(Commands) = Len(wanted)
    /\ \A i \in 1..Len(wanted) : Commands[i] = Payload(wanted[i].method, wanted[i].val)

LEMMA CommandsAre ==
    /\ Commands = (Hand("main") \o items) \o Hand("ipc")
    /\ Commands' = (Hand("main")' \o items') \o Hand("ipc")'
BY Zenon DEF Commands, Hand

LEMMA HandIsSeq ==
    ASSUME OrderInv, NEW t \in Parties
    PROVE  Hand(t) \in Seq(Command)
<1>1. CASE hand[t] = None
  BY Zenon, <1>1, EmptySeq DEF Hand
<1>2. CASE hand[t] # None
  <2> DEFINE m == hand[t]
  <2>1. m \in Command
    BY Zenon, <1>2 DEF OrderInv
  <2>2. Hand(t) = <<m>>
    BY Zenon, <1>2 DEF Hand
  <2> HIDE DEF m, Command
  <2>3. <<m>> \in Seq(Command)
    BY SMT, <2>1
  <2> QED
    BY Zenon, <2>2, <2>3
<1> QED
  BY Zenon, <1>1, <1>2

LEMMA NoCommandIsNone == \A m \in Command : m # None
BY Zenon DEF Command

LEMMA Regroup == \A s, t, u \in Seq(Command) : (s \o t) \o u = s \o (t \o u)
<1> HIDE DEF Command
<1> SUFFICES ASSUME NEW s \in Seq(Command), NEW t \in Seq(Command), NEW u \in Seq(Command)
             PROVE  (s \o t) \o u = s \o (t \o u)
  OBVIOUS
<1> QED
  BY ConcatAssociative

\* What a sequence looks like with one more element.
LEMMA OneMore ==
    ASSUME NEW S, NEW s \in Seq(S), NEW e \in S, NEW t, t = Append(s, e)
    PROVE  /\ t \in Seq(S) /\ Len(t) = Len(s) + 1
           /\ t[Len(s) + 1] = e
           /\ \A i \in 1..Len(s) : t[i] = s[i]
BY AppendProperties

LEMMA AcceptedMakeCommands == \A r \in Accepted : Payload(r.method, r.val) \in Command
<1> SUFFICES ASSUME NEW r \in Accepted PROVE Payload(r.method, r.val) \in Command
  OBVIOUS
<1>1. /\ r.val.valueint \in Int32 /\ Payload(r.method, r.val) # NoPayload
      /\ Payload(r.method, r.val) # None
  BY SMT, RequestAssumption DEF Accepted, Int32
<1>2. Payload(r.method, r.val) \in Bytes
  BY Zenon, <1>1, MeaningArrives
<1> QED
  BY Zenon, <1>1, <1>2 DEF Command

LEMMA InitOrder == Init => OrderInv
<1> SUFFICES ASSUME Init PROVE OrderInv
  OBVIOUS
<1>1. hand = [t \in Parties |-> None] /\ items = << >> /\ mcu = None /\ wanted = << >>
  BY Zenon, IpcAssumption DEF Init, FifoInit, Threads, Parties
<1>2. Commands = << >>
  <2>1. Hand("ipc") = << >> /\ Hand("main") = << >>
    BY Zenon, <1>1 DEF Hand, Parties
  <2>2. << >> \o << >> = << >>
    BY SMT
  <2> QED
    BY Zenon, <1>1, <2>1, <2>2, CommandsAre
<1> HIDE DEF Command, Accepted
<1> QED
  BY SMT, <1>1, <1>2 DEF OrderInv, LastRight

\* msg_queue_push moves a command from the server's hand to the end of the queue.
LEMMA PushKeepsOrder ==
    ASSUME OrderInv, Put("ipc"), UNCHANGED <<wanted, mcu>> PROVE OrderInv'
<1> DEFINE m == hand["ipc"]
           front == Hand("main")
<1>1. m \in Command /\ items' = Append(items, m) /\ m # None
  BY Zenon DEF Put, OrderInv, Parties
<1>2. /\ hand' \in [Parties -> Command \cup {None}]
      /\ hand'["ipc"] = None /\ hand'["main"] = hand["main"]
  <2> HIDE DEF Command
  <2> QED
    BY SMT DEF Put, OrderInv, Parties
<1>3. Hand("ipc") = <<m>> /\ Hand("ipc")' = << >> /\ Hand("main")' = Hand("main")
  BY Zenon, <1>1, <1>2 DEF Hand
<1>4. items \in Seq(Command) /\ Hand("main") \in Seq(Command)
  BY Zenon, HandIsSeq DEF OrderInv, Parties
<1> HIDE DEF m
<1>5. items' = items \o <<m>> /\ items' \in Seq(Command) /\ <<m>> \in Seq(Command)
  <2>1. items' \in Seq(Command)
    BY Zenon, <1>1, <1>4, AppendProperties
  <2>2. items' = items \o <<m>>
    BY Zenon, <1>1, <1>4, AppendIsConcat
  <2>3. <<m>> \in Seq(Command)
    <3> HIDE DEF Command
    <3> QED
      BY SMT, <1>1
  <2> QED
    BY Zenon, <2>1, <2>2, <2>3
<1>6. front \in Seq(Command)
  BY Zenon, <1>4
<1>7. Commands' = Commands
  <2>1. Commands = (front \o items) \o <<m>>
    <3>1. Commands = (front \o items) \o Hand("ipc")
      BY Zenon, CommandsAre
    <3> HIDE DEF front
    <3> QED
      BY Zenon, <1>3, <3>1
  <2>2. Commands' = (front \o items') \o << >>
    <3>1. Commands' = (front' \o items') \o Hand("ipc")'
      BY Zenon, CommandsAre
    <3>2. front' = front
      BY Zenon, <1>3
    <3> HIDE DEF front
    <3> QED
      BY Zenon, <1>3, <3>1, <3>2
  <2> HIDE DEF front
  <2>3. (front \o items) \o <<m>> = front \o items'
    <3>1. (front \o items) \o <<m>> = front \o (items \o <<m>>)
      BY Zenon, <1>4, <1>5, <1>6, Regroup
    <3> QED
      BY Zenon, <1>5, <3>1
  <2>4. front \o items' \in Seq(Command)
    BY Zenon, <1>5, <1>6, ConcatProperties
  <2>5. (front \o items') \o << >> = front \o items'
    BY Zenon, <2>4, ConcatEmptySeq
  <2> QED
    BY Zenon, <2>1, <2>2, <2>3, <2>5
<1> QED
  BY Zenon, <1>2, <1>4, <1>5, <1>7 DEF OrderInv, LastRight

\* msg_queue_pop moves the oldest one to the main thread's hand.
LEMMA TakeKeepsOrder ==
    ASSUME OrderInv, Get("main"), UNCHANGED <<wanted, mcu>> PROVE OrderInv'
<1> DEFINE m == Head(items)
           tail == Tail(items)
<1>1. items \in Seq(Command) /\ items # << >>
  BY Zenon DEF OrderInv, Get
<1>2. m \in Command /\ tail \in Seq(Command) /\ Len(tail) = Len(items) - 1
      /\ \A i \in 1..Len(tail) : tail[i] = items[i + 1]
  BY Zenon, <1>1, HeadTailProperties
<1>3. /\ items' = tail /\ hand["main"] = None /\ hand'["main"] = m /\ m # None
      /\ hand' \in [Parties -> Command \cup {None}] /\ hand'["ipc"] = hand["ipc"]
  <2>1. m # None
    BY Zenon, <1>2, NoCommandIsNone
  <2> HIDE DEF Command
  <2> QED
    BY SMT, <1>2, <2>1 DEF Get, OrderInv, Parties
<1>4. Hand("main") = << >> /\ Hand("main")' = <<m>> /\ Hand("ipc")' = Hand("ipc")
  BY Zenon, <1>3 DEF Hand
<1>5. items = <<m>> \o tail /\ <<m>> \in Seq(Command)
  <2>1. items = SubSeq(items, 1, Len(items)) /\ Len(items) \in Nat \ {0}
    BY Zenon, <1>1, SubSeqFull, EmptySeq
  <2>2. 1 \in 1..Len(items) /\ Len(items) \in 1..Len(items) /\ 1 + 1 = 2
    BY SMT, <2>1
  <2>3. items = <<items[1]>> \o SubSeq(items, 1 + 1, Len(items))
    BY Zenon, <1>1, <2>1, <2>2, SubSeqRecursiveFirst
  <2>4. tail = SubSeq(items, 2, Len(items))
    BY Zenon, <1>1, TailIsSubSeq
  <2>5. m = items[1]
    <3> HIDE DEF Command
    <3> QED
      BY SMT, <1>1
  <2> HIDE DEF m, tail, Command
  <2>6. <<m>> \in Seq(Command)
    BY SMT, <1>2
  <2> QED
    BY Zenon, <2>2, <2>3, <2>4, <2>5, <2>6
<1> HIDE DEF m, tail
<1>6. Commands' = Commands
  <2>1. Commands = items \o Hand("ipc")
    <3>1. << >> \o items = items
      BY Zenon, <1>1, ConcatEmptySeq
    <3>2. Commands = (Hand("main") \o items) \o Hand("ipc")
      BY Zenon, CommandsAre
    <3> QED
      BY Zenon, <1>4, <3>1, <3>2
  <2>2. Commands' = (<<m>> \o tail) \o Hand("ipc")
    <3>1. Commands' = (Hand("main")' \o items') \o Hand("ipc")'
      BY Zenon, CommandsAre
    <3> QED
      BY Zenon, <1>3, <1>4, <3>1
  <2> QED
    BY Zenon, <1>5, <2>1, <2>2
<1> QED
  BY Zenon, <1>1, <1>2, <1>3, <1>6 DEF OrderInv, LastRight

\* What a sequence loses with its first element.
LEMMA OneLess ==
    ASSUME NEW S, NEW s \in Seq(S), NEW e \in S
    PROVE  /\ Len(<<e>> \o s) = Len(s) + 1
           /\ (<<e>> \o s)[1] = e
           /\ \A i \in 1..Len(s) : (<<e>> \o s)[i + 1] = s[i]
<1>1. <<e>> \in Seq(S) /\ Len(<<e>>) = 1 /\ <<e>>[1] = e
  BY SMT
<1>2. Len(s) \in Nat
  BY Zenon, LenProperties
<1> DEFINE t == <<e>> \o s
<1>3. /\ Len(t) = 1 + Len(s)
      /\ \A i \in 1..(1 + Len(s)) : t[i] = IF i <= 1 THEN <<e>>[i] ELSE s[i - 1]
  BY Zenon, <1>1, ConcatProperties
<1> HIDE DEF t
<1>4. t[1] = e
  BY SMT, <1>1, <1>2, <1>3
<1>5. ASSUME NEW i \in 1..Len(s) PROVE t[i + 1] = s[i]
  <2>1. i + 1 \in 1..(1 + Len(s)) /\ ~(i + 1 <= 1) /\ (i + 1) - 1 = i
    BY SMT, <1>2
  <2> QED
    BY Zenon, <1>3, <2>1
<1>6. Len(t) = Len(s) + 1
  BY SMT, <1>2, <1>3
<1> QED
  BY Zenon, <1>4, <1>5, <1>6 DEF t

\* The main thread has sent it or thrown it away; either way it and its intent
\* are done with.
LEMMA DispatchKeepsOrder ==
    ASSUME OrderInv, Dispatch PROVE OrderInv'
<1> DEFINE m == hand["main"]
           rest == items \o Hand("ipc")
<1>1. /\ m \in Command /\ m # None /\ wanted' = Tail(wanted) /\ items' = items
      /\ mcu' = None \/ mcu' = [intent |-> Head(wanted), payload |-> m]
  BY Zenon DEF Dispatch, Finish, OrderInv, Parties
<1>2. /\ hand' \in [Parties -> Command \cup {None}]
      /\ hand'["main"] = None /\ hand'["ipc"] = hand["ipc"]
  <2> HIDE DEF Command
  <2> QED
    BY SMT DEF Dispatch, Finish, OrderInv, Parties
<1>3. Hand("main") = <<m>> /\ Hand("main")' = << >> /\ Hand("ipc")' = Hand("ipc")
  BY Zenon, <1>1, <1>2 DEF Hand
<1>4. items \in Seq(Command) /\ Hand("main") \in Seq(Command) /\ Hand("ipc") \in Seq(Command)
  BY Zenon, HandIsSeq DEF OrderInv, Parties
<1> HIDE DEF m
<1>5. rest \in Seq(Command)
  BY Zenon, <1>4, ConcatProperties
<1>6. Commands = <<m>> \o rest /\ Commands' = rest
  <2>1. Commands = (<<m>> \o items) \o Hand("ipc")
    BY Zenon, CommandsAre, <1>3
  <2>2. (<<m>> \o items) \o Hand("ipc") = <<m>> \o rest
    BY Zenon, Regroup, <1>3, <1>4
  <2>3. Commands' = (<< >> \o items) \o Hand("ipc")
    BY Zenon, CommandsAre, <1>1, <1>3
  <2>4. << >> \o items = items
    BY Zenon, <1>4, ConcatEmptySeq
  <2> QED
    BY Zenon, <2>1, <2>2, <2>3, <2>4
<1> HIDE DEF rest
<1>7. /\ Len(Commands) = Len(Commands') + 1 /\ Commands[1] = m
      /\ \A i \in 1..Len(Commands') : Commands[i + 1] = Commands'[i]
  <2> HIDE DEF Command
  <2>1. /\ Len(<<m>> \o rest) = Len(rest) + 1
        /\ (<<m>> \o rest)[1] = m
        /\ \A i \in 1..Len(rest) : (<<m>> \o rest)[i + 1] = rest[i]
    BY <1>1, <1>5, OneLess
  <2> QED
    BY Zenon, <1>6, <2>1
<1>8. /\ wanted # << >> /\ Head(wanted) = wanted[1] /\ wanted[1] \in Accepted
      /\ wanted' \in Seq(Accepted) /\ Len(wanted') + 1 = Len(wanted)
      /\ \A i \in 1..Len(wanted') : wanted'[i] = wanted[i + 1]
  <2> DEFINE n == Len(Commands')
  <2>1. Len(wanted) = n + 1 /\ n \in Nat /\ wanted \in Seq(Accepted)
    BY Zenon, <1>5, <1>6, <1>7, LenProperties DEF OrderInv
  <2> HIDE DEF n, Accepted
  <2>2. wanted # << >>
    BY SMT, <2>1
  <2>3. Head(wanted) = wanted[1] /\ wanted[1] \in Accepted
    BY SMT, <2>1
  <2>4. /\ Tail(wanted) \in Seq(Accepted) /\ Len(Tail(wanted)) = Len(wanted) - 1
        /\ \A i \in 1..Len(Tail(wanted)) : Tail(wanted)[i] = wanted[i + 1]
    BY Zenon, <2>1, <2>2, HeadTailProperties
  <2>5. Len(Tail(wanted)) + 1 = Len(wanted)
    BY SMT, <2>1, <2>4
  <2> QED
    BY Zenon, <1>1, <2>2, <2>3, <2>4, <2>5
<1>9. Len(Commands') = Len(wanted')
  <2> DEFINE a == Len(Commands')
             b == Len(wanted')
  <2>1. a \in Nat /\ b \in Nat /\ a + 1 = b + 1
    BY Zenon, <1>5, <1>6, <1>7, <1>8, LenProperties DEF OrderInv
  <2> HIDE DEF a, b
  <2>2. a = b
    BY SMT, <2>1
  <2> QED
    BY Zenon, <2>2 DEF a, b
<1>10. 1 \in 1..Len(wanted) /\ \A i \in 1..Len(wanted') : i + 1 \in 1..Len(wanted)
  <2> DEFINE a == Len(wanted)
             b == Len(wanted')
  <2>1. a \in Nat /\ b \in Nat /\ b + 1 = a
    BY Zenon, <1>8, LenProperties DEF OrderInv
  <2> HIDE DEF a, b
  <2>2. 1 \in 1..a /\ \A i \in 1..b : i + 1 \in 1..a
    BY SMT, <2>1
  <2> QED
    BY Zenon, <2>2 DEF a, b
<1>11. ASSUME NEW i \in 1..Len(wanted')
       PROVE  Commands'[i] = Payload(wanted'[i].method, wanted'[i].val)
  BY Zenon, <1>7, <1>8, <1>9, <1>10 DEF OrderInv
<1>12. LastRight'
  <2>1. m = Payload(wanted[1].method, wanted[1].val)
    BY Zenon, <1>7, <1>10 DEF OrderInv
  <2> DEFINE h == wanted[1]
  <2>2. mcu' = None \/ mcu' = [intent |-> h, payload |-> m]
    BY Zenon, <1>1, <1>8
  <2>3. h \in Accepted /\ m = Payload(h.method, h.val)
    BY Zenon, <1>8, <2>1
  <2> HIDE DEF h, Accepted
  <2>4. ASSUME mcu' # None PROVE mcu'.intent = h /\ mcu'.payload = m
    BY SMT, <2>2, <2>4
  <2> QED
    BY Zenon, <2>3, <2>4 DEF LastRight
<1>13. items' \in Seq(Command)
  BY Zenon, <1>1, <1>4
<1> QED
  BY Zenon, <1>2, <1>8, <1>9, <1>11, <1>12, <1>13 DEF OrderInv

\* handle_intent: the new command is the last one.
LEMMA IntentKeepsOrder ==
    ASSUME OrderInv, NEW r \in {Requests[text] : text \in DOMAIN Requests}, Intent(r), mcu' = mcu
    PROVE  OrderInv'
<1> DEFINE m == Payload(r.method, r.val)
           front == Hand("main") \o items
<1>1. CASE m = NoPayload
  <2>1. UNCHANGED <<items, hand, wanted>>
    BY Zenon, <1>1 DEF Intent, JustReply, fifo
  <2> QED
    BY Zenon, <2>1 DEF OrderInv, LastRight, Commands
<1>2. CASE m # NoPayload
  <2>1. r \in Accepted /\ m \in Command
    <3>1. r \in Accepted
      BY Zenon, <1>2 DEF Accepted
    <3> QED
      BY Zenon, <3>1, AcceptedMakeCommands
  <2>2. /\ items' = items /\ wanted' = Append(wanted, r)
        /\ hand["ipc"] = None /\ hand' = [hand EXCEPT !["ipc"] = m]
    BY Zenon, <1>2 DEF Intent, Offer
  <2> HIDE DEF m
  <2>3. /\ hand' \in [Parties -> Command \cup {None}]
        /\ hand'["ipc"] = m /\ hand'["main"] = hand["main"]
    <3> HIDE DEF Command
    <3> QED
      BY SMT, <2>1, <2>2 DEF OrderInv, Parties
  <2>4. Hand("ipc") = << >> /\ Hand("ipc")' = <<m>> /\ Hand("main")' = Hand("main")
    <3>1. m # None /\ hand["ipc"] = None
      BY Zenon, <2>1, <2>2, NoCommandIsNone
    <3> QED
      BY Zenon, <2>3, <3>1 DEF Hand
  <2>5. front \in Seq(Command)
    <3>1. items \in Seq(Command) /\ Hand("main") \in Seq(Command)
      BY Zenon, HandIsSeq DEF OrderInv, Parties
    <3> QED
      BY Zenon, <3>1, ConcatProperties
  <2>6. Commands = front /\ Commands' = front \o <<m>>
    <3>1. Commands = front \o Hand("ipc")
      BY Zenon, CommandsAre
    <3>2. Commands' = front' \o Hand("ipc")'
      BY Zenon, CommandsAre
    <3>3. front' = front
      BY Zenon, <2>2, <2>4
    <3> HIDE DEF front
    <3>4. front \o << >> = front
      BY Zenon, <2>5, ConcatEmptySeq
    <3> QED
      BY Zenon, <2>4, <3>1, <3>2, <3>3, <3>4
  <2> HIDE DEF front
  <2>7. Commands' = Append(Commands, m)
    BY Zenon, <2>1, <2>5, <2>6, AppendIsConcat
  <2>8. /\ Len(Commands') = Len(Commands) + 1 /\ Commands'[Len(Commands) + 1] = m
        /\ \A i \in 1..Len(Commands) : Commands'[i] = Commands[i]
    <3>1. Commands \in Seq(Command)
      BY Zenon, <2>5, <2>6
    <3> DEFINE c == Commands
               d == Commands'
    <3>2. c \in Seq(Command) /\ d = Append(c, m)
      BY Zenon, <2>7, <3>1
    <3> HIDE DEF c, d, Command
    <3>3. Len(d) = Len(c) + 1 /\ d[Len(c) + 1] = m /\ \A i \in 1..Len(c) : d[i] = c[i]
      BY <2>1, <3>2, OneMore
    <3> QED
      BY Zenon, <3>3 DEF c, d
  <2>9. wanted \in Seq(Accepted) /\ Len(wanted) \in Nat
    BY Zenon, LenProperties DEF OrderInv
  <2>10. /\ wanted' \in Seq(Accepted) /\ Len(wanted') = Len(wanted) + 1 /\ wanted'[Len(wanted) + 1] = r
         /\ \A i \in 1..Len(wanted) : wanted'[i] = wanted[i]
    <3> HIDE DEF Accepted
    <3> QED
      BY <2>1, <2>2, <2>9, OneMore
  <2>11. Len(Commands) = Len(wanted)
    BY Zenon DEF OrderInv
  <2>12. ASSUME NEW i \in 1..Len(wanted')
         PROVE  Commands'[i] = Payload(wanted'[i].method, wanted'[i].val)
    <3>1. CASE i = Len(wanted) + 1
      BY Zenon, <2>8, <2>10, <2>11, <3>1 DEF m
    <3>2. CASE i \in 1..Len(wanted)
      <4>1. Commands'[i] = Commands[i] /\ wanted'[i] = wanted[i]
        BY Zenon, <2>8, <2>10, <2>11, <3>2
      <4>2. Commands[i] = Payload(wanted[i].method, wanted[i].val)
        BY Zenon, <3>2 DEF OrderInv
      <4> QED
        BY Zenon, <4>1, <4>2
    <3>3. i = Len(wanted) + 1 \/ i \in 1..Len(wanted)
      <4> DEFINE n == Len(wanted)
      <4>1. n \in Nat /\ i \in 1..n + 1
        BY Zenon, <2>9, <2>10
      <4> HIDE DEF n
      <4>2. i = n + 1 \/ i \in 1..n
        BY SMT, <4>1
      <4> QED
        BY Zenon, <4>2 DEF n
    <3> QED
      BY Zenon, <3>1, <3>2, <3>3
  <2>13. items' \in Seq(Command) /\ LastRight'
    BY Zenon, <2>2 DEF OrderInv, LastRight
  <2>14. Len(Commands') = Len(wanted')
    BY Zenon, <2>8, <2>10, <2>11
  <2> QED
    BY Zenon, <2>3, <2>10, <2>12, <2>13, <2>14 DEF OrderInv
<1> QED
  BY Zenon, <1>1, <1>2
-----------------------------------------------------------------------------
(* A request                                                               *)

Messages == {"none", "accepted", "invalid json", "missing type", "unsupported intent",
             "unsupported type"}

\* A line is answered, or first becomes a command; nothing else comes of it.
LEMMA ProcessCases ==
    ASSUME NEW line, Process(line)
    PROVE  /\ buf' = << >> /\ UNCHANGED <<open, unread, clients, mcu>>
           /\ \/ srv' = "reply" /\ reply' \in Messages /\ UNCHANGED <<items, hand, wanted>>
              \/ /\ srv' = "push" /\ reply' = "accepted"
                 /\ \E r \in {Requests[text] : text \in DOMAIN Requests} :
                       Payload(r.method, r.val) # NoPayload /\ Intent(r)
<1> DEFINE Answered == srv' = "reply" /\ reply' \in Messages /\ UNCHANGED <<items, hand, wanted>>
<1>1. buf' = << >> /\ UNCHANGED <<open, unread, clients, mcu>>
  BY Zenon DEF Process, replyVars
<1>2. ASSUME NEW message \in Messages, JustReply(message) PROVE Answered
  BY Zenon, <1>2 DEF JustReply, fifo
<1>3. CASE line \notin DOMAIN Requests
  <2>1. JustReply("invalid json")
    BY Zenon, <1>3 DEF Process
  <2> QED
    BY Zenon, <1>1, <1>2, <2>1 DEF Messages
<1>4. CASE line \in DOMAIN Requests
  <2> DEFINE r == Requests[line]
  <2>1. CASE r.type # "intent"
    <3>1. JustReply("missing type") \/ JustReply("accepted") \/ JustReply("unsupported type")
      <4>1. ASSUME r.type = "missing" PROVE JustReply("missing type")
        BY Zenon, <1>4, <4>1 DEF Process
      <4>2. ASSUME r.type = "ping" PROVE JustReply("accepted")
        BY SMT, <1>4, <4>2 DEF Process
      <4>3. ASSUME r.type \notin {"missing", "intent", "ping"}
            PROVE  JustReply("unsupported type")
        BY Zenon, <1>4, <4>3 DEF Process
      <4> QED
        BY Zenon, <2>1, <4>1, <4>2, <4>3
    <3> QED
      BY Zenon, <1>1, <1>2, <3>1 DEF Messages
  <2>2. CASE r.type = "intent"
    <3>1. Intent(r)
      BY SMT, <1>4, <2>2 DEF Process
    <3>2. CASE Payload(r.method, r.val) = NoPayload
      <4>1. JustReply("unsupported intent")
        BY Zenon, <3>1, <3>2 DEF Intent
      <4> QED
        BY Zenon, <1>1, <1>2, <4>1 DEF Messages
    <3>3. CASE Payload(r.method, r.val) # NoPayload
      <4>1. srv' = "push" /\ reply' = "accepted"
        BY Zenon, <3>1, <3>3 DEF Intent
      <4> QED
        BY Zenon, <1>1, <1>4, <3>1, <3>3, <4>1
    <3> QED
      BY Zenon, <3>2, <3>3
  <2> QED
    BY Zenon, <2>1, <2>2
<1> QED
  BY Zenon, <1>3, <1>4

LEMMA ProcessKeepsOrder ==
    ASSUME OrderInv, NEW line, Process(line) PROVE OrderInv'
<1>1. mcu' = mcu
  BY Zenon, ProcessCases
<1>2. CASE UNCHANGED <<items, hand, wanted>>
  BY Zenon, <1>1, <1>2 DEF OrderInv, LastRight, Commands
<1>3. CASE \E r \in {Requests[text] : text \in DOMAIN Requests} : Intent(r)
  BY Zenon, <1>1, <1>3, IntentKeepsOrder
<1> QED
  BY Zenon, <1>2, <1>3, ProcessCases

LEMMA StepOrder == OrderInv /\ [Next]_vars => OrderInv'
<1> SUFFICES ASSUME OrderInv, [Next]_vars PROVE OrderInv'
  OBVIOUS
<1>1. ASSUME UNCHANGED <<items, hand, wanted, mcu>> PROVE OrderInv'
  BY Zenon, <1>1 DEF OrderInv, LastRight, Commands
<1>2. CASE SendLine \/ Close \/ ReadReply \/ Accept \/ Receive \/ Reply \/ ReceiveFails \/ vars' = vars
  BY Zenon, <1>1, <1>2 DEF SendLine, Close, ReadReply, Accept, Receive, Reply, ReceiveFails,
     Disconnect, fifo, vars
<1>3. CASE ReceiveLast
  BY Zenon, <1>1, <1>3, ProcessKeepsOrder DEF ReceiveLast, Disconnect, fifo
<1>4. CASE ReceiveEnd
  BY Zenon, <1>1, <1>4, ProcessKeepsOrder DEF ReceiveEnd, Disconnect, fifo
<1>5. CASE Push
  BY Zenon, <1>5, PushKeepsOrder DEF Push
<1>6. CASE Take
  BY Zenon, <1>6, TakeKeepsOrder DEF Take
<1>7. CASE Dispatch
  BY Zenon, <1>7, DispatchKeepsOrder
<1> QED
  BY Zenon, <1>2, <1>3, <1>4, <1>5, <1>6, <1>7 DEF Next, Server, Main

\* The payload of an accepted intent carries it to the MCU.
LEMMA AcceptedCarried ==
    ASSUME NEW r \in Accepted PROVE Carries(Payload(r.method, r.val), r)
<1>1. r.val.valueint \in Int32 /\ Payload(r.method, r.val) # NoPayload
  BY SMT, RequestAssumption DEF Accepted, Int32
<1>2. CASE Typed(r.method, r.val)
  BY Zenon, <1>1, <1>2, MeaningArrives DEF Carries
<1> QED
  BY Zenon, <1>2 DEF Carries

\* Whatever the client sends and whenever it leaves, each intent that was
\* accepted is one command, in order, until the main thread has taken it, and
\* what the main thread then sends, if it sends it, means what was asked for, if
\* the value is of the descriptor's kind.
THEOREM CommandsInOrder == Spec => []CommandsArrive
<1>1. OrderInv => CommandsArrive
  <2> SUFFICES ASSUME OrderInv PROVE CommandsArrive
    OBVIOUS
  <2>1. ASSUME NEW i \in 1..Len(wanted) PROVE Carries(Commands[i], wanted[i])
    <3>1. wanted[i] \in Accepted
      <4> HIDE DEF Accepted
      <4> QED
        BY SMT DEF OrderInv
    <3> DEFINE r == wanted[i]
    <3>2. Carries(Payload(r.method, r.val), r)
      BY <3>1, AcceptedCarried
    <3> QED
      BY Zenon, <3>2 DEF OrderInv
  <2>2. ASSUME mcu # None PROVE Carries(mcu.payload, mcu.intent)
    <3> DEFINE r == mcu.intent
    <3>1. r \in Accepted /\ mcu.payload = Payload(r.method, r.val)
      BY Zenon, <2>2 DEF OrderInv, LastRight
    <3>2. Carries(Payload(r.method, r.val), r)
      BY <3>1, AcceptedCarried
    <3> QED
      BY Zenon, <3>1, <3>2
  <2> QED
    BY Zenon, <2>1, <2>2 DEF OrderInv, CommandsArrive
<1> QED
  BY <1>1, InitOrder, StepOrder, PTL DEF Spec
-----------------------------------------------------------------------------
(* The line buffer, the socket and the queue                               *)

Char == STRING \cup {"\n"}

\* What stands in the line buffer leaves room for one byte and the end of the
\* text, and only the pushing thread has a command in its hand.
TypeInd ==
    /\ srv \in {"accept", "read", "push", "reply"}
    /\ buf \in Seq(Char) /\ Len(buf) < MaxLine - 1
    /\ stream \in Seq(Char)
    /\ reply \in Messages
    /\ open \in BOOLEAN
    /\ unread \in 0..SockBuf
    /\ clients \in 0..MaxClients
    /\ items \in Seq(Command) /\ Len(items) <= Capacity
    /\ hand["ipc"] # None <=> srv = "push"

LEMMA Singleton == ASSUME NEW S, NEW c \in S PROVE <<c>> \in Seq(S)
OBVIOUS

LEMMA TextsAreText == Texts \subseteq Seq(Char)
<1>1. ASSUME NEW t \in Seq(STRING) PROVE t \in Seq(Char)
  BY SMT DEF Char
<1> QED
  BY Zenon, <1>1, IpcAssumption

LEMMA Bounds == MaxLine \in Nat /\ MaxLine >= 2 /\ SockBuf \in Nat /\ SockBuf >= 1
                /\ MaxClients \in Nat /\ Capacity \in Nat
BY SMT, IpcAssumption

LEMMA InitType == Init => TypeInd
<1> SUFFICES ASSUME Init PROVE TypeInd
  OBVIOUS
<1>1. hand["ipc"] = None /\ items = << >> /\ srv = "accept" /\ buf = << >> /\ stream = << >>
      /\ reply = "none" /\ open = FALSE /\ unread = 0 /\ clients = 0
  BY Zenon, IpcAssumption DEF Init, FifoInit, Threads
<1> HIDE DEF Command
<1>2. << >> \in Seq(Char) /\ << >> \in Seq(Command) /\ Len(<< >>) = 0
  BY SMT
<1>3. 0 < MaxLine - 1 /\ 0 \in 0..SockBuf /\ 0 \in 0..MaxClients /\ 0 <= Capacity
  BY SMT, Bounds
<1>4. reply \in Messages /\ srv \in {"accept", "read", "push", "reply"} /\ srv # "push"
  BY Zenon, <1>1 DEF Messages
<1> QED
  BY Zenon, <1>1, <1>2, <1>3, <1>4 DEF TypeInd

\* A byte that does not end the line leaves room for the next one.
LEMMA ReceiveType == TypeInd /\ Receive => TypeInd'
<1> SUFFICES ASSUME TypeInd, Receive PROVE TypeInd'
  OBVIOUS
<1>1. /\ buf' = Append(buf, Head(stream)) /\ stream' = Tail(stream) /\ stream # << >>
      /\ Len(buf) + 1 # MaxLine - 1
      /\ UNCHANGED <<items, hand, srv, reply, open, unread, clients>>
  BY Zenon DEF Receive, Ended, fifo, replyVars
<1>2. buf' \in Seq(Char) /\ Len(buf') = Len(buf) + 1 /\ stream' \in Seq(Char)
  BY SMT, <1>1 DEF TypeInd
<1>3. Len(buf') < MaxLine - 1
  BY SMT, Bounds, <1>1, <1>2 DEF TypeInd
<1> QED
  BY Zenon, <1>1, <1>2, <1>3 DEF TypeInd

\* A line is taken out of the buffer, and a command into the hand.
LEMMA ProcessType ==
    ASSUME TypeInd, OrderInv, NEW line, Process(line), srv = "read", stream' \in Seq(Char)
    PROVE  TypeInd'
<1>1. /\ buf' = << >> /\ UNCHANGED <<open, unread, clients>>
      /\ srv' \in {"accept", "read", "push", "reply"} /\ reply' \in Messages
  BY Zenon, ProcessCases DEF Messages
<1>2. items' = items /\ (hand'["ipc"] # None <=> srv' = "push")
  <2>1. CASE srv' = "reply" /\ UNCHANGED <<items, hand, wanted>>
    BY SMT, <2>1 DEF TypeInd
  <2>2. CASE /\ srv' = "push"
             /\ \E r \in {Requests[text] : text \in DOMAIN Requests} :
                   Payload(r.method, r.val) # NoPayload /\ Intent(r)
    <3> PICK r \in {Requests[text] : text \in DOMAIN Requests} :
               Payload(r.method, r.val) # NoPayload /\ Intent(r)
      BY Zenon, <2>2
    <3> DEFINE m == Payload(r.method, r.val)
    <3>1. r \in Accepted
      BY Zenon DEF Accepted
    <3>2. m # None
      BY Zenon, <3>1, AcceptedMakeCommands, NoCommandIsNone
    <3>3. items' = items /\ hand' = [hand EXCEPT !["ipc"] = m]
      BY Zenon DEF Intent, Offer
    <3>4. hand'["ipc"] = m
      BY Zenon, <3>3 DEF OrderInv, Parties
    <3> QED
      BY Zenon, <2>2, <3>2, <3>3, <3>4
  <2> QED
    BY Zenon, <2>1, <2>2, ProcessCases
<1> HIDE DEF Command
<1> QED
  BY SMT, Bounds, <1>1, <1>2 DEF TypeInd
LEMMA StepType == TypeInd /\ OrderInv /\ [Next]_vars => TypeInd'
<1> SUFFICES ASSUME TypeInd, OrderInv, [Next]_vars PROVE TypeInd'
  OBVIOUS
<1>1. CASE SendLine
  <2>1. PICK text \in Texts : stream' = stream \o text \o <<"\n">>
    BY Zenon, <1>1 DEF SendLine
  <2>2. text \in Seq(Char)
    BY Zenon, TextsAreText
  <2>3. stream \o text \in Seq(Char) /\ <<"\n">> \in Seq(Char)
    <3>1. stream \o text \in Seq(Char)
      BY Zenon, <2>2, ConcatProperties DEF TypeInd
    <3>2. "\n" \in Char
      BY Zenon DEF Char
    <3> QED
      BY Zenon, <3>1, <3>2, Singleton
  <2>4. stream' \in Seq(Char)
    BY Zenon, <2>1, <2>3, ConcatProperties
  <2> QED
    BY Zenon, <1>1, <2>4 DEF TypeInd, SendLine, fifo, replyVars
<1>2. CASE Close
  <2>1. PICK text \in Texts \cup {<< >>} : stream' = stream \o text
    BY Zenon, <1>2 DEF Close
  <2>2. text \in Seq(Char)
    BY Zenon, TextsAreText, EmptySeq
  <2>3. stream' \in Seq(Char)
    BY SMT, <2>1, <2>2 DEF TypeInd
  <2> QED
    BY Zenon, <1>2, <2>3 DEF TypeInd, Close, fifo, replyVars
<1>3. CASE ReadReply
  <2>1. unread' \in 0..SockBuf
    BY SMT, Bounds, <1>3 DEF ReadReply, TypeInd
  <2> QED
    BY Zenon, <1>3, <2>1 DEF TypeInd, ReadReply, fifo, clientVars
<1>4. CASE Accept
  <2>1. clients' \in 0..MaxClients /\ unread' \in 0..SockBuf /\ 0 < MaxLine - 1
    BY SMT, Bounds, <1>4 DEF Accept, TypeInd
  <2>2. << >> \in Seq(Char) /\ Len(<< >>) = 0
    BY SMT
  <2>3. srv' = "read" /\ srv # "push"
    BY Zenon, <1>4 DEF Accept
  <2> QED
    BY Zenon, <1>4, <2>1, <2>2, <2>3 DEF TypeInd, Accept, fifo
<1>5. ASSUME srv = "read", Disconnect PROVE TypeInd'
  <2>1. << >> \in Seq(Char) /\ srv' = "accept" /\ srv # "push"
    BY Zenon, <1>5, EmptySeq DEF Disconnect
  <2> QED
    BY Zenon, <1>5, <2>1 DEF TypeInd, Disconnect, fifo, replyVars
<1>6. CASE Receive
  BY Zenon, <1>6, ReceiveType
<1>7. CASE ReceiveLast
  <2>1. Tail(stream) \in Seq(Char) /\ srv = "read"
    BY SMT, <1>7 DEF ReceiveLast, TypeInd
  <2> QED
    BY Zenon, <1>5, <1>7, <2>1, ProcessType DEF ReceiveLast
<1>8. CASE ReceiveEnd
  <2>1. stream \in Seq(Char)
    BY Zenon DEF TypeInd
  <2> QED
    BY Zenon, <1>5, <1>8, <2>1, ProcessType DEF ReceiveEnd
<1>9. CASE ReceiveFails
  BY Zenon, <1>5, <1>9 DEF ReceiveFails
<1>10. CASE Push
  <2>1. items' = Append(items, hand["ipc"]) /\ hand["ipc"] \in Command /\ Len(items) < Capacity
    BY Zenon, <1>10 DEF Push, Put, OrderInv, Parties
  <2>2. items' \in Seq(Command) /\ Len(items') <= Capacity
    <3> HIDE DEF Command
    <3> QED
      BY SMT, Bounds, <2>1 DEF TypeInd
  <2>3. hand'["ipc"] = None /\ srv' = "reply"
    BY Zenon, <1>10 DEF Push, Put, OrderInv, Parties
  <2> QED
    BY Zenon, <1>10, <2>2, <2>3 DEF TypeInd, Push, clientVars, replyVars
<1>11. CASE Reply
  <2>1. unread' \in 0..SockBuf
    BY SMT, Bounds, <1>11 DEF Reply, TypeInd
  <2>2. srv = "reply" /\ srv' = "read"
    BY Zenon, <1>11 DEF Reply
  <2> QED
    BY Zenon, <1>11, <2>1, <2>2 DEF TypeInd, Reply, fifo, clientVars
<1>12. CASE Take
  <2>1. items' \in Seq(Command) /\ Len(items') <= Capacity
    <3> HIDE DEF Command
    <3> QED
      BY SMT, Bounds, <1>12 DEF TypeInd, Take, Get
  <2>2. hand'["ipc"] = hand["ipc"]
    BY Zenon, <1>12 DEF Take, Get, OrderInv, Parties
  <2> QED
    BY Zenon, <1>12, <2>1, <2>2 DEF TypeInd, Take, clientVars, replyVars
<1>13. CASE Dispatch
  <2>1. hand'["ipc"] = hand["ipc"]
    BY Zenon, <1>13 DEF Dispatch, Finish, OrderInv, Parties
  <2> QED
    BY Zenon, <1>13, <2>1 DEF TypeInd, Dispatch, Finish, clientVars, replyVars
<1>14. CASE vars' = vars
  BY Zenon, <1>14 DEF TypeInd, vars
<1> QED
  BY Zenon, <1>1, <1>2, <1>3, <1>4, <1>6, <1>7, <1>8, <1>9, <1>10, <1>11, <1>12, <1>13, <1>14
     DEF Next, Server, Main

\* The line buffer, the replies the kernel keeps and the queue stay within
\* their sizes, and only the thread that pushes has a command in its hand.
THEOREM IpcTypeCorrect == Spec => []TypeOK
<1>1. TypeInd => TypeOK
  <2> SUFFICES ASSUME TypeInd PROVE TypeOK
    OBVIOUS
  <2>1. Len(buf) < MaxLine
    BY SMT, Bounds DEF TypeInd
  <2> QED
    BY Zenon, <2>1 DEF TypeInd, TypeOK, Messages
<1> QED
  BY <1>1, InitType, StepType, InitOrder, StepOrder, PTL DEF Spec
-----------------------------------------------------------------------------
(* The answers                                                             *)

NL == <<"\n">>

LEMMA NewlineIsText == NL \in Seq(Char) /\ << >> \in Seq(Char)
<1>1. "\n" \in Char
  BY Zenon DEF Char
<1> QED
  BY Zenon, <1>1, Singleton, EmptySeq DEF NL

\* In w, the text u comes before the text v.
LEMMA Joined ==
    ASSUME NEW u \in Seq(Char), NEW v \in Seq(Char), NEW w, w = u \o v
    PROVE  /\ w \in Seq(Char) /\ Len(w) = Len(u) + Len(v)
           /\ \A i \in 1..Len(u) : w[i] = u[i]
           /\ \A i \in 1..Len(v) : w[Len(u) + i] = v[i]
<1> HIDE DEF Char
<1>1. w \in Seq(Char) /\ Len(w) = Len(u) + Len(v) /\ Len(u) \in Nat /\ Len(v) \in Nat
  OBVIOUS
<1>2. \A i \in 1..Len(u) : w[i] = u[i]
  OBVIOUS
<1>3. ASSUME NEW i \in 1..Len(v) PROVE w[Len(u) + i] = v[i]
  <2>1. PICK j : j = Len(u) + i
    OBVIOUS
  <2>2. j \in 1..(Len(u) + Len(v)) /\ ~(j <= Len(u)) /\ j - Len(u) = i
    BY <1>1, <2>1
  <2>3. w[j] = v[i]
    BY <2>2
  <2> QED
    BY ONLY <2>1, <2>3, Zenon
<1> QED
  BY <1>1, <1>2, <1>3

\* In w, the line of text t comes before the text v.
StartsWith(w, t, v) ==
    /\ w \in Seq(Char) /\ Len(w) = Len(t) + 1 + Len(v)
    /\ \A i \in 1..Len(t) : w[i] = t[i]
    /\ w[Len(t) + 1] = "\n"
    /\ \A i \in 1..Len(v) : w[Len(t) + 1 + i] = v[i]

LEMMA LineFirst ==
    ASSUME NEW t \in Seq(Char), NEW v \in Seq(Char), NEW w, w = (t \o NL) \o v
    PROVE  StartsWith(w, t, v)
<1>1. PICK l : l = t \o NL
  OBVIOUS
<1> HIDE DEF Char
<1>2. PICK n \in Seq(Char) : n = NL
  BY Zenon, NewlineIsText
<1>3. Len(n) = 1 /\ n[1] = "\n"
  BY <1>2 DEF NL
<1>4. l = t \o n /\ w = l \o v
  BY ONLY <1>1, <1>2, w = (t \o NL) \o v, Zenon
<1>5. /\ l \in Seq(Char) /\ Len(l) = Len(t) + Len(n)
      /\ \A i \in 1..Len(t) : l[i] = t[i]
      /\ \A i \in 1..Len(n) : l[Len(t) + i] = n[i]
  BY ONLY <1>4, t \in Seq(Char), n \in Seq(Char), Joined
<1>6. /\ w \in Seq(Char) /\ Len(w) = Len(l) + Len(v)
      /\ \A i \in 1..Len(l) : w[i] = l[i]
      /\ \A i \in 1..Len(v) : w[Len(l) + i] = v[i]
  BY ONLY <1>4, <1>5, v \in Seq(Char), Joined
<1>7. PICK k \in Nat : k = Len(t) /\ Len(l) = k + 1
  BY <1>3, <1>5
<1>8. 1 \in 1..Len(n) /\ k + 1 \in 1..Len(l) /\ \A i \in 1..k : i \in 1..Len(l)
  BY <1>3, <1>7
<1>9. w[k + 1] = "\n"
  BY ONLY <1>3, <1>5, <1>6, <1>7, <1>8, Zenon
<1>10. \A i \in 1..k : w[i] = t[i]
  BY ONLY <1>5, <1>6, <1>7, <1>8, Zenon
<1>11. \A i \in 1..Len(v) : w[k + 1 + i] = v[i]
  BY ONLY <1>6, <1>7, Zenon
<1>12. Len(w) = k + 1 + Len(v)
  BY ONLY <1>6, <1>7, Zenon
<1> QED
  BY ONLY <1>6, <1>7, <1>9, <1>10, <1>11, <1>12, Zenon DEF StartsWith

\* If z begins with the newline, u is the line t before it and v what follows.
NewlineSplits(u, z, t, v) == Head(z) = "\n" => u = t /\ Tail(z) = v

\* A text without a newline, before the first newline of a line.
LEMMA BeforeNewline ==
    ASSUME NEW t \in Seq(Char), NEW v \in Seq(Char), NEW u \in Seq(Char), NEW z \in Seq(Char),
           u \o z = (t \o NL) \o v,
           \A i \in 1..Len(u) : u[i] # "\n",
           \A i \in 1..Len(t) : t[i] # "\n"
    PROVE  /\ Len(u) <= Len(t) /\ z # << >>
           /\ NewlineSplits(u, z, t, v)
<1> HIDE DEF Char
<1>0. PICK w : w = u \o z /\ w = (t \o NL) \o v
  OBVIOUS
<1>1. /\ Len(w) = Len(u) + Len(z)
      /\ \A i \in 1..Len(u) : w[i] = u[i]
      /\ \A i \in 1..Len(z) : w[Len(u) + i] = z[i]
  <2>1. w = u \o z
    BY Zenon, <1>0
  <2> QED
    BY ONLY <2>1, u \in Seq(Char), z \in Seq(Char), Joined
<1>2. /\ Len(w) = Len(t) + 1 + Len(v)
      /\ \A i \in 1..Len(t) : w[i] = t[i]
      /\ w[Len(t) + 1] = "\n"
      /\ \A i \in 1..Len(v) : w[Len(t) + 1 + i] = v[i]
  <2>1. StartsWith(w, t, v)
    BY Zenon, <1>0, LineFirst
  <2> QED
    BY ONLY <2>1, Zenon DEF StartsWith
<1>3. Len(u) \in Nat /\ Len(t) \in Nat /\ Len(z) \in Nat /\ Len(v) \in Nat
  OBVIOUS
<1>4. Len(u) <= Len(t)
  <2> SUFFICES ASSUME ~(Len(u) <= Len(t)) PROVE FALSE
    OBVIOUS
  <2>1. Len(t) + 1 \in 1..Len(u)
    BY <1>3
  <2> QED
    BY ONLY <2>1, <1>1, <1>2, \A i \in 1..Len(u) : u[i] # "\n", Zenon
<1>5. Len(z) > 0
  BY <1>1, <1>2, <1>3, <1>4
<1>7. z # << >>
  BY <1>5
<1>6. ASSUME Head(z) = "\n"
      PROVE  u = t /\ Tail(z) = v
  <2>1. z[1] = "\n" /\ 1 \in 1..Len(z)
    BY <1>5, <1>6
  <2>2. w[Len(u) + 1] = "\n"
    BY ONLY <2>1, <1>1, Zenon
  <2>3. Len(u) = Len(t)
    <3> SUFFICES ASSUME Len(u) # Len(t) PROVE FALSE
      OBVIOUS
    <3>1. Len(u) + 1 \in 1..Len(t)
      BY <1>3, <1>4
    <3> QED
      BY ONLY <2>2, <3>1, <1>2, \A i \in 1..Len(t) : t[i] # "\n", Zenon
  <2>4. \A i \in 1..Len(u) : u[i] = t[i]
    BY ONLY <2>3, <1>1, <1>2, Zenon
  <2>5. u = t
    BY ONLY <2>3, <2>4, u \in Seq(Char), t \in Seq(Char), SeqEqual
  <2>6. PICK y \in Seq(Char) : y = Tail(z)
    BY Zenon, <1>7, HeadTailProperties
  <2>7. Len(y) = Len(z) - 1 /\ \A i \in 1..Len(y) : y[i] = z[i + 1]
    BY <1>5, <2>6
  <2>8. Len(y) = Len(v)
    BY <1>1, <1>2, <1>3, <2>3, <2>7
  <2>9. ASSUME NEW i \in 1..Len(y) PROVE y[i] = v[i]
    <3>1. i + 1 \in 1..Len(z) /\ Len(u) + (i + 1) = Len(t) + 1 + i
      BY <1>3, <2>3, <2>7
    <3>2. w[Len(u) + (i + 1)] = z[i + 1]
      BY ONLY <3>1, <1>1, Zenon
    <3>3. w[Len(t) + 1 + i] = v[i]
      BY ONLY <2>8, <1>2, i \in 1..Len(y), Zenon
    <3> QED
      BY ONLY <3>1, <3>2, <3>3, <2>7, i \in 1..Len(y), Zenon
  <2>10. y = v
    BY ONLY <2>8, <2>9, y \in Seq(Char), v \in Seq(Char), SeqEqual
  <2> QED
    BY ONLY <2>5, <2>6, <2>10, Zenon
<1> QED
  BY Zenon, <1>4, <1>7, <1>6 DEF NewlineSplits

LEMMA CharsRegroup == \A s, t, u \in Seq(Char) : (s \o t) \o u = s \o (t \o u)
<1> HIDE DEF Char
<1> SUFFICES ASSUME NEW s \in Seq(Char), NEW t \in Seq(Char), NEW u \in Seq(Char)
             PROVE  (s \o t) \o u = s \o (t \o u)
  OBVIOUS
<1> QED
  BY ConcatAssociative

\* E[j] is what the client sent after its j-th line: s are its lines, and p is
\* the text it ended with.
RestsOf(E, s, p) ==
    /\ E \in [0..Len(s) -> Seq(Char)] /\ E[Len(s)] = p
    /\ \A j \in 1..Len(s) : E[j - 1] = (s[j] \o NL) \o E[j]

LEMMA TextIsText == \A text \in Texts \cup {<< >>} : text \in Seq(Char) /\ \A i \in 1..Len(text) : text[i] # "\n"
<1>1. \A text \in Texts : text \in Seq(Char) /\ \A i \in 1..Len(text) : text[i] # "\n"
  BY Zenon, TextsAreText, LineAssumption
<1>2. << >> \in Seq(Char) /\ \A i : i \notin 1..Len(<< >>)
  BY NewlineIsText
<1> QED
  BY Zenon, <1>1, <1>2

\* What comes last comes last after each line.
LEMMA RestsEnd ==
    ASSUME NEW s \in Seq(Texts), NEW E, RestsOf(E, s, << >>), NEW w \in Seq(Char)
    PROVE  \E F : RestsOf(F, s, w) /\ \A j \in 0..Len(s) : F[j] = E[j] \o w
<1> DEFINE F == [j \in 0..Len(s) |-> E[j] \o w]
<1> HIDE DEF Char
<1>1. Len(s) \in Nat /\ \A j \in 1..Len(s) : s[j] \in Texts
  OBVIOUS
<1>2. \A j \in 0..Len(s) : E[j] \in Seq(Char)
  BY Zenon DEF RestsOf
<1>3. \A j \in 0..Len(s) : F[j] = E[j] \o w /\ E[j] \o w \in Seq(Char)
  BY Zenon, <1>2, ConcatProperties
<1>4. F \in [0..Len(s) -> Seq(Char)]
  BY Zenon, <1>3
<1>5. F[Len(s)] = w
  <2>1. Len(s) \in 0..Len(s) /\ E[Len(s)] = << >>
    BY <1>1 DEF RestsOf
  <2>2. << >> \o w = w
    BY Zenon, ConcatEmptySeq
  <2> QED
    BY Zenon, <1>3, <2>1, <2>2
<1>6. ASSUME NEW j \in 1..Len(s) PROVE F[j - 1] = (s[j] \o NL) \o F[j]
  <2>1. j \in 0..Len(s) /\ j - 1 \in 0..Len(s)
    BY <1>1
  <2>2. s[j] \in Seq(Char)
    BY Zenon, <1>1, TextIsText
  <2>3. s[j] \o NL \in Seq(Char)
    BY Zenon, <2>2, NewlineIsText, ConcatProperties
  <2>4. E[j - 1] = (s[j] \o NL) \o E[j]
    BY Zenon DEF RestsOf
  <2>5. ((s[j] \o NL) \o E[j]) \o w = (s[j] \o NL) \o (E[j] \o w)
    BY Zenon, <1>2, <2>1, <2>3, CharsRegroup
  <2>6. F[j - 1] = E[j - 1] \o w /\ F[j] = E[j] \o w
    BY Zenon, <1>3, <2>1
  <2> HIDE DEF F
  <2> QED
    BY Zenon, <2>4, <2>5, <2>6
<1> HIDE DEF F
<1> QED
  BY Zenon, <1>3, <1>4, <1>5, <1>6 DEF RestsOf

\* After one more line, w more follows each of the lines s.
RestsFollow(t, s, E, w) == \E F : RestsOf(F, t, << >>) /\ \A j \in 0..Len(s) : F[j] = E[j] \o w

\* Another line.
LEMMA RestsGrow ==
    ASSUME NEW s \in Seq(Texts), NEW E, RestsOf(E, s, << >>), NEW text \in Texts,
           NEW t, t = Append(s, text)
    PROVE  RestsFollow(t, s, E, text \o NL)
<1> HIDE DEF Char
<1>1. /\ Len(s) \in Nat /\ t \in Seq(Texts) /\ Len(t) = Len(s) + 1 /\ t[Len(s) + 1] = text
      /\ \A j \in 1..Len(s) : t[j] = s[j]
  OBVIOUS
<1>2. text \in Seq(Char) /\ text \o NL \in Seq(Char)
  BY Zenon, TextIsText, NewlineIsText, ConcatProperties
<1>3. PICK G : RestsOf(G, s, text \o NL) /\ \A j \in 0..Len(s) : G[j] = E[j] \o (text \o NL)
  BY Zenon, <1>2, RestsEnd
<1> DEFINE F == [j \in 0..Len(t) |-> IF j \in 0..Len(s) THEN G[j] ELSE << >>]
<1>4. \A j \in 0..Len(s) : j \in 0..Len(t) /\ F[j] = G[j]
  BY <1>1
<1>5. F[Len(t)] = << >> /\ Len(t) \in 0..Len(t)
  BY <1>1
<1>6. F \in [0..Len(t) -> Seq(Char)]
  <2>1. \A j \in 0..Len(s) : G[j] \in Seq(Char)
    BY Zenon, <1>3 DEF RestsOf
  <2> QED
    BY Zenon, <2>1, NewlineIsText
<1>7. ASSUME NEW j \in 1..Len(t) PROVE F[j - 1] = (t[j] \o NL) \o F[j]
  <2>1. CASE j \in 1..Len(s)
    <3>1. j \in 0..Len(s) /\ j - 1 \in 0..Len(s)
      BY <1>1, <2>1
    <3>2. G[j - 1] = (s[j] \o NL) \o G[j]
      BY Zenon, <1>3, <2>1 DEF RestsOf
    <3>3. F[j - 1] = G[j - 1] /\ F[j] = G[j] /\ t[j] = s[j]
      BY Zenon, <1>1, <1>4, <2>1, <3>1
    <3> HIDE DEF F
    <3> QED
      BY Zenon, <3>2, <3>3
  <2>2. CASE j \notin 1..Len(s)
    <3>1. j = Len(t) /\ j - 1 = Len(s) /\ Len(s) \in 0..Len(s) /\ j = Len(s) + 1
      BY <1>1, <2>2
    <3>2. F[j - 1] = text \o NL
      <4>1. G[Len(s)] = text \o NL
        BY Zenon, <1>3 DEF RestsOf
      <4>2. F[Len(s)] = G[Len(s)]
        BY Zenon, <1>4, <3>1
      <4> HIDE DEF F
      <4> QED
        BY Zenon, <3>1, <4>1, <4>2
    <3>3. F[j] = << >> /\ t[j] = text
      <4> HIDE DEF F
      <4> QED
        BY Zenon, <1>1, <1>5, <3>1
    <3>4. (text \o NL) \o << >> = text \o NL
      BY Zenon, <1>2, ConcatEmptySeq
    <3> HIDE DEF F
    <3> QED
      BY Zenon, <3>2, <3>3, <3>4
  <2> QED
    BY Zenon, <2>1, <2>2
<1> HIDE DEF F
<1> QED
  BY Zenon, <1>3, <1>4, <1>5, <1>6, <1>7 DEF RestsOf, RestsFollow

LEMMA HeadThenTail ==
    ASSUME NEW s \in Seq(Char), s # << >>
    PROVE  <<Head(s)>> \o Tail(s) = s
<1>1. s = SubSeq(s, 1, Len(s)) /\ Len(s) \in Nat \ {0}
  BY Zenon, SubSeqFull, EmptySeq
<1>2. 1 \in 1..Len(s) /\ Len(s) \in 1..Len(s) /\ 1 + 1 = 2
  BY SMT, <1>1
<1>3. s = <<s[1]>> \o SubSeq(s, 1 + 1, Len(s))
  BY Zenon, <1>1, <1>2, SubSeqRecursiveFirst
<1>4. Tail(s) = SubSeq(s, 2, Len(s))
  BY Zenon, TailIsSubSeq
<1>5. Head(s) = s[1]
  <2> HIDE DEF Char
  <2> QED
    BY SMT
<1> QED
  BY Zenon, <1>2, <1>3, <1>4, <1>5

\* A connection that has ended with p after the lines s has these lines.
LinesOf(s, p) == IF p = << >> THEN s ELSE Append(s, p)

LEMMA LinesFacts ==
    ASSUME NEW s \in Seq(Texts), NEW p \in Texts \cup {<< >>}, NEW ls, ls = LinesOf(s, p)
    PROVE  /\ Len(s) \in Nat /\ Len(ls) \in Nat
           /\ \A i \in 1..Len(s) : ls[i] = s[i]
           /\ p = << >> => ls = s
           /\ p # << >> => Len(ls) = Len(s) + 1 /\ ls[Len(s) + 1] = p
           /\ Len(s) <= Len(ls) /\ Len(ls) <= Len(s) + 1
<1>1. Len(s) \in Nat
  OBVIOUS
<1>2. CASE p = << >>
  BY <1>1, <1>2 DEF LinesOf
<1>3. CASE p # << >>
  <2>1. p \in Texts /\ ls = Append(s, p)
    BY <1>3 DEF LinesOf
  <2>2. Len(ls) = Len(s) + 1 /\ ls[Len(s) + 1] = p /\ \A i \in 1..Len(s) : ls[i] = s[i]
    BY ONLY <2>1, s \in Seq(Texts)
  <2> QED
    BY <1>1, <1>3, <2>2
<1> QED
  BY <1>2, <1>3

\* How many lines have been taken from the stream.
Asked == Len(replies) + (IF srv \in {"push", "reply"} THEN 1 ELSE 0)

AllFit == \A i \in 1..Len(Lines) : Fits(Lines[i])

\* The lines that were taken have their answers, or the last one's is to come.
Answered ==
    /\ Asked <= Len(Lines)
    /\ \A i \in 1..Len(replies) : replies[i] = Answer(Lines[i])
    /\ srv \in {"push", "reply"} => reply = Answer(Lines[Asked])

\* What stands in the line buffer and on the stream are the lines to come.
Ahead ==
    /\ \A i \in 1..Len(buf) : buf[i] # "\n"
    /\ srv # "read" => buf = << >>
    /\ \/ Asked <= Len(sent) /\ \E E : RestsOf(E, sent, part) /\ buf \o stream = E[Asked]
       \/ Asked = Len(sent) + 1 /\ ~open /\ buf = << >> /\ stream = << >>

(***************************************************************************)
(* The inductive invariant of AnswersMatch.  When a line is sent that does *)
(* not fit, nothing more is said of this client.                           *)
(***************************************************************************)
ReplyInv ==
    /\ sent \in Seq(Texts) /\ part \in Texts \cup {<< >>} /\ replies \in Seq(Messages)
    /\ open => part = << >>
    /\ srv = "accept" => ~open
    /\ AllFit => Answered /\ (srv # "accept" => Ahead)

connection == <<srv, buf, reply, open, stream, sent, part, replies>>

LEMMA LinesAre == Lines = LinesOf(sent, part) /\ Lines' = LinesOf(sent', part')
BY Zenon DEF Lines, LinesOf

\* The lines so far are those of the connection, and more may follow.
LEMMA LinesNow ==
    ASSUME ReplyInv
    PROVE  /\ Len(sent) \in Nat /\ Len(Lines) \in Nat /\ Len(replies) \in Nat
           /\ \A i \in 1..Len(sent) : Lines[i] = sent[i] /\ sent[i] \in Texts
           /\ part = << >> => Lines = sent
           /\ part # << >> => Len(Lines) = Len(sent) + 1 /\ Lines[Len(sent) + 1] = part
           /\ Len(sent) <= Len(Lines) /\ Len(Lines) <= Len(sent) + 1
<1>1. sent \in Seq(Texts) /\ part \in Texts \cup {<< >>} /\ replies \in Seq(Messages)
  BY Zenon DEF ReplyInv
<1>2. PICK ls : ls = LinesOf(sent, part)
  OBVIOUS
<1>3. Lines = ls
  BY Zenon, <1>2, LinesAre
<1>4. /\ Len(sent) \in Nat /\ Len(ls) \in Nat
      /\ \A i \in 1..Len(sent) : ls[i] = sent[i]
      /\ part = << >> => ls = sent
      /\ part # << >> => Len(ls) = Len(sent) + 1 /\ ls[Len(sent) + 1] = part
      /\ Len(sent) <= Len(ls) /\ Len(ls) <= Len(sent) + 1
  BY ONLY <1>1, <1>2, LinesFacts
<1>5. Len(replies) \in Nat /\ \A i \in 1..Len(sent) : sent[i] \in Texts
  BY ONLY <1>1
<1> QED
  BY Zenon, <1>3, <1>4, <1>5

LEMMA AskedNumber == ASSUME ReplyInv PROVE Asked \in Nat
BY LinesNow DEF Asked

LEMMA InitReplies == Init => ReplyInv
<1> SUFFICES ASSUME Init PROVE ReplyInv
  OBVIOUS
<1>1. sent = << >> /\ part = << >> /\ replies = << >> /\ open = FALSE /\ srv = "accept"
  BY Zenon DEF Init
<1>2. sent \in Seq(Texts) /\ replies \in Seq(Messages) /\ part \in Texts \cup {<< >>}
  BY Zenon, <1>1, EmptySeq
<1>3. Answered
  <2>1. Lines = << >> /\ Len(<< >>) = 0
    BY <1>1 DEF Lines
  <2>2. Asked = 0
    BY <1>1 DEF Asked
  <2> QED
    BY <1>1, <2>1, <2>2 DEF Answered
<1> QED
  BY Zenon, <1>1, <1>2, <1>3 DEF ReplyInv

\* The client's lines are those it had, and one more.
LEMMA SendReplies ==
    ASSUME TypeInd, ReplyInv, SendLine
    PROVE  ReplyInv'
<1>1. PICK text \in Texts : stream' = stream \o text \o <<"\n">> /\ sent' = Append(sent, text)
  BY Zenon DEF SendLine
<1>2. /\ open /\ part = << >> /\ UNCHANGED <<srv, buf, reply, open, part, replies>>
      /\ sent \in Seq(Texts) /\ replies \in Seq(Messages) /\ srv # "accept"
  BY Zenon DEF SendLine, ReplyInv, replyVars
<1>3. Lines = sent /\ Lines' = sent'
  BY Zenon, <1>2, LinesAre DEF LinesOf
<1>4. /\ sent' \in Seq(Texts) /\ Len(sent') = Len(sent) + 1 /\ Len(sent) \in Nat
      /\ \A i \in 1..Len(sent) : sent'[i] = sent[i]
  BY ONLY <1>1, <1>2
<1>5. Asked' = Asked /\ Asked \in Nat
  BY Zenon, <1>2, AskedNumber DEF Asked
<1>6. ASSUME AllFit' PROVE Answered' /\ Ahead'
  <2>1. \A i \in 1..Len(sent) : i \in 1..Len(sent')
    BY <1>4
  <2>2. AllFit
    BY Zenon, <1>3, <1>4, <1>6, <2>1 DEF AllFit
  <2>3. Answered /\ Ahead
    BY Zenon, <1>2, <2>2 DEF ReplyInv
  <2>4. Asked <= Len(sent) /\ Len(replies) \in Nat /\ Len(replies) <= Asked
    BY <1>2, <1>3, <1>4, <2>3 DEF Answered, Asked
  <2>5. Asked <= Len(sent')
    BY <1>4, <1>5, <2>4
  <2>6. \A i \in 1..Len(replies) : i \in 1..Len(sent)
    BY <1>4, <1>5, <2>4
  <2>7. \A i \in 1..Len(replies) : replies[i] = Answer(sent'[i])
    BY Zenon, <1>3, <1>4, <2>3, <2>6 DEF Answered
  <2>8. srv \in {"push", "reply"} => reply = Answer(sent'[Asked])
    <3>1. srv \in {"push", "reply"} => Asked \in 1..Len(sent)
      BY <1>4, <1>5, <2>4 DEF Asked
    <3> QED
      BY Zenon, <1>3, <1>4, <2>3, <3>1 DEF Answered
  <2>9. Answered'
    BY Zenon, <1>2, <1>3, <1>5, <2>5, <2>7, <2>8 DEF Answered
  <2>10. PICK E : RestsOf(E, sent, << >>) /\ buf \o stream = E[Asked]
    BY Zenon, <1>2, <2>3 DEF Ahead
  <2>11. PICK F : RestsOf(F, sent', << >>) /\ \A j \in 0..Len(sent) : F[j] = E[j] \o (text \o NL)
    <3>1. PICK t : t = sent' /\ t = Append(sent, text)
      BY Zenon, <1>1
    <3>2. RestsFollow(t, sent, E, text \o NL)
      <4>1. RestsOf(E, sent, << >>) /\ sent \in Seq(Texts) /\ t = Append(sent, text)
        BY Zenon, <1>2, <2>10, <3>1
      <4> QED
        BY ONLY Zenon, <4>1, text \in Texts, RestsGrow
    <3> QED
      BY Zenon, <3>1, <3>2 DEF RestsFollow
  <2>12. buf \o stream' = F[Asked]
    <3>1. buf \in Seq(Char) /\ stream \in Seq(Char) /\ text \in Seq(Char) /\ NL \in Seq(Char)
      BY Zenon, TextIsText, NewlineIsText DEF TypeInd
    <3>2. text \o NL \in Seq(Char) /\ stream' = (stream \o text) \o NL
      BY Zenon, <1>1, <3>1, ConcatProperties DEF NL
    <3>3. stream' = stream \o (text \o NL)
      BY Zenon, <3>1, <3>2, CharsRegroup
    <3>4. (buf \o stream) \o (text \o NL) = buf \o (stream \o (text \o NL))
      BY Zenon, <3>1, <3>2, CharsRegroup
    <3>5. Asked \in 0..Len(sent)
      BY <1>4, <1>5, <2>4
    <3>6. F[Asked] = E[Asked] \o (text \o NL)
      BY Zenon, <2>11, <3>5
    <3> QED
      BY Zenon, <2>10, <3>3, <3>4, <3>6
  <2>13. Ahead'
    BY Zenon, <1>2, <1>5, <2>3, <2>5, <2>11, <2>12 DEF Ahead
  <2> QED
    BY Zenon, <2>9, <2>13
<1> QED
  BY Zenon, <1>2, <1>4, <1>6 DEF ReplyInv

\* The client ends with what may be one more line.
LEMMA CloseReplies ==
    ASSUME TypeInd, ReplyInv, Close
    PROVE  ReplyInv'
<1>1. PICK text \in Texts \cup {<< >>} : stream' = stream \o text /\ part' = text
  BY Zenon DEF Close
<1>2. /\ open /\ part = << >> /\ UNCHANGED <<srv, buf, reply, sent, replies>> /\ ~open'
      /\ sent \in Seq(Texts) /\ replies \in Seq(Messages) /\ srv # "accept"
  BY Zenon DEF Close, ReplyInv, replyVars
<1>3. PICK ls : ls = LinesOf(sent, text)
  OBVIOUS
<1>4. Lines = sent /\ Lines' = ls
  BY Zenon, <1>1, <1>2, <1>3, LinesAre DEF LinesOf
<1>5. /\ Len(sent) \in Nat /\ Len(ls) \in Nat /\ Len(sent) <= Len(ls)
      /\ \A i \in 1..Len(sent) : ls[i] = sent[i]
  BY ONLY <1>1, <1>2, <1>3, LinesFacts
<1>6. Asked' = Asked /\ Asked \in Nat
  BY Zenon, <1>2, AskedNumber DEF Asked
<1>7. ASSUME AllFit' PROVE Answered' /\ Ahead'
  <2>1. \A i \in 1..Len(sent) : i \in 1..Len(ls)
    BY <1>5
  <2>2. AllFit
    BY Zenon, <1>4, <1>5, <1>7, <2>1 DEF AllFit
  <2>3. Answered /\ Ahead
    BY Zenon, <1>2, <2>2 DEF ReplyInv
  <2>4. Asked <= Len(sent) /\ Len(replies) \in Nat /\ Len(replies) <= Asked
    BY <1>2, <1>4, <1>5, <2>3 DEF Answered, Asked
  <2>5. Asked <= Len(ls)
    BY <1>5, <1>6, <2>4
  <2>6. \A i \in 1..Len(replies) : i \in 1..Len(sent)
    BY <1>5, <1>6, <2>4
  <2>7. \A i \in 1..Len(replies) : replies[i] = Answer(ls[i])
    BY Zenon, <1>4, <1>5, <2>3, <2>6 DEF Answered
  <2>8. srv \in {"push", "reply"} => reply = Answer(ls[Asked])
    <3>1. srv \in {"push", "reply"} => Asked \in 1..Len(sent)
      BY <1>5, <1>6, <2>4 DEF Asked
    <3> QED
      BY Zenon, <1>4, <1>5, <2>3, <3>1 DEF Answered
  <2>9. Answered'
    BY Zenon, <1>2, <1>4, <1>6, <2>5, <2>7, <2>8 DEF Answered
  <2>10. PICK E : RestsOf(E, sent, << >>) /\ buf \o stream = E[Asked]
    BY Zenon, <1>2, <2>3 DEF Ahead
  <2>11. text \in Seq(Char)
    BY Zenon, TextIsText
  <2>12. PICK F : RestsOf(F, sent, text) /\ \A j \in 0..Len(sent) : F[j] = E[j] \o text
    BY Zenon, <1>2, <2>10, <2>11, RestsEnd
  <2>13. buf \o stream' = F[Asked]
    <3>1. buf \in Seq(Char) /\ stream \in Seq(Char)
      BY Zenon DEF TypeInd
    <3>2. (buf \o stream) \o text = buf \o (stream \o text)
      BY Zenon, <3>1, <2>11, CharsRegroup
    <3>3. Asked \in 0..Len(sent)
      BY <1>5, <1>6, <2>4
    <3> QED
      BY Zenon, <1>1, <2>10, <2>12, <3>2, <3>3
  <2>14. Ahead'
    BY Zenon, <1>1, <1>2, <1>6, <2>3, <2>4, <2>12, <2>13 DEF Ahead
  <2> QED
    BY Zenon, <2>9, <2>14
<1> QED
  BY Zenon, <1>1, <1>2, <1>7 DEF ReplyInv

\* The next client has neither lines nor answers.
LEMMA AcceptReplies == ASSUME Accept PROVE ReplyInv'
<1>1. /\ sent' = << >> /\ part' = << >> /\ replies' = << >> /\ open' = TRUE /\ srv' = "read"
      /\ buf' = << >> /\ stream' = << >>
  BY Zenon DEF Accept
<1>2. sent' \in Seq(Texts) /\ replies' \in Seq(Messages) /\ part' \in Texts \cup {<< >>}
  BY Zenon, <1>1, EmptySeq
<1>3. Lines' = << >> /\ Len(<< >>) = 0 /\ << >> \o << >> = << >>
  BY <1>1, LinesAre DEF LinesOf
<1>4. Asked' = 0
  BY <1>1 DEF Asked
<1>5. Answered'
  BY <1>1, <1>3, <1>4 DEF Answered
<1>6. PICK E : E = [j \in {0} |-> << >>]
  OBVIOUS
<1>7. RestsOf(E, << >>, << >>) /\ E[0] = << >>
  <2>1. 0..0 = {0} /\ 1..0 = {}
    OBVIOUS
  <2>2. E \in [0..0 -> Seq(Char)] /\ E[0] = << >>
    BY Zenon, <1>6, <2>1, NewlineIsText
  <2> QED
    BY Zenon, <1>3, <2>1, <2>2 DEF RestsOf
<1>8. Ahead'
  <2>1. \A i : i \notin 1..Len(<< >>)
    OBVIOUS
  <2>2. 0 <= Len(<< >>)
    OBVIOUS
  <2> QED
    BY Zenon, <1>1, <1>3, <1>4, <1>7, <2>1, <2>2 DEF Ahead
<1> QED
  BY Zenon, <1>1, <1>2, <1>5, <1>8 DEF ReplyInv

\* A client that is closed keeps its answers.
LEMMA DisconnectReplies == ASSUME ReplyInv, srv = "read", Disconnect PROVE ReplyInv'
<1>1. srv' = "accept" /\ open' = FALSE /\ UNCHANGED <<buf, reply, sent, part, replies>>
  BY Zenon DEF Disconnect, replyVars
<1>2. Lines' = Lines
  BY Zenon, <1>1, LinesAre
<1>3. Asked' = Asked
  BY <1>1 DEF Asked
<1>4. AllFit' = AllFit
  BY Zenon, <1>2 DEF AllFit
<1>5. AllFit => Answered'
  BY <1>1, <1>2, <1>3 DEF ReplyInv, Answered
<1> QED
  BY Zenon, <1>1, <1>4, <1>5 DEF ReplyInv

\* A byte goes from the stream to the line buffer.
LEMMA ReceiveReplies == ASSUME TypeInd, ReplyInv, Receive PROVE ReplyInv'
<1>1. /\ buf' = Append(buf, Head(stream)) /\ stream' = Tail(stream) /\ stream # << >>
      /\ Head(stream) # "\n" /\ srv = "read"
      /\ UNCHANGED <<srv, reply, open, sent, part, replies>>
  BY Zenon DEF Receive, Ended, replyVars
<1>2. Lines' = Lines /\ Asked' = Asked /\ AllFit' = AllFit
  BY Zenon, <1>1, LinesAre DEF Asked, AllFit
<1>3. Answered => Answered'
  BY Zenon, <1>1, <1>2 DEF Answered
<1>4. ASSUME Ahead PROVE Ahead'
  <2>1. buf \in Seq(Char) /\ stream \in Seq(Char)
    BY Zenon DEF TypeInd
  <2>2. PICK c \in Char : c = Head(stream)
    BY Zenon, <1>1, <2>1, HeadTailProperties
  <2>3. buf' \o stream' = buf \o stream
    <3>1. Tail(stream) \in Seq(Char) /\ <<c>> \in Seq(Char)
      BY Zenon, <1>1, <2>1, HeadTailProperties, Singleton
    <3>2. Append(buf, c) = buf \o <<c>>
      BY Zenon, <2>1, AppendIsConcat
    <3>3. (buf \o <<c>>) \o Tail(stream) = buf \o (<<c>> \o Tail(stream))
      BY Zenon, <2>1, <3>1, CharsRegroup
    <3>4. <<c>> \o Tail(stream) = stream
      BY Zenon, <1>1, <2>1, <2>2, HeadThenTail
    <3> QED
      BY Zenon, <1>1, <2>2, <3>2, <3>3, <3>4
  <2>4. \A i \in 1..Len(buf') : buf'[i] # "\n"
    <3>1. PICK b : b = buf' /\ b = Append(buf, c)
      BY Zenon, <1>1, <2>2
    <3>2. /\ Len(b) = Len(buf) + 1 /\ b[Len(buf) + 1] = c /\ Len(buf) \in Nat
          /\ \A i \in 1..Len(buf) : b[i] = buf[i]
      <4>1. b = Append(buf, c)
        BY Zenon, <3>1
      <4> HIDE DEF Char
      <4> QED
        BY ONLY <2>1, <4>1, c \in Char
    <3>3. \A i \in 1..Len(b) : i \in 1..Len(buf) \/ i = Len(buf) + 1
      BY ONLY <3>2
    <3> QED
      BY Zenon, <1>1, <1>4, <2>2, <3>1, <3>2, <3>3 DEF Ahead
  <2>5. stream # << >>
    BY <1>1
  <2> QED
    BY Zenon, <1>1, <1>2, <1>4, <2>3, <2>4, <2>5 DEF Ahead
<1> QED
  BY Zenon, <1>1, <1>2, <1>3, <1>4 DEF ReplyInv

\* The reply to a line is its answer, whether or not a command is queued first.
LEMMA AnswerGiven ==
    ASSUME NEW line, Process(line)
    PROVE  /\ reply' = Answer(line) /\ srv' \in {"push", "reply"} /\ buf' = << >>
           /\ UNCHANGED <<open, sent, part, replies>>
<1> DEFINE r == Requests[line]
           Given == reply' = Answer(line) /\ srv' \in {"push", "reply"}
<1>1. buf' = << >> /\ UNCHANGED <<open, sent, part, replies>>
  BY Zenon DEF Process, replyVars
<1>2. ASSUME NEW message, JustReply(message), message = Answer(line) PROVE Given
  BY Zenon, <1>2 DEF JustReply
<1>3. CASE line \notin DOMAIN Requests
  <2>1. JustReply("invalid json") /\ Answer(line) = "invalid json"
    BY Zenon, <1>3 DEF Process, Answer
  <2> QED
    BY Zenon, <1>1, <1>2, <2>1
<1>4. ASSUME line \in DOMAIN Requests, r.type = "missing" PROVE Given
  <2>1. JustReply("missing type")
    BY Zenon, <1>4 DEF Process
  <2>2. Answer(line) = "missing type"
    BY SMT, <1>4 DEF Answer
  <2> QED
    BY Zenon, <1>2, <2>1, <2>2
<1>5. ASSUME line \in DOMAIN Requests, r.type = "ping" PROVE Given
  <2>1. JustReply("accepted")
    BY SMT, <1>5 DEF Process
  <2>2. Answer(line) = "accepted"
    BY Zenon, <1>5 DEF Answer
  <2> QED
    BY Zenon, <1>2, <2>1, <2>2
<1>6. ASSUME line \in DOMAIN Requests, r.type = "intent" PROVE Given
  <2>1. Intent(r)
    BY SMT, <1>6 DEF Process
  <2>2. Answer(line) = IF Payload(r.method, r.val) = NoPayload THEN "unsupported intent" ELSE "accepted"
    BY SMT, <1>6 DEF Answer
  <2> HIDE DEF r
  <2>3. CASE Payload(r.method, r.val) = NoPayload
    <3>1. JustReply("unsupported intent")
      BY Zenon, <2>1, <2>3 DEF Intent
    <3> QED
      BY Zenon, <1>2, <2>2, <2>3, <3>1
  <2>4. CASE Payload(r.method, r.val) # NoPayload
    <3>1. reply' = "accepted" /\ srv' = "push"
      BY Zenon, <2>1, <2>4 DEF Intent
    <3> QED
      BY Zenon, <2>2, <2>4, <3>1
  <2> QED
    BY Zenon, <2>3, <2>4
<1>7. ASSUME line \in DOMAIN Requests, r.type \notin {"missing", "ping", "intent"} PROVE Given
  <2>1. JustReply("unsupported type")
    BY Zenon, <1>7 DEF Process
  <2>2. Answer(line) = "unsupported type"
    BY Zenon, <1>7 DEF Answer
  <2> QED
    BY Zenon, <1>2, <2>1, <2>2
<1> QED
  BY Zenon, <1>1, <1>3, <1>4, <1>5, <1>6, <1>7

\* A line that was taken has its answer, or gets it next.
LEMMA ProcessReplies ==
    ASSUME TypeInd, ReplyInv, srv = "read", NEW line, Process(line), stream' \in Seq(Char),
           AllFit => /\ Asked + 1 <= Len(Lines) /\ line = Lines[Asked + 1]
                     /\ \/ /\ Asked + 1 <= Len(sent)
                           /\ \E E : RestsOf(E, sent, part) /\ stream' = E[Asked + 1]
                        \/ Asked + 1 = Len(sent) + 1 /\ ~open /\ stream' = << >>
    PROVE  ReplyInv'
<1>1. /\ reply' = Answer(line) /\ srv' \in {"push", "reply"} /\ buf' = << >>
      /\ UNCHANGED <<open, sent, part, replies>>
  BY Zenon, AnswerGiven
<1>2. Lines' = Lines /\ AllFit' = AllFit
  BY Zenon, <1>1, LinesAre DEF AllFit
<1>3. Asked' = Asked + 1 /\ srv' # "read" /\ srv' # "accept"
  <2>1. Asked = Len(replies) /\ Len(replies) \in Nat
    BY LinesNow DEF Asked
  <2>2. Asked' = Len(replies) + 1
    BY <1>1 DEF Asked
  <2> QED
    BY <1>1, <2>1, <2>2
<1>4. ASSUME AllFit PROVE Answered' /\ Ahead'
  <2>1. Answered
    BY Zenon, <1>4 DEF ReplyInv
  <2>2. Answered'
    BY Zenon, <1>1, <1>2, <1>3, <1>4, <2>1 DEF Answered
  <2>3. << >> \o stream' = stream'
    BY Zenon, ConcatEmptySeq
  <2>4. \A i : i \notin 1..Len(<< >>)
    OBVIOUS
  <2>5. Ahead'
    BY Zenon, <1>1, <1>3, <1>4, <2>3, <2>4 DEF Ahead
  <2> QED
    BY Zenon, <2>2, <2>5
<1> QED
  BY Zenon, <1>1, <1>2, <1>4 DEF ReplyInv

\* Where the lines fit, a line that is complete is the next one, as a newline
\* ends it and never the end of the buffer.
LEMMA NextLine ==
    ASSUME TypeInd, ReplyInv, AllFit, srv = "read", stream # << >>, Ended(Head(stream))
    PROVE  /\ Head(stream) = "\n" /\ Asked + 1 <= Len(sent)
           /\ buf = sent[Asked + 1] /\ buf = Lines[Asked + 1] /\ Asked + 1 <= Len(Lines)
           /\ buf # << >>
           /\ \E E : RestsOf(E, sent, part) /\ Tail(stream) = E[Asked + 1]
<1> HIDE DEF Char
<1>1. PICK k \in Nat : k = Asked
  BY Zenon, AskedNumber
<1>2. /\ buf \in Seq(Char) /\ stream \in Seq(Char) /\ part \in Seq(Char)
      /\ \A i \in 1..Len(part) : part[i] # "\n"
      /\ \A i \in 1..Len(buf) : buf[i] # "\n"
  BY Zenon, TextIsText DEF TypeInd, ReplyInv, Ahead
<1>3. PICK E : k <= Len(sent) /\ RestsOf(E, sent, part) /\ buf \o stream = E[k]
  BY Zenon, <1>1 DEF ReplyInv, Ahead
<1>4. Len(buf) \in Nat /\ Len(stream) \in Nat \ {0} /\ Head(stream) = stream[1] /\ 1 \in 1..Len(stream)
  BY ONLY <1>2, stream # << >>
<1>5. PICK n \in Nat : n = Len(sent) /\ k <= n
  BY Zenon, <1>3, LinesNow
<1>6. /\ MaxLine \in Nat
      /\ Head(stream) # "\n" => Len(buf) + 1 = MaxLine - 1
  BY Zenon, Bounds DEF Ended
<1>7. CASE k = n
  <2>1. buf \o stream = part
    BY Zenon, <1>3, <1>5, <1>7 DEF RestsOf
  <2>2. PICK w : w = buf \o stream /\ w = part
    BY Zenon, <2>1
  <2>3. Len(w) = Len(buf) + Len(stream) /\ \A i \in 1..Len(stream) : w[Len(buf) + i] = stream[i]
    <3>1. w = buf \o stream
      BY Zenon, <2>2
    <3> QED
      BY ONLY <1>2, <3>1, Joined
  <2>4. Len(buf) + 1 \in 1..Len(w)
    BY <1>4, <2>3
  <2>5. Head(stream) # "\n"
    BY Zenon, <1>2, <1>4, <2>2, <2>3, <2>4
  <2>6. part # << >>
    <3>1. w # << >>
      BY <1>4, <2>3
    <3> QED
      BY Zenon, <2>2, <3>1
  <2>7. Len(Lines) = n + 1 /\ Lines[n + 1] = part
    BY Zenon, <1>5, <2>6, LinesNow
  <2>8. n + 1 \in 1..Len(Lines)
    BY <1>5, <2>7
  <2>9. Len(w) \in 1..(MaxLine - 2)
    BY Zenon, <2>2, <2>7, <2>8 DEF AllFit, Fits
  <2> QED
    BY <1>4, <1>6, <2>3, <2>5, <2>9
<1>8. CASE k # n
  <2>1. k + 1 \in 1..n /\ (k + 1) - 1 = k /\ k + 1 \in 0..n /\ k + 1 <= n
    BY <1>5, <1>8
  <2>2. PICK t \in Texts : t = sent[k + 1] /\ t = Lines[k + 1]
    BY Zenon, <1>5, <2>1, LinesNow
  <2>3. t \in Seq(Char) /\ \A i \in 1..Len(t) : t[i] # "\n"
    BY Zenon, TextIsText
  <2>4. PICK v \in Seq(Char) : v = E[k + 1]
    BY Zenon, <1>3, <1>5, <2>1 DEF RestsOf
  <2>5. buf \o stream = (t \o NL) \o v
    BY Zenon, <1>3, <1>5, <2>1, <2>2, <2>4 DEF RestsOf
  <2>6. n <= Len(Lines) /\ Len(Lines) \in Nat
    BY Zenon, <1>5, LinesNow
  <2>7. k + 1 \in 1..Len(Lines) /\ k + 1 <= Len(Lines)
    BY <1>5, <2>1, <2>6
  <2>8. Len(t) \in 1..(MaxLine - 2)
    BY Zenon, <2>2, <2>7 DEF AllFit, Fits
  <2>9. Head(stream) = "\n"
    <3> SUFFICES ASSUME Head(stream) # "\n" PROVE FALSE
      OBVIOUS
    <3>1. PICK c \in Char : c = Head(stream)
      BY Zenon, <1>2, HeadTailProperties
    <3>2. PICK z \in Seq(Char) : z = Tail(stream)
      BY Zenon, <1>2, HeadTailProperties
    <3>3. PICK u : u = Append(buf, c)
      OBVIOUS
    <3>4. /\ u \in Seq(Char) /\ Len(u) = Len(buf) + 1 /\ u[Len(buf) + 1] = c
          /\ \A i \in 1..Len(buf) : u[i] = buf[i]
      BY ONLY <1>2, <3>3, c \in Char
    <3>5. \A i \in 1..Len(u) : u[i] # "\n"
      <4>1. \A i \in 1..Len(u) : i \in 1..Len(buf) \/ i = Len(buf) + 1
        BY ONLY <1>4, <3>4
      <4> QED
        BY Zenon, <1>2, <3>1, <3>4, <4>1
    <3>6. u \o z = buf \o stream
      <4>1. <<c>> \in Seq(Char)
        BY Zenon, Singleton
      <4>2. u = buf \o <<c>>
        BY Zenon, <1>2, <3>3, AppendIsConcat
      <4>5. buf \in Seq(Char)
        BY Zenon, <1>2
      <4>3. (buf \o <<c>>) \o z = buf \o (<<c>> \o z)
        BY ONLY Zenon, <4>5, <4>1, z \in Seq(Char), CharsRegroup
      <4>4. <<c>> \o z = stream
        BY Zenon, <1>2, <3>1, <3>2, HeadThenTail
      <4> QED
        BY Zenon, <4>2, <4>3, <4>4
    <3>7. u \o z = (t \o NL) \o v
      BY Zenon, <2>5, <3>6
    <3>8. Len(u) <= Len(t)
      BY ONLY Zenon, <2>3, <3>4, <3>5, <3>7, v \in Seq(Char), z \in Seq(Char), BeforeNewline
    <3>9. Len(u) = MaxLine - 1
      BY <1>6, <3>4
    <3> QED
      BY <1>6, <2>8, <3>8, <3>9
  <2>10. buf = t /\ Tail(stream) = v
    <3>1. /\ buf \in Seq(Char) /\ stream \in Seq(Char)
          /\ \A i \in 1..Len(buf) : buf[i] # "\n"
      BY Zenon, <1>2
    <3>2. NewlineSplits(buf, stream, t, v)
      BY ONLY Zenon, <2>3, <2>5, <3>1, v \in Seq(Char), BeforeNewline
    <3> QED
      BY Zenon, <2>9, <3>2 DEF NewlineSplits
  <2>11. t # << >>
    BY <2>8
  <2> QED
    BY Zenon, <1>1, <1>3, <1>5, <2>1, <2>2, <2>4, <2>7, <2>9, <2>10, <2>11
<1> QED
  BY Zenon, <1>7, <1>8

\* What stands in the buffer when the stream has ended is what came last.
LEMMA LastPart ==
    ASSUME TypeInd, ReplyInv, AllFit, srv = "read", stream = << >>, buf # << >>
    PROVE  /\ Asked + 1 = Len(sent) + 1
           /\ buf = Lines[Asked + 1] /\ Asked + 1 <= Len(Lines)
<1> HIDE DEF Char
<1>1. PICK k \in Nat : k = Asked
  BY Zenon, AskedNumber
<1>2. /\ buf \in Seq(Char) /\ << >> \in Seq(Char)
      /\ \A i \in 1..Len(buf) : buf[i] # "\n"
  BY Zenon, NewlineIsText DEF TypeInd, ReplyInv, Ahead
<1>3. PICK E : k <= Len(sent) /\ RestsOf(E, sent, part) /\ buf \o << >> = E[k]
  BY Zenon, <1>1 DEF ReplyInv, Ahead
<1>4. PICK n \in Nat : n = Len(sent) /\ k <= n
  BY Zenon, <1>3, LinesNow
<1>5. CASE k = n
  <2>1. buf = part
    <3>1. buf \o << >> = buf
      BY Zenon, <1>2, ConcatEmptySeq
    <3> QED
      BY Zenon, <1>3, <1>4, <1>5, <3>1 DEF RestsOf
  <2>2. Len(Lines) = n + 1 /\ Lines[n + 1] = part
    BY Zenon, <1>4, <2>1, LinesNow
  <2>3. n + 1 <= n + 1
    OBVIOUS
  <2> QED
    BY Zenon, <1>1, <1>4, <1>5, <2>1, <2>2, <2>3
<1>6. CASE k # n
  <2>1. k + 1 \in 1..n /\ (k + 1) - 1 = k /\ k + 1 \in 0..n
    BY <1>4, <1>6
  <2>2. PICK t \in Texts : t = sent[k + 1]
    BY Zenon, <1>4, <2>1, LinesNow
  <2>3. t \in Seq(Char) /\ \A i \in 1..Len(t) : t[i] # "\n"
    BY Zenon, TextIsText
  <2>4. PICK v \in Seq(Char) : v = E[k + 1]
    BY Zenon, <1>3, <1>4, <2>1 DEF RestsOf
  <2>5. buf \o << >> = (t \o NL) \o v
    BY Zenon, <1>3, <1>4, <2>1, <2>2, <2>4 DEF RestsOf
  <2> QED
    BY ONLY Zenon, <1>2, <2>3, <2>5, v \in Seq(Char), BeforeNewline
<1> QED
  BY Zenon, <1>5, <1>6

\* Nothing is read, taken or answered.
LEMMA OthersKeepReplies == ASSUME ReplyInv, UNCHANGED connection PROVE ReplyInv'
<1>1. UNCHANGED <<srv, buf, reply, open, stream, sent, part, replies>>
  BY Zenon DEF connection
<1>2. Lines' = Lines /\ Asked' = Asked
  BY Zenon, <1>1, LinesAre DEF Asked
<1> QED
  BY Zenon, <1>1, <1>2 DEF ReplyInv, AllFit, Answered, Ahead

\* The command is queued before the reply.
LEMMA PushReplies == ASSUME ReplyInv, Push PROVE ReplyInv'
<1>1. srv = "push" /\ srv' = "reply" /\ UNCHANGED <<buf, reply, open, stream, sent, part, replies>>
  BY Zenon DEF Push, clientVars, replyVars
<1>2. Lines' = Lines
  BY Zenon, <1>1, LinesAre
<1>3. Asked' = Asked
  BY <1>1 DEF Asked
<1>4. "push" # "accept" /\ "push" # "read" /\ "reply" # "accept" /\ "reply" # "read"
  OBVIOUS
<1> QED
  BY Zenon, <1>1, <1>2, <1>3, <1>4 DEF ReplyInv, AllFit, Answered, Ahead

\* The reply that is written is the answer to the line taken last.
LEMMA ReplyReplies == ASSUME TypeInd, ReplyInv, Reply PROVE ReplyInv'
<1>1. /\ srv = "reply" /\ srv' = "read" /\ replies' = Append(replies, reply)
      /\ UNCHANGED <<buf, reply, open, stream, sent, part>>
  BY Zenon DEF Reply, clientVars
<1>2. Lines' = Lines
  BY Zenon, <1>1, LinesAre
<1>3. reply \in Messages /\ replies \in Seq(Messages)
  BY Zenon DEF TypeInd, ReplyInv
<1>4. PICK rs : rs = replies' /\ rs = Append(replies, reply)
  BY Zenon, <1>1
<1>5. /\ rs \in Seq(Messages) /\ Len(rs) = Len(replies) + 1 /\ rs[Len(replies) + 1] = reply
      /\ Len(replies) \in Nat /\ \A i \in 1..Len(replies) : rs[i] = replies[i]
  <2> HIDE DEF Messages
  <2>1. rs = Append(replies, reply)
    BY Zenon, <1>4
  <2> QED
    BY ONLY <1>3, <2>1
<1>6. Asked = Len(replies) + 1 /\ Asked' = Asked
  <2>1. Asked = Len(replies) + 1
    BY <1>1 DEF Asked
  <2>2. Asked' = Len(rs) + 0
    BY Zenon, <1>1, <1>4 DEF Asked
  <2> QED
    BY <1>5, <2>1, <2>2
<1>7. "reply" # "accept" /\ "reply" # "read" /\ "read" # "accept" /\ "read" # "push"
  OBVIOUS
<1>8. ASSUME Answered PROVE Answered'
  <2>1. \A i \in 1..Len(rs) : i \in 1..Len(replies) \/ i = Len(replies) + 1
    BY <1>5
  <2>2. \A i \in 1..Len(rs) : rs[i] = Answer(Lines[i])
    BY Zenon, <1>1, <1>5, <1>6, <1>8, <2>1 DEF Answered
  <2> QED
    BY Zenon, <1>1, <1>2, <1>4, <1>6, <1>7, <1>8, <2>2 DEF Answered
<1>9. ASSUME Ahead PROVE Ahead'
  BY Zenon, <1>1, <1>6, <1>7, <1>9 DEF Ahead
<1> QED
  BY Zenon, <1>1, <1>2, <1>4, <1>5, <1>7, <1>8, <1>9 DEF ReplyInv, AllFit

LEMMA StepReplies == TypeInd /\ ReplyInv /\ [Next]_vars => ReplyInv'
<1> SUFFICES ASSUME TypeInd, ReplyInv, [Next]_vars PROVE ReplyInv'
  OBVIOUS
<1>1. CASE ReadReply \/ Take \/ Dispatch \/ vars' = vars
  <2>1. UNCHANGED connection
    BY Zenon, <1>1 DEF ReadReply, Take, Dispatch, vars, connection, clientVars, replyVars
  <2> QED
    BY Zenon, <2>1, OthersKeepReplies
<1>2. CASE ReceiveLast
  <2>1. srv = "read" /\ stream # << >> /\ Ended(Head(stream))
    BY Zenon, <1>2 DEF ReceiveLast
  <2>2. CASE Disconnect
    BY Zenon, <2>1, <2>2, DisconnectReplies
  <2>3. ASSUME NEW line, line = IF Head(stream) = "\n" THEN buf ELSE Append(buf, Head(stream)),
               Process(line), stream' = Tail(stream)
        PROVE  ReplyInv'
    <3>1. stream' \in Seq(Char)
      BY Zenon, <2>1, <2>3, HeadTailProperties DEF TypeInd
    <3>2. AllFit => /\ Asked + 1 <= Len(Lines) /\ line = Lines[Asked + 1]
                    /\ Asked + 1 <= Len(sent)
                    /\ \E E : RestsOf(E, sent, part) /\ stream' = E[Asked + 1]
      BY Zenon, <2>1, <2>3, NextLine
    <3> QED
      BY Zenon, <2>1, <2>3, <3>1, <3>2, ProcessReplies
  <2> QED
    BY Zenon, <1>2, <2>2, <2>3 DEF ReceiveLast
<1>3. CASE ReceiveEnd
  <2>1. srv = "read" /\ stream = << >> /\ ~open
    BY Zenon, <1>3 DEF ReceiveEnd
  <2>2. CASE buf = << >>
    <3>1. Disconnect
      BY Zenon, <1>3, <2>2 DEF ReceiveEnd
    <3> QED
      BY Zenon, <2>1, <3>1, DisconnectReplies
  <2>3. CASE buf # << >>
    <3>1. Process(buf) /\ stream' = << >>
      BY Zenon, <1>3, <2>1, <2>3 DEF ReceiveEnd
    <3>2. AllFit => /\ Asked + 1 = Len(sent) + 1
                    /\ buf = Lines[Asked + 1] /\ Asked + 1 <= Len(Lines)
      BY Zenon, <2>1, <2>3, LastPart
    <3> QED
      BY Zenon, <2>1, <3>1, <3>2, NewlineIsText, ProcessReplies
  <2> QED
    BY Zenon, <2>2, <2>3
<1>4. CASE ReceiveFails
  BY Zenon, <1>4, DisconnectReplies DEF ReceiveFails
<1> QED
  BY Zenon, <1>1, <1>2, <1>3, <1>4, SendReplies, CloseReplies, AcceptReplies, ReceiveReplies,
     PushReplies, ReplyReplies DEF Next, Server, Main

\* However the bytes arrive and whenever the client leaves, as long as its
\* lines fit each of them gets its own answer, in order and once.
THEOREM EachLineAnswered == Spec => []AnswersMatch
<1>1. ReplyInv => AnswersMatch
  <2> SUFFICES ASSUME ReplyInv, AllFit
               PROVE  /\ Len(replies) <= Len(Lines)
                      /\ \A i \in 1..Len(replies) : replies[i] = Answer(Lines[i])
    BY Zenon DEF AnswersMatch, AllFit
  <2>1. Answered
    BY Zenon DEF ReplyInv
  <2>2. Len(replies) <= Asked /\ Asked \in Nat /\ Len(Lines) \in Nat /\ Len(replies) \in Nat
    BY LinesNow DEF Asked
  <2>3. Len(replies) <= Len(Lines)
    BY <2>1, <2>2 DEF Answered
  <2> QED
    BY Zenon, <2>1, <2>3 DEF Answered
<1> QED
  BY <1>1, InitReplies, StepReplies, InitType, StepType, InitOrder, StepOrder, PTL DEF Spec

=============================================================================
