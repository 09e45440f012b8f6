-------------------------- MODULE MsgQueue_proofs --------------------------
(***************************************************************************)
(* Proofs about the message queue, for every set of threads, every         *)
(* capacity and every set of payloads.                                     *)
(***************************************************************************)
EXTENDS MsgQueue, Sequences, FiniteSetTheorems, TLAPS

(* Slot arithmetic.  A sum of two slot numbers wraps around at most once.   *)

LEMMA WrapSum ==
  ASSUME NEW n \in Nat \ {0}, NEW h \in 0..(n - 1), NEW k \in 0..n
  PROVE  (h + k) % n = IF h + k < n THEN h + k ELSE h + k - n
OBVIOUS

LEMMA WrapNone ==
  ASSUME NEW n \in Nat \ {0}, NEW a \in 0..(n - 1)
  PROVE  a % n = a
OBVIOUS

\* Counting on from slot h: distinct distances reach distinct slots, ...
LEMMA WrapDistinct ==
  ASSUME NEW n \in Nat \ {0}, NEW h \in 0..(n - 1),
         NEW i \in 0..(n - 1), NEW j \in 0..(n - 1), i # j
  PROVE  (h + i) % n # (h + j) % n
<1>1. (h + i) % n = IF h + i < n THEN h + i ELSE h + i - n
  OBVIOUS
<1>2. (h + j) % n = IF h + j < n THEN h + j ELSE h + j - n
  OBVIOUS
<1>3. QED
  BY <1>1, <1>2

\* ... and starting one slot later or going one slot further is the same.
LEMMA WrapShift ==
  ASSUME NEW n \in Nat \ {0}, NEW h \in 0..(n - 1), NEW k \in 0..(n - 1)
  PROVE  /\ (((h + 1) % n) + k) % n = (h + (k + 1)) % n
         /\ (((h + k) % n) + 1) % n = (h + (k + 1)) % n
<1>0. h + (k + 1) = h + k + 1
  OBVIOUS
<1>1. (h + 1) % n = IF h + 1 < n THEN h + 1 ELSE h + 1 - n
  OBVIOUS
<1>2. (h + k) % n = IF h + k < n THEN h + k ELSE h + k - n
  OBVIOUS
<1>3. (h + k + 1) % n = IF h + k + 1 < n THEN h + k + 1 ELSE h + k + 1 - n
  OBVIOUS
<1>4. (((h + 1) % n) + k) % n = (h + (k + 1)) % n
  <2>1. CASE h + 1 < n
    <3>1. (h + 1) + k = h + (k + 1)
      OBVIOUS
    <3>2. (h + 1) % n = h + 1
      BY <1>1, <2>1
    <3>3. QED
      BY <3>1, <3>2
  <2>2. CASE h + 1 = n
    <3>1. (((h + 1) % n) + k) % n = k
      <4>1. (h + 1) % n = 0
        BY <1>1, <2>2
      <4>2. 0 + k = k
        OBVIOUS
      <4>3. k % n = k
        BY WrapNone
      <4>4. QED
        BY <4>1, <4>2, <4>3
    <3>2. (h + k + 1) % n = k
      BY <1>3, <2>2
    <3>3. QED
      BY <3>1, <3>2, <1>0
  <2>3. QED
    BY <2>1, <2>2
<1>5. (((h + k) % n) + 1) % n = (h + (k + 1)) % n
  <2>1. CASE h + k < n
    <3>1. (h + k) % n = h + k
      BY <1>2, <2>1
    <3>2. QED
      BY <3>1, <1>0
  <2>2. CASE ~(h + k < n)
    <3>1. (((h + k) % n) + 1) % n = (h + k - n + 1) % n
      BY <1>2, <2>2
    <3>2. h + k - n + 1 \in 0..(n - 1)
      BY <2>2
    <3>3. (h + k - n + 1) % n = h + k - n + 1
      BY <3>2
    <3>4. QED
      BY <3>1, <3>3, <1>3, <2>2, <1>0
  <2>3. QED
    BY <2>1, <2>2
<1>6. QED
  BY <1>4, <1>5

-----------------------------------------------------------------------------
(* Type correctness                                                        *)

LEMMA InitTypeOK == Init => TypeOK
  BY QueueAssumption DEF Init, TypeOK, Slots, Threads, Message

\* A signal only moves waiting threads to "lock" and the signaller onward.
LEMMA SignalType ==
  ASSUME TypeOK, NEW t \in Threads, NEW waiters, waiters \subseteq Threads,
         NEW next \in {"idle", "work"}, SignalThenGo(t, waiters, next)
  PROVE  pc' \in [Threads -> {"idle", "lock", "wait", "expired", "work"}]
  BY DEF SignalThenGo, TypeOK

LEMMA StepTypeOK == TypeOK /\ [Next]_vars => TypeOK'
<1> SUFFICES ASSUME TypeOK, [Next]_vars PROVE TypeOK'
  OBVIOUS
<1> USE QueueAssumption DEF TypeOK, Slots, ring
<1>1. ASSUME NEW t \in Threads, SpuriousWakeup(t) PROVE TypeOK'
  BY <1>1 DEF SpuriousWakeup
<1>2. ASSUME NEW p \in Producers, Alloc(p) PROVE TypeOK'
  BY <1>2 DEF Alloc, Threads, Message
<1>3. ASSUME NEW p \in Producers, PushWait(p) PROVE TypeOK'
  BY <1>3 DEF PushWait
<1>4. ASSUME NEW p \in Producers, PushInsert(p) PROVE TypeOK'
  <2>1. p \in Threads /\ WaitNotEmpty \subseteq Threads
    BY DEF Threads, WaitNotEmpty
  <2>2. pc' \in [Threads -> {"idle", "lock", "wait", "expired", "work"}]
    BY <1>4, <2>1, SignalType DEF PushInsert
  <2>3. tail' \in Slots
    BY <1>4 DEF PushInsert, Advance
  <2>4. count' \in 0..Capacity
    BY <1>4 DEF PushInsert, Full
  <2>5. QED
    BY <1>4, <2>1, <2>2, <2>3, <2>4 DEF PushInsert
<1>5. ASSUME NEW c \in Consumers, PopCall(c) PROVE TypeOK'
  BY <1>5 DEF PopCall
<1>6. ASSUME NEW c \in Consumers, PopPollEmpty(c) PROVE TypeOK'
  BY <1>6 DEF PopPollEmpty
<1>7. ASSUME NEW c \in Consumers, PopWait(c) PROVE TypeOK'
  BY <1>7 DEF PopWait
<1>8. ASSUME NEW c \in Consumers, Expire(c) PROVE TypeOK'
  BY <1>8 DEF Expire
<1>9. ASSUME NEW c \in Consumers, PopExpired(c) PROVE TypeOK'
  BY <1>9 DEF PopExpired
<1>10. ASSUME NEW c \in Consumers, PopTake(c) PROVE TypeOK'
  <2>1. c \in Threads /\ WaitNotFull \subseteq Threads
    BY DEF Threads, WaitNotFull
  <2>2. pc' \in [Threads -> {"idle", "lock", "wait", "expired", "work"}]
    BY <1>10, <2>1, SignalType DEF PopTake
  <2>3. head' \in Slots
    BY <1>10 DEF PopTake, Advance
  <2>4. count' \in 0..Capacity
    BY <1>10 DEF PopTake
  <2>5. QED
    BY <1>10, <2>1, <2>2, <2>3, <2>4 DEF PopTake, Oldest
<1>11. ASSUME NEW c \in Consumers, Dispatch(c) PROVE TypeOK'
  BY <1>11 DEF Dispatch
<1>12. CASE UNCHANGED vars
  BY <1>12 DEF vars
<1>13. QED
  BY <1>1, <1>2, <1>3, <1>4, <1>5, <1>6, <1>7, <1>8, <1>9, <1>10, <1>11, <1>12
     DEF Next, Locked

\* Type correctness of queue.c: head and tail index the buffer and count stays
\* within 0..capacity, for every number of threads and every capacity.
THEOREM TypeCorrect == Spec => []TypeOK
  BY InitTypeOK, StepTypeOK, PTL DEF Spec

-----------------------------------------------------------------------------
(* The ring                                                                *)

\* A thread holds a message exactly while it is pushing it or working on it.
HandInv ==
    /\ \A p \in Producers : hand[p] # None <=> pc[p] \in {"lock", "wait"}
    /\ \A c \in Consumers : hand[c] # None <=> pc[c] = "work"

RingInd == TypeOK /\ HandInv /\ RingInv

\* push writes a slot that is not occupied and makes it the last occupied one.
LEMMA PushOccupies ==
  ASSUME TypeOK, RingInv, NEW p \in Producers, PushInsert(p)
  PROVE  /\ tail \notin Occupied
         /\ Occupied' = Occupied \cup {tail}
         /\ tail' = (head' + count') % Capacity
<1>1. Capacity \in Nat \ {0} /\ head \in 0..(Capacity - 1) /\ count \in 0..Capacity
  BY QueueAssumption DEF TypeOK, Slots
<1>2. head' = head /\ count' = count + 1 /\ count # Capacity /\ tail' = (tail + 1) % Capacity
  BY DEF PushInsert, Full, Advance
<1>3. count \in 0..(Capacity - 1)
  BY <1>1, <1>2
<1>4. tail = (head + count) % Capacity
  BY DEF RingInv
<1>5. ASSUME NEW i \in 0..(count - 1) PROVE (head + i) % Capacity # tail
  <2>1. i \in 0..(Capacity - 1) /\ i # count
    BY <1>1
  <2>2. QED
    BY <1>1, <1>3, <1>4, <2>1, WrapDistinct
<1>6. Occupied = {(head + i) % Capacity : i \in 0..(count - 1)}
  BY DEF Occupied, Slot
<1>7. Occupied' = {(head + i) % Capacity : i \in 0..count}
  <2>1. (count + 1) - 1 = count
    BY <1>1
  <2>2. QED
    BY <1>2, <2>1 DEF Occupied, Slot
<1>8. 0..count = 0..(count - 1) \cup {count}
  BY <1>1
<1>9. Occupied' = Occupied \cup {tail} /\ tail \notin Occupied
  BY <1>4, <1>5, <1>6, <1>7, <1>8
<1>10. tail' = (head' + count') % Capacity
  BY <1>1, <1>2, <1>3, <1>4, WrapShift
<1>11. QED
  BY <1>9, <1>10

\* pop reads the first occupied slot and gives exactly that one up.
LEMMA PopVacates ==
  ASSUME TypeOK, RingInv, NEW c \in Consumers, PopTake(c)
  PROVE  /\ head \in Occupied
         /\ Occupied' = Occupied \ {head}
         /\ \A i \in 0..(count - 2) : Slot(i)' = Slot(i + 1)
         /\ tail' = (head' + count') % Capacity
<1>1. Capacity \in Nat \ {0} /\ head \in 0..(Capacity - 1) /\ count \in 0..Capacity
  BY QueueAssumption DEF TypeOK, Slots
<1>2. tail' = tail /\ count' = count - 1 /\ count # 0 /\ head' = (head + 1) % Capacity
  BY DEF PopTake, Advance
<1>3. count \in 1..Capacity
  BY <1>1, <1>2
<1>4. head = (head + 0) % Capacity
  BY <1>1
<1>5. ASSUME NEW i \in 1..(count - 1) PROVE (head + i) % Capacity # head
  <2>1. i \in 0..(Capacity - 1) /\ 0 \in 0..(Capacity - 1) /\ i # 0
    BY <1>1, <1>3
  <2>2. (head + i) % Capacity # (head + 0) % Capacity
    BY <1>1, <2>1, WrapDistinct
  <2>3. QED
    BY <2>2, <1>4
<1>6. ASSUME NEW i \in 0..(count - 1) PROVE (head' + i) % Capacity = (head + (i + 1)) % Capacity
  <2>1. i \in 0..(Capacity - 1)
    BY <1>1
  <2>2. QED
    BY <1>1, <1>2, <2>1, WrapShift
<1>7. Occupied = {(head + i) % Capacity : i \in 0..(count - 1)}
  BY DEF Occupied, Slot
<1>8. Occupied = {(head + i) % Capacity : i \in 1..(count - 1)} \cup {head}
  <2>1. 0..(count - 1) = 1..(count - 1) \cup {0}
    BY <1>3
  <2>2. QED
    BY <1>4, <1>7, <2>1
<1>9. Occupied' = {(head + i) % Capacity : i \in 1..(count - 1)}
  <2>1. Occupied' = {(head' + i) % Capacity : i \in 0..(count' - 1)}
    BY <1>2 DEF Occupied, Slot
  <2>2. count' - 1 = count - 2
    BY <1>1, <1>2
  <2>3. \A i \in 0..(count - 2) : (head' + i) % Capacity = (head + (i + 1)) % Capacity
    BY <1>3, <1>6
  <2>4. \A i \in 0..(count - 2) : i + 1 \in 1..(count - 1)
    BY <1>3
  <2>5. \A j \in 1..(count - 1) : j - 1 \in 0..(count - 2) /\ (j - 1) + 1 = j
    BY <1>3
  <2>6. QED
    BY <2>1, <2>2, <2>3, <2>4, <2>5
<1>10. tail' = (head' + count') % Capacity
  <2>1. count' \in 0..(count - 1) /\ count' + 1 = count
    BY <1>2, <1>3
  <2>2. (head' + count') % Capacity = (head + count) % Capacity
    BY <1>6, <2>1
  <2>3. QED
    BY <1>2, <2>2 DEF RingInv
<1>11. \A i \in 0..(count - 2) : Slot(i)' = Slot(i + 1)
  BY <1>3, <1>6 DEF Slot
<1>12. Occupied' = Occupied \ {head} /\ head \in Occupied
  BY <1>5, <1>8, <1>9
<1>13. QED
  BY <1>10, <1>11, <1>12

LEMMA InitRingInd == Init => RingInd
<1> SUFFICES ASSUME Init PROVE RingInd
  OBVIOUS
<1>1. TypeOK
  BY InitTypeOK
<1>2. HandInv
  BY DEF Init, HandInv, Threads
<1>3. RingInv
  <2>1. Capacity \in Nat \ {0} /\ head = 0 /\ tail = 0 /\ count = 0
    BY QueueAssumption DEF Init
  <2>2. Occupied = {}
    BY <2>1 DEF Occupied
  <2>3. tail = (head + count) % Capacity
    BY <2>1
  <2>4. QED
    BY <2>2, <2>3 DEF RingInv
<1>4. QED
  BY <1>1, <1>2, <1>3 DEF RingInd

\* A signal moves the signaller on, wakes at most one waiting thread and leaves
\* every other thread where it is.
LEMMA SignalHand ==
  ASSUME TypeOK, NEW t \in Threads, NEW waiters, waiters \subseteq Threads,
         t \notin waiters, NEW next, SignalThenGo(t, waiters, next)
  PROVE  /\ pc'[t] = next
         /\ \A u \in Threads \ {t} : (pc'[u] = pc[u]) \/ (pc[u] = "wait" /\ pc'[u] = "lock")
  BY DEF SignalThenGo, TypeOK

LEMMA StepHandInv == TypeOK /\ HandInv /\ RingInv /\ [Next]_vars => HandInv'
<1> SUFFICES ASSUME TypeOK, HandInv, RingInv, [Next]_vars PROVE HandInv'
  OBVIOUS
<1>0. /\ Producers \cap Consumers = {} /\ Threads = Producers \cup Consumers
      /\ hand \in [Threads -> Message \cup {None}] /\ None \notin Message /\ Null \in Message
      /\ pc \in [Threads -> {"idle", "lock", "wait", "expired", "work"}]
      /\ Payloads \subseteq Message
  BY QueueAssumption DEF TypeOK, Threads, Message
<1>1. ASSUME NEW t \in Threads, SpuriousWakeup(t) PROVE HandInv'
  BY <1>0, <1>1 DEF SpuriousWakeup, HandInv
<1>2. ASSUME NEW p \in Producers, Alloc(p) PROVE HandInv'
  BY <1>0, <1>2 DEF Alloc, HandInv
<1>3. ASSUME NEW p \in Producers, PushWait(p) PROVE HandInv'
  BY <1>0, <1>3 DEF PushWait, HandInv
<1>4. ASSUME NEW p \in Producers, PushInsert(p) PROVE HandInv'
  <2>1. p \in Threads /\ WaitNotEmpty \subseteq Threads /\ p \notin WaitNotEmpty
    BY <1>0 DEF WaitNotEmpty
  <2>2. /\ pc'[p] = "idle"
        /\ \A u \in Threads \ {p} : (pc'[u] = pc[u]) \/ (pc[u] = "wait" /\ pc'[u] = "lock")
    BY <1>4, <2>1, SignalHand DEF PushInsert
  <2>3. hand' = [hand EXCEPT ![p] = None]
    BY <1>4 DEF PushInsert
  <2>4. QED
    BY <1>0, <2>2, <2>3 DEF HandInv
<1>5. ASSUME NEW c \in Consumers, PopCall(c) PROVE HandInv'
  BY <1>0, <1>5 DEF PopCall, HandInv
<1>6. ASSUME NEW c \in Consumers, PopPollEmpty(c) PROVE HandInv'
  BY <1>0, <1>6 DEF PopPollEmpty, HandInv
<1>7. ASSUME NEW c \in Consumers, PopWait(c) PROVE HandInv'
  BY <1>0, <1>7 DEF PopWait, HandInv
<1>8. ASSUME NEW c \in Consumers, Expire(c) PROVE HandInv'
  BY <1>0, <1>8 DEF Expire, HandInv
<1>9. ASSUME NEW c \in Consumers, PopExpired(c) PROVE HandInv'
  BY <1>0, <1>9 DEF PopExpired, HandInv
<1>10. ASSUME NEW c \in Consumers, PopTake(c) PROVE HandInv'
  <2>1. c \in Threads /\ WaitNotFull \subseteq Threads /\ c \notin WaitNotFull
    BY <1>0 DEF WaitNotFull
  <2>2. /\ pc'[c] = "work"
        /\ \A u \in Threads \ {c} : (pc'[u] = pc[u]) \/ (pc[u] = "wait" /\ pc'[u] = "lock")
    BY <1>10, <2>1, SignalHand DEF PopTake
  <2>3. hand' = [hand EXCEPT ![c] = buffer[head]]
    BY <1>10 DEF PopTake, Oldest
  <2>4. buffer[head] # None
    BY <1>10, PopVacates DEF RingInv
  <2>5. QED
    BY <1>0, <2>2, <2>3, <2>4 DEF HandInv
<1>11. ASSUME NEW c \in Consumers, Dispatch(c) PROVE HandInv'
  BY <1>0, <1>11 DEF Dispatch, HandInv
<1>12. CASE UNCHANGED vars
  BY <1>12 DEF vars, HandInv
<1>13. QED
  BY <1>1, <1>2, <1>3, <1>4, <1>5, <1>6, <1>7, <1>8, <1>9, <1>10, <1>11, <1>12
     DEF Next, Locked

\* Only the two actions that move a message touch the ring.
LEMMA RingSteps ==
  ASSUME [Next]_vars
  PROVE  \/ \E p \in Producers : PushInsert(p)
         \/ \E c \in Consumers : PopTake(c)
         \/ UNCHANGED ring
  BY DEF Next, Locked, SpuriousWakeup, Alloc, PushWait, PopCall, PopPollEmpty,
         PopWait, Expire, PopExpired, Dispatch, vars, ring

LEMMA StepRingInv == TypeOK /\ HandInv /\ RingInv /\ [Next]_vars => RingInv'
<1> SUFFICES ASSUME TypeOK, HandInv, RingInv, [Next]_vars PROVE RingInv'
  OBVIOUS
<1>1. ASSUME NEW p \in Producers, PushInsert(p) PROVE RingInv'
  <2>1. hand[p] # None
    BY <1>1 DEF PushInsert, HandInv
  <2>2. buffer' = [buffer EXCEPT ![tail] = hand[p]] /\ tail \in DOMAIN buffer
    BY <1>1 DEF PushInsert, TypeOK
  <2>3. \A i \in Occupied' : buffer'[i] # None
    BY <1>1, <2>1, <2>2, PushOccupies DEF RingInv
  <2>4. QED
    BY <1>1, <2>3, PushOccupies DEF RingInv
<1>2. ASSUME NEW c \in Consumers, PopTake(c) PROVE RingInv'
  <2>1. buffer' = buffer
    BY <1>2 DEF PopTake
  <2>2. QED
    BY <1>2, <2>1, PopVacates DEF RingInv
<1>3. CASE UNCHANGED ring
  BY <1>3 DEF ring, RingInv, Occupied, Slot
<1>4. QED
  BY <1>1, <1>2, <1>3, RingSteps

LEMMA RingIndInvariant == Spec => []RingInd
<1>1. RingInd /\ [Next]_vars => RingInd'
  BY StepTypeOK, StepHandInv, StepRingInv DEF RingInd
<1>2. QED
  BY <1>1, InitRingInd, PTL DEF Spec

\* The ring's indices always agree and every slot that counts as occupied was
\* written: pop never hands out a slot push did not fill.
THEOREM RingCorrect == Spec => []RingInv
<1>1. RingInd => RingInv
  BY DEF RingInd
<1>2. QED
  BY <1>1, RingIndInvariant, PTL

-----------------------------------------------------------------------------
(* Ownership of payloads                                                   *)

\* OneOwner without counting: where a live payload is, and that it is nowhere
\* else.
OwnerInv ==
    \A m \in Payloads :
        /\ m \in live <=> \/ \E t \in Threads : hand[t] = m
                          \/ \E i \in Occupied : buffer[i] = m
        /\ \A t, u \in Threads : hand[t] = m /\ hand[u] = m => t = u
        /\ \A i, j \in Occupied : buffer[i] = m /\ buffer[j] = m => i = j
        /\ \A t \in Threads, i \in Occupied : ~(hand[t] = m /\ buffer[i] = m)

LEMMA OwnerInvIsEnough == OwnerInv => OneOwner
<1> SUFFICES ASSUME OwnerInv, NEW m \in Payloads
             PROVE  IF m \in live THEN \E o \in Owners(m) : Owners(m) = {o}
                                  ELSE Owners(m) = {}
  BY DEF OneOwner
<1>1. CASE m \notin live
  BY <1>1 DEF OwnerInv, Owners
<1>2. ASSUME m \in live, NEW t \in Threads, hand[t] = m
      PROVE  Owners(m) = {<<"hand", t>>}
  BY <1>2 DEF OwnerInv, Owners
<1>3. ASSUME m \in live, NEW i \in Occupied, buffer[i] = m
      PROVE  Owners(m) = {<<"slot", i>>}
  BY <1>3 DEF OwnerInv, Owners
<1>4. CASE m \in live
  BY <1>2, <1>3, <1>4 DEF OwnerInv
<1>5. QED
  BY <1>1, <1>4

LEMMA InitOwnerInv == Init => OwnerInv
<1>1. Init => Occupied = {}
  BY DEF Init, Occupied
<1>2. QED
  BY <1>1, QueueAssumption DEF Init, OwnerInv, Message, Threads

\* Actions that move no message keep every owner.
LEMMA OwnersKept ==
  ASSUME OwnerInv, UNCHANGED <<ring, hand, live>>
  PROVE  OwnerInv'
  BY DEF ring, OwnerInv, Occupied, Slot

LEMMA StepOwnerInv == RingInd /\ RingInd' /\ OwnerInv /\ [Next]_vars => OwnerInv'
<1> SUFFICES ASSUME RingInd, RingInd', OwnerInv, [Next]_vars PROVE OwnerInv'
  OBVIOUS
<1>0. /\ Producers \cap Consumers = {} /\ Threads = Producers \cup Consumers
      /\ hand \in [Threads -> Message \cup {None}] /\ None \notin Message
      /\ Message = Payloads \cup {Null} /\ Null \notin Payloads
      /\ buffer \in [Slots -> Message \cup {None}] /\ tail \in Slots
      /\ TypeOK /\ RingInv /\ HandInv
  BY QueueAssumption DEF RingInd, TypeOK, Threads, Message
<1>1. ASSUME NEW p \in Producers, Alloc(p) PROVE OwnerInv'
  <2>1. Occupied' = Occupied /\ buffer' = buffer
    BY <1>1 DEF Alloc, ring, Occupied, Slot
  <2>2. hand[p] = None
    BY <1>0, <1>1 DEF Alloc, HandInv
  <2>3. PICK m \in (Payloads \ live) \cup {Null} :
           hand' = [hand EXCEPT ![p] = m] /\ live' = live \cup ({m} \cap Payloads)
    BY <1>1 DEF Alloc
  <2>4. QED
    BY <1>0, <2>1, <2>2, <2>3 DEF OwnerInv
<1>2. ASSUME NEW p \in Producers, PushInsert(p) PROVE OwnerInv'
  <2>1. tail \notin Occupied /\ Occupied' = Occupied \cup {tail}
    BY <1>0, <1>2, PushOccupies
  <2>2. /\ buffer' = [buffer EXCEPT ![tail] = hand[p]]
        /\ hand' = [hand EXCEPT ![p] = None] /\ live' = live
    BY <1>2 DEF PushInsert
  <2>3. Occupied \subseteq Slots
    BY QueueAssumption, <1>0 DEF Occupied, Slot, Slots, TypeOK
  <2>4. QED
    BY <1>0, <2>1, <2>2, <2>3 DEF OwnerInv
<1>3. ASSUME NEW c \in Consumers, PopTake(c) PROVE OwnerInv'
  <2>1. head \in Occupied /\ Occupied' = Occupied \ {head}
    BY <1>0, <1>3, PopVacates
  <2>2. buffer' = buffer /\ hand' = [hand EXCEPT ![c] = buffer[head]] /\ live' = live
    BY <1>3 DEF PopTake, Oldest
  <2>3. hand[c] = None
    BY <1>0, <1>3 DEF PopTake, HandInv
  <2>4. QED
    BY <1>0, <2>1, <2>2, <2>3 DEF OwnerInv
<1>4. ASSUME NEW c \in Consumers, Dispatch(c) PROVE OwnerInv'
  <2>1. Occupied' = Occupied /\ buffer' = buffer
    BY <1>4 DEF Dispatch, ring, Occupied, Slot
  <2>2. live' = live \ {hand[c]} /\ hand' = [hand EXCEPT ![c] = None]
    BY <1>4 DEF Dispatch
  <2>3. QED
    BY <1>0, <2>1, <2>2 DEF OwnerInv
<1>5. CASE UNCHANGED <<ring, hand, live>>
  BY <1>5, OwnersKept
<1>6. QED
  BY <1>1, <1>2, <1>3, <1>4, <1>5
     DEF Next, Locked, SpuriousWakeup, PushWait, PopCall, PopPollEmpty,
         PopWait, Expire, PopExpired, vars, ring

\* Every allocated payload is owned by exactly one hand or ring slot and every
\* freed one by none: no leak, double free or use after free between the
\* malloc in a producer and the free in run_event_loop.
THEOREM OneOwnerHolds == Spec => []OneOwner
<1>1. Init => RingInd /\ OwnerInv
  BY InitRingInd, InitOwnerInv
<1>2. RingInd /\ RingInd' /\ OwnerInv /\ [Next]_vars => OwnerInv'
  BY StepOwnerInv
<1>3. OwnerInv => OneOwner
  BY OwnerInvIsEnough
<1>4. QED
  BY <1>1, <1>2, <1>3, RingIndInvariant, PTL DEF Spec

-----------------------------------------------------------------------------
(* Refinement: the ring implements the abstract bounded FIFO.              *)

ItemsAreSeq ==
    /\ Items \in Seq(Message \cup {None})
    /\ Len(Items) = count
    /\ \A i \in 1..count : Items[i] = buffer[Slot(i - 1)]

LEMMA ItemsType == RingInd => ItemsAreSeq
<1> SUFFICES ASSUME RingInd PROVE ItemsAreSeq
  OBVIOUS
<1>1. count \in Nat
  BY QueueAssumption DEF RingInd, TypeOK
<1>2. \A i \in 1..count : Slot(i - 1) \in Slots
  BY QueueAssumption, <1>1 DEF RingInd, TypeOK, Slots, Slot
<1>3. \A i \in 1..count : buffer[Slot(i - 1)] \in Message \cup {None}
  BY <1>2 DEF RingInd, TypeOK
<1>4. QED
  BY <1>1, <1>3 DEF Items, ItemsAreSeq

LEMMA RefineInit == Init => Fifo!FifoInit
  BY DEF Init, Items, Fifo!FifoInit, Threads, Fifo!Threads

LEMMA RefinePush ==
  ASSUME RingInd, RingInd', NEW p \in Producers, PushInsert(p)
  PROVE  Fifo!Put(p)
<1>1. /\ count' = count + 1 /\ head' = head /\ buffer' = [buffer EXCEPT ![tail] = hand[p]]
      /\ hand' = [hand EXCEPT ![p] = None] /\ count # Capacity /\ count \in 0..Capacity
      /\ Capacity \in Nat \ {0} /\ tail \in DOMAIN buffer
  BY QueueAssumption DEF PushInsert, Full, RingInd, TypeOK
<1>2. hand[p] # None
  BY DEF RingInd, HandInv, PushInsert
<1>3. hand[p] \in Message \cup {None}
  BY DEF RingInd, TypeOK, Threads
<1>4. \A i \in 1..count : Slot(i - 1)' = Slot(i - 1) /\ Slot(i - 1) \in Occupied
  <2>1. \A i \in 1..count : i - 1 \in 0..(count - 1)
    BY <1>1
  <2>2. QED
    BY <1>1, <2>1 DEF Slot, Occupied
<1>5. \A i \in 1..count : Items'[i] = Items[i]
  <2>1. tail \notin Occupied
    BY PushOccupies DEF RingInd
  <2>2. \A i \in 1..count : i \in 1..count'
    BY <1>1
  <2>3. \A i \in 1..count : Items'[i] = buffer'[Slot(i - 1)]
    BY <1>4, <2>2 DEF Items
  <2>4. QED
    BY <1>1, <1>4, <2>1, <2>3, ItemsType DEF RingInd, TypeOK, ItemsAreSeq
<1>6. Items'[count + 1] = hand[p]
  <2>1. (head' + ((count + 1) - 1)) % Capacity = tail
    <3>1. (count + 1) - 1 = count
      BY <1>1
    <3>2. QED
      BY <1>1, <3>1 DEF RingInd, RingInv
  <2>2. count + 1 \in 1..count'
    BY <1>1
  <2>3. Items'[count + 1] = buffer'[(head' + ((count + 1) - 1)) % Capacity]
    BY <2>2 DEF Items, Slot
  <2>4. QED
    BY <1>1, <2>1, <2>3
<1>7. ItemsAreSeq /\ ItemsAreSeq'
  BY ItemsType, PTL
<1>8. Items' = Append(Items, hand[p])
  BY <1>1, <1>3, <1>5, <1>6, <1>7 DEF ItemsAreSeq
<1>9. Len(Items) < Capacity
  BY <1>1, <1>7 DEF ItemsAreSeq
<1>10. QED
  BY <1>1, <1>2, <1>8, <1>9 DEF Fifo!Put

LEMMA RefinePop ==
  ASSUME RingInd, RingInd', NEW c \in Consumers, PopTake(c)
  PROVE  Fifo!Get(c)
<1>1. /\ count' = count - 1 /\ buffer' = buffer /\ count \in 1..Capacity
      /\ hand' = [hand EXCEPT ![c] = buffer[head]]
      /\ Capacity \in Nat \ {0} /\ head \in 0..(Capacity - 1)
  BY QueueAssumption DEF PopTake, Oldest, RingInd, TypeOK, Slots
<1>2. hand[c] = None
  BY DEF RingInd, HandInv, PopTake
<1>3. ItemsAreSeq /\ ItemsAreSeq'
  BY ItemsType, PTL
<1>4. Items # << >> /\ Head(Items) = buffer[head]
  <2>1. 1 \in 1..count /\ 1 - 1 = 0 /\ Slot(0) = head
    BY <1>1, WrapNone DEF Slot
  <2>2. Items[1] = buffer[head]
    BY <2>1, <1>3 DEF ItemsAreSeq
  <2>3. QED
    BY <1>1, <1>3, <2>2 DEF ItemsAreSeq
<1>5. \A i \in 1..(count - 1) : Items'[i] = Items[i + 1]
  <2>1. SUFFICES ASSUME NEW i \in 1..(count - 1) PROVE Items'[i] = Items[i + 1]
    OBVIOUS
  <2>2. i \in 1..count' /\ i + 1 \in 1..count /\ (i + 1) - 1 = i
        /\ i - 1 \in 0..(count - 2) /\ (i - 1) + 1 = i
    BY <1>1
  <2>3. Slot(i - 1)' = Slot(i)
    BY <2>2, PopVacates DEF RingInd
  <2>4. Items'[i] = buffer'[Slot(i - 1)']
    BY <2>2 DEF Items
  <2>5. Items[i + 1] = buffer[Slot(i)]
    BY <2>2, <1>3 DEF ItemsAreSeq
  <2>6. QED
    BY <1>1, <2>3, <2>4, <2>5
<1>6. Items' = Tail(Items)
  <2>1. Tail(Items) \in Seq(Message \cup {None}) /\ Len(Tail(Items)) = count - 1
        /\ \A i \in 1..(count - 1) : Tail(Items)[i] = Items[i + 1]
    BY <1>1, <1>3, <1>4 DEF ItemsAreSeq
  <2>2. Items' \in Seq(Message \cup {None}) /\ Len(Items') = count - 1
    BY <1>1, <1>3 DEF ItemsAreSeq
  <2>3. QED
    BY <1>5, <2>1, <2>2
<1>7. QED
  BY <1>1, <1>2, <1>4, <1>6 DEF Fifo!Get

LEMMA RefineStep == RingInd /\ RingInd' /\ [Next]_vars => [Fifo!FifoNext]_(Fifo!fifoVars)
<1> SUFFICES ASSUME RingInd, RingInd', [Next]_vars
             PROVE  [Fifo!FifoNext]_(Fifo!fifoVars)
  OBVIOUS
<1>1. ASSUME NEW p \in Producers, Alloc(p) PROVE [Fifo!FifoNext]_(Fifo!fifoVars)
  <2>1. hand[p] = None
    BY <1>1 DEF RingInd, HandInv, Alloc
  <2>2. Items' = Items
    BY <1>1 DEF Alloc, ring, Items, Slot
  <2>3. PICK m \in Message : hand' = [hand EXCEPT ![p] = m]
    BY <1>1 DEF Alloc, Message
  <2>4. Fifo!Offer(p, m)
    BY <2>1, <2>2, <2>3 DEF Fifo!Offer
  <2>5. QED
    BY <2>4 DEF Fifo!FifoNext
<1>2. ASSUME NEW p \in Producers, PushInsert(p) PROVE [Fifo!FifoNext]_(Fifo!fifoVars)
  BY <1>2, RefinePush DEF Fifo!FifoNext
<1>3. ASSUME NEW c \in Consumers, PopTake(c) PROVE [Fifo!FifoNext]_(Fifo!fifoVars)
  BY <1>3, RefinePop DEF Fifo!FifoNext
<1>4. ASSUME NEW c \in Consumers, Dispatch(c) PROVE [Fifo!FifoNext]_(Fifo!fifoVars)
  <2>1. hand[c] # None /\ hand' = [hand EXCEPT ![c] = None]
    BY <1>4 DEF RingInd, HandInv, Dispatch
  <2>2. Items' = Items
    BY <1>4 DEF Dispatch, ring, Items, Slot
  <2>3. QED
    BY <2>1, <2>2 DEF Fifo!FifoNext, Fifo!Finish
<1>5. CASE UNCHANGED <<ring, hand>>
  BY <1>5 DEF ring, Items, Slot, Fifo!fifoVars
<1>6. QED
  BY <1>1, <1>2, <1>3, <1>4, <1>5
     DEF Next, Locked, SpuriousWakeup, PushWait, PopCall, PopPollEmpty,
         PopWait, Expire, PopExpired, vars, ring

\* The ring buffer implements the abstract queue: whatever the interleaving,
\* messages leave in the order they entered, each once, and never more than
\* Capacity are inside.  (That a nonempty queue is read is left to TLC.)
THEOREM Refinement == Spec => Fifo!FifoSafety
  BY RefineInit, RefineStep, RingIndInvariant, PTL DEF Spec, Fifo!FifoSafety

-----------------------------------------------------------------------------
(* Wakeups                                                                 *)

\* Two facts about sleeping consumers: one that is asleep saw an empty queue,
\* and a message that arrives while somebody sleeps gets somebody up.
LEMMA StepNotEmpty == RingInd /\ NoLostNotEmpty /\ [Next]_vars => NoLostNotEmpty'
<1> SUFFICES ASSUME RingInd, NoLostNotEmpty, [Next]_vars, \A c \in Consumers : pc'[c] = "wait"
             PROVE  count' = 0
  BY DEF NoLostNotEmpty
<1>0. /\ pc \in [Threads -> {"idle", "lock", "wait", "expired", "work"}]
      /\ Producers \cap Consumers = {} /\ Threads = Producers \cup Consumers
      /\ count \in Nat
  BY QueueAssumption DEF RingInd, TypeOK, Threads
<1>1. ASSUME NEW t \in Threads, SpuriousWakeup(t) PROVE count' = 0
  BY <1>0, <1>1 DEF SpuriousWakeup, ring, NoLostNotEmpty
<1>2. ASSUME NEW p \in Producers, Alloc(p) PROVE count' = 0
  BY <1>0, <1>2 DEF Alloc, ring, NoLostNotEmpty
<1>3. ASSUME NEW p \in Producers, PushWait(p) PROVE count' = 0
  BY <1>0, <1>3 DEF PushWait, ring, NoLostNotEmpty
<1>4. ASSUME NEW p \in Producers, PushInsert(p) PROVE count' = 0
  <2>1. CASE WaitNotEmpty = {}
    <3>1. \A c \in Consumers : pc'[c] = pc[c] /\ pc[c] # "wait"
      BY <1>0, <1>4, <2>1 DEF PushInsert, SignalThenGo, WaitNotEmpty
    <3>2. QED
      BY <3>1, QueueAssumption
  <2>2. CASE WaitNotEmpty # {}
    <3>1. PICK w \in WaitNotEmpty :
             pc' = [pc EXCEPT ![p] = "idle", ![w] = IF @ = "wait" THEN "lock" ELSE @]
      BY <1>4, <2>2 DEF PushInsert, SignalThenGo
    <3>2. w \in Consumers /\ pc'[w] # "wait"
      BY <1>0, <3>1 DEF WaitNotEmpty
    <3>3. QED
      BY <3>2
  <2>3. QED
    BY <2>1, <2>2
<1>5. ASSUME NEW c \in Consumers, PopWait(c) PROVE count' = 0
  BY <1>5 DEF PopWait, ring
<1>6. ASSUME NEW c \in Consumers,
             \/ PopCall(c) \/ PopPollEmpty(c) \/ Expire(c) \/ PopExpired(c) \/ Dispatch(c)
      PROVE  count' = 0
  <2>1. pc'[c] # "wait"
    BY <1>0, <1>6 DEF PopCall, PopPollEmpty, Expire, PopExpired, Dispatch
  <2>2. QED
    BY <2>1
<1>7. ASSUME NEW c \in Consumers, PopTake(c) PROVE count' = 0
  <2>1. pc'[c] = "work"
    BY <1>0, <1>7 DEF PopTake, SignalThenGo, WaitNotFull
  <2>2. QED
    BY <2>1
<1>8. CASE UNCHANGED vars
  BY <1>8 DEF vars, NoLostNotEmpty
<1>9. QED
  BY <1>1, <1>2, <1>3, <1>4, <1>5, <1>6, <1>7, <1>8 DEF Next, Locked

LEMMA InitNotEmpty == Init => NoLostNotEmpty
  BY DEF Init, NoLostNotEmpty

\* The consumers never all sleep on a queue that holds a message, although a
\* pop whose deadline passed may have swallowed the signal.
THEOREM NoSleepOnMessages == Spec => []NoLostNotEmpty
  BY InitNotEmpty, StepNotEmpty, RingIndInvariant, PTL DEF Spec

\* What a change of pc does to the number of competing producers.
LEMMA CompetingChange ==
  ASSUME QueueAssumption, NEW q
  PROVE  /\ IsFiniteSet(Competing) /\ Cardinality(Competing) \in Nat
         /\ Competing' = Competing \cup {q} /\ q \notin Competing
              => Cardinality(Competing)' = Cardinality(Competing) + 1
         /\ Competing' = Competing \ {q} /\ q \in Competing
              => Cardinality(Competing)' = Cardinality(Competing) - 1
<1>1. IsFiniteSet(Competing)
  <2>1. Competing \subseteq Producers
    BY DEF Competing
  <2>2. QED
    BY <2>1, FS_Subset DEF QueueAssumption
<1>2. Cardinality(Competing) \in Nat
  BY <1>1, FS_CardinalityType
<1>3. Cardinality(Competing \cup {q}) = IF q \in Competing THEN Cardinality(Competing)
                                                         ELSE Cardinality(Competing) + 1
  BY <1>1, FS_AddElement
<1>4. Cardinality(Competing \ {q}) = IF q \in Competing THEN Cardinality(Competing) - 1
                                                        ELSE Cardinality(Competing)
  BY <1>1, FS_RemoveElement
<1>5. QED
  BY <1>1, <1>2, <1>3, <1>4

LEMMA StepNotFull == RingInd /\ NoLostNotFull /\ [Next]_vars => NoLostNotFull'
<1> SUFFICES ASSUME RingInd, NoLostNotFull, [Next]_vars PROVE NoLostNotFull'
  OBVIOUS
<1>0. /\ pc \in [Threads -> {"idle", "lock", "wait", "expired", "work"}]
      /\ Producers \cap Consumers = {} /\ Threads = Producers \cup Consumers
      /\ count \in 0..Capacity /\ Capacity \in Nat
      /\ Cardinality(Competing) \in Nat
  BY QueueAssumption, CompetingChange DEF RingInd, TypeOK, Threads
<1>1. ASSUME NEW p \in Producers, Alloc(p) \/ SpuriousWakeup(p) PROVE NoLostNotFull'
  <2>1. pc[p] # "lock" /\ pc' = [pc EXCEPT ![p] = "lock"] /\ count' = count
    BY <1>1 DEF Alloc, SpuriousWakeup, ring
  <2>2. Competing' = Competing \cup {p} /\ p \notin Competing
    BY <1>0, <2>1 DEF Competing
  <2>3. Cardinality(Competing)' = Cardinality(Competing) + 1
    BY <2>2, QueueAssumption, CompetingChange
  <2>4. (\E q \in Producers : pc'[q] = "wait") => (\E q \in Producers : pc[q] = "wait")
    BY <1>0, <2>1
  <2>5. QED
    BY <1>0, <2>1, <2>3, <2>4 DEF NoLostNotFull
<1>2. ASSUME NEW p \in Producers, PushWait(p) PROVE NoLostNotFull'
  <2>1. count' = Capacity
    BY <1>2 DEF PushWait, Full, ring
  <2>2. Competing' = Competing \ {p} /\ p \in Competing
    BY <1>0, <1>2 DEF PushWait, Competing
  <2>3. Cardinality(Competing)' = Cardinality(Competing) - 1
    BY <2>2, QueueAssumption, CompetingChange
  <2>4. Cardinality(Competing) >= 1
    BY <2>2, QueueAssumption, <1>0, CompetingChange, FS_EmptySet
  <2>5. QED
    BY <1>0, <2>1, <2>3, <2>4 DEF NoLostNotFull
<1>3. ASSUME NEW p \in Producers, PushInsert(p) PROVE NoLostNotFull'
  <2>1. count' = count + 1
    BY <1>3 DEF PushInsert
  <2>2. /\ pc[p] = "lock" /\ pc'[p] = "idle"
        /\ \A q \in Producers \ {p} : pc'[q] = pc[q]
    BY <1>0, <1>3 DEF PushInsert, SignalThenGo, WaitNotEmpty
  <2>3. Competing' = Competing \ {p} /\ p \in Competing
    BY <2>2 DEF Competing
  <2>4. Cardinality(Competing)' = Cardinality(Competing) - 1
    BY <2>3, QueueAssumption, CompetingChange
  <2>5. (\E q \in Producers : pc'[q] = "wait") => (\E q \in Producers : pc[q] = "wait")
    BY <2>2
  <2>6. QED
    BY <1>0, <2>1, <2>4, <2>5 DEF NoLostNotFull
<1>4. ASSUME NEW c \in Consumers, PopTake(c) PROVE NoLostNotFull'
  <2>1. count' = count - 1
    BY <1>4 DEF PopTake
  <2>2. CASE WaitNotFull = {}
    <3>1. \A q \in Producers : pc'[q] = pc[q] /\ pc[q] # "wait"
      BY <1>0, <1>4, <2>2 DEF PopTake, SignalThenGo, WaitNotFull
    <3>2. QED
      BY <3>1 DEF NoLostNotFull
  <2>3. CASE WaitNotFull # {}
    <3>1. PICK w \in WaitNotFull :
             pc' = [pc EXCEPT ![c] = "work", ![w] = IF @ = "wait" THEN "lock" ELSE @]
      BY <1>4, <2>3 DEF PopTake, SignalThenGo
    <3>2. /\ w \in Producers /\ pc[w] = "wait" /\ pc'[w] = "lock"
          /\ \A q \in Producers \ {w} : pc'[q] = pc[q]
      BY <1>0, <3>1 DEF WaitNotFull
    <3>3. Competing' = Competing \cup {w} /\ w \notin Competing
      BY <3>2 DEF Competing
    <3>4. Cardinality(Competing)' = Cardinality(Competing) + 1
      BY <3>3, QueueAssumption, CompetingChange
    <3>5. QED
      BY <1>0, <2>1, <3>2, <3>4 DEF NoLostNotFull
  <2>4. QED
    BY <2>2, <2>3
<1>5. ASSUME NEW c \in Consumers,
             \/ SpuriousWakeup(c) \/ PopCall(c) \/ PopPollEmpty(c) \/ PopWait(c)
             \/ Expire(c) \/ PopExpired(c) \/ Dispatch(c)
      PROVE  NoLostNotFull'
  <2>1. count' = count /\ \A q \in Producers : pc'[q] = pc[q]
    BY <1>0, <1>5 DEF SpuriousWakeup, PopCall, PopPollEmpty, PopWait, Expire, PopExpired,
                      Dispatch, ring
  <2>2. Competing' = Competing
    BY <2>1 DEF Competing
  <2>3. QED
    BY <2>1, <2>2 DEF NoLostNotFull
<1>6. CASE UNCHANGED vars
  BY <1>6 DEF vars, NoLostNotFull, Competing
<1>7. QED
  BY <1>0, <1>1, <1>2, <1>3, <1>4, <1>5, <1>6 DEF Next, Locked

LEMMA InitNotFull == Init => NoLostNotFull
  BY DEF Init, NoLostNotFull, Threads

\* One signal per pop is enough for any number of producers: while one sleeps,
\* every free slot has an awake producer on its way to it.
THEOREM NoProducerForgotten == Spec => []NoLostNotFull
  BY InitNotFull, StepNotFull, RingIndInvariant, PTL DEF Spec
=============================================================================
