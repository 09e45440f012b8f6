------------------------------ MODULE MsgQueue ------------------------------
(***************************************************************************)
(* The system message queue of main_service (src/queue.c, inc/queue.h): a  *)
(* ring buffer under one mutex with two condition variables.  Producers    *)
(* are the UART, IPC and SDK callback threads, the consumer is the main    *)
(* thread's event loop.                                                    *)
(*                                                                         *)
(* All shared fields are read and written with q->lock held, so what a     *)
(* thread does between taking the lock and releasing it (by unlock, or by  *)
(* waiting on a condition variable) is one action.  The interleavings that *)
(* remain are the real ones: who gets the lock next, who is woken, and     *)
(* when a timed wait runs out.                                             *)
(*                                                                         *)
(* A message is its payload: an address malloc'd by the producer and freed *)
(* by the consumer after dispatch, or Null (SystemMsg.data == NULL).       *)
(***************************************************************************)
EXTENDS Integers, FiniteSets

CONSTANTS Producers,  \* threads that call msg_queue_push
          Consumers,  \* threads that call msg_queue_pop
          Capacity,   \* q->capacity
          Payloads,   \* heap addresses malloc may return
          Timeouts,   \* the kinds of timeout_ms callers pass
          Null,       \* data == NULL
          None        \* no message: an empty hand, a slot never written

Threads == Producers \cup Consumers
Message == Payloads \cup {Null}

ASSUME QueueAssumption ==
    /\ Capacity \in Nat \ {0}
    /\ Producers \cap Consumers = {}
    /\ IsFiniteSet(Producers)
    /\ Consumers # {}
    /\ Null \notin Payloads
    /\ None \notin Message
    /\ Timeouts \subseteq {"poll", "forever", "timed"}

VARIABLES buffer,     \* q->buffer
          head,       \* q->head
          tail,       \* q->tail
          count,      \* q->count
          pc,         \* where each thread is
          timeout,    \* the timeout_ms of each consumer's current call
          hand,       \* the message a thread is pushing or has popped
          live        \* payloads allocated and not yet freed

ring == <<buffer, head, tail, count>>
vars == <<buffer, head, tail, count, pc, timeout, hand, live>>

\* msg_queue_init: the buffer is malloc'd and not initialized.
Init ==
    /\ buffer = [i \in 0..(Capacity - 1) |-> None]
    /\ head = 0
    /\ tail = 0
    /\ count = 0
    /\ pc = [t \in Threads |-> "idle"]
    /\ timeout \in [Consumers -> Timeouts]
    /\ hand = [t \in Threads |-> None]
    /\ live = {}

-----------------------------------------------------------------------------
(* The tests and index arithmetic of push and pop.  An operator named       *)
(* ..._Wrong is a plausible mistake in the definition that follows it; the  *)
(* specification never uses it, the mutants of PROJECT.json do.             *)

Full_Wrong == count > Capacity
Full == count = Capacity

Advance(i) == (i + 1) % Capacity

Oldest_AfterAdvance == buffer[Advance(head)]
Oldest == buffer[head]

-----------------------------------------------------------------------------
(* Condition variables.                                                    *)

WaitNotFull_OnlyIfFull == {p \in Producers : pc[p] = "wait" /\ count = Capacity}

\* The threads a signal on q->not_full may reach.
WaitNotFull == {p \in Producers : pc[p] = "wait"}

\* The threads a signal on q->not_empty may reach.  A timed wait that has just
\* expired may still consume a signal sent before it holds the lock again.
WaitNotEmpty == {c \in Consumers : pc[c] \in {"wait", "expired"}}

SignalThenGo_Forgotten(t, waiters, next) == pc' = [pc EXCEPT ![t] = next]

\* pthread_cond_signal by thread t, which then goes on at next.  A woken thread
\* competes for the lock; an expired one swallows the signal.
SignalThenGo(t, waiters, next) ==
    IF waiters = {}
    THEN pc' = [pc EXCEPT ![t] = next]
    ELSE \E w \in waiters :
           pc' = [pc EXCEPT ![t] = next,
                            ![w] = IF @ = "wait" THEN "lock" ELSE @]

\* A condition wait may return without a signal.
SpuriousWakeup(t) ==
    /\ pc[t] = "wait"
    /\ pc' = [pc EXCEPT ![t] = "lock"]
    /\ UNCHANGED <<ring, timeout, hand, live>>

-----------------------------------------------------------------------------
(* msg_queue_push                                                          *)

\* A caller builds a message: malloc returns an address not in use, or the
\* message carries no data.
Alloc(p) ==
    /\ pc[p] = "idle"
    /\ \E m \in (Payloads \ live) \cup {Null} :
         /\ hand' = [hand EXCEPT ![p] = m]
         /\ live' = live \cup ({m} \cap Payloads)
    /\ pc' = [pc EXCEPT ![p] = "lock"]
    /\ UNCHANGED <<ring, timeout>>

\* The queue is full: wait on not_full, which releases the lock.
PushWait(p) ==
    /\ pc[p] = "lock"
    /\ Full
    /\ pc' = [pc EXCEPT ![p] = "wait"]
    /\ UNCHANGED <<ring, timeout, hand, live>>

\* There is room: copy the message into the ring, which now owns its payload.
PushInsert(p) ==
    /\ pc[p] = "lock"
    /\ ~Full
    /\ buffer' = [buffer EXCEPT ![tail] = hand[p]]
    /\ tail' = Advance(tail)
    /\ count' = count + 1
    /\ hand' = [hand EXCEPT ![p] = None]
    /\ SignalThenGo(p, WaitNotEmpty, "idle")
    /\ UNCHANGED <<head, timeout, live>>

-----------------------------------------------------------------------------
(* msg_queue_pop                                                           *)

\* A call with some timeout_ms: 0 polls, < 0 waits for ever, > 0 is a deadline.
PopCall(c) ==
    /\ pc[c] = "idle"
    /\ timeout' \in {[timeout EXCEPT ![c] = k] : k \in Timeouts}
    /\ pc' = [pc EXCEPT ![c] = "lock"]
    /\ UNCHANGED <<ring, hand, live>>

\* timeout_ms == 0 and nothing there: return -1.
PopPollEmpty(c) ==
    /\ pc[c] = "lock"
    /\ count = 0
    /\ timeout[c] = "poll"
    /\ pc' = [pc EXCEPT ![c] = "idle"]
    /\ UNCHANGED <<ring, timeout, hand, live>>

\* Nothing there: wait on not_empty, with a deadline or without.
PopWait(c) ==
    /\ pc[c] = "lock"
    /\ count = 0
    /\ timeout[c] # "poll"
    /\ pc' = [pc EXCEPT ![c] = "wait"]
    /\ UNCHANGED <<ring, timeout, hand, live>>

\* The deadline passes while waiting.  The thread still has to get the lock.
Expire(c) ==
    /\ pc[c] = "wait"
    /\ timeout[c] = "timed"
    /\ pc' = [pc EXCEPT ![c] = "expired"]
    /\ UNCHANGED <<ring, timeout, hand, live>>

\* pthread_cond_timedwait returned ETIMEDOUT: return -1 whatever count is now.
PopExpired(c) ==
    /\ pc[c] = "expired"
    /\ pc' = [pc EXCEPT ![c] = "idle"]
    /\ UNCHANGED <<ring, timeout, hand, live>>

\* Take the oldest message and signal one waiting producer.
PopTake(c) ==
    /\ pc[c] = "lock"
    /\ count # 0
    /\ hand' = [hand EXCEPT ![c] = Oldest]
    /\ head' = Advance(head)
    /\ count' = count - 1
    /\ SignalThenGo(c, WaitNotFull, "work")
    /\ UNCHANGED <<buffer, tail, timeout, live>>

Dispatch_NoFree(c) ==
    /\ pc[c] = "work"
    /\ hand' = [hand EXCEPT ![c] = None]
    /\ pc' = [pc EXCEPT ![c] = "idle"]
    /\ UNCHANGED <<ring, timeout, live>>

\* run_event_loop is done with the message and frees its payload.
Dispatch(c) ==
    /\ pc[c] = "work"
    /\ live' = live \ {hand[c]}
    /\ hand' = [hand EXCEPT ![c] = None]
    /\ pc' = [pc EXCEPT ![c] = "idle"]
    /\ UNCHANGED <<ring, timeout>>

-----------------------------------------------------------------------------

\* The part of push and pop that runs with the lock held.
Locked(t) ==
    \/ t \in Producers /\ (PushWait(t) \/ PushInsert(t))
    \/ t \in Consumers /\ (PopPollEmpty(t) \/ PopWait(t) \/ PopExpired(t) \/ PopTake(t))

Next ==
    \/ \E t \in Threads : Locked(t) \/ SpuriousWakeup(t)
    \/ \E p \in Producers : Alloc(p)
    \/ \E c \in Consumers : PopCall(c) \/ Expire(c) \/ Dispatch(c)

\* A consumer keeps calling pop (the event loop is while (1)), its deadlines
\* pass, and a thread that competes for the lock gets it: producers hold it for
\* a bounded time and at most Capacity of them succeed before they must wait.
\* No producer has to call push, and no producer is promised the lock first.
Fairness ==
    /\ \A t \in Threads : WF_vars(Locked(t))
    /\ \A c \in Consumers : WF_vars(PopCall(c)) /\ WF_vars(Expire(c)) /\ WF_vars(Dispatch(c))

Spec == Init /\ [][Next]_vars
FairSpec == Spec /\ Fairness

-----------------------------------------------------------------------------
(* Properties                                                              *)

Slots == 0..(Capacity - 1)

\* The slot of the i-th oldest message, counted from 0.
Slot(i) == (head + i) % Capacity

Occupied == {Slot(i) : i \in 0..(count - 1)}

\* Every variable has its type: the indices stay inside the buffer and count
\* never leaves 0..capacity.
TypeOK ==
    /\ buffer \in [Slots -> Message \cup {None}]
    /\ head \in Slots
    /\ tail \in Slots
    /\ count \in 0..Capacity
    /\ pc \in [Threads -> {"idle", "lock", "wait", "expired", "work"}]
    /\ timeout \in [Consumers -> Timeouts]
    /\ hand \in [Threads -> Message \cup {None}]
    /\ live \subseteq Payloads

\* The three indices agree: tail is where the ring ends, and a slot that counts
\* as occupied has been written (push's wrap-around and pop's wrap-around).
RingInv ==
    /\ tail = (head + count) % Capacity
    /\ \A i \in Occupied : buffer[i] # None

\* Who holds payload m: a thread's hand or an occupied slot.
Owners(m) ==
    {<<"hand", t>> : t \in {u \in Threads : hand[u] = m}}
      \cup {<<"slot", i>> : i \in {j \in Occupied : buffer[j] = m}}

\* Each allocated payload has exactly one owner, and a freed one has none: no
\* leak, no double free, no use after free along push, ring, pop and free,
\* although pop leaves the stale pointer in its slot.
OneOwner ==
    \A m \in Payloads :
        IF m \in live THEN \E o \in Owners(m) : Owners(m) = {o}
                      ELSE Owners(m) = {}

\* The producers that are awake inside push.
Competing == {p \in Producers : pc[p] = "lock"}

\* pop's single signal per message is enough: while a producer sleeps, at least
\* as many producers as there are free slots are awake and on their way.
NoLostNotFull ==
    (\E p \in Producers : pc[p] = "wait")
      => Cardinality(Competing) >= Capacity - count

\* push's signal is enough: the consumers are never all asleep with a message
\* in the queue, expired waiters that swallow a signal included.
NoLostNotEmpty ==
    (\A c \in Consumers : pc[c] = "wait") => count = 0

\* The ring, read from the oldest message on, is the abstract queue.
Items == [i \in 1..count |-> buffer[Slot(i - 1)]]

Fifo == INSTANCE BoundedFifo WITH items <- Items

\* Every queued message leaves in the order it entered, once, and none appears
\* that was not pushed; a queue that holds something is eventually read.
ImplementsFifo == Fifo!FifoSpec

\* A payload that reached the ring is freed after dispatch, whatever the
\* timeouts, the spurious wakeups and the order in which threads get the lock.
QueuedIsFreed ==
    \A m \in Payloads : (\E i \in Occupied : buffer[i] = m) ~> (m \notin live)

=============================================================================
