---------------------------- MODULE BoundedFifo ----------------------------
(***************************************************************************)
(* What main_service promises of its message queue (inc/queue.h): a first- *)
(* in first-out buffer of at most Capacity messages.  A writer hands one   *)
(* message over and keeps nothing, a reader takes the oldest one.          *)
(* hand[t] is the message thread t holds at this moment.                   *)
(***************************************************************************)
EXTENDS Naturals, Sequences

CONSTANTS Producers,  \* threads that push
          Consumers,  \* threads that pop
          Message,    \* every message value
          Capacity,   \* slots of the queue
          None        \* "no message in this hand"

VARIABLES items,      \* the queued messages, oldest first
          hand        \* the message each thread holds, or None

fifoVars == <<items, hand>>

Threads == Producers \cup Consumers

FifoInit ==
    /\ items = << >>
    /\ hand = [t \in Threads |-> None]

\* A writer prepares the message it is going to push.
Offer(p, m) ==
    /\ hand[p] = None
    /\ hand' = [hand EXCEPT ![p] = m]
    /\ UNCHANGED items

\* The message moves from the writer to the end of a queue that has room.
Put(p) ==
    /\ hand[p] # None
    /\ Len(items) < Capacity
    /\ items' = Append(items, hand[p])
    /\ hand' = [hand EXCEPT ![p] = None]

\* The oldest message moves to a reader.
Get(c) ==
    /\ hand[c] = None
    /\ items # << >>
    /\ hand' = [hand EXCEPT ![c] = Head(items)]
    /\ items' = Tail(items)

\* A reader is done with its message.
Finish(c) ==
    /\ hand[c] # None
    /\ hand' = [hand EXCEPT ![c] = None]
    /\ UNCHANGED items

FifoNext ==
    \/ \E p \in Producers : (\E m \in Message : Offer(p, m)) \/ Put(p)
    \/ \E c \in Consumers : Get(c) \/ Finish(c)

\* The safety part: order, capacity, no loss, no duplication, no invention.
FifoSafety == FifoInit /\ [][FifoNext]_fifoVars

\* The whole promise: a queue that is not empty is eventually read, and every
\* message taken is eventually finished with.
FifoSpec ==
    /\ FifoSafety
    /\ WF_fifoVars(\E c \in Consumers : Get(c))
    /\ \A c \in Consumers : WF_fifoVars(Finish(c))
=============================================================================
