------------------------ MODULE ServiceLoop_proofs ------------------------
(***************************************************************************)
(* Proofs about the service as a whole, for every length of the heartbeat  *)
(* and every capacity of the queue.                                        *)
(***************************************************************************)
EXTENDS ServiceLoop, TLAPS, SequenceTheorems

\* What carries NeverSilent over a step: the MCU has been without a frame for
\* no longer than the idle counter has run, which starts again only with a
\* heartbeat, while commands, lost ports and upgrades leave it alone.
SilenceInd ==
    /\ silence \in Nat /\ heartbeat_counter \in Nat
    /\ silence <= heartbeat_counter
    /\ heartbeat_counter < HeartbeatTicks

LEMMA Ticks == HeartbeatTicks \in Nat \ {0}
  BY ServiceAssumption

LEMMA InitSilence == Init => SilenceInd
  BY Ticks DEF Init, SilenceInd

\* A step that leaves the idle counter alone and the silence as it is, or ends
\* it, keeps the invariant.
LEMMA Quiet ==
  ASSUME SilenceInd, UNCHANGED heartbeat_counter, silence' = silence \/ silence' = 0
  PROVE  SilenceInd'
  BY DEF SilenceInd

LEMMA StepSilence == SilenceInd /\ [Next]_vars => SilenceInd'
<1> SUFFICES ASSUME SilenceInd, [Next]_vars PROVE SilenceInd'
  OBVIOUS
<1>1. CASE Timeout
  <2>1. CASE HeartbeatDue
    BY <1>1, <2>1, Ticks DEF Timeout, SilenceInd
  <2>2. CASE ~HeartbeatDue
    BY <1>1, <2>2, Ticks DEF Timeout, HeartbeatDue, SilenceInd
  <2>3. QED
    BY <2>1, <2>2
<1>2. CASE Create \/ EnsureSucceeds \/ EnsureFails \/ Register \/ Take
  BY <1>2, Quiet DEF Create, EnsureSucceeds, EnsureFails, Register, Take, ticks
<1>3. CASE Dispatch
  BY <1>3, Quiet DEF Dispatch, ticks
<1>4. CASE Callback \/ OnStatus \/ OnMessage \/ IpcIntent \/ Push("ipc") \/ Push("rx")
  BY <1>4, Quiet DEF Callback, Push, ToolCall, OnStatus, ConnectionChanges, OnMessage, IpcIntent, ticks
<1>5. CASE PortOpens \/ PortLost \/ OtaChanges
  BY <1>5, Quiet DEF PortOpens, PortLost, OtaChanges, ticks
<1>6. CASE UNCHANGED vars
  BY <1>6, Quiet DEF vars
<1>7. QED
  BY <1>1, <1>2, <1>3, <1>4, <1>5, <1>6 DEF Next, MainStep

\* However commands, lost ports, upgrades and idle seconds mix, a connected MCU
\* that is not being upgraded gets a frame at least every HeartbeatTicks idle
\* seconds: run_event_loop counts towards the heartbeat across its commands.
THEOREM HeartbeatHolds == Spec => []NeverSilent
<1>1. SilenceInd => NeverSilent
  BY Ticks DEF SilenceInd, NeverSilent
<1>2. QED
  BY <1>1, InitSilence, StepSilence, PTL DEF Spec

-----------------------------------------------------------------------------
(* The order of the cloud's states                                         *)

Names == {"sdk", "ipc", "rx", "main"}

\* What carries LatestStatus over a step: only the SDK's thread has a WIFI_STATE
\* to push.
StatusInd ==
    /\ items \in Seq(Message)
    /\ hand \in [Names -> Message \cup {None}]
    /\ hand["ipc"] \notin Status /\ hand["rx"] \notin Status
    /\ LatestStatus

LEMMA Settings ==
    /\ Threads = Names
    /\ {"dp", "query", "online", "offline"} = Message
    /\ None \notin Status /\ "dp" \notin Status /\ "query" \notin Status
BY ServiceAssumption DEF Threads, Names, Status

LEMMA InitStatus == Init => StatusInd
<1> SUFFICES ASSUME Init PROVE StatusInd
  OBVIOUS
<1>1. items = << >> /\ hand = [t \in Names |-> None] /\ told = "none" /\ cloud = "disconnected"
  BY Settings DEF Init, FifoInit
<1>2. items \in Seq(Message) /\ DOMAIN items = {}
  BY <1>1
<1> QED
  BY <1>1, <1>2, Settings DEF StatusInd, LatestStatus, Names

LEMMA NewestMeans ==
    ASSUME NEW i
    PROVE  NewestFrom(i) <=> /\ hand["sdk"] \notin Status
                             /\ \A j \in i+1..Len(items) : items[j] \notin Status
BY DEF NewestFrom, Behind

\* A thread takes up a message that is no WIFI_STATE; the SDK's only with its
\* hand empty.
LEMMA OtherOffered ==
    ASSUME StatusInd, NEW p \in {"sdk", "ipc", "rx"}, NEW m \in {"dp", "query"}, Offer(p, m),
           UNCHANGED <<cloud, told, missed>>
    PROVE  StatusInd'
<1>1. /\ items' = items /\ hand' \in [Names -> Message \cup {None}]
      /\ hand'["main"] = hand["main"] /\ hand'["ipc"] \notin Status /\ hand'["rx"] \notin Status
      /\ hand["sdk"] \in Status <=> hand'["sdk"] \in Status
      /\ hand["sdk"] \in Status => hand'["sdk"] = hand["sdk"]
  BY Settings DEF Offer, StatusInd, Names
<1>2. \A i : NewestFrom(i)' <=> NewestFrom(i)
  BY <1>1 DEF NewestFrom, Behind
<1> QED
  BY <1>1, <1>2 DEF StatusInd, LatestStatus, Agrees

\* on_status: the newest state is in the SDK's hand, or nothing can be said of it.
LEMMA StateOffered ==
    ASSUME StatusInd, OnStatus PROVE StatusInd'
<1>1. told' = told
  BY DEF OnStatus, ConnectionChanges
<1>2. CASE UNCHANGED fifo /\ missed' = TRUE
  <2>1. \A i : NewestFrom(i)' <=> NewestFrom(i)
    BY <1>2 DEF fifo, NewestFrom, Behind
  <2> QED
    BY <1>1, <1>2, <2>1 DEF fifo, StatusInd, LatestStatus, Agrees
<1>3. CASE Offer("sdk", WifiState(cloud'))
  <2>1. WifiState(cloud') \in Status /\ (WifiState(cloud') = "online" <=> cloud' = "connected")
    BY DEF WifiState, Status
  <2>2. /\ items' = items /\ hand' \in [Names -> Message \cup {None}]
        /\ hand'["sdk"] = WifiState(cloud')
        /\ hand'["ipc"] \notin Status /\ hand'["rx"] \notin Status
    BY <1>3, <2>1, Settings DEF Offer, StatusInd, Names, Status
  <2>3. \A i : ~NewestFrom(i)'
    BY <2>1, <2>2 DEF NewestFrom, Behind
  <2> QED
    BY <2>1, <2>2, <2>3 DEF StatusInd, LatestStatus, Agrees
<1> QED
  BY <1>2, <1>3 DEF OnStatus

\* msg_queue_push puts it behind all others.
LEMMA Queued ==
    ASSUME StatusInd, NEW p \in {"sdk", "ipc", "rx"}, Put(p), UNCHANGED <<cloud, told, missed>>
    PROVE  StatusInd'
<1> DEFINE n == Len(items)
           m == hand[p]
<1>1. m \in Message /\ items' = Append(items, m) /\ n \in Nat
  BY DEF Put, StatusInd, Names
<1>2. /\ items' \in Seq(Message) /\ Len(items') = n + 1 /\ items'[n + 1] = m
      /\ \A j \in 1..n : items'[j] = items[j]
  <2> HIDE DEF m
  <2> QED
    BY <1>1, AppendProperties DEF StatusInd
<1>3. /\ hand' \in [Names -> Message \cup {None}] /\ hand'["main"] = hand["main"]
      /\ hand'["ipc"] \notin Status /\ hand'["rx"] \notin Status
      /\ p = "sdk" => hand'["sdk"] = None
      /\ p # "sdk" => hand'["sdk"] = hand["sdk"] /\ m \notin Status
  BY Settings DEF Put, StatusInd, Names
<1>4. hand["sdk"] \in Status => Agrees(hand["sdk"])
  BY DEF StatusInd, LatestStatus
<1>5. ASSUME NEW i \in 0..n, NewestFrom(i)' PROVE NewestFrom(i)
  <2>1. \A j \in i+1..n+1 : items'[j] \notin Status
    BY <1>2, <1>5, NewestMeans DEF NewestFrom, Behind
  <2>2. \A j \in i+1..n : items[j] \notin Status
    BY <1>1, <1>2, <2>1
  <2>3. m \notin Status
    BY <1>1, <1>2, <2>1
  <2>4. hand'["sdk"] \notin Status
    BY <1>5 DEF NewestFrom, Behind
  <2>5. hand["sdk"] \notin Status
    BY <1>3, <2>3, <2>4
  <2> QED
    BY <2>2, <2>5, NewestMeans
<1>6. hand'["sdk"] \in Status => Agrees(hand["sdk"])' 
  BY <1>3, <1>4, Settings DEF Agrees
<1>7. ASSUME NEW i \in DOMAIN items', items'[i] \in Status, NewestFrom(i)' PROVE Agrees(items[i])'
  <2>1. i \in 1..n+1
    BY <1>2
  <2>2. CASE i = n + 1
    <3>1. p = "sdk" /\ m \in Status
      BY <1>2, <1>3, <1>7, <2>2
    <3> QED
      BY <1>2, <1>4, <2>2, <3>1 DEF Agrees
  <2>3. CASE i \in 1..n
    <3>1. NewestFrom(i) /\ items'[i] = items[i] /\ i \in DOMAIN items
      BY <1>2, <1>5, <1>7, <2>3 DEF StatusInd
    <3> QED
      BY <1>7, <3>1 DEF StatusInd, LatestStatus, Agrees
  <2> QED
    BY <1>1, <2>1, <2>2, <2>3
<1>8. NewestFrom(0)' => NewestFrom(0)
  BY <1>1, <1>5
<1> QED
  BY <1>2, <1>3, <1>6, <1>7, <1>8 DEF StatusInd, LatestStatus, Agrees

\* msg_queue_pop takes the message that all others are behind.
LEMMA Taken ==
    ASSUME StatusInd, Get("main"), UNCHANGED <<cloud, told, missed>>
    PROVE  StatusInd'
<1> DEFINE n == Len(items)
<1>1. items \in Seq(Message) /\ items # << >> /\ n \in Nat \ {0}
  BY EmptySeq DEF Get, StatusInd
<1>2. /\ items' = Tail(items) /\ items' \in Seq(Message) /\ Len(items') = n - 1
      /\ \A j \in 1..n-1 : items'[j] = items[j + 1]
      /\ Head(items) = items[1] /\ items[1] \in Message
  BY <1>1, HeadTailProperties, ElementOfSeq DEF Get
<1>3. /\ hand' \in [Names -> Message \cup {None}] /\ hand["main"] = None
      /\ hand'["main"] = items[1] /\ hand'["sdk"] = hand["sdk"]
      /\ hand'["ipc"] \notin Status /\ hand'["rx"] \notin Status
  BY <1>2 DEF Get, StatusInd, Names
<1>4. ASSUME NEW i \in 0..n-1, NewestFrom(i)' PROVE NewestFrom(i + 1)
  <2>1. hand["sdk"] \notin Status /\ \A j \in i+1..n-1 : items'[j] \notin Status
    BY <1>2, <1>3, <1>4 DEF NewestFrom, Behind
  <2>2. ASSUME NEW j \in (i+1)+1..n PROVE items[j] \notin Status
    <3>1. j - 1 \in i+1..n-1 /\ j - 1 \in 1..n-1 /\ (j - 1) + 1 = j
      BY <1>1
    <3>2. items'[j - 1] = items[(j - 1) + 1]
      BY <1>2, <3>1
    <3> QED
      BY <2>1, <3>1, <3>2
  <2> QED
    BY <2>1, <2>2, NewestMeans
<1>5. \A i \in 1..n : items[i] \in Status /\ NewestFrom(i) => Agrees(items[i])
  BY <1>1 DEF StatusInd, LatestStatus
<1>6. ASSUME NEW i \in DOMAIN items', items'[i] \in Status, NewestFrom(i)' PROVE Agrees(items[i])'
  <2>1. i \in 1..n-1 /\ i \in 0..n-1 /\ i + 1 \in 1..n /\ items'[i] = items[i + 1]
    BY <1>1, <1>2
  <2>2. NewestFrom(i + 1)
    BY <1>4, <1>6, <2>1
  <2> QED
    BY <1>5, <1>6, <2>1, <2>2 DEF Agrees
<1>7. ASSUME NewestFrom(0)'
      PROVE  IF items[1] \in Status THEN Agrees(items[1])
             ELSE \/ told = "lost"
                  \/ told = "none" /\ (missed \/ cloud = "disconnected")
                  \/ told \in Status /\ Agrees(told)
  <2>1. NewestFrom(1)
    <3>1. 0 \in 0..n-1
      BY <1>1
    <3>2. NewestFrom(0 + 1)
      BY <1>4, <1>7, <3>1
    <3> QED
      BY <3>2
  <2>2. CASE items[1] \in Status
    BY <1>1, <1>5, <2>1, <2>2
  <2>3. CASE items[1] \notin Status
    <3>1. NewestFrom(0)
      <4>1. hand["sdk"] \notin Status /\ \A j \in 1+1..n : items[j] \notin Status
        BY <2>1, NewestMeans
      <4>2. \A j \in 0+1..n : items[j] \notin Status
        BY <1>1, <2>3, <4>1
      <4> QED
        BY <4>1, <4>2, NewestMeans
    <3>2. hand["main"] \notin Status
      BY <1>3, Settings
    <3> QED
      BY <2>3, <3>1, <3>2 DEF StatusInd, LatestStatus
  <2> QED
    BY <2>2, <2>3
<1> QED
  BY <1>2, <1>3, <1>6, <1>7 DEF StatusInd, LatestStatus, Agrees

\* run_event_loop is done with a message.
LEMMA Dispatched ==
    ASSUME StatusInd, Dispatch PROVE StatusInd'
<1>1. /\ items' = items /\ hand' \in [Names -> Message \cup {None}] /\ cloud' = cloud /\ missed' = missed
      /\ hand'["main"] \notin Status /\ hand'["sdk"] = hand["sdk"]
      /\ hand'["ipc"] \notin Status /\ hand'["rx"] \notin Status
  BY Settings DEF Dispatch, Finish, sdkVars, StatusInd, Names
<1>2. \A i : NewestFrom(i)' <=> NewestFrom(i)
  BY <1>1 DEF NewestFrom, Behind
<1>3. \/ hand["main"] \in Status /\ told' \in {hand["main"], "lost"}
      \/ hand["main"] \notin Status /\ told' = told
  BY DEF Dispatch, Status
<1> QED
  BY <1>1, <1>2, <1>3 DEF StatusInd, LatestStatus, Agrees

LEMMA StepStatus == StatusInd /\ [Next]_vars => StatusInd'
<1> SUFFICES ASSUME StatusInd, [Next]_vars PROVE StatusInd'
  OBVIOUS
<1>1. ASSUME UNCHANGED <<items, hand, cloud, told, missed>> PROVE StatusInd'
  BY <1>1 DEF StatusInd, LatestStatus, NewestFrom, Behind, Agrees
<1>2. CASE Create \/ EnsureSucceeds \/ EnsureFails \/ Register \/ Timeout \/ OnMessage
           \/ PortLost \/ OtaChanges \/ UNCHANGED vars
  BY <1>1, <1>2 DEF Create, EnsureSucceeds, EnsureFails, Register, Timeout, OnMessage, PortLost,
     OtaChanges, vars, fifo, sdkVars
<1>3. CASE Take
  BY <1>3, Taken DEF Take, sdkVars
<1>4. CASE Dispatch
  BY <1>4, Dispatched
<1>5. CASE OnStatus
  BY <1>5, StateOffered
<1>6. CASE Push("sdk") \/ Push("ipc") \/ Push("rx")
  BY <1>6, Queued DEF Push, sdkVars
<1>7. CASE ToolCall
  <2>1. UNCHANGED <<cloud, told, missed>> /\ (Offer("sdk", "dp") \/ UNCHANGED fifo)
    BY <1>7 DEF ToolCall
  <2> QED
    BY <1>1, <2>1, OtherOffered DEF fifo
<1>8. CASE IpcIntent \/ PortOpens
  BY <1>8, OtherOffered DEF IpcIntent, PortOpens, sdkVars
<1> QED
  BY <1>2, <1>3, <1>4, <1>5, <1>6, <1>7, <1>8 DEF Next, MainStep, Callback

\* Whatever the queue holds and whoever waits for it, the newest state of the
\* cloud connection is the last WIFI_STATE on its way to the MCU: on_status and
\* the queue keep the order.
THEOREM NewestStateLast == Spec => []LatestStatus
<1>1. StatusInd => LatestStatus
  BY DEF StatusInd
<1> QED
  BY <1>1, InitStatus, StepStatus, PTL DEF Spec
=============================================================================
