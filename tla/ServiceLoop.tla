---------------------------- MODULE ServiceLoop ----------------------------
(***************************************************************************)
(* The service as a whole (main_service/main.c): the threads that produce  *)
(* commands, the queue between them and the main thread, and the main      *)
(* thread, which first connects to the cloud and only then begins to read  *)
(* the queue and to send to the MCU.                                       *)
(*                                                                         *)
(* The queue is BoundedFifo, which MsgQueue implements.  The cloud SDK is  *)
(* a library: it calls back from one thread of its own, one call at a      *)
(* time.  A message stands for the command it carries; the two values of   *)
(* CMD_WIFI_STATE are "online" (0x04) and "offline" (0x01).                *)
(***************************************************************************)
EXTENDS BoundedFifo

CONSTANTS HeartbeatTicks,   \* 10, main.c:96
          TestTicks,        \* 15, main.c:104
          MaxCalls          \* bound: tool calls of one message of the cloud

ASSUME ServiceAssumption ==
    /\ {HeartbeatTicks, TestTicks, MaxCalls} \subseteq Nat \ {0}
    /\ Producers = {"sdk", "ipc", "rx"} /\ Consumers = {"main"}
    /\ Message = {"dp", "query", "online", "offline"}
    /\ None \notin Message
    /\ Capacity \in Nat \ {0}

VARIABLES main,        \* how far the main thread is
          client,      \* agentCreateClient has succeeded
          cloud,       \* the SDK's connection
          registered,  \* the cloud has our descriptors: "never", "now", or
                       \* "before", in a session that has ended
          calls,       \* tool calls on_message has still to execute
          port,        \* the serial port is open
          ota,         \* is_ota_in_progress
          heartbeat_counter, test_counter,
          silence,     \* idle seconds since the MCU last got a frame
          told,        \* the last WIFI_STATE that left the queue: "none" yet,
                       \* what the MCU was told, or "lost"
          missed       \* on_status had no memory for the last change

fifo == <<items, hand>>
sdkVars == <<client, cloud, calls>>
ticks == <<heartbeat_counter, test_counter>>
line == <<port, ota>>
vars == <<items, hand, main, client, cloud, registered, calls, port, ota,
          heartbeat_counter, test_counter, silence, told, missed>>

Init ==
    /\ FifoInit
    /\ main = "create"
    /\ client = FALSE
    /\ cloud = "disconnected" /\ registered = "never" /\ calls = 0
    /\ port = FALSE /\ ota \in BOOLEAN
    /\ heartbeat_counter = 0 /\ test_counter = 0
    /\ silence = 0
    /\ told = "none"
    /\ missed = FALSE

-----------------------------------------------------------------------------
(* The main thread, starting: init_system and cloud_llm_init               *)

\* agentCreateClient; without a client the service runs on.
Create ==
    /\ main = "create"
    /\ \/ main' = "connect" /\ client' = TRUE
       \/ main' = "loop" /\ UNCHANGED client
    /\ UNCHANGED <<fifo, cloud, registered, calls, line, ticks, silence, told, missed>>

\* agentEnsureAuthorizedConnection returns: connected, ...
EnsureSucceeds ==
    /\ main = "connect"
    /\ cloud = "connected"
    /\ main' = "register"
    /\ UNCHANGED <<fifo, sdkVars, registered, line, ticks, silence, told, missed>>

EnsureFails_Retries ==
    /\ main = "connect"
    /\ cloud # "connected"
    /\ UNCHANGED vars

\* ... or with an error or a timeout, after which nobody tries again.
EnsureFails ==
    /\ main = "connect"
    /\ main' = "loop"
    /\ UNCHANGED <<fifo, sdkVars, registered, line, ticks, silence, told, missed>>

\* cloud_llm_register_iot_capabilities; its result is not looked at.
Register ==
    /\ main = "register"
    /\ registered' = IF cloud = "connected" THEN "now" ELSE registered
    /\ main' = "loop"
    /\ UNCHANGED <<fifo, sdkVars, line, ticks, silence, told, missed>>

-----------------------------------------------------------------------------
(* The main thread's loop: run_event_loop                                  *)

\* msg_queue_pop returns a message.
Take ==
    /\ main = "loop"
    /\ Get("main")
    /\ UNCHANGED <<main, sdkVars, registered, line, ticks, silence, told, missed>>

\* During an upgrade the commands are dropped, and without a port as well.
Sent == ~ota /\ port

Dispatch ==
    /\ Finish("main")
    /\ LET msg == hand["main"] IN
       /\ silence' = IF Sent THEN 0 ELSE silence
       /\ told' = IF msg \in {"online", "offline"}
                    THEN IF Sent THEN msg ELSE "lost"
                    ELSE told
    /\ UNCHANGED <<main, sdkVars, registered, line, ticks, missed>>

HeartbeatDue_Late == heartbeat_counter + 1 > HeartbeatTicks

HeartbeatDue == heartbeat_counter + 1 >= HeartbeatTicks
TestDue == test_counter + 1 >= TestTicks

\* msg_queue_pop times out after a second without a message.
Timeout ==
    /\ main = "loop" /\ hand["main"] = None
    /\ items = << >>
    /\ heartbeat_counter' = IF HeartbeatDue THEN 0 ELSE heartbeat_counter + 1
    /\ test_counter' = IF TestDue THEN 0 ELSE test_counter + 1
    /\ silence' = IF HeartbeatDue \/ ~port \/ ota THEN 0 ELSE silence + 1
    /\ UNCHANGED <<fifo, main, sdkVars, registered, line, told, missed>>

-----------------------------------------------------------------------------
(* The SDK's thread                                                        *)

InCallback == hand["sdk"] # None \/ calls > 0

WifiState_ConnectingIsOnline(s) == IF s = "disconnected" THEN "offline" ELSE "online"

WifiState(s) == IF s = "connected" THEN "online" ELSE "offline"

\* What the SDK does before it calls on_status.
ConnectionChanges ==
    /\ client /\ ~InCallback
    /\ cloud' \in {"disconnected", "connecting", "connected"} \ {cloud}
    /\ registered' = IF cloud = "connected" /\ registered = "now" THEN "before" ELSE registered
    /\ UNCHANGED <<main, client, calls, line, ticks, silence, told>>

OnStatus_NoWait ==
    /\ ConnectionChanges
    /\ IF Len(items) < Capacity THEN Offer("sdk", WifiState(cloud')) ELSE UNCHANGED fifo
    /\ missed' = FALSE

\* The connection changes and on_status queues WIFI_STATE, if malloc has a byte
\* for it.
OnStatus ==
    /\ ConnectionChanges
    /\ \/ Offer("sdk", WifiState(cloud')) /\ missed' = FALSE
       \/ UNCHANGED fifo /\ missed' = TRUE

\* A message with tool calls arrives and the SDK calls on_message.
OnMessage ==
    /\ cloud = "connected" /\ ~InCallback
    /\ calls' \in 1..MaxCalls
    /\ UNCHANGED <<fifo, main, client, cloud, registered, line, ticks, silence, told, missed>>

\* execute_iot_tool_calls: the next call is a command, or is skipped.
ToolCall ==
    /\ calls > 0 /\ hand["sdk"] = None
    /\ calls' = calls - 1
    /\ Offer("sdk", "dp") \/ UNCHANGED fifo
    /\ UNCHANGED <<main, client, cloud, registered, line, ticks, silence, told, missed>>

-----------------------------------------------------------------------------
(* The other threads                                                       *)

\* The IPC server gets an intent.
IpcIntent ==
    /\ Offer("ipc", "dp")
    /\ UNCHANGED <<main, sdkVars, registered, line, ticks, silence, told, missed>>

\* msg_queue_push returns; until there is room it waits.
Push(p) ==
    /\ Put(p)
    /\ UNCHANGED <<main, sdkVars, registered, line, ticks, silence, told, missed>>

\* The receive thread opens the port and asks for the MCU's state, ...
PortOpens ==
    /\ ~port
    /\ port' = TRUE
    /\ Offer("rx", "query")
    /\ silence' = 0
    /\ UNCHANGED <<main, sdkVars, registered, ota, ticks, told, missed>>

\* ... and closes it when it cannot be read.
PortLost ==
    /\ port /\ hand["rx"] = None
    /\ port' = FALSE
    /\ silence' = 0
    /\ UNCHANGED <<fifo, main, sdkVars, registered, ota, ticks, told, missed>>

\* An upgrade begins or ends.
OtaChanges ==
    /\ ota' = ~ota
    /\ silence' = 0
    /\ UNCHANGED <<fifo, main, sdkVars, registered, port, ticks, told, missed>>

-----------------------------------------------------------------------------

MainStep == Create \/ EnsureSucceeds \/ EnsureFails \/ Register \/ Take \/ Dispatch \/ Timeout
Callback == Push("sdk") \/ ToolCall
Next == \/ MainStep \/ Callback \/ OnStatus \/ OnMessage
        \/ IpcIntent \/ Push("ipc")
        \/ PortOpens \/ PortLost \/ Push("rx")
        \/ OtaChanges

Spec == Init /\ [][Next]_vars

\* The threads run.  agentEnsureAuthorizedConnection returns (cloud_llm.c:355).
\* A producer gets the room it waits for if there is room again and again:
\* the others are at most two, and wait in the same line.
FairSpec ==
    /\ Spec
    /\ WF_vars(MainStep)
    /\ WF_vars(ToolCall)
    /\ \A p \in Producers : SF_vars(Push(p))

-----------------------------------------------------------------------------
(* Properties                                                              *)

\* However commands and idle seconds mix, once the loop runs, an MCU that is connected and not
\* being upgraded is never left without a frame for HeartbeatTicks seconds: the
\* idle counter runs on over commands, so at its end something was sent.
NeverSilent == silence < HeartbeatTicks

Status == {"online", "offline"}

\* A WIFI_STATE says how the cloud connection is, as far as on_status could tell
\* of its last change.
Agrees(msg) == missed \/ (msg = "online" <=> cloud = "connected")

\* The messages behind slot i of the queue; all of them are behind slot 0.
Behind(i) == {items[j] : j \in i+1..Len(items)} \cup {hand["sdk"]}
NewestFrom(i) == Behind(i) \cap Status = {}

\* The newest WIFI_STATE on its way says how the cloud connection is, and if
\* none is on its way the MCU was told so, or the message is lost: an older
\* state never overtakes a newer one.
LatestStatus ==
    /\ hand["sdk"] \in Status => Agrees(hand["sdk"])
    /\ \A i \in DOMAIN items : items[i] \in Status /\ NewestFrom(i) => Agrees(items[i])
    /\ NewestFrom(0) =>
          IF hand["main"] \in Status THEN Agrees(hand["main"])
          ELSE \/ told = "lost"
               \/ told = "none" /\ (missed \/ cloud = "disconnected")
               \/ told \in Status /\ Agrees(told)

\* If the last WIFI_STATE is not lost to an upgrade, a closed port or a want of
\* memory, the MCU is told of the cloud connection it is left with.
StatusConverges ==
    <>[](told # "lost" /\ ~missed)
        => /\ <>[](cloud = "connected") => <>[](told = "online")
           /\ <>[](cloud = "connecting") => <>[](told = "offline")

\* Every callback of the SDK, every intent of the IPC client and the receive
\* thread get their message into the queue: start-up ends, whatever the cloud
\* does, and the loop drains the queue.
CallersReturn == \A p \in Producers : hand[p] # None ~> hand[p] = None

=============================================================================
