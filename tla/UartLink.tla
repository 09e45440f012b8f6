------------------------------ MODULE UartLink ------------------------------
(***************************************************************************)
(* The serial port (main_service/src/tuya_protocol.c, lines 298-416).  The *)
(* receive thread opens it, asks the MCU for its state, reads it, closes   *)
(* it when a read fails and starts again; the main thread sends commands.  *)
(* They share the descriptor g_uart_fd without a lock.                     *)
(*                                                                         *)
(* Descriptors are the kernel's: open and accept return the lowest one     *)
(* that is free, and another thread (the IPC server) takes and returns     *)
(* them as well.  Frames are named by what they are for.                   *)
(***************************************************************************)
EXTENDS Integers, Sequences, FiniteSets

CONSTANTS Fds,        \* descriptors the process has left
          Capacity    \* slots of g_sys_queue

ASSUME UartAssumption ==
    /\ Fds \subseteq Nat \ {0} /\ IsFiniteSet(Fds)
    /\ Capacity \in Nat \ {0}

None == -1

VARIABLES g_uart_fd,  \* the port's descriptor, or None
          fds,        \* what each descriptor refers to: "free", "uart", "client"
          device,     \* the port's device file is there
          hup,        \* the open port is dead: reads fail
          raw,        \* the open port is configured
          rx,         \* where the receive thread is
          main,       \* where the main thread is
          frame, fd,  \* what tuya_send_cmd sends on the main thread, and where
          queue,      \* g_sys_queue
          ota,        \* is_ota_in_progress()
          asked       \* DP_QUERY and the port as it is open now: "no", "yes" for
                      \* "the MCU has got one", "dropped" for "taken in an upgrade"

port == <<g_uart_fd, fds, device, hup, raw>>
mainVars == <<main, frame, fd>>
vars == <<g_uart_fd, fds, device, hup, raw, rx, main, frame, fd, queue, ota, asked>>

Init ==
    /\ g_uart_fd = None
    /\ fds = [f \in Fds |-> "free"]
    /\ device \in BOOLEAN
    /\ hup = FALSE
    /\ raw = FALSE
    /\ rx = "top"
    /\ main = "idle"
    /\ frame = "none" /\ fd = None
    /\ queue = << >>
    /\ ota \in BOOLEAN
    /\ asked = "no"

Free == {f \in Fds : fds[f] = "free"}

\* open and accept return f.
Allocate(f, use) ==
    /\ f \in Free /\ \A g \in Free : f <= g
    /\ fds' = [fds EXCEPT ![f] = use]

-----------------------------------------------------------------------------
(* uart_rx_thread                                                          *)

\* The top of the loop with an open port.
RxContinue ==
    /\ rx = "top"
    /\ g_uart_fd > 0
    /\ rx' = "read"
    /\ UNCHANGED <<port, mainVars, queue, ota, asked>>

\* open: from here on the other threads see the descriptor.
RxOpen ==
    /\ rx = "top"
    /\ g_uart_fd <= 0
    /\ device
    /\ \E f \in Fds : Allocate(f, "uart") /\ g_uart_fd' = f
    /\ hup' = FALSE /\ raw' = FALSE /\ asked' = "no"
    /\ rx' = "configure"
    /\ UNCHANGED <<device, mainVars, queue, ota>>

\* configure_uart_fd
RxConfigure ==
    /\ rx = "configure"
    /\ ~hup
    /\ raw' = TRUE
    /\ rx' = "query"
    /\ UNCHANGED <<g_uart_fd, fds, device, hup, mainVars, queue, ota, asked>>

CloseFd(f) == fds' = [fds EXCEPT ![f] = "free"]

RxConfigureFails_NoClose ==
    /\ rx = "configure"
    /\ hup
    /\ rx' = "clear"
    /\ UNCHANGED <<port, mainVars, queue, ota, asked>>

\* tcgetattr or tcsetattr fails: the port is closed, ...
RxConfigureFails ==
    /\ rx = "configure"
    /\ hup
    /\ CloseFd(g_uart_fd)
    /\ rx' = "clear"
    /\ UNCHANGED <<g_uart_fd, device, hup, raw, mainVars, queue, ota, asked>>

RxQuery_Forgotten ==
    /\ rx = "query"
    /\ rx' = "read"
    /\ UNCHANGED <<port, mainVars, queue, ota, asked>>

\* DP_QUERY goes into the queue, which may have to drain first.
RxQuery ==
    /\ rx = "query"
    /\ Len(queue) < Capacity
    /\ queue' = Append(queue, "query")
    /\ rx' = "read"
    /\ UNCHANGED <<port, mainVars, ota, asked>>

\* read: no data, or frames whose handlers only log; or the reply of an
\* upgrade, whose handler sends the next packet.
RxRead ==
    /\ rx = "read"
    /\ ~hup /\ fds[g_uart_fd] = "uart"
    /\ rx' \in {"top", "send"}
    /\ UNCHANGED <<port, mainVars, queue, ota, asked>>

\* ota_handler's call of tuya_send_cmd
RxSend ==
    /\ rx = "send"
    /\ rx' = "top"
    /\ UNCHANGED <<port, mainVars, queue, ota, asked>>

\* read fails: the port is closed, ...
RxLost ==
    /\ rx = "read"
    /\ hup \/ fds[g_uart_fd] # "uart"
    /\ CloseFd(g_uart_fd)
    /\ rx' = "clear"
    /\ UNCHANGED <<g_uart_fd, device, hup, raw, mainVars, queue, ota, asked>>

RxClear_KeepsFd ==
    /\ rx = "clear"
    /\ rx' = "top"
    /\ UNCHANGED <<port, mainVars, queue, ota, asked>>

\* ... and only then forgotten.
RxClear ==
    /\ rx = "clear"
    /\ g_uart_fd' = None
    /\ rx' = "top"
    /\ UNCHANGED <<fds, device, hup, raw, mainVars, queue, ota, asked>>

-----------------------------------------------------------------------------
(* The main thread: run_event_loop and tuya_send_cmd                       *)

\* A command is popped: outside an upgrade it is sent, during one it is thrown
\* away (main.c:73), for the queue carries no command of an upgrade.
MainTake ==
    /\ main = "idle"
    /\ queue # << >>
    /\ frame' = Head(queue)
    /\ queue' = Tail(queue)
    /\ main' = IF ota THEN "idle" ELSE "check"
    /\ asked' = IF ota /\ frame' = "query" /\ asked = "no" THEN "dropped" ELSE asked
    /\ UNCHANGED <<port, rx, fd, ota>>

\* The queue stayed empty long enough for a heartbeat, upgrade or not.
MainHeartbeat ==
    /\ main = "idle"
    /\ queue = << >>
    /\ frame' = "heartbeat"
    /\ main' = "check"
    /\ UNCHANGED <<port, rx, fd, queue, ota, asked>>

\* int fd = g_uart_fd; without a port the frame is dropped.
MainCheckFd ==
    /\ main = "check"
    /\ fd' = g_uart_fd
    /\ main' = IF g_uart_fd > 0 THEN "write" ELSE "idle"
    /\ UNCHANGED <<port, rx, frame, queue, ota, asked>>

\* write(fd): the MCU gets the frame if that still is the port.
MainWrite ==
    /\ main = "write"
    /\ asked' = IF frame = "query" /\ fds[fd] = "uart" /\ raw /\ ~hup THEN "yes" ELSE asked
    /\ main' = "idle"
    /\ UNCHANGED <<port, rx, frame, fd, queue, ota>>

-----------------------------------------------------------------------------
(* The rest of the process and the world                                   *)

\* Another thread queues a command.
OtherPush ==
    /\ Len(queue) < Capacity
    /\ queue' = Append(queue, "cmd")
    /\ UNCHANGED <<port, rx, mainVars, ota, asked>>

\* The IPC server accepts a client, or closes its connection.
IpcAccept ==
    /\ \A f \in Fds : fds[f] # "client"
    /\ \E f \in Fds : Allocate(f, "client")
    /\ UNCHANGED <<g_uart_fd, device, hup, raw, rx, mainVars, queue, ota, asked>>

IpcClose ==
    /\ \E f \in Fds : fds[f] = "client" /\ CloseFd(f)
    /\ UNCHANGED <<g_uart_fd, device, hup, raw, rx, mainVars, queue, ota, asked>>

\* ota_start begins an upgrade, or ota_handle_mcu_msg ends it.
OtaChanges ==
    /\ ota' = ~ota
    /\ UNCHANGED <<port, rx, mainVars, queue, asked>>

\* The adapter is pulled out, which kills an open port, and put back.
Unplug ==
    /\ device
    /\ device' = FALSE /\ hup' = TRUE
    /\ UNCHANGED <<g_uart_fd, fds, raw, rx, mainVars, queue, ota, asked>>

Plug ==
    /\ ~device
    /\ device' = TRUE
    /\ UNCHANGED <<g_uart_fd, fds, hup, raw, rx, mainVars, queue, ota, asked>>

-----------------------------------------------------------------------------

RxStep == \/ RxContinue \/ RxOpen \/ RxConfigure \/ RxConfigureFails \/ RxQuery
          \/ RxRead \/ RxSend \/ RxLost \/ RxClear
MainStep == MainTake \/ MainHeartbeat \/ MainCheckFd \/ MainWrite
Next == \/ RxStep \/ MainStep
        \/ OtherPush \/ IpcAccept \/ IpcClose \/ OtaChanges \/ Unplug \/ Plug

Spec == Init /\ [][Next]_vars

\* Both threads run.  RxQuery is a blocking push: it gets its turn if there is
\* room again and again, for at most one producer is overtaken by each slot.
FairSpec == Spec /\ WF_vars(RxStep) /\ SF_vars(RxQuery) /\ WF_vars(MainStep)

-----------------------------------------------------------------------------
(* Properties                                                              *)

\* The port is never leaked and never used after it was closed, by the receive
\* thread: g_uart_fd is the one descriptor of the port, but for the moment
\* between close and the assignment of -1.
PortTracked ==
    /\ \A f \in Fds : fds[f] = "uart" => f = g_uart_fd
    /\ g_uart_fd > 0 /\ rx # "clear" => fds[g_uart_fd] = "uart"

\* However descriptors are reused, the receive thread closes none but its own.
ClientsKeepTheirs ==
    [][\A f \in Fds : fds[f] = "client" /\ fds'[f] # "client" => IpcClose]_vars

\* tuya_protocol.c:323: after each connect DP_QUERY reaches the MCU, unless the
\* connection is lost again or the main thread throws it away because an upgrade
\* is in progress (main.c:73).  Then nobody repeats it on this connection.
ConnectionAsks ==
    rx = "read" ~> \/ asked = "yes"
                   \/ g_uart_fd = None
                   \/ asked = "dropped" /\ \A i \in 1..Len(queue) : queue[i] # "query"

\* If the device stays, the receive thread gets to read it, configured.
Reconnects ==
    <>[]device => []<>(rx = "read" /\ raw /\ ~hup /\ fds[g_uart_fd] = "uart")

\* tuya_protocol.c:409: the check avoids writes to a closed or invalid
\* descriptor.
WritesGoToPort == [][MainWrite => fds[fd] = "uart"]_vars
=============================================================================
