-------------------------- MODULE UartLink_proofs --------------------------
(***************************************************************************)
(* Proofs about the serial port's descriptor, for every set of descriptors *)
(* and every capacity of the queue.                                        *)
(***************************************************************************)
EXTENDS UartLink, TLAPS

\* The receive thread has the port open, or has just closed it.
PortStates == {"configure", "query", "read", "send"}

\* What carries PortTracked over a step: the receive thread knows a descriptor
\* in all the states in which it uses one, g_uart_fd is a descriptor or None,
\* and after its close nobody has the port open.
PortInd ==
    /\ g_uart_fd \in Fds \cup {None}
    /\ fds \in [Fds -> {"free", "uart", "client"}]
    /\ rx \in PortStates \cup {"top", "clear"}
    /\ rx \in PortStates => g_uart_fd \in Fds
    /\ rx = "clear" => \A f \in Fds : fds[f] # "uart"
    /\ PortTracked

\* A descriptor is never 0, so that "> 0" tests for one.
LEMMA FdPositive == \A f \in Fds : f \in Nat /\ f > 0 /\ f # None
  BY UartAssumption DEF None

LEMMA NoneNotPositive == ~(None > 0) /\ None <= 0
  BY DEF None

LEMMA InitPortInd == Init => PortInd
  BY FdPositive, NoneNotPositive DEF Init, PortInd, PortTracked, PortStates

\* Taking a free descriptor for something else, or returning what is not the
\* port's, does not concern the port.
LEMMA OthersKeepPort ==
  ASSUME PortInd, NEW f \in Fds, fds[f] # "uart", NEW use \in {"free", "client"},
         fds' = [fds EXCEPT ![f] = use], UNCHANGED <<g_uart_fd, rx>>
  PROVE  PortInd'
  BY FdPositive, NoneNotPositive DEF PortInd, PortTracked, PortStates

\* Closing the port's descriptor leaves none that refers to it.
LEMMA ClosePort ==
  ASSUME PortInd, rx \in PortStates, CloseFd(g_uart_fd), g_uart_fd' = g_uart_fd, rx' = "clear"
  PROVE  PortInd'
<1>1. g_uart_fd \in Fds /\ fds[g_uart_fd] = "uart"
  BY FdPositive DEF PortInd, PortTracked, PortStates
<1>2. fds' \in [Fds -> {"free", "uart", "client"}] /\ \A f \in Fds : fds'[f] # "uart"
  BY <1>1 DEF PortInd, PortTracked, CloseFd
<1>3. QED
  BY <1>1, <1>2 DEF PortInd, PortTracked, PortStates

LEMMA StepPortInd == PortInd /\ [Next]_vars => PortInd'
<1> SUFFICES ASSUME PortInd, [Next]_vars PROVE PortInd'
  OBVIOUS
<1> USE FdPositive, NoneNotPositive
<1>1. CASE RxContinue
  <2>1. g_uart_fd \in Fds
    BY <1>1 DEF RxContinue, PortInd
  <2>2. QED
    BY <1>1, <2>1 DEF RxContinue, port, PortInd, PortTracked, PortStates
<1>2. CASE RxOpen
  <2>1. PICK f \in Fds : fds' = [fds EXCEPT ![f] = "uart"] /\ g_uart_fd' = f
    BY <1>2 DEF RxOpen, Allocate
  <2>2. \A g \in Fds : fds[g] # "uart"
    BY <1>2 DEF RxOpen, PortInd, PortTracked
  <2>3. QED
    BY <1>2, <2>1, <2>2 DEF RxOpen, PortInd, PortTracked, PortStates
<1>3. CASE RxConfigure \/ RxQuery
  BY <1>3 DEF RxConfigure, RxQuery, port, PortInd, PortTracked, PortStates
<1>4. CASE RxConfigureFails
  BY <1>4, ClosePort DEF RxConfigureFails, PortStates
<1>5. CASE RxRead \/ RxSend
  BY <1>5 DEF RxRead, RxSend, port, PortInd, PortTracked, PortStates
<1>6. CASE RxLost
  BY <1>6, ClosePort DEF RxLost, PortStates
<1>7. CASE RxClear
  BY <1>7 DEF RxClear, PortInd, PortTracked, PortStates
<1>8. CASE MainStep \/ OtherPush \/ OtaChanges \/ Unplug \/ Plug \/ UNCHANGED vars
  BY <1>8 DEF MainStep, MainTake, MainHeartbeat, MainCheckFd, MainWrite, OtherPush,
              OtaChanges, Unplug, Plug, vars, port,
              PortInd, PortTracked
<1>9. CASE IpcAccept
  <2>1. PICK f \in Fds : fds[f] = "free" /\ fds' = [fds EXCEPT ![f] = "client"]
    BY <1>9 DEF IpcAccept, Allocate, Free
  <2>2. QED
    BY <1>9, <2>1, OthersKeepPort DEF IpcAccept
<1>10. CASE IpcClose
  <2>1. PICK f \in Fds : fds[f] = "client" /\ CloseFd(f)
    BY <1>10 DEF IpcClose
  <2>2. QED
    BY <1>10, <2>1, OthersKeepPort DEF IpcClose, CloseFd
<1>11. QED
  BY <1>1, <1>2, <1>3, <1>4, <1>5, <1>6, <1>7, <1>8, <1>9, <1>10 DEF Next, RxStep

\* The port's descriptor is tracked: the receive thread neither forgets an open
\* port nor uses a closed one (tuya_protocol.c, lines 298-361).
THEOREM PortIsTracked == Spec => []PortTracked
<1>1. PortInd => PortTracked
  BY DEF PortInd
<1>2. QED
  BY InitPortInd, StepPortInd, <1>1, PTL DEF Spec

\* No step but a client's own closes its descriptor.
LEMMA StepClientsKeep ==
  ASSUME PortInd, [Next]_vars, NEW f \in Fds, fds[f] = "client", fds'[f] # "client"
  PROVE  IpcClose
<1> USE FdPositive
<1>1. CASE RxOpen
  <2>1. PICK g \in Fds : fds[g] = "free" /\ fds' = [fds EXCEPT ![g] = "uart"]
    BY <1>1 DEF RxOpen, Allocate, Free
  <2>2. QED
    BY <2>1 DEF PortInd
<1>2. CASE RxConfigureFails \/ RxLost
  <2>1. g_uart_fd \in Fds /\ fds[g_uart_fd] = "uart" /\ CloseFd(g_uart_fd)
    BY <1>2 DEF RxConfigureFails, RxLost, PortInd, PortTracked, PortStates
  <2>2. QED
    BY <2>1 DEF CloseFd, PortInd
<1>3. CASE IpcAccept
  <2>1. PICK g \in Fds : fds[g] = "free" /\ fds' = [fds EXCEPT ![g] = "client"]
    BY <1>3 DEF IpcAccept, Allocate, Free
  <2>2. QED
    BY <2>1 DEF PortInd
<1>4. CASE RxContinue \/ RxConfigure \/ RxQuery \/ RxRead \/ RxSend \/ RxClear
  BY <1>4 DEF RxContinue, RxConfigure, RxQuery, RxRead, RxSend, RxClear, port
<1>5. CASE MainStep \/ OtherPush \/ OtaChanges \/ Unplug \/ Plug \/ UNCHANGED vars
  BY <1>5 DEF MainStep, MainTake, MainHeartbeat, MainCheckFd, MainWrite, OtherPush,
              OtaChanges, Unplug, Plug, vars, port
<1>6. QED
  BY <1>1, <1>2, <1>3, <1>4, <1>5 DEF Next, RxStep

\* Whatever the serial port does, a client of the IPC server keeps its
\* descriptor until its own thread closes it.
THEOREM ClientsKeepDescriptors == Spec => ClientsKeepTheirs
<1>1. PortInd /\ [Next]_vars
        => [\A f \in Fds : fds[f] = "client" /\ fds'[f] # "client" => IpcClose]_vars
  BY StepClientsKeep
<1>2. QED
  BY InitPortInd, StepPortInd, <1>1, PTL DEF Spec, ClientsKeepTheirs
=============================================================================
