----------------------------- MODULE IpcServer -----------------------------
(***************************************************************************)
(* The control channel of the local voice module (main_service/src/        *)
(* ipc_server.c): one thread that serves one TCP client at a time, reads   *)
(* its stream byte by byte, takes each line as a request, queues a command *)
(* for the MCU if the request is an intent, and writes one line of reply.  *)
(*                                                                         *)
(* A request's text is a short sequence of characters that stands for the  *)
(* JSON; Requests says what the texts mean that are JSON.  Between the     *)
(* server and the client lies the kernel's buffer of SockBuf replies.      *)
(***************************************************************************)
EXTENDS BoundedFifo, IotCommand

CONSTANTS MaxLine,     \* IPC_MAX_LINE
          Requests,    \* text -> [type, method, val]
          Texts,       \* texts a client may send, JSON or not
          SockBuf,     \* replies the kernel keeps for a client that does not read
          MaxTexts,    \* bound: lines of one client
          MaxClients   \* bound: clients, one after the other

ASSUME IpcAssumption ==
    /\ MaxLine \in Nat /\ MaxLine >= 2
    /\ {SockBuf, MaxTexts, MaxClients} \subseteq Nat \ {0}
    /\ Capacity \in Nat
    /\ Producers = {"ipc"} /\ Consumers = {"main"}
    /\ Texts \subseteq Seq(STRING)

\* A number in a request is cut to 32 bits, and no command looks like none.
ASSUME RequestAssumption ==
    \A text \in DOMAIN Requests :
        LET r == Requests[text]
            n == r.val.valueint
        IN  /\ n \in Int /\ -2147483647 - 1 <= n /\ n <= 2147483647
            /\ Payload(r.method, r.val) # None

\* A newline ends a line and is no part of it.
ASSUME LineAssumption == \A text \in Texts : \A i \in 1..Len(text) : text[i] # "\n"

VARIABLES srv,      \* where the server thread is
          buf,      \* the line read so far
          reply,    \* the reply to be written
          open,     \* the client has not closed its side
          stream,   \* bytes sent and not yet received
          sent,     \* the complete lines of this client
          part,     \* what the client sent after the last of them before it closed
          replies,  \* the replies written to this client
          unread,   \* how many of them the client has not read
          clients,  \* clients so far
          wanted,   \* the intents that were accepted and whose command the main
                    \* thread has not dealt with yet, oldest first
          mcu       \* the command it dealt with last: the intent and the payload
                    \* it sent, or None if it sent nothing

fifo == <<items, hand>>
clientVars == <<open, stream, sent, part, clients>>
replyVars == <<replies, unread>>
vars == <<items, hand, srv, buf, reply, open, stream, sent, part, replies, unread,
          clients, wanted, mcu>>

Init ==
    /\ FifoInit
    /\ srv = "accept" /\ buf = << >> /\ reply = "none"
    /\ open = FALSE /\ stream = << >> /\ sent = << >> /\ part = << >>
    /\ replies = << >> /\ unread = 0 /\ clients = 0
    /\ wanted = << >> /\ mcu = None

-----------------------------------------------------------------------------
(* The client                                                              *)

\* A client sends a line and goes on.
SendLine ==
    /\ open /\ Len(sent) < MaxTexts
    /\ \E text \in Texts :
          /\ stream' = stream \o text \o <<"\n">>
          /\ sent' = Append(sent, text)
    /\ UNCHANGED <<fifo, srv, buf, reply, open, part, replyVars, clients, wanted, mcu>>

\* It closes the connection, perhaps in the middle of a line.
Close ==
    /\ open
    /\ open' = FALSE
    /\ \E text \in Texts \cup {<< >>} :
          /\ stream' = stream \o text
          /\ part' = text
    /\ UNCHANGED <<fifo, srv, buf, reply, sent, replyVars, clients, wanted, mcu>>

ReadReply ==
    /\ unread > 0
    /\ unread' = unread - 1
    /\ UNCHANGED <<fifo, srv, buf, reply, clientVars, replies, wanted, mcu>>

-----------------------------------------------------------------------------
(* The server thread                                                       *)

Accept_KeepsLine ==
    /\ srv = "accept" /\ clients < MaxClients
    /\ clients' = clients + 1
    /\ srv' = "read"
    /\ open' = TRUE /\ stream' = << >> /\ sent' = << >> /\ part' = << >>
    /\ replies' = << >> /\ unread' = 0
    /\ UNCHANGED <<fifo, buf, reply, wanted, mcu>>

\* accept, for the next client; every line is read into an empty buffer.
Accept ==
    /\ srv = "accept" /\ clients < MaxClients
    /\ clients' = clients + 1
    /\ srv' = "read" /\ buf' = << >>
    /\ open' = TRUE /\ stream' = << >> /\ sent' = << >> /\ part' = << >>
    /\ replies' = << >> /\ unread' = 0
    /\ UNCHANGED <<fifo, reply, wanted, mcu>>

\* close(client_fd), and what the client still had to say is gone.
Disconnect ==
    /\ srv' = "accept"
    /\ open' = FALSE /\ stream' = << >>
    /\ UNCHANGED <<fifo, buf, reply, sent, part, replyVars, clients, wanted, mcu>>

\* Nothing to do but to answer.
JustReply(message) == reply' = message /\ srv' = "reply" /\ UNCHANGED <<fifo, wanted>>

\* handle_intent: a payload to be queued, unless there is none.
Intent(r) ==
    LET payload == Payload(r.method, r.val) IN
    IF payload = NoPayload THEN JustReply("unsupported intent")
    ELSE /\ reply' = "accepted" /\ srv' = "push"
         /\ Offer("ipc", payload)
         /\ wanted' = Append(wanted, r)

\* process_ipc_json
Process(line) ==
    /\ IF line \notin DOMAIN Requests THEN JustReply("invalid json")
       ELSE LET r == Requests[line] IN
            CASE r.type = "missing" -> JustReply("missing type")
              [] r.type = "intent"  -> Intent(r)
              [] r.type = "ping"    -> JustReply("accepted")
              [] OTHER              -> JustReply("unsupported type")
    /\ buf' = << >>
    /\ UNCHANGED <<open, sent, part, replyVars, clients, mcu>>

Ended_Overruns(byte) == byte = "\n"

\* The line read so far is complete with this byte.
Ended(byte) == byte = "\n" \/ Len(buf) + 1 = MaxLine - 1

\* recv of one byte that is not the last one of a line.
Receive ==
    /\ srv = "read" /\ stream # << >>
    /\ ~Ended(Head(stream))
    /\ buf' = Append(buf, Head(stream))
    /\ stream' = Tail(stream)
    /\ UNCHANGED <<fifo, srv, reply, open, sent, part, replyVars, clients, wanted, mcu>>

\* The newline, or the byte that fills the buffer: the newline stays behind.
ReceiveLast ==
    /\ srv = "read" /\ stream # << >>
    /\ Ended(Head(stream))
    /\ LET line == IF Head(stream) = "\n" THEN buf ELSE Append(buf, Head(stream)) IN
       IF line = << >> THEN Disconnect
       ELSE Process(line) /\ stream' = Tail(stream)

\* recv returns 0: a line that was begun counts, then the client is closed.
ReceiveEnd ==
    /\ srv = "read" /\ stream = << >> /\ ~open
    /\ IF buf = << >> THEN Disconnect
       ELSE Process(buf) /\ UNCHANGED stream

\* recv fails: what was begun is dropped.
ReceiveFails ==
    /\ srv = "read"
    /\ Disconnect

Push_NoReply ==
    /\ srv = "push"
    /\ Put("ipc")
    /\ srv' = "read"
    /\ UNCHANGED <<buf, reply, clientVars, replyVars, wanted, mcu>>

\* msg_queue_push
Push ==
    /\ srv = "push"
    /\ Put("ipc")
    /\ srv' = "reply"
    /\ UNCHANGED <<buf, reply, clientVars, replyVars, wanted, mcu>>

\* send_json_response: write waits for room, unless the client is gone.
Reply ==
    /\ srv = "reply"
    /\ unread < SockBuf \/ ~open
    /\ replies' = Append(replies, reply)
    /\ unread' = IF open THEN unread + 1 ELSE unread
    /\ srv' = "read"
    /\ UNCHANGED <<fifo, buf, reply, clientVars, wanted, mcu>>

-----------------------------------------------------------------------------
(* The main thread                                                         *)

Take ==
    /\ Get("main")
    /\ UNCHANGED <<srv, buf, reply, clientVars, replyVars, wanted, mcu>>

\* The command is sent, unless an upgrade is in progress (main.c:73), or the
\* port is closed or refuses the write (tuya_protocol.c:410-414).  Either way it
\* is gone.  Other threads decide both: see UartLink.
Dispatch ==
    /\ Finish("main")
    /\ wanted' = Tail(wanted)
    /\ \E ota, port \in BOOLEAN :
          mcu' = IF ~ota /\ port
                 THEN [intent |-> Head(wanted), payload |-> hand["main"]]
                 ELSE None
    /\ UNCHANGED <<srv, buf, reply, clientVars, replyVars>>

-----------------------------------------------------------------------------

Server == Receive \/ ReceiveLast \/ ReceiveEnd \/ Push \/ Reply
Main == Take \/ Dispatch
Next == SendLine \/ Close \/ ReadReply \/ Accept \/ Server \/ ReceiveFails \/ Main

Spec == Init /\ [][Next]_vars

\* The threads run, and a connection does not fail for ever.
FairSpec == Spec /\ WF_vars(Server) /\ WF_vars(Main)

\* The client reads its replies, as one that looks for errors does.
ReadingSpec == FairSpec /\ WF_vars(ReadReply)

-----------------------------------------------------------------------------
(* Properties                                                              *)

\* Every variable has its type.
TypeOK ==
    /\ srv \in {"accept", "read", "push", "reply"}
    /\ Len(buf) < MaxLine
    /\ reply \in {"none", "accepted", "invalid json", "missing type", "unsupported intent",
                 "unsupported type"}
    /\ open \in BOOLEAN
    /\ unread \in 0..SockBuf
    /\ clients \in 0..MaxClients
    /\ Len(items) <= Capacity
    /\ hand["ipc"] # None <=> srv = "push"

\* A line the server can take as it is: not empty, and short of the buffer by
\* the newline and one more, as a full buffer leaves the newline behind.
Fits(text) == Len(text) \in 1..(MaxLine - 2)

\* What a request is answered.
Answer(text) ==
    IF text \notin DOMAIN Requests THEN "invalid json"
    ELSE LET r == Requests[text] IN
         CASE r.type = "ping"    -> "accepted"
           [] r.type = "missing" -> "missing type"
           [] r.type = "intent"  ->
                IF Payload(r.method, r.val) = NoPayload THEN "unsupported intent" ELSE "accepted"
           [] OTHER              -> "unsupported type"

\* The lines of a connection, with the rest that had no newline when it ended.
Lines == IF part = << >> THEN sent ELSE Append(sent, part)

\* However the bytes arrive, as long as the lines fit each gets its own answer,
\* in order and once.
AnswersMatch ==
    (\A i \in 1..Len(Lines) : Fits(Lines[i])) =>
        /\ Len(replies) <= Len(Lines)
        /\ \A i \in 1..Len(replies) : replies[i] = Answer(Lines[i])

\* The commands on their way to the port, the one it gets next first.
Commands ==
    LET In(t) == IF hand[t] = None THEN << >> ELSE << hand[t] >>
    IN  In("main") \o items \o In("ipc")

\* The MCU reads from a payload the data point and the value an intent asks for,
\* if the value is of the kind the descriptor names.
Carries(payload, r) ==
    Typed(r.method, r.val) => McuUnpacks(payload) = Meaning(r.method, r.val)

\* Each accepted intent is one command, in order, and what the MCU gets for it
\* means what was asked for.  It may get nothing: the main thread throws a
\* command away during an upgrade and without a port, although its client was
\* told "accepted".  That costs no other command its turn or its meaning.
CommandsArrive ==
    /\ Len(Commands) = Len(wanted)
    /\ \A i \in 1..Len(wanted) : Carries(Commands[i], wanted[i])
    /\ mcu # None => Carries(mcu.payload, mcu.intent)

\* Every line that fits, after lines that fit, is answered, or the connection
\* ends first.
LinesAnswered ==
    \A n \in 1..MaxTexts :
        Len(sent) = n /\ (\A i \in 1..n : Fits(sent[i]))
            ~> Len(replies) >= n \/ srv = "accept"

=============================================================================
