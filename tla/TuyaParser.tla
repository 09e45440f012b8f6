----------------------------- MODULE TuyaParser -----------------------------
(***************************************************************************)
(* The receive side of the serial line: the MCU writes frames, the line    *)
(* drops, adds or cuts off bytes, and uart_rx_thread feeds what arrives to *)
(* the parser one byte at a time (main_service/src/tuya_protocol.c, lines  *)
(* 298-362).  The parser is initialised once, before the loop, and keeps   *)
(* its state when the port is closed and opened again.                     *)
(***************************************************************************)
EXTENDS TuyaFrame

CONSTANTS Frames,     \* frames the MCU sends: records [version, cmd, data]
          Noise,      \* bytes the line may add
          MaxFaults   \* bound on faults of the line

LongestFrame == 7 + MaxData

NoFrame == [cmd |-> -1, data |-> << >>, to |-> "nobody"]

ASSUME ParserAssumption ==
    /\ Frames \subseteq [version : Byte, cmd : Byte, data : Seq(Byte)]
    /\ \A f \in Frames : Len(f.data) \in Word /\ Len(f.data) <= MaxData
    /\ Noise \subseteq Byte
    /\ MaxFaults \in Nat

VARIABLES parser,   \* tuya_parser_t
          wire,     \* bytes under way: [byte, ends], ends = the frame this byte completes
          out,      \* the frame the last byte completed, as dispatched
          seen,     \* the bytes of the frame being parsed
          faults    \* faults so far

vars == <<parser, wire, out, seen, faults>>

Dispatched(f) == [cmd |-> f.cmd, data |-> f.data, to |-> Handler(f.cmd)]

Init ==
    /\ parser = InitParser
    /\ wire = << >>
    /\ out = NoFrame
    /\ seen = << >>
    /\ faults = 0

\* cellular_uart_write_frame of the MCU
SendFrame(f) ==
    /\ wire = << >>
    /\ LET bytes == FrameBytes(f.version, f.cmd, f.data) IN
       wire' = [i \in 1..Len(bytes) |->
                  [byte |-> bytes[i],
                   ends |-> IF i = Len(bytes) THEN Dispatched(f) ELSE NoFrame]]
    /\ UNCHANGED <<parser, out, seen, faults>>

McuSends == \E f \in Frames : SendFrame(f)

\* uart_rx_thread: parse the next byte and dispatch a completed frame.
ReadByte ==
    /\ wire # << >>
    /\ LET byte == Head(wire).byte
           next == Process(parser, byte)
       IN  /\ parser' = next
           /\ out' = IF Completes(parser, byte) THEN Dispatched(parser) ELSE NoFrame
           /\ seen' = IF next.state = "HEAD_1" THEN << >>
                      ELSE IF Len(seen) < LongestFrame THEN Append(seen, byte) ELSE seen
    /\ wire' = Tail(wire)
    /\ UNCHANGED faults

\* The line loses a byte, adds one, or is cut off: the port is closed and
\* opened again in the middle of a frame.
Fault ==
    /\ wire # << >>
    /\ faults < MaxFaults
    /\ faults' = faults + 1
    /\ \/ wire' = Tail(wire)
       \/ \E b \in Noise : wire' = <<[byte |-> b, ends |-> NoFrame]>> \o wire
       \/ wire' = << >>
    /\ UNCHANGED <<parser, out, seen>>

Next == McuSends \/ ReadByte \/ Fault

Spec == Init /\ [][Next]_vars

\* The receive thread reads what arrives, and the MCU goes on sending.
FairSpec == Spec /\ WF_vars(ReadByte) /\ WF_vars(McuSends)

-----------------------------------------------------------------------------
(* Properties                                                              *)

\* Who may be given a frame.
Receivers ==
    {"heartbeat", "product_info", "work_mode", "wifi_state", "reset", "dp_report", "ota",
     "cmd_22", "cmd_26", "get_m_version", "default", "nobody"}

Delivery == [cmd : Byte \cup {-1}, data : Seq(Byte), to : Receivers]

\* Every variable has its type.
TypeOK ==
    /\ parser \in [state : ParseStates, version : Byte, cmd : Byte, data_len : Word,
                   data : Seq(Byte), checksum : Byte]
    /\ wire \in Seq([byte : Byte, ends : Delivery]) /\ out \in Delivery
    /\ seen \in Seq(Byte)
    /\ faults \in 0..MaxFaults

\* data_buf[data_idx++] is inside the buffer, whatever length a damaged header
\* announces, and the parser never runs past the announced length.
NoOverrun ==
    parser.state = "DATA" => Len(parser.data) < parser.data_len /\ parser.data_len <= MaxData

\* Only a frame that stands on the line byte for byte, checksum included, is
\* dispatched, whatever was lost or added before it.
OnlyIntactFrames ==
    [][\A byte \in Byte :
         wire # << >> /\ byte = Head(wire).byte /\ out' # NoFrame /\ ReadByte =>
            Append(seen, byte) = FrameBytes(parser.version, out'.cmd, out'.data)]_vars

\* Over a clean line every frame is dispatched, to its handler, with the byte
\* that completes it, and nothing else is.
CleanLineDelivers == [][faults = 0 /\ ReadByte => out' = Head(wire).ends]_vars

\* Only the first byte of the frame is 0x55.
Plain(f) ==
    LET bytes == FrameBytes(f.version, f.cmd, f.data)
    IN  \A i \in 2..Len(bytes) : bytes[i] # 85

\* After faults the parser finds the frames again, if from some time on no byte
\* of a frame but its first is 0x55: again and again a frame is dispatched where
\* it ends.
Resynchronises ==
    <>[][\A f \in Frames : SendFrame(f) => Plain(f)]_vars
      => []<><<ReadByte /\ Head(wire).ends # NoFrame /\ out' = Head(wire).ends>>_vars

=============================================================================
