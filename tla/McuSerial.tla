----------------------------- MODULE McuSerial -----------------------------
(***************************************************************************)
(* The serial input of the MCU SDK (doc/mcu_sdk/mcu_sdk/mcu_api.c and      *)
(* system.c): the receive interrupt fills a ring of bytes, the main loop   *)
(* moves them to a buffer and looks for frames in it.                      *)
(*                                                                         *)
(* rx_buf_in and rx_buf_out are pointers into the ring; here they are the  *)
(* number of the slot, and the one past the last slot is N.  The interrupt *)
(* may come between any two steps of the main loop, also between the test  *)
(* for data and the read.                                                  *)
(***************************************************************************)
EXTENDS TuyaFrame
Seqs == INSTANCE SequencesExt

CONSTANTS N,           \* sizeof(cellular_uart_rx_buf): 23 in the code
          ProcessBuf,  \* sizeof(cellular_data_process_buf): 31 in the code
          Garbage      \* values an uninitialised byte may have

\* rx_in, which counts the bytes in the buffer, has 16 bits.
ASSUME SerialAssumption ==
    N \in Nat /\ N > 1 /\ ProcessBuf \in Nat /\ ProcessBuf < 65536 /\ Garbage \subseteq Byte

VARIABLES line,        \* bytes on their way to the MCU
          rx_buf,      \* cellular_uart_rx_buf
          rx_buf_in, rx_buf_out,
          process_buf, \* the first rx_in bytes of cellular_data_process_buf
          offset,      \* cellular_uart_service's offset
          pc,          \* where the main loop is
          arrived,     \* bytes that came and are not yet left behind
          overrun      \* a byte came when the ring had room for none

ring == <<rx_buf, rx_buf_in, rx_buf_out>>
loop == <<process_buf, offset, pc>>
ghosts == <<arrived, overrun>>
serialVars == <<line, rx_buf, rx_buf_in, rx_buf_out, process_buf, offset, pc, arrived, overrun>>

PROTOCOL_HEAD == 7
MCU_RX_VER == 0

\* cellular_protocol_init; before the first byte the memory is zero.
SerialInit ==
    /\ rx_buf = [i \in 0..N-1 |-> 0] /\ rx_buf_in = 0 /\ rx_buf_out = 0
    /\ process_buf = << >> /\ offset = 0 /\ pc = "main"
    /\ arrived = << >> /\ overrun = FALSE

-----------------------------------------------------------------------------
(* The receive interrupt: uart_receive_input                               *)

\* The slots from one pointer to another, in the order they are read.
Slots(from, to) == [k \in 1..(to - from) |-> rx_buf[from + k - 1]]

\* What the ring holds, read from rx_buf_out on.
Pending ==
    IF rx_buf_out <= rx_buf_in THEN Slots(rx_buf_out, rx_buf_in)
    ELSE Slots(rx_buf_out, N) \o Slots(0, rx_buf_in)

IsFull_OffByOne ==
    \/ rx_buf_out - rx_buf_in = 0
    \/ rx_buf_in > rx_buf_out /\ rx_buf_in - rx_buf_out >= N

\* The two tests for a full ring.
IsFull ==
    \/ rx_buf_out - rx_buf_in = 1
    \/ rx_buf_in > rx_buf_out /\ rx_buf_in - rx_buf_out >= N

\* Where the byte goes: back to the start at the end of the ring.
WriteSlot == IF rx_buf_in >= N THEN 0 ELSE rx_buf_in

\* A byte arrives.  One slot of the ring stays empty, so there is room for it
\* if fewer than N - 1 bytes wait.
ReceiveInput ==
    /\ line # << >>
    /\ line' = Tail(line)
    /\ overrun' = (overrun \/ Len(Pending) >= N - 1)
    /\ arrived' = Append(arrived, Head(line))
    /\ IF IsFull
       THEN UNCHANGED ring
       ELSE /\ rx_buf' = [rx_buf EXCEPT ![WriteSlot] = Head(line)]
            /\ rx_buf_in' = WriteSlot + 1
            /\ UNCHANGED rx_buf_out
    /\ UNCHANGED loop

-----------------------------------------------------------------------------
(* The main loop: cellular_uart_service                                    *)

\* The function is called: it first fills the buffer.
Call ==
    /\ pc = "main"
    /\ pc' = "fill"
    /\ UNCHANGED <<line, ring, process_buf, offset, ghosts>>

\* with_data_rxbuff and the room in the buffer are tested.
Fill ==
    /\ pc = "fill"
    /\ pc' = IF Len(process_buf) < ProcessBuf /\ rx_buf_in # rx_buf_out THEN "take"
             ELSE IF Len(process_buf) < PROTOCOL_HEAD THEN "main" ELSE "search"
    /\ UNCHANGED <<line, ring, process_buf, offset, ghosts>>

\* take_byte_rxbuff tests once more and goes back to the start of the ring.
TakeWrap ==
    /\ pc = "take"
    /\ rx_buf_out # rx_buf_in
    /\ rx_buf_out' = IF rx_buf_out >= N THEN 0 ELSE rx_buf_out
    /\ pc' = "read"
    /\ UNCHANGED <<line, rx_buf, rx_buf_in, process_buf, offset, ghosts>>

\* An interrupt has made the ring look empty: the value is not initialised.
TakeNothing ==
    /\ pc = "take"
    /\ rx_buf_out = rx_buf_in
    /\ \E byte \in Garbage : process_buf' = Append(process_buf, byte)
    /\ pc' = "fill"
    /\ UNCHANGED <<line, ring, offset, ghosts>>

TakeByte ==
    /\ pc = "read"
    /\ process_buf' = Append(process_buf, rx_buf[rx_buf_out])
    /\ rx_buf_out' = rx_buf_out + 1
    /\ pc' = "fill"
    /\ UNCHANGED <<line, rx_buf, rx_buf_in, offset, ghosts>>

\* The byte at a place of the frame that may start at offset.
At(place) == process_buf[offset + place + 1]

\* Enough bytes are left for a head.
Searching == pc = "search" /\ Len(process_buf) - offset >= PROTOCOL_HEAD

IsHead == At(0) = 85 /\ At(1) = 170

\* rx_value_len has 16 bits: the seven highest lengths wrap to totals from 0 to 6.
Total(high, low) == (high * 256 + low + PROTOCOL_HEAD) % 65536

FrameLen == Total(At(4), At(5))

TooLong == FrameLen > ProcessBuf + PROTOCOL_HEAD

Complete_OneMore == Len(process_buf) - offset > FrameLen

Complete == Len(process_buf) - offset >= FrameLen

\* The frame at offset.
FrameAtOffset == SubSeq(process_buf, offset + 1, offset + FrameLen)

SumCorrect_Unchecked == TRUE

SumMatches ==
    FrameLen > 0 /\ CheckSum(Seqs!Front(FrameAtOffset)) = Seqs!Last(FrameAtOffset)

\* With a total of 0 get_check_sum reads 65535 bytes, far behind the buffer, and
\* the sum is compared with the byte before the head: either outcome is possible.
SumCorrect == FrameLen = 0 \/ SumMatches
SumWrong == ~SumMatches

\* The search goes on some bytes further.
Skip(bytes) ==
    /\ offset' = offset + bytes
    /\ UNCHANGED <<line, ring, process_buf, pc, ghosts>>

\* No head, or one of another version, or with a length no frame has, or a
\* frame with a wrong checksum: look on behind the bytes examined.
SkipNoHead == Searching /\ ~IsHead /\ Skip(1)
SkipVersion == Searching /\ IsHead /\ At(2) # MCU_RX_VER /\ Skip(2)
SkipTooLong == Searching /\ IsHead /\ At(2) = MCU_RX_VER /\ TooLong /\ Skip(3)

\* A frame to look at has arrived as a whole.
Whole == Searching /\ IsHead /\ At(2) = MCU_RX_VER /\ ~TooLong /\ Complete

SkipBadSum == Whole /\ SumWrong /\ Skip(3)

\* An intact frame goes to data_handle, and the search goes on behind it: with a
\* total of 0 at the same place again.
Dispatch == Whole /\ SumCorrect /\ Skip(FrameLen)

\* The search ends.
SearchEnds ==
    \/ Len(process_buf) - offset < PROTOCOL_HEAD
    \/ Searching /\ IsHead /\ At(2) = MCU_RX_VER /\ ~TooLong /\ ~Complete

\* What is left moves to the start of the buffer.
Compact ==
    /\ pc = "search"
    /\ SearchEnds
    /\ process_buf' = SubSeq(process_buf, offset + 1, Len(process_buf))
    /\ arrived' = SubSeq(arrived, offset + 1, Len(arrived))
    /\ offset' = 0
    /\ pc' = "main"
    /\ UNCHANGED <<line, ring, overrun>>

Service ==
    \/ Call \/ Fill \/ TakeWrap \/ TakeNothing \/ TakeByte
    \/ SkipNoHead \/ SkipVersion \/ SkipTooLong \/ SkipBadSum \/ Compact

-----------------------------------------------------------------------------
(* The serial input by itself, on a line that may carry anything           *)

\* The module, or a disturbance, puts bytes on the line.
Transmit(bytes) ==
    /\ line = << >>
    /\ line' = bytes
    /\ UNCHANGED <<ring, loop, ghosts>>

SerialSpec ==
    /\ SerialInit /\ line = << >>
    /\ [][ReceiveInput \/ Service \/ Dispatch \/ \E bytes \in Seq(Byte) : Transmit(bytes)]_serialVars

-----------------------------------------------------------------------------
(* Properties                                                              *)

\* As long as the ring had room for every byte that came, no byte is lost,
\* doubled or moved between the interrupt and the buffer, wherever the
\* interrupt falls: buffer and ring hold what came, in its order
\* (uart_receive_input, take_byte_rxbuff and the shift in cellular_uart_service).
NothingLost == ~overrun => arrived = process_buf \o Pending

\* mcu_api.c:827: a byte that finds the ring "not full" is kept behind those
\* that wait.
RoomMeansKept == [][ReceiveInput /\ ~IsFull => Pending' = Append(Pending, Head(line))]_serialVars
=============================================================================
