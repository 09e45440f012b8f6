--------------------------- MODULE MC_OtaUpgrade ---------------------------
(* Small instances of the firmware upgrade for TLC. *)
EXTENDS OtaUpgrade, TLC

CONSTANTS empty, small, above, medium, other, huge,
          Senders  \* which limits of tuya_send_cmd are looked at

\* An empty file, the largest that fits one frame of the code's 256 bytes, the
\* next size, two of several packets and one beyond MAX_FW_SIZE; a
\* configuration lists those it uses in Files.
SizeOf == (empty :> 0) @@ (small :> 252) @@ (above :> 253) @@ (medium :> 600)
            @@ (other :> 1300) @@ (huge :> 3000000)
Size == [f \in Files |-> SizeOf[f]]

VARIABLES sender,  \* "code" for MaxPayload, "wide" for a limit no packet reaches
          smooth   \* nothing has disturbed the exchange so far: see Disturbed

mcVars == <<vars, sender, smooth>>

\* With the code's limit no upgrade has a second packet.  The same handler on a
\* sender that carries its largest packet shows transfers of several packets.
Wide == INSTANCE OtaUpgrade WITH MaxPayload <- 1028

MCInit == Init /\ sender \in Senders /\ smooth = TRUE

\* A lost frame, a restart of the MCU, a packet for which memory was missing, and
\* an answer of the MCU while ota_start was still on its way.  A step that the
\* undisturbed code can also take disturbs nothing.
Disturbed ==
    \/ Lose /\ ~McuNoAnswer
    \/ McuRestart
    \/ RxNoMemory /\ ~RxSendPacket
    \/ McuStep /\ caller # "idle"

MCNext ==
    /\ \/ sender = "code" /\ Next
       \/ sender = "wide" /\ Wide!Next
    /\ smooth' = (smooth /\ ~Disturbed)
    /\ UNCHANGED sender

\* Fairness is for the code's sender, the only one that is said to get anywhere.
MCSpec == MCInit /\ [][MCNext]_mcVars /\ Fairness

\* The loaded file passes tuya_send_cmd as one packet with its offset.
Fits == g_fw_buf # NoFile /\ 4 + FileSize[g_fw_buf] <= MaxPayload

\* An upgrade whose file passes the sender's limit and that nothing disturbs
\* comes to an end: the handler has no timeout and sends nothing twice, so it
\* needs each packet sent and each one answered (ota_handler.c:67-130 on top of
\* tuya_protocol.c:379).  A larger file is left in OTA_SENDING.
OtaTerminates ==
    (sender = "code" /\ InProgress /\ Fits /\ smooth)
        ~> (g_state \in {"DONE", "ERROR"} \/ ~smooth)
=============================================================================
