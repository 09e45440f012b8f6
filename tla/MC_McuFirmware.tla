-------------------------- MODULE MC_McuFirmware --------------------------
EXTENDS McuFirmware

\* What has been on the line so far, and whether the MCU has started again.
VARIABLES sent, called, restarted
mcv == <<mcuVars, sent, called, restarted>>

Options == << <<119>>, <<100, 49>> >>
Product == <<123, 125>>

\* Arguments of each call, and two bodies its answer may have.
Arg(kind) == CASE kind = "byte" -> 1 [] kind = "word" -> 300 [] OTHER -> <<49>>
Part == [format |-> 1, total |-> 2, offset |-> 0, data |-> <<8>>]
ArgsOf(call) ==
    CASE call \in DOMAIN RegularCalls ->
            {[i \in DOMAIN RegularCalls[call].takes |-> Arg(RegularCalls[call].takes[i])]}
      [] call = "set_gnss_filter" -> {<<1001>>, <<1000>>}
      [] call \in {"mic_gain", "side_gain", "rrc"} -> {<<0, 0>>, <<1, 20>>, <<1, 31>>, <<1, 100>>}
      [] call = "mem_audio" -> {<<ctrl, 1, 0, Part>> : ctrl \in {0, 1, 3, 4, 5}}
      [] call = "tts" -> {<<ctrl, <<112>>, <<113>> >> : ctrl \in 0..2}
      [] call = "set_cellular_mode" -> {<<4>>}
      [] OTHER -> {<< >>}
Calls == DOMAIN RegularCalls \cup {"set_gnss_filter", "mic_gain", "side_gain", "rrc", "mem_audio",
                                   "tts", "reset_cellular", "set_cellular_mode"}
TempPassword == <<1, 1, 1, 2, 7, 1, 0, 1, 1, 1, 1, 1, 1, 2, 2, 2, 2, 2, 2, 57, 0>>
Bodies(call) ==
    IF call = "get_schedule_temp_pass" THEN {<<0, 0, 0, 0>>, TempPassword}
    ELSE {<<0, 0, 0, 0>>, <<1, 1, 1, 1>>}

\* Data points as the service packs them.
DataPoint(dp) ==
    IF ServiceType[dp] = "VALUE" THEN <<dp, 2, 0, 4, 255, 0, 1, 30>>
    ELSE IF ServiceType[dp] = "BOOL" THEN <<dp, 1, 0, 1, 1>> ELSE <<dp, 0, 0, 1, 9>>

\* Frames the module sends by itself.
Notices ==
    {<<0, << >> >>, <<1, << >> >>, <<2, << >> >>, <<3, <<4>> >>, <<8, << >> >>, <<35, <<1>> >>, <<38, <<0>> >>,
     <<32, <<1, 0>> >>, <<33, <<1, 4, 119, 46, 116, 48, 0, 4, 0, 0, 0, 9>> >>,
     <<33, <<1, 4, 119, 46, 116, 48, 7, 0>> >>,
     <<52, <<5, 1>> >>, <<52, <<9, 1>> >>, <<113, <<35, 0, 49>> >>, <<113, <<36, 0, 49>> >>, <<113, <<36, 1>> >>,
     <<113, <<42, 1>> >>, <<113, <<149, 5>> >>, <<114, <<154, 1>> >>, <<114, <<157>> >>, <<114, <<147, 7>> >>,
     <<113, <<39, 1>> >>, <<113, <<32, 1>> >>, <<99, << >> >>}
    \cup {<<6, DataPoint(dp)>> : dp \in 101..152}

Few == {<<0, << >> >>, <<6, DataPoint(101)>>}

\* No head; another version; a length no frame has; a wrong sum; a byte lost.  Then
\* noise that is not harmless: a frame with the first byte of the next one; lengths
\* that wrap to a frame of five bytes and to none; a frame the buffer cannot hold.
Noises == {<<9>>, <<85, 170, 3>>, <<85, 170, 0, 6, 1, 0>>, <<85, 170, 0, 0, 0, 0, 1>>,
           <<85, 170, 0, 6, 0, 5, 101, 1, 0, 1>>,
           <<85, 170, 0, 86, 0, 0>>, <<85, 170, 0, 0, 255, 254>>, <<85, 170, 0, 0, 255, 249>>,
           <<85, 170, 0, 0, 0, 25>>}

Reports ==
    {[way |-> way, dp |-> 108, kind |-> "VALUE", bytes |-> <<0, 0, 0, 7>>, time |-> <<1, 24, 1, 1, 0, 0, 0>>] :
        way \in {"plain", "syn", "timed"}}
    \cup {[way |-> "plain", dp |-> 109, kind |-> "BITMAP", bytes |-> bytes] :
            bytes \in {<<0, 0, 0, 1>>, <<0, 0, 1, 0>>, <<1, 0, 0, 0>>}}

MCInit == McuInit /\ sent = 0 /\ called = FALSE /\ restarted = FALSE

\* First noise or one of few frames, with a restart while it is on its way; then
\* one of few frames at any time, or any frame or a call and its answer when the
\* first has left nothing behind.  The first overrun ends the reception.
Clean == arrived = << >> /\ pc = "main" /\ ~restarted /\ ~overrun
Receive == Interrupt /\ ~overrun /\ UNCHANGED <<sent, called, restarted>>
Loop == MainLoop /\ UNCHANGED <<sent, called, restarted>>
First ==
    /\ sent = 0 /\ sent' = 1
    /\ \/ \E bytes \in Noises : Disturb(bytes)
       \/ \E frame \in Few : ModuleSends(frame[1], frame[2], FALSE)
    /\ UNCHANGED <<called, restarted>>
Second ==
    /\ sent = 1 /\ sent' = 2 /\ ~overrun
    /\ \/ \E frame \in IF Clean /\ ~called THEN Notices ELSE Few : ModuleSends(frame[1], frame[2], FALSE)
       \/ Clean /\ \E body \in Bodies(asked.call) : ModuleAnswers(body)
    /\ UNCHANGED <<called, restarted>>
Application ==
    /\ sent = 1 /\ line = << >> /\ Clean /\ ~called
    /\ \/ \E call \in Calls : \E args \in ArgsOf(call) : ApiCall(call, args)
       \/ \E r \in Reports : ApiReport(r)
    /\ called' = TRUE
    /\ UNCHANGED <<sent, restarted>>
PowerLoss == sent = 1 /\ ~restarted /\ ~called /\ Restart /\ restarted' = TRUE /\ UNCHANGED <<sent, called>>

MCNext == Receive \/ Loop \/ First \/ Second \/ Application \/ PowerLoss

\* The interrupt comes for every byte, and the main loop calls the service again
\* and again.
MCSpec == MCInit /\ [][MCNext]_mcv /\ WF_mcv(Receive) /\ WF_mcv(Loop)
=============================================================================
