-------------------------- MODULE MC_VoiceExample --------------------------
(* One conversation for each way to run the program, small recordings.     *)
EXTENDS VoiceExample

Env(noPlayback, pcm, capture, seconds, kills, answers) ==
    [disablePlayback |-> noPlayback, pcmFile |-> pcm, capture |-> capture,
     recordSeconds |-> seconds, pipeKills |-> kills, answers |-> answers]

AllEnvironments ==
    {Env(FALSE, TRUE, FALSE, 0, FALSE, 1),    \* a file, heard through a stream
     Env(FALSE, FALSE, TRUE, 0, TRUE, 1),     \* the microphone up to the endpoint
     Env(FALSE, FALSE, FALSE, 0, FALSE, 2),   \* the tone, and two answers
     Env(TRUE, FALSE, TRUE, 5, FALSE, 1)}     \* the microphone for five seconds, silent

=============================================================================
