---------------------------- MODULE VoiceExample ----------------------------
(***************************************************************************)
(* The voice conversation program (example/device_voice_example.c): one    *)
(* round of speech to the cloud and back.  The main thread authorises the  *)
(* device, sends a recording, waits for the answer and shuts down; the     *)
(* SDK's thread runs the callbacks, one at a time, while it does; arecord  *)
(* and aplay are child processes behind pipes.                             *)
(*                                                                         *)
(* Audio is counted in chunks, one per audio callback.  Where the program  *)
(* only tests that something failed the failure is a choice.  The SDK's    *)
(* disconnect is taken to stop callbacks from starting, no more.           *)
(***************************************************************************)
EXTENDS Naturals, Sequences

CONSTANTS Environments, \* what the environment variables and the build may be
          Retries,      \* AGENT_CONNECT_RETRY_COUNT
          PcmFrames,    \* bound: frames of a recorded file
          SynthFrames,  \* SYNTHETIC_FRAME_COUNT
          Chunks,       \* bound: audio callbacks of one run
          Pipe          \* chunks a pipe to aplay holds

ASSUME VoiceAssumption ==
    /\ {Retries, PcmFrames, SynthFrames, Chunks, Pipe} \subseteq Nat \ {0}
    /\ Environments \subseteq
          [disablePlayback : BOOLEAN, pcmFile : BOOLEAN, capture : BOOLEAN,
           recordSeconds : Nat, pipeKills : BOOLEAN, answers : Nat]

VARIABLES conf,    \* what the run was asked for
          pc,      \* where the main thread is
          tries,   \* connection attempts made
          left,    \* frames of the recording still to be sent
          code,    \* t_exit_code
          link,    \* the SDK is connected and may call back
          calls,   \* the SDK calls that open and close the audio stream
          said,    \* the kinds of message the cloud has sent
          flags,   \* the atomic flags that are set
          got,     \* chunks received, g_audio_bytes_received_count
          file,    \* g_tts_output_file
          path,    \* g_tts_output_path is not empty
          filed,   \* chunks written to the file
          fd,      \* the aplay whose stdin is g_aplay_stream_stdin_fd, or 0
          pid,     \* g_aplay_stream_pid, or 0
          players, \* the aplay processes so far: [st, pipe]
          target,  \* the process finishAplayStream or abortAplayStream waits for
          heard,   \* chunks that came out of the loudspeaker
          cb,      \* where the callback thread is
          probed,  \* the process the callback has started
          rec,     \* the arecord process
          due      \* the recording's deadline has passed

cloudVars == <<link, said>>
playVars == <<fd, pid, players, heard>>
fileVars == <<file, path, filed>>
cbVars == <<cb, probed>>
mainVars == <<tries, left, code, calls, target, rec, due>>
vars == <<conf, pc, mainVars, cloudVars, flags, got, fileVars, playVars, cbVars>>

Messages == {"session_ready", "audio_stream_started", "audio_stream_endpoint_detected",
             "asr_final", "tts_stream_end", "assistant_response"}

\* What main makes of its environment variables; the last two fields are not
\* read from it: whether SIGPIPE kills the process and how many spoken answers
\* the cloud gives.
ConfOf(env) ==
    [playback  |-> ~env.disablePlayback,
     source    |-> CASE env.pcmFile -> "file" [] ~env.pcmFile /\ env.capture -> "live"
                     [] OTHER -> "synthetic",
     endpoint  |-> env.recordSeconds = 0,
     pipeKills |-> env.pipeKills,
     answers   |-> env.answers]

FramesOf(source) == IF source = "file" THEN PcmFrames ELSE SynthFrames

Init ==
    /\ conf \in {ConfOf(env) : env \in Environments}
    /\ pc = "begin" /\ tries = 0 /\ left = 0 /\ code = 1
    /\ link = FALSE /\ calls = << >> /\ said = {} /\ flags = {} /\ got = 0
    /\ file = "none" /\ path = FALSE /\ filed = 0
    /\ fd = 0 /\ pid = 0 /\ players = << >> /\ target = 0 /\ heard = 0
    /\ cb = "idle" /\ probed = 0 /\ rec = "none" /\ due = FALSE

Goto(label) == pc' = label
Running == pc \notin {"exit", "killed"}

-----------------------------------------------------------------------------
(* The main thread: authorisation                                          *)

\* A missing variable or no memory for the client ends the program at once.
CreateClient ==
    /\ pc = "begin"
    /\ Goto("activation") \/ Goto("exit")
    /\ UNCHANGED <<conf, mainVars, cloudVars, flags, got, fileVars, playVars, cbVars>>

\* The exit code of a device that is not bound.
PairingCode(canRequest, fetched) == IF canRequest /\ fetched THEN 2 ELSE 1

CheckActivation ==
    /\ pc = "activation"
    /\ \/ Goto("connect") /\ code' = code
       \/ \E canRequest, fetched \in BOOLEAN :
             Goto("abort") /\ code' = PairingCode(canRequest, fetched)
    /\ UNCHANGED <<conf, tries, left, calls, target, rec, due, cloudVars, flags, got,
                   fileVars, playVars, cbVars>>

\* Only a failed handshake and a timeout are tried again, after a disconnect.
EnsureAuthorizedConnection ==
    /\ pc = "connect"
    /\ \/ Goto("prepare") /\ link' = TRUE /\ tries' = 0
       \/ link' = FALSE /\ tries' = tries + 1
          /\ Goto(IF tries + 1 < Retries THEN "connect" ELSE "abort")
       \/ Goto("abort") /\ link' = FALSE /\ tries' = 0
    /\ UNCHANGED <<conf, left, code, calls, target, rec, due, said, flags, got, fileVars,
                   playVars, cbVars>>

\* mkstemp may fail and leave the path, fopen may fail and clear it.
PrepareTtsOutputFile ==
    /\ pc = "prepare"
    /\ Goto("reset")
    /\ \/ conf.playback /\ file' = "open" /\ path' = TRUE
       \/ conf.playback /\ file' = "none" /\ path' \in BOOLEAN
       \/ ~conf.playback /\ UNCHANGED <<file, path>>
    /\ UNCHANGED <<conf, mainVars, cloudVars, flags, got, filed, playVars, cbVars>>

\* The flags of the conversation, the one for session_ready among them.
ResetFlags ==
    /\ pc = "reset"
    /\ Goto(IF conf.source = "file" THEN "load" ELSE "start")
    /\ flags' = (flags \ (Messages \cup {"audio", "writeFailed"}))
                    \cup (IF conf.playback THEN {"enabled"} ELSE {})
    /\ got' = 0
    /\ UNCHANGED <<conf, mainVars, cloudVars, fileVars, playVars, cbVars>>

-----------------------------------------------------------------------------
(* The main thread: sending the recording                                  *)

\* An unreadable, empty or too large file ends the program.
LoadPcmFile ==
    /\ pc = "load"
    /\ Goto("start") \/ Goto("abort")
    /\ UNCHANGED <<conf, mainVars, cloudVars, flags, got, fileVars, playVars, cbVars>>

StartAudioStream ==
    /\ pc = "start"
    /\ \/ /\ calls' = <<"start">>
          /\ left' = FramesOf(conf.source)
          /\ Goto(IF conf.source = "live" THEN "waitStarted" ELSE "send")
       \/ Goto("abort") /\ UNCHANGED <<calls, left>>
    /\ UNCHANGED <<conf, tries, code, target, rec, due, cloudVars, flags, got, fileVars,
                   playVars, cbVars>>

CancelAudioStream == calls' = Append(calls, "cancel")

\* agentFinishAudioStream is called whatever it returns.
FinishAudioStream ==
    /\ Goto("wait") \/ Goto("abort")
    /\ calls' = Append(calls, "finish")

SendFrame_NoCancel ==
    /\ pc = "send"
    /\ \/ left > 0 /\ left' = left - 1 /\ UNCHANGED <<pc, calls>>
       \/ left > 0 /\ Goto("abort") /\ UNCHANGED <<left, calls>>
       \/ left = 0 /\ FinishAudioStream /\ UNCHANGED left
    /\ UNCHANGED <<conf, tries, code, target, rec, due, cloudVars, flags, got, fileVars,
                   playVars, cbVars>>
\* A frame of a file or of the built-in tone; a failed one cancels the stream.
SendFrame ==
    /\ pc = "send"
    /\ \/ left > 0 /\ left' = left - 1 /\ UNCHANGED <<pc, calls>>
       \/ left > 0 /\ CancelAudioStream /\ Goto("abort") /\ UNCHANGED left
       \/ left = 0 /\ FinishAudioStream /\ UNCHANGED left
    /\ UNCHANGED <<conf, tries, code, target, rec, due, cloudVars, flags, got, fileVars,
                   playVars, cbVars>>

\* Ten seconds for audio_stream_started, the flag that ResetFlags cleared.
WaitForAudioStreamStarted ==
    /\ pc = "waitStarted"
    /\ \/ "audio_stream_started" \in flags /\ Goto("spawn") /\ UNCHANGED calls
       \/ Goto("abort") /\ CancelAudioStream
    /\ UNCHANGED <<conf, tries, left, code, target, rec, due, cloudVars, flags, got,
                   fileVars, playVars, cbVars>>

StartArecordStream ==
    /\ pc = "spawn"
    /\ \/ rec' = "live" /\ Goto("record") /\ UNCHANGED calls
       \/ rec' = rec /\ Goto("abort") /\ CancelAudioStream
    /\ due' = FALSE
    /\ UNCHANGED <<conf, tries, left, code, target, cloudVars, flags, got, fileVars,
                   playVars, cbVars>>

\* The head of the recording loop: both ways to end it are tested here only.
CheckRecording ==
    /\ pc = "record"
    /\ Goto(IF due \/ (conf.endpoint /\ "audio_stream_endpoint_detected" \in flags)
            THEN "stopRec" ELSE "reading")
    /\ UNCHANGED <<conf, mainVars, cloudVars, flags, got, fileVars, playVars, cbVars>>

StopArecordStream == rec' = "reaped"

\* The pipe gives data, which is sent, or an interrupted read; end of file ends
\* the recording; an error and a failed send stop arecord and cancel.
ReadArecordStream ==
    /\ pc = "reading"
    /\ \/ Goto("record") /\ UNCHANGED <<calls, rec>>
       \/ rec = "ended" /\ Goto("stopRec") /\ UNCHANGED <<calls, rec>>
       \/ StopArecordStream /\ CancelAudioStream /\ Goto("abort")
    /\ UNCHANGED <<conf, tries, left, code, target, due, cloudVars, flags, got, fileVars,
                   playVars, cbVars>>

SendLiveDone ==
    /\ pc = "stopRec"
    /\ StopArecordStream /\ FinishAudioStream
    /\ due' = FALSE
    /\ UNCHANGED <<conf, tries, left, code, target, cloudVars, flags, got, fileVars,
                   playVars, cbVars>>

Deadline ==
    /\ pc \in {"record", "reading"} /\ ~due
    /\ due' = TRUE
    /\ UNCHANGED <<conf, pc, tries, left, code, calls, target, rec, cloudVars, flags, got,
                   fileVars, playVars, cbVars>>

RecorderEnds ==
    /\ Running /\ rec = "live"
    /\ rec' = "ended"
    /\ UNCHANGED <<conf, pc, tries, left, code, calls, target, due, cloudVars, flags, got,
                   fileVars, playVars, cbVars>>

-----------------------------------------------------------------------------
(* The main thread: the answer and the end                                 *)

Answered_FirstChunk == "audio" \in flags
Answered == IF conf.playback THEN "tts_stream_end" \in flags
            ELSE \/ "assistant_response" \in flags
                 \/ {"tts_stream_end", "audio"} \subseteq flags

WaitForConversationResult ==
    /\ pc = "wait"
    /\ \/ Answered /\ Goto(IF conf.playback THEN "finish" ELSE "close")
       \/ ~Answered /\ Goto("abort")
    /\ UNCHANGED <<conf, mainVars, cloudVars, flags, got, fileVars, playVars, cbVars>>

\* The mutex is free unless the callback is inside a write to the pipe.
Unlocked == cb # "writing"

TakePlayer_KeepsStdin ==
    /\ Unlocked
    /\ pid' = 0 /\ target' = pid
    /\ UNCHANGED <<conf, tries, left, code, calls, rec, due, cloudVars, flags, got,
                   fileVars, fd, players, heard, cbVars>>
\* Close aplay's stdin and take its pid, under the mutex.
TakePlayer ==
    /\ Unlocked
    /\ fd' = 0 /\ pid' = 0 /\ target' = pid
    /\ UNCHANGED <<conf, tries, left, code, calls, rec, due, cloudVars, flags, got,
                   fileVars, players, heard, cbVars>>

FinishAplayStream_NoWait == pc = "finish" /\ TakePlayer /\ Goto("close")
FinishAplayStream == pc = "finish" /\ TakePlayer /\ Goto("finishWait")

\* waitpid: aplay drains its pipe first; a process the callback has reaped is
\* an error, like an aplay that failed.
WaitAplay ==
    /\ pc = "finishWait"
    /\ Goto("close")
    /\ \/ target = 0 /\ UNCHANGED <<flags, players>>
       \/ /\ target # 0 /\ players[target].st # "live"
          /\ flags' = IF players[target].st = "ok" THEN flags ELSE flags \cup {"playFailed"}
          /\ players' = [players EXCEPT ![target].st = "reaped"]
    /\ target' = 0
    /\ UNCHANGED <<conf, tries, left, code, calls, rec, due, cloudVars, got, fileVars, fd,
                   pid, heard, cbVars>>

\* fflush and fclose; neither result is looked at.
CloseTtsOutputFile ==
    IF file = "open" THEN file' \in {"closed", "cut"} ELSE UNCHANGED file

MustReplay_NotStarted == "playStarted" \notin flags
\* The stream was not heard, or not to its end, and the file may replace it.
MustReplay == \/ "playStarted" \notin flags
              \/ "playFailed" \in flags

\* Close the file, then decide whether to play it.
Conclude ==
    /\ pc = "close"
    /\ CloseTtsOutputFile
    /\ \/ "writeFailed" \in flags /\ Goto("abort") /\ UNCHANGED code
       \/ /\ "writeFailed" \notin flags
          /\ IF conf.playback /\ MustReplay /\ path /\ got > 0
             THEN Goto("replay") /\ UNCHANGED code
             ELSE Goto("abort") /\ code' = 0
    /\ UNCHANGED <<conf, tries, left, calls, target, rec, due, cloudVars, flags, got, path,
                   filed, playVars, cbVars>>

\* playPcmWithAplay: another aplay plays the file from its start.
PlayPcmWithAplay ==
    /\ pc = "replay"
    /\ Goto("abort")
    /\ \/ file # "none" /\ code' = 0
          /\ heard' = IF filed > heard THEN filed ELSE heard
       \/ UNCHANGED <<code, heard>>
    /\ UNCHANGED <<conf, tries, left, calls, target, rec, due, cloudVars, flags, got,
                   fileVars, fd, pid, players, cbVars>>

AbortAplayStream == pc = "abort" /\ TakePlayer /\ Goto("abortWait")

\* SIGTERM and waitpid.
KillAplay ==
    /\ pc = "abortWait"
    /\ Goto("closeEnd")
    /\ players' = IF target = 0 THEN players ELSE [players EXCEPT ![target].st = "reaped"]
    /\ target' = 0
    /\ UNCHANGED <<conf, tries, left, code, calls, rec, due, cloudVars, flags, got, fileVars,
                   fd, pid, heard, cbVars>>

CloseAtEnd ==
    /\ pc = "closeEnd"
    /\ CloseTtsOutputFile
    /\ Goto("disconnect")
    /\ UNCHANGED <<conf, mainVars, cloudVars, flags, got, path, filed, playVars, cbVars>>

Disconnect ==
    /\ pc = "disconnect"
    /\ link' = FALSE
    /\ Goto("exit")
    /\ UNCHANGED <<conf, mainVars, said, flags, got, fileVars, playVars, cbVars>>

Main ==
    \/ CreateClient \/ CheckActivation \/ EnsureAuthorizedConnection
    \/ PrepareTtsOutputFile \/ ResetFlags
    \/ LoadPcmFile \/ StartAudioStream \/ SendFrame
    \/ WaitForAudioStreamStarted \/ StartArecordStream \/ CheckRecording
    \/ ReadArecordStream \/ SendLiveDone
    \/ WaitForConversationResult \/ FinishAplayStream \/ WaitAplay
    \/ Conclude \/ PlayPcmWithAplay
    \/ AbortAplayStream \/ KillAplay \/ CloseAtEnd \/ Disconnect

-----------------------------------------------------------------------------
(* The callback thread.  The session comes first; a conversation message   *)
(* answers a stream that was opened, an answer one that was finished.      *)

Sendable(type) ==
    CASE type = "session_ready" -> TRUE
      [] type \in {"audio_stream_started", "asr_final"} ->
            "session_ready" \in said /\ calls # << >>
      [] type = "audio_stream_endpoint_detected" -> "audio_stream_started" \in said
      [] OTHER -> "asr_final" \in said /\ calls = <<"start", "finish">>

\* Every kind of message sets its flag.
OnMessage ==
    /\ Running /\ link /\ cb = "idle"
    /\ \E type \in Messages \ said :
          /\ Sendable(type)
          /\ said' = said \cup {type}
          /\ flags' = flags \cup {type}
    /\ UNCHANGED <<conf, pc, mainVars, link, got, fileVars, playVars, cbVars>>

\* A chunk; after the last tts_stream_end there is none.
OnAudio ==
    /\ Running /\ link /\ cb = "idle" /\ got < Chunks
    /\ Sendable("tts_stream_end")
    /\ "tts_stream_end" \in said => conf.answers > 1
    /\ flags' = flags \cup {"audio"}
    /\ got' = got + 1
    /\ cb' = IF file = "open" THEN "fwrite" ELSE "play"
    /\ UNCHANGED <<conf, pc, mainVars, cloudVars, fileVars, playVars, probed>>

\* The chunk goes to the file that was open when the callback looked.
WriteFile ==
    /\ Running /\ cb = "fwrite"
    /\ cb' = "play"
    /\ \/ filed' = filed + 1 /\ UNCHANGED flags
       \/ flags' = flags \cup {"writeFailed"} /\ UNCHANGED filed
    /\ UNCHANGED <<conf, pc, mainVars, cloudVars, got, file, path, playVars, probed>>

\* Spawn aplay unless there is one or one has failed; under the mutex.
StartAplayStreamIfNeeded ==
    /\ Running /\ cb = "play"
    /\ \/ "enabled" \notin flags /\ cb' = "idle"
          /\ UNCHANGED <<flags, fd, pid, players, probed>>
       \/ "enabled" \in flags /\ fd # 0 /\ cb' = "write"
          /\ UNCHANGED <<flags, fd, pid, players, probed>>
       \/ "enabled" \in flags /\ fd = 0 /\ "playFailed" \in flags /\ cb' = "idle"
          /\ UNCHANGED <<flags, fd, pid, players, probed>>
       \/ /\ "enabled" \in flags /\ fd = 0 /\ "playFailed" \notin flags
          /\ \/ flags' = flags \cup {"playFailed"} /\ cb' = "idle"
                /\ UNCHANGED <<fd, pid, players, probed>>
             \/ /\ players' = Append(players, [st |-> "live", pipe |-> 0])
                /\ fd' = Len(players') /\ pid' = fd' /\ probed' = fd'
                /\ flags' = flags \cup {"playStarted"}
                /\ cb' = "probe"
    /\ UNCHANGED <<conf, pc, mainVars, cloudVars, got, fileVars, heard>>

\* 50 ms later, outside the mutex: has it exited already?
ProbeAplay ==
    /\ Running /\ cb = "probe"
    /\ IF players[probed].st \in {"ok", "failed"}
       THEN cb' = "mark" /\ players' = [players EXCEPT ![probed].st = "reaped"]
       ELSE cb' = "write" /\ UNCHANGED players
    /\ probed' = 0
    /\ UNCHANGED <<conf, pc, mainVars, cloudVars, flags, got, fileVars, fd, pid, heard>>

MarkAplayDead ==
    /\ Running /\ cb = "mark"
    /\ fd' = 0 /\ pid' = 0
    /\ flags' = flags \cup {"playFailed"}
    /\ cb' = "idle"
    /\ UNCHANGED <<conf, pc, mainVars, cloudVars, got, fileVars, players, heard, probed>>

\* Take the mutex; a stream that was closed since takes no chunk, no error.
EnterWrite ==
    /\ Running /\ cb = "write"
    /\ cb' = IF fd = 0 THEN "idle" ELSE "writing"
    /\ UNCHANGED <<conf, pc, mainVars, cloudVars, flags, got, fileVars, playVars, probed>>

\* The write blocks while aplay lives and the pipe is full.  Without a reader
\* it is an error, or the end of the process.
WriteAplayStream ==
    /\ Running /\ cb = "writing"
    /\ \/ /\ players[fd].st = "live" /\ players[fd].pipe < Pipe
          /\ players' = [players EXCEPT ![fd].pipe = @ + 1]
          /\ cb' = "idle"
          /\ UNCHANGED <<pc, flags>>
       \/ /\ players[fd].st # "live" /\ ~conf.pipeKills
          /\ flags' = flags \cup {"playFailed"} /\ cb' = "idle"
          /\ UNCHANGED <<pc, players>>
       \/ /\ players[fd].st # "live" /\ conf.pipeKills
          /\ Goto("killed")
          /\ UNCHANGED <<flags, cb, players>>
    /\ UNCHANGED <<conf, mainVars, cloudVars, got, fileVars, fd, pid, heard, probed>>

Callback ==
    \/ WriteFile \/ StartAplayStreamIfNeeded \/ ProbeAplay \/ MarkAplayDead
    \/ EnterWrite \/ WriteAplayStream

-----------------------------------------------------------------------------
(* aplay                                                                   *)

\* It plays a chunk, or meets the end of its input and leaves.
Play(i) ==
    /\ Running /\ players[i].st = "live"
    /\ \/ /\ players[i].pipe > 0
          /\ players' = [players EXCEPT ![i].pipe = @ - 1]
          /\ heard' = heard + 1
       \/ /\ players[i].pipe = 0 /\ fd # i
          /\ players' = [players EXCEPT ![i].st = "ok"]
          /\ UNCHANGED heard
    /\ UNCHANGED <<conf, pc, mainVars, cloudVars, flags, got, fileVars, fd, pid, cbVars>>

\* No such program, no such device, the device unplugged.
PlayerFails(i) ==
    /\ Running /\ players[i].st = "live"
    /\ players' = [players EXCEPT ![i].st = "failed"]
    /\ UNCHANGED <<conf, pc, mainVars, cloudVars, flags, got, fileVars, fd, pid, heard, cbVars>>

Player == \E i \in DOMAIN players : Play(i)

Next ==
    \/ Main \/ Deadline \/ RecorderEnds
    \/ OnMessage \/ OnAudio \/ Callback
    \/ Player \/ \E i \in DOMAIN players : PlayerFails(i)

Spec == Init /\ [][Next]_vars

\* The clock runs, the scheduler runs both threads, arecord delivers (a read
\* returns) and an aplay that lives reads its pipe to the end.
FairSpec == Spec /\ WF_vars(Main) /\ WF_vars(Deadline) /\ WF_vars(Callback) /\ WF_vars(Player)

-----------------------------------------------------------------------------
(* Properties                                                              *)

Sending == {"start", "send", "waitStarted", "spawn", "record", "reading", "stopRec"}

\* Whatever failed on the way, once the program has left the sending phase the
\* stream it opened was closed by exactly one finish or cancel, and arecord is
\* dead and reaped.
StreamClosed ==
    pc \notin Sending \cup {"killed"} =>
        /\ calls \in {<< >>, <<"start", "finish">>, <<"start", "cancel">>}
        /\ rec \in {"none", "reaped"}

\* Exit code 0 means the answer was heard: every chunk of it came out of aplay,
\* from the stream or from the file (which was kept, and written to its end).
AllHeard ==
    pc = "exit" /\ code = 0 /\ conf.playback /\ conf.answers = 1 /\ path /\ file # "cut"
        => heard = got

\* A finished program leaves no aplay behind: with an answer that ended every
\* one was reaped, whichever thread noticed its death.
NoOrphans ==
    pc = "exit" /\ code = 0 /\ conf.answers = 1 =>
        \A i \in DOMAIN players : players[i].st = "reaped"

\* A callback writes to the output file only while it is open, unless main has
\* given the conversation up or the cloud speaks after its tts_stream_end.
FileOpenWhenWritten ==
    cb = "fwrite" /\ file # "open" =>
        \/ conf.answers > 1
        \/ code # 0 /\ pc \in {"disconnect", "exit"}

\* The program ends: the mutex held across a blocking write, the children and
\* the waits for the cloud never keep it.
Finishes == <>(pc \in {"exit", "killed"})

=============================================================================
