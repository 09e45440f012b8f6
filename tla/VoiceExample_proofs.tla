------------------------ MODULE VoiceExample_proofs ------------------------
(***************************************************************************)
(* Proofs about the voice conversation, for every set of environments, any *)
(* number of retries, frames and chunks, and any size of aplay's pipe.     *)
(***************************************************************************)
EXTENDS VoiceExample, TLAPS, SequenceTheorems

ConfTypes ==
    [playback : BOOLEAN, source : {"file", "live", "synthetic"}, endpoint : BOOLEAN,
     pipeKills : BOOLEAN, answers : Nat]

LEMMA ConfHasType == \A env \in Environments : ConfOf(env) \in ConfTypes
BY VoiceAssumption DEF ConfOf, ConfTypes

-----------------------------------------------------------------------------
(* The audio stream and arecord                                            *)

Before == {"begin", "activation", "connect", "prepare", "reset", "load", "start"}
Opened == {"send", "waitStarted", "spawn"}
Recording == {"record", "reading", "stopRec"}
After == {"wait", "finish", "finishWait", "close", "replay", "abort", "abortWait", "closeEnd",
          "disconnect", "exit"}

\* In each phase of the conversation: the calls made for the stream, and what
\* has become of arecord.
StreamInv ==
    /\ pc \in Before \cup Opened \cup Recording \cup After \cup {"killed"}
    /\ pc \in Before => calls = << >> /\ rec = "none"
    /\ pc \in Opened => calls = <<"start">> /\ rec = "none"
    /\ pc \in Recording => calls = <<"start">> /\ rec \in {"live", "ended"}
    /\ pc \in After => /\ calls \in {<< >>, <<"start", "finish">>, <<"start", "cancel">>}
                       /\ rec \in {"none", "reaped"}

LEMMA StreamInit == Init => StreamInv
BY DEF Init, StreamInv, Before, Opened, Recording, After

\* A step that leaves main where it is, with its calls and arecord, or kills it.
LEMMA StreamRests ==
    ASSUME StreamInv, UNCHANGED <<calls, rec>>, pc' = pc \/ pc' = "killed"
    PROVE  StreamInv'
BY DEF StreamInv, Before, Opened, Recording, After

\* A step of main that makes no call and stays within a phase, or gives up
\* before the stream is opened.
LEMMA StreamMoves ==
    ASSUME StreamInv, UNCHANGED <<calls, rec>>,
           \/ pc \in Before /\ pc' \in Before \cup {"abort", "exit"}
           \/ pc \in Recording /\ pc' \in Recording
           \/ pc \in After /\ pc' \in After
    PROVE  StreamInv'
BY DEF StreamInv, Before, Opened, Recording, After

LEMMA AppendToOne ==
    ASSUME NEW S, NEW a \in S, NEW b \in S
    PROVE  Append(<<a>>, b) = <<a, b>>
<1>1. <<a>> \in Seq(S) /\ Len(<<a>>) = 1 /\ <<a>>[1] = a
  OBVIOUS
<1>2. <<a, b>> \in Seq(S) /\ Len(<<a, b>>) = 2 /\ <<a, b>>[1] = a /\ <<a, b>>[2] = b
  OBVIOUS
<1> DEFINE s == <<a>>
           t == Append(s, b)
<1>3. t \in Seq(S) /\ Len(t) = 2 /\ t[1] = a /\ t[2] = b
  <2> HIDE DEF s
  <2> QED
    BY <1>1, AppendProperties DEF s
<1> HIDE DEF t
<1>4. t = <<a, b>>
  BY <1>2, <1>3, SeqEqual
<1> QED
  BY <1>4 DEF t

LEMMA OneCall == /\ Append(<<"start">>, "finish") = <<"start", "finish">>
                 /\ Append(<<"start">>, "cancel") = <<"start", "cancel">>
<1> DEFINE Calls == {"start", "finish", "cancel"}
<1>1. "start" \in Calls /\ "finish" \in Calls /\ "cancel" \in Calls
  OBVIOUS
<1> HIDE DEF Calls
<1> QED
  BY <1>1, AppendToOne

LEMMA StreamStep == StreamInv /\ [Next]_vars => StreamInv'
<1> SUFFICES ASSUME StreamInv, [Next]_vars PROVE StreamInv'
  OBVIOUS
<1> USE DEF Goto
<1>1. CASE CreateClient \/ CheckActivation \/ EnsureAuthorizedConnection \/ PrepareTtsOutputFile
           \/ ResetFlags \/ LoadPcmFile
  BY <1>1, StreamMoves DEF CreateClient, CheckActivation, EnsureAuthorizedConnection,
     PrepareTtsOutputFile, ResetFlags, LoadPcmFile, mainVars, Before
<1>2. CASE StartAudioStream
  BY <1>2 DEF StartAudioStream, StreamInv, Before, Opened, Recording, After
<1>3. CASE SendFrame
  BY <1>3, OneCall DEF SendFrame, FinishAudioStream, CancelAudioStream, StreamInv, Before, Opened,
     Recording, After
<1>4. CASE WaitForAudioStreamStarted \/ StartArecordStream
  BY <1>4, OneCall DEF WaitForAudioStreamStarted, StartArecordStream, CancelAudioStream, StreamInv,
     Before, Opened, Recording, After
<1>5. CASE CheckRecording
  BY <1>5, StreamMoves DEF CheckRecording, mainVars, Recording
<1>6. CASE ReadArecordStream \/ SendLiveDone
  BY <1>6, OneCall DEF ReadArecordStream, SendLiveDone, StopArecordStream, FinishAudioStream,
     CancelAudioStream, StreamInv, Before, Opened, Recording, After
<1>7. CASE WaitForConversationResult \/ FinishAplayStream \/ WaitAplay \/ Conclude \/ PlayPcmWithAplay
  BY <1>7, StreamMoves DEF WaitForConversationResult, FinishAplayStream, TakePlayer, WaitAplay,
     Conclude, PlayPcmWithAplay, mainVars, After
<1>8. CASE AbortAplayStream \/ KillAplay \/ CloseAtEnd \/ Disconnect
  BY <1>8, StreamMoves DEF AbortAplayStream, TakePlayer, KillAplay, CloseAtEnd, Disconnect, mainVars,
     After
<1>9. CASE RecorderEnds
  BY <1>9 DEF RecorderEnds, Running, StreamInv, Before, Opened, Recording, After
<1>10. CASE Deadline \/ OnMessage \/ OnAudio
  BY <1>10, StreamRests DEF Deadline, OnMessage, OnAudio, mainVars
<1>11. CASE Callback
  BY <1>11, StreamRests DEF Callback, WriteFile, StartAplayStreamIfNeeded, ProbeAplay, MarkAplayDead,
     EnterWrite, WriteAplayStream, mainVars
<1>12. CASE Player \/ \E i \in DOMAIN players : PlayerFails(i)
  BY <1>12, StreamRests DEF Player, Play, PlayerFails, mainVars
<1>13. CASE UNCHANGED vars
  BY <1>13, StreamRests DEF vars, mainVars
<1> QED
  BY <1>1, <1>2, <1>3, <1>4, <1>5, <1>6, <1>7, <1>8, <1>9, <1>10, <1>11, <1>12, <1>13 DEF Next, Main

\* Whatever call, child or wait fails while the recording is sent, the stream the
\* program opened is closed by one finish or one cancel, and arecord is reaped.
THEOREM StreamIsClosed == Spec => []StreamClosed
<1>1. StreamInv => StreamClosed
  BY DEF StreamInv, StreamClosed, Sending, Before, Opened, Recording, After
<1> QED
  BY <1>1, StreamInit, StreamStep, PTL DEF Spec

-----------------------------------------------------------------------------
(* The conversation and the output file                                    *)

LastHeard == "tts_stream_end" \in said /\ ~(conf.answers > 1)

\* main has decided that the conversation succeeded.
Succeeded == pc \in {"finish", "finishWait", "close", "replay"} \/ code = 0

\* No audio before the recording is finished, none behind the end of a single
\* answer, and no success without that end if the answer is to be heard.
TalkInv ==
    /\ conf \in ConfTypes
    /\ "tts_stream_end" \in flags => "tts_stream_end" \in said
    /\ "enabled" \in flags => conf.playback
    /\ conf.playback \/ file = "none"
    /\ Succeeded /\ conf.playback => "tts_stream_end" \in said
    /\ LastHeard => cb = "idle"
    /\ pc \in Before \cup Opened \cup Recording => cb = "idle"
    /\ cb = "fwrite" => conf.playback /\ FileOpenWhenWritten

LEMMA TalkInit == Init => TalkInv
BY ConfHasType DEF Init, TalkInv, LastHeard, Succeeded

LEMMA TalkStep == StreamInv /\ TalkInv /\ [Next]_vars => TalkInv'
<1> SUFFICES ASSUME StreamInv, TalkInv, [Next]_vars PROVE TalkInv'
  OBVIOUS
<1> USE DEF Goto, Before, Opened, Recording
<1>1. CASE CreateClient \/ CheckActivation \/ EnsureAuthorizedConnection
  BY <1>1 DEF CreateClient, CheckActivation, PairingCode, EnsureAuthorizedConnection, TalkInv,
     LastHeard, Succeeded, FileOpenWhenWritten, mainVars, cloudVars, fileVars, cbVars
<1>2. CASE PrepareTtsOutputFile \/ ResetFlags \/ LoadPcmFile \/ StartAudioStream
  BY <1>2 DEF PrepareTtsOutputFile, ResetFlags, Messages, LoadPcmFile, StartAudioStream, TalkInv,
     LastHeard, Succeeded, FileOpenWhenWritten, mainVars, cloudVars, fileVars, cbVars
<1>3. CASE SendFrame \/ WaitForAudioStreamStarted \/ StartArecordStream
  BY <1>3 DEF SendFrame, WaitForAudioStreamStarted, StartArecordStream, FinishAudioStream, TalkInv,
     LastHeard, Succeeded, FileOpenWhenWritten, mainVars, cloudVars, fileVars, cbVars
<1>4. CASE CheckRecording \/ ReadArecordStream \/ SendLiveDone
  BY <1>4 DEF CheckRecording, ReadArecordStream, SendLiveDone, FinishAudioStream, TalkInv,
     LastHeard, Succeeded, FileOpenWhenWritten, mainVars, cloudVars, fileVars, cbVars
<1>5. CASE WaitForConversationResult
  BY <1>5 DEF WaitForConversationResult, Answered, TalkInv, LastHeard, Succeeded,
     FileOpenWhenWritten, mainVars, cloudVars, fileVars, cbVars
<1>6. CASE FinishAplayStream \/ WaitAplay
  BY <1>6 DEF FinishAplayStream, TakePlayer, WaitAplay, TalkInv, LastHeard, Succeeded,
     FileOpenWhenWritten, cloudVars, fileVars, cbVars
<1>7. CASE Conclude
  BY <1>7 DEF Conclude, CloseTtsOutputFile, TalkInv, LastHeard, Succeeded, FileOpenWhenWritten,
     cloudVars, cbVars
<1>8. CASE PlayPcmWithAplay \/ AbortAplayStream \/ KillAplay
  BY <1>8 DEF PlayPcmWithAplay, AbortAplayStream, TakePlayer, KillAplay, TalkInv, LastHeard,
     Succeeded, FileOpenWhenWritten, cloudVars, fileVars, cbVars
<1>9. CASE CloseAtEnd \/ Disconnect
  BY <1>9 DEF CloseAtEnd, CloseTtsOutputFile, Disconnect, TalkInv, LastHeard, Succeeded,
     FileOpenWhenWritten, mainVars, cloudVars, fileVars, cbVars
<1>10. CASE Deadline \/ RecorderEnds
  BY <1>10 DEF Deadline, RecorderEnds, TalkInv, LastHeard, Succeeded, FileOpenWhenWritten,
     cloudVars, fileVars, cbVars
<1>11. CASE OnMessage
  BY <1>11 DEF OnMessage, Messages, TalkInv, LastHeard, Succeeded, FileOpenWhenWritten, mainVars,
     fileVars, cbVars
<1>12. CASE OnAudio
  <2>1. calls = <<"start", "finish">>
    BY <1>12 DEF OnAudio, Sendable
  <2>2. pc \notin Before \cup Opened \cup Recording
    BY <2>1 DEF StreamInv
  <2>3. ~LastHeard
    BY <1>12 DEF OnAudio, LastHeard
  <2> QED
    BY <1>12, <2>2, <2>3 DEF OnAudio, TalkInv, LastHeard, Succeeded, FileOpenWhenWritten, mainVars,
       cloudVars, fileVars
<1>13. CASE Callback
  BY <1>13 DEF Callback, WriteFile, StartAplayStreamIfNeeded, ProbeAplay, MarkAplayDead, EnterWrite,
     WriteAplayStream, TalkInv, LastHeard, Succeeded, FileOpenWhenWritten, mainVars, cloudVars,
     fileVars
<1>14. CASE Player \/ \E i \in DOMAIN players : PlayerFails(i)
  BY <1>14 DEF Player, Play, PlayerFails, TalkInv, LastHeard, Succeeded, FileOpenWhenWritten,
     mainVars, cloudVars, fileVars, cbVars
<1>15. CASE UNCHANGED vars
  BY <1>15 DEF vars, TalkInv, LastHeard, Succeeded, FileOpenWhenWritten, mainVars, cloudVars,
     fileVars, cbVars
<1> QED
  BY <1>1, <1>2, <1>3, <1>4, <1>5, <1>6, <1>7, <1>8, <1>9, <1>10, <1>11, <1>12, <1>13, <1>14, <1>15
     DEF Next, Main

\* A callback that has seen the output file open writes to it before main closes
\* it, unless main has given the conversation up or the cloud speaks after the end.
THEOREM FileStaysOpen == Spec => []FileOpenWhenWritten
<1>1. TalkInv => FileOpenWhenWritten
  BY DEF TalkInv, FileOpenWhenWritten
<1> QED
  BY <1>1, StreamInit, StreamStep, TalkInit, TalkStep, PTL DEF Spec

-----------------------------------------------------------------------------
(* The aplay processes                                                     *)

Aplay == [st : {"live", "ok", "failed", "reaped"}, pipe : Nat]

\* A process that is not reaped is the one of the stream or the one main waits
\* for, whichever thread finds it dead, and after a success there is no stream.
AplayInv ==
    /\ players \in Seq(Aplay)
    /\ {pid, target} \subseteq 0..Len(players) /\ fd = pid
    /\ \A i \in 1..Len(players) : players[i].st # "reaped" => i \in {pid, target}
    /\ target # 0 => pc \in {"finishWait", "abortWait", "killed"}
    /\ cb = "probe" => probed \in 1..Len(players) /\ pid \in {0, probed}
    /\ cb = "mark" => pid = 0 \/ players[pid].st = "reaped"
    /\ ~conf.playback => pid = 0
    /\ (code = 0 \/ pc \in {"finishWait", "close", "replay"}) /\ ~(conf.answers > 1) => pid = 0

\* What a step does to one process.
LEMMA OneProcess ==
    ASSUME players \in Seq(Aplay), NEW i \in 1..Len(players), NEW r \in Aplay,
           players' = [players EXCEPT ![i] = r]
    PROVE  /\ players' \in Seq(Aplay) /\ Len(players') = Len(players)
           /\ \A j \in 1..Len(players) : players'[j] = IF j = i THEN r ELSE players[j]
<1>1. players' \in [1..Len(players) -> Aplay]
  OBVIOUS
<1>2. Len(players) \in Nat
  OBVIOUS
<1> QED
  BY <1>1, <1>2

LEMMA AplayInit == Init => AplayInv
BY DEF Init, AplayInv

\* Steps that concern no process and decide nothing.
LEMMA AplayRests ==
    ASSUME AplayInv, UNCHANGED <<conf, players, fd, pid, target>>,
           code' = code \/ code' # 0,
           cb' \in {"probe", "mark"} => UNCHANGED <<cb, probed>>,
           pc' \in {pc, "killed"} \/ (target = 0 /\ pc' \notin {"finishWait", "close", "replay"})
    PROVE  AplayInv'
BY DEF AplayInv

LEMMA AplayStep == StreamInv /\ TalkInv /\ AplayInv /\ [Next]_vars => AplayInv'
<1> SUFFICES ASSUME StreamInv, TalkInv, AplayInv, [Next]_vars PROVE AplayInv'
  OBVIOUS
<1> USE DEF Goto
<1>1. CASE CreateClient \/ CheckActivation \/ EnsureAuthorizedConnection \/ PrepareTtsOutputFile
           \/ ResetFlags \/ LoadPcmFile \/ StartAudioStream
  <2>1. target = 0
    BY <1>1 DEF AplayInv, CreateClient, CheckActivation, EnsureAuthorizedConnection,
       PrepareTtsOutputFile, ResetFlags, LoadPcmFile, StartAudioStream
  <2> QED
    BY <1>1, <2>1, AplayRests DEF CreateClient, CheckActivation, PairingCode,
       EnsureAuthorizedConnection, PrepareTtsOutputFile, ResetFlags, LoadPcmFile, StartAudioStream,
       mainVars, playVars, cbVars
<1>2. CASE SendFrame \/ WaitForAudioStreamStarted \/ StartArecordStream \/ CheckRecording
           \/ ReadArecordStream \/ SendLiveDone
  <2>1. target = 0
    BY <1>2 DEF AplayInv, SendFrame, WaitForAudioStreamStarted, StartArecordStream, CheckRecording,
       ReadArecordStream, SendLiveDone
  <2> QED
    BY <1>2, <2>1, AplayRests DEF SendFrame, WaitForAudioStreamStarted, StartArecordStream,
       CheckRecording, ReadArecordStream, SendLiveDone, FinishAudioStream, mainVars, playVars, cbVars
<1>3. CASE WaitForConversationResult
  BY <1>3 DEF WaitForConversationResult, mainVars, playVars, cbVars, AplayInv
<1>4. CASE FinishAplayStream \/ AbortAplayStream
  BY <1>4 DEF FinishAplayStream, AbortAplayStream, TakePlayer, playVars, cbVars, AplayInv
<1>5. CASE WaitAplay \/ KillAplay
  <2>1. CASE target = 0
    BY <1>5, <2>1 DEF WaitAplay, KillAplay, playVars, cbVars, AplayInv
  <2>2. CASE target # 0
    <3> DEFINE r == [players[target] EXCEPT !.st = "reaped"]
    <3>1. target \in 1..Len(players)
      BY <2>2 DEF AplayInv
    <3>2. r \in Aplay /\ r.st = "reaped"
      <4>1. players[target] \in Aplay
        BY <3>1 DEF AplayInv
      <4> QED
        BY <4>1 DEF Aplay
    <3>3. players' = [players EXCEPT ![target] = r]
      BY <1>5, <2>2 DEF WaitAplay, KillAplay
    <3> HIDE DEF r
    <3>5. /\ players' \in Seq(Aplay) /\ Len(players') = Len(players)
          /\ \A j \in 1..Len(players) : players'[j] = IF j = target THEN r ELSE players[j]
      BY <3>1, <3>2, <3>3, OneProcess DEF AplayInv
    <3> HIDE DEF Aplay
    <3> QED
      BY <1>5, <3>1, <3>2, <3>5 DEF WaitAplay, KillAplay, playVars, cbVars, AplayInv
  <2> QED
    BY <2>1, <2>2
<1>6. CASE Conclude
  BY <1>6 DEF Conclude, playVars, cbVars, AplayInv
<1>7. CASE PlayPcmWithAplay
  BY <1>7 DEF PlayPcmWithAplay, cbVars, AplayInv
<1>8. CASE CloseAtEnd \/ Disconnect
  BY <1>8 DEF CloseAtEnd, Disconnect, mainVars, playVars, cbVars, AplayInv
<1>9. CASE Deadline \/ RecorderEnds \/ OnMessage
  BY <1>9, AplayRests DEF Deadline, RecorderEnds, OnMessage, mainVars, playVars, cbVars
<1>10. CASE OnAudio \/ WriteFile \/ EnterWrite
  BY <1>10, AplayRests DEF OnAudio, WriteFile, EnterWrite, mainVars, playVars
<1>11. CASE StartAplayStreamIfNeeded
  <2>1. CASE players' = players
    BY <1>11, <2>1 DEF StartAplayStreamIfNeeded, mainVars, AplayInv
  <2>2. CASE players' # players
    <3> DEFINE r == [st |-> "live", pipe |-> 0]
    <3>1. /\ players' = Append(players, r) /\ pid' = Len(players') /\ fd' = pid'
          /\ probed' = fd' /\ cb' = "probe" /\ fd = 0 /\ "enabled" \in flags /\ cb = "play"
          /\ UNCHANGED <<conf, pc, code, target>>
      BY <1>11, <2>2 DEF StartAplayStreamIfNeeded, mainVars
    <3>2. r \in Aplay
      BY DEF Aplay
    <3> HIDE DEF r, Aplay
    <3>3. /\ players' \in Seq(Aplay) /\ Len(players') = Len(players) + 1
          /\ \A j \in 1..Len(players) : players'[j] = players[j]
      BY <3>1, <3>2, AppendProperties DEF AplayInv
    <3>4. Len(players) \in Nat
      BY DEF AplayInv
    <3>5. conf.playback /\ ~LastHeard
      BY <3>1 DEF TalkInv
    <3>6. code = 0 \/ pc \in {"finishWait", "close", "replay"} => conf.answers > 1
      BY <3>5 DEF TalkInv, Succeeded, LastHeard
    <3> QED
      BY <3>1, <3>3, <3>4, <3>5, <3>6 DEF AplayInv
  <2> QED
    BY <2>1, <2>2
<1>12. CASE ProbeAplay
  <2> DEFINE r == [players[probed] EXCEPT !.st = "reaped"]
  <2>1. cb = "probe" /\ probed \in 1..Len(players) /\ pid \in {0, probed}
    BY <1>12 DEF ProbeAplay, AplayInv
  <2>2. CASE players[probed].st \in {"ok", "failed"}
    <3>1. r \in Aplay /\ r.st = "reaped"
      <4>1. players[probed] \in Aplay
        BY <2>1 DEF AplayInv
      <4> QED
        BY <4>1 DEF Aplay
    <3>2. players' = [players EXCEPT ![probed] = r] /\ cb' = "mark"
      BY <1>12, <2>2 DEF ProbeAplay
    <3> HIDE DEF r
    <3>3. /\ players' \in Seq(Aplay) /\ Len(players') = Len(players)
          /\ \A j \in 1..Len(players) : players'[j] = IF j = probed THEN r ELSE players[j]
      BY <2>1, <3>1, <3>2, OneProcess DEF AplayInv
    <3> HIDE DEF Aplay
    <3> QED
      BY <1>12, <2>1, <3>1, <3>2, <3>3 DEF ProbeAplay, mainVars, AplayInv
  <2>3. CASE players[probed].st \notin {"ok", "failed"}
    BY <1>12, <2>3 DEF ProbeAplay, mainVars, AplayInv
  <2> QED
    BY <2>2, <2>3
<1>13. CASE MarkAplayDead
  BY <1>13 DEF MarkAplayDead, mainVars, AplayInv
<1>14. CASE WriteAplayStream
  <2>1. CASE players' = players
    BY <1>14, <2>1, AplayRests DEF WriteAplayStream, mainVars
  <2>2. CASE players' # players
    <3> DEFINE r == [players[fd] EXCEPT !.pipe = @ + 1]
    <3>1. players' = [players EXCEPT ![fd] = r] /\ cb' = "idle" /\ pc' = pc
      BY <1>14, <2>2 DEF WriteAplayStream
    <3>2. fd \in 1..Len(players)
      BY <2>2, <3>1 DEF AplayInv
    <3>3. r \in Aplay /\ r.st = players[fd].st
      <4>1. players[fd] \in Aplay
        BY <3>2 DEF AplayInv
      <4> QED
        BY <4>1 DEF Aplay
    <3> HIDE DEF r
    <3>4. /\ players' \in Seq(Aplay) /\ Len(players') = Len(players)
          /\ \A j \in 1..Len(players) : players'[j] = IF j = fd THEN r ELSE players[j]
      BY <3>1, <3>2, <3>3, OneProcess DEF AplayInv
    <3> HIDE DEF Aplay
    <3> QED
      BY <1>14, <3>1, <3>2, <3>3, <3>4 DEF WriteAplayStream, mainVars, AplayInv
  <2> QED
    BY <2>1, <2>2
<1>15. ASSUME NEW i \in DOMAIN players, Play(i) \/ PlayerFails(i) PROVE AplayInv'
  <2>1. PICK r : /\ players' = [players EXCEPT ![i] = r]
                 /\ r \in Aplay /\ players[i].st = "live"
    <3>1. players[i] \in Aplay /\ players[i].st = "live"
      BY <1>15 DEF AplayInv, Play, PlayerFails
    <3>2. CASE PlayerFails(i)
      BY <3>1, <3>2 DEF PlayerFails, Aplay
    <3>3. CASE Play(i)
      BY <3>1, <3>3 DEF Play, Aplay
    <3> QED
      BY <1>15, <3>2, <3>3
  <2>2. i \in 1..Len(players)
    BY DEF AplayInv
  <2>3. /\ players' \in Seq(Aplay) /\ Len(players') = Len(players)
        /\ \A j \in 1..Len(players) : players'[j] = IF j = i THEN r ELSE players[j]
    BY <2>1, <2>2, OneProcess DEF AplayInv
  <2> HIDE DEF Aplay
  <2> QED
    BY <1>15, <2>1, <2>2, <2>3 DEF Play, PlayerFails, mainVars, cbVars, AplayInv
<1>16. CASE UNCHANGED vars
  BY <1>16, AplayRests DEF vars, mainVars, playVars, cbVars
<1> QED
  BY <1>1, <1>2, <1>3, <1>4, <1>5, <1>6, <1>7, <1>8, <1>9, <1>10, <1>11, <1>12, <1>13, <1>14, <1>15,
     <1>16 DEF Next, Main, Callback, Player

\* A program that ended well has reaped every aplay it started, also when the
\* callback and main both found one dead, as long as one answer was given.
THEOREM NoPlayerLeft == Spec => []NoOrphans
<1>1. AplayInv => NoOrphans
  BY DEF AplayInv, NoOrphans
<1> QED
  BY <1>1, StreamInit, StreamStep, TalkInit, TalkStep, AplayInit, AplayStep, PTL DEF Spec

-----------------------------------------------------------------------------
(* The chunks of an answer                                                 *)

Single == conf.playback /\ ~(conf.answers > 1)

\* main is on its way out, with an error.
GivenUp == code # 0 /\ pc \in {"abort", "abortWait", "closeEnd", "disconnect", "exit", "killed"}

InHand == IF cb = "idle" THEN 0 ELSE 1
InPipe == IF players = << >> THEN 0 ELSE players[1].pipe

\* The file is open up to a success, and has what was received but for the chunk
\* the callback holds.
FileCount ==
    /\ file # "none" /\ ~Succeeded => file = "open"
    /\ file # "none" /\ "writeFailed" \notin flags =>
          got = filed + (IF cb = "fwrite" THEN 1 ELSE 0)
    /\ pc = "replay" => "writeFailed" \notin flags

\* One aplay at most: what was received was heard, or is in its pipe or in the
\* callback's hand, unless something failed.
StreamCount ==
    /\ Len(players) <= 1
    /\ heard + InPipe + InHand <= got
    /\ "playFailed" \notin flags => heard + InPipe + InHand = got
    /\ cb \in {"probe", "mark", "write", "writing"} => fd = 1
    /\ players # << >> /\ players[1].st = "ok" => InPipe = 0
    /\ players # << >> /\ fd = 0 /\ "playFailed" \notin flags => Succeeded /\ (target = 1 \/ InPipe = 0)

CountInv ==
    /\ {got, filed, heard} \subseteq Nat
    /\ pc \in Before \cup Opened \cup Recording =>
          got = 0 /\ filed = 0 /\ heard = 0 /\ players = << >>
    /\ conf.playback /\ (calls # << >> \/ pc \in {"load", "start"}) => "enabled" \in flags
    /\ cb # "idle" => calls # << >>
    /\ code = 0 \/ pc = "replay" => file # "open"
    /\ code = 0 => pc \notin Before \cup Opened \cup Recording
                              \cup {"wait", "finish", "finishWait", "close", "replay"}
    /\ Single /\ ~GivenUp => FileCount
    /\ Single /\ ~GivenUp /\ code # 0 => StreamCount
    /\ Single /\ code = 0 => target = 0 /\ (path /\ file # "cut" => heard = got)

LEMMA CountInit == Init => CountInv
BY DEF Init, CountInv, FileCount, StreamCount, InPipe, InHand, Before, Opened, Recording

NoneOrOne == \/ players = << >> /\ Len(players) = 0
             \/ players[1] \in Aplay /\ Len(players) = 1

LEMMA AtMostOne ==
    ASSUME players \in Seq(Aplay), Len(players) <= 1
    PROVE  NoneOrOne
<1> DEFINE n == Len(players)
<1>1. n \in Nat /\ n <= 1
  OBVIOUS
<1>2. n = 0 \/ n = 1
  <2> HIDE DEF n
  <2> QED
    BY <1>1
<1>3. CASE n = 0
  <2>1. players = << >>
    BY <1>3
  <2> QED
    BY <1>3, <2>1 DEF NoneOrOne
<1>4. CASE n = 1
  <2>1. 1 \in 1..Len(players)
    BY <1>4
  <2>2. players[1] \in Aplay
    <3> HIDE DEF Aplay
    <3> QED
      BY <2>1, ElementOfSeq
  <2> QED
    BY <1>4, <2>2 DEF NoneOrOne
<1> QED
  BY <1>2, <1>3, <1>4

\* Steps of main that do not touch what is counted.
LEMMA CountRests ==
    ASSUME CountInv, AplayInv, UNCHANGED <<conf, got, filed, heard, players, cb, fd, target, file, path>>,
           {"playFailed", "writeFailed", "enabled"} \cap flags' = {"playFailed", "writeFailed", "enabled"} \cap flags,
           calls' = calls \/ (calls # << >> /\ calls' # << >>),
           code' = code \/ (code # 0 /\ code' # 0), 
           GivenUp => GivenUp', Succeeded => Succeeded' \/ GivenUp',
           pc' \in Before \cup {"replay"} => pc' = pc,
           pc' \in Opened \cup Recording => pc \in Opened \cup Recording,
           code' # 0 \/ pc' = pc \/ pc' \in {"abortWait", "closeEnd", "disconnect", "exit", "killed"}
    PROVE  CountInv'
BY DEF CountInv, FileCount, StreamCount, InPipe, InHand, Single, Before, Opened, Recording

\* Steps before the conversation begins leave every count at zero.
LEMMA CountEarly ==
    ASSUME CountInv, AplayInv, TalkInv, StreamInv,
           CreateClient \/ CheckActivation \/ EnsureAuthorizedConnection \/ PrepareTtsOutputFile
             \/ ResetFlags \/ LoadPcmFile \/ StartAudioStream
    PROVE  CountInv'
<1>1. /\ pc \in Before /\ pc' \in Before \cup Opened \cup {"abort", "exit"} /\ code # 0
      /\ got = 0 /\ filed = 0 /\ heard = 0 /\ players = << >> /\ cb = "idle" /\ calls = << >>
  BY DEF CreateClient, CheckActivation, EnsureAuthorizedConnection, PrepareTtsOutputFile, ResetFlags,
     LoadPcmFile, StartAudioStream, FramesOf, Goto, CountInv, TalkInv, StreamInv, Before, Opened
<1>2. /\ got' = 0 /\ filed' = 0 /\ heard' = 0 /\ players' = << >> /\ cb' = "idle" /\ code' # 0
      /\ UNCHANGED <<conf, fd, target>>
  BY <1>1 DEF CreateClient, CheckActivation, PairingCode, EnsureAuthorizedConnection,
     PrepareTtsOutputFile, ResetFlags, LoadPcmFile, StartAudioStream, mainVars, fileVars, playVars, cbVars
<1>3. conf.playback /\ (calls' # << >> \/ pc' \in {"load", "start"}) => "enabled" \in flags'
  <2>1. CASE StartAudioStream
    BY <2>1 DEF StartAudioStream, CountInv
  <2>2. CASE ResetFlags
    BY <2>2 DEF ResetFlags, mainVars
  <2>3. CASE LoadPcmFile
    BY <1>1, <2>3 DEF LoadPcmFile, Goto, CountInv, mainVars
  <2> QED
    BY <1>1, <2>1, <2>2, <2>3 DEF CreateClient, CheckActivation, EnsureAuthorizedConnection,
       PrepareTtsOutputFile, Goto, mainVars
<1>4. Single => file' \in {"none", "open"}
  <2>1. Single => file \in {"none", "open"}
    BY <1>1 DEF CountInv, FileCount, Succeeded, GivenUp, Before
  <2> QED
    BY <2>1 DEF CreateClient, CheckActivation, EnsureAuthorizedConnection, PrepareTtsOutputFile,
       ResetFlags, LoadPcmFile, StartAudioStream, fileVars
<1>5. Single' = Single
  BY <1>2 DEF Single
<1> QED
  BY <1>1, <1>2, <1>3, <1>4, <1>5 DEF CountInv, FileCount, StreamCount, InPipe, InHand, Before, Opened,
     Recording

\* The callback with the chunk it was given.
LEMMA CountCallback ==
    ASSUME CountInv, AplayInv, TalkInv, StreamInv, OnAudio \/ Callback
    PROVE  CountInv'
<1> USE DEF Before, Opened, Recording
<1>1. pc \notin Before \cup Opened \cup Recording /\ pc' \in {pc, "killed"} /\ Running
  <2>1. CASE OnAudio
    <3>1. calls = <<"start", "finish">> /\ Running /\ pc' = pc
      BY <2>1 DEF OnAudio, Sendable
    <3> QED
      BY <3>1 DEF StreamInv, Running
  <2>2. CASE Callback
    <3>1. cb # "idle" /\ pc' \in {pc, "killed"} /\ Running
      BY <2>2 DEF Callback, WriteFile, StartAplayStreamIfNeeded, ProbeAplay, MarkAplayDead, EnterWrite,
         WriteAplayStream, Goto
    <3> QED
      BY <3>1 DEF TalkInv
  <2> QED
    BY <2>1, <2>2
<1>2. UNCHANGED <<conf, code, calls, target, file, path, heard>> /\ ("enabled" \in flags => "enabled" \in flags')
  BY DEF OnAudio, Callback, WriteFile, StartAplayStreamIfNeeded, ProbeAplay, MarkAplayDead, EnterWrite,
     WriteAplayStream, mainVars, fileVars, playVars
<1>3. {got, filed, heard}' \subseteq Nat /\ calls # << >>
  <2>1. got' \in {got, got + 1} /\ filed' \in {filed, filed + 1}
    BY DEF OnAudio, Callback, WriteFile, StartAplayStreamIfNeeded, ProbeAplay, MarkAplayDead,
       EnterWrite, WriteAplayStream, fileVars
  <2>2. cb # "idle" \/ calls = <<"start", "finish">>
    BY DEF OnAudio, Sendable, Callback, WriteFile, StartAplayStreamIfNeeded, ProbeAplay, MarkAplayDead,
       EnterWrite, WriteAplayStream
  <2>3. calls # << >>
    <3>1. cb # "idle" => calls # << >>
      BY DEF CountInv
    <3>2. <<"start", "finish">> # << >>
      OBVIOUS
    <3> QED
      BY <2>2, <3>1, <3>2
  <2>4. {got, filed, heard} \subseteq Nat
    BY DEF CountInv
  <2> QED
    BY <1>2, <2>1, <2>3, <2>4
<1>4. Single => ~Succeeded
  <2>1. ~LastHeard
    BY DEF OnAudio, Callback, WriteFile, StartAplayStreamIfNeeded, ProbeAplay, MarkAplayDead, EnterWrite,
       WriteAplayStream, TalkInv, LastHeard
  <2> QED
    BY <2>1 DEF TalkInv, LastHeard, Single
<1>5. Single /\ ~GivenUp' => FileCount' /\ StreamCount'
  <2> SUFFICES ASSUME Single, ~GivenUp' PROVE FileCount' /\ StreamCount'
    OBVIOUS
  <2>1. /\ ~GivenUp /\ FileCount /\ StreamCount /\ code # 0 /\ ~Succeeded /\ ~Succeeded' /\ pc' = pc
        /\ "enabled" \in flags
    BY <1>1, <1>2, <1>3, <1>4 DEF CountInv, GivenUp, Succeeded, Single
  <2>2. /\ players \in Seq(Aplay) /\ fd = pid /\ pid \in 0..Len(players)
        /\ \A i \in 1..Len(players) : players[i].st # "reaped" => i \in {pid, target}
    BY DEF AplayInv
  <2>3. /\ {got, heard, got', heard'} \subseteq Nat /\ heard' = heard
        /\ NoneOrOne /\ fd \in 0..1 /\ (fd = 1 => Len(players) = 1 /\ players[1] \in Aplay)
    <3>1. Len(players) <= 1
      BY <2>1 DEF StreamCount
    <3>2. NoneOrOne
      BY <2>2, <3>1, AtMostOne
    <3>3. {got, heard, got', heard'} \subseteq Nat
      BY <1>2, <1>3 DEF CountInv
    <3>4. pid \in 0..1 /\ (pid = 1 => Len(players) = 1)
      <4> DEFINE n == Len(players)
      <4>1. pid \in 0..n /\ n \in {0, 1}
        BY <2>2, <3>2 DEF NoneOrOne
      <4> HIDE DEF n
      <4>2. pid \in 0..1 /\ (pid = 1 => n = 1)
        BY <4>1
      <4> QED
        BY <4>2 DEF n
    <3>5. pid = 1 => players[1] \in Aplay
      <4> HIDE DEF Aplay
      <4> QED
        BY <2>2, <3>4, ElementOfSeq
    <3> QED
      BY <1>2, <2>2, <3>2, <3>3, <3>4, <3>5
  <2>4. InPipe \in Nat /\ (players # << >> => InPipe = players[1].pipe)
    BY <2>3 DEF NoneOrOne, InPipe, Aplay
  <2>5. CASE OnAudio \/ WriteFile
    <3>1. UNCHANGED <<players, fd>> /\ ("playFailed" \in flags' <=> "playFailed" \in flags)
      BY <2>5 DEF OnAudio, WriteFile, mainVars, playVars
    <3>2. FileCount'
      BY <1>2, <2>1, <2>5 DEF OnAudio, WriteFile, FileCount, CountInv, Succeeded, fileVars
    <3>3. \/ got' = got + 1 /\ cb = "idle" /\ cb' \in {"fwrite", "play"}
          \/ got' = got /\ cb = "fwrite" /\ cb' = "play"
      BY <2>5 DEF OnAudio, WriteFile
    <3>4. InPipe' = InPipe
      BY <3>1 DEF InPipe
    <3> HIDE DEF InPipe
    <3> QED
      BY <1>2, <2>1, <2>3, <2>4, <3>1, <3>2, <3>3, <3>4 DEF StreamCount, InHand
  <2>6. CASE StartAplayStreamIfNeeded \/ ProbeAplay \/ MarkAplayDead \/ EnterWrite \/ WriteAplayStream
    <3>1. UNCHANGED <<got, filed>> /\ ("writeFailed" \in flags' <=> "writeFailed" \in flags)
          /\ cb # "fwrite" /\ cb' # "fwrite" /\ cb # "idle"
      BY <2>6 DEF StartAplayStreamIfNeeded, ProbeAplay, MarkAplayDead, EnterWrite, WriteAplayStream,
         fileVars
    <3>2. FileCount'
      BY <1>2, <2>1, <3>1 DEF FileCount
    <3>3. StreamCount'
      <4>1. CASE StartAplayStreamIfNeeded
        <5>1. CASE players' = players
          BY <1>2, <2>1, <2>3, <2>4, <3>1, <4>1, <5>1 DEF StartAplayStreamIfNeeded, StreamCount, InHand, InPipe
        <5>2. CASE players' # players
          <6> DEFINE r == [st |-> "live", pipe |-> 0]
          <6>1. /\ players' = Append(players, r) /\ fd' = Len(players') /\ cb' = "probe" /\ fd = 0
                /\ cb = "play" /\ "playFailed" \notin flags
                /\ ("playFailed" \in flags' <=> "playFailed" \in flags)
            BY <4>1, <5>2 DEF StartAplayStreamIfNeeded
          <6>2. players = << >>
            BY <2>1, <6>1 DEF StreamCount
          <6>3. Len(players') = 1 /\ players'[1] = r
            BY <6>1, <6>2
          <6> QED
            BY <1>2, <2>1, <2>3, <2>4, <3>1, <6>1, <6>2, <6>3 DEF StreamCount, InHand, InPipe
        <5> QED
          BY <5>1, <5>2
      <4>2. CASE ProbeAplay
        <5>1. fd = 1 /\ probed = 1 /\ cb = "probe" /\ cb' \in {"mark", "write"}
          BY <2>1, <2>2, <4>2 DEF ProbeAplay, StreamCount, AplayInv
        <5>2. CASE players' = players
          BY <1>2, <2>1, <2>3, <2>4, <3>1, <4>2, <5>1, <5>2 DEF ProbeAplay, StreamCount, InHand, InPipe
        <5>3. CASE players' # players
          <6> DEFINE r == [players[1] EXCEPT !.st = "reaped"]
          <6>1. players[1] \in Aplay /\ players' = [players EXCEPT ![1] = r]
            BY <2>3, <4>2, <5>1, <5>3 DEF ProbeAplay
          <6>2. r \in Aplay /\ r.st = "reaped" /\ r.pipe = players[1].pipe
            BY <6>1 DEF Aplay
          <6> HIDE DEF r
          <6>3. players' \in Seq(Aplay) /\ Len(players') = 1 /\ players'[1] = r
            BY <2>2, <2>3, <5>1, <6>1, <6>2, OneProcess
          <6>4. UNCHANGED <<flags, fd>>
            BY <4>2 DEF ProbeAplay
          <6> QED
            BY <1>2, <2>1, <2>3, <2>4, <3>1, <5>1, <6>2, <6>3, <6>4 DEF StreamCount, InHand, InPipe
        <5> QED
          BY <5>2, <5>3
      <4>3. CASE MarkAplayDead
        BY <1>2, <2>1, <2>3, <2>4, <3>1, <4>3 DEF MarkAplayDead, StreamCount, InHand, InPipe
      <4>4. CASE EnterWrite
        BY <1>2, <2>1, <2>3, <2>4, <3>1, <4>4 DEF EnterWrite, playVars, StreamCount, InHand, InPipe
      <4>5. CASE WriteAplayStream
        <5>1. fd = 1 /\ cb = "writing"
          BY <2>1, <4>5 DEF WriteAplayStream, StreamCount
        <5>2. CASE players' = players /\ "playFailed" \in flags'
          BY <1>2, <2>1, <2>3, <2>4, <3>1, <4>5, <5>1, <5>2 DEF WriteAplayStream, StreamCount, InHand, InPipe
        <5>3. CASE ~(players' = players /\ "playFailed" \in flags')
          <6> DEFINE r == [players[1] EXCEPT !.pipe = @ + 1]
          <6>1. /\ players[1] \in Aplay /\ players' = [players EXCEPT ![1] = r] /\ cb' = "idle"
                /\ players[1].st = "live" /\ UNCHANGED <<flags, fd>>
            <7>1. players[1] \in Aplay
              BY <2>3, <5>1
            <7>2. pc' # "killed"
              BY <1>1, <2>1 DEF Running
            <7>3. CASE players[fd].st = "live"
              BY <4>5, <5>1, <7>1, <7>2, <7>3 DEF WriteAplayStream
            <7>4. CASE players[fd].st # "live"
              <8>1. "playFailed" \in flags' /\ players' = players
                BY <4>5, <7>2, <7>4 DEF WriteAplayStream, Goto
              <8> QED
                BY <5>3, <8>1
            <7> QED
              BY <7>3, <7>4
          <6>2. r \in Aplay /\ r.st = "live" /\ r.pipe = players[1].pipe + 1
            BY <6>1 DEF Aplay
          <6> HIDE DEF r
          <6>3. players' \in Seq(Aplay) /\ Len(players') = 1 /\ players'[1] = r
            BY <2>2, <2>3, <5>1, <6>1, <6>2, OneProcess
          <6> QED
            BY <1>2, <2>1, <2>3, <2>4, <3>1, <5>1, <6>1, <6>2, <6>3 DEF StreamCount, InHand, InPipe
        <5> QED
          BY <5>2, <5>3
      <4> QED
        BY <2>6, <4>1, <4>2, <4>3, <4>4, <4>5
    <3> QED
      BY <3>2, <3>3
  <2> QED
    BY <2>5, <2>6 DEF Callback
<1>6. CASE Single
  BY <1>1, <1>2, <1>3, <1>4, <1>5, <1>6 DEF CountInv, Succeeded, Single
<1>7. CASE ~Single
  BY <1>1, <1>2, <1>3, <1>7 DEF CountInv, Single
<1> QED
  BY <1>6, <1>7

\* main up to the answer, and what else leaves the counts alone.
LEMMA CountSending ==
    ASSUME CountInv, AplayInv, TalkInv, StreamInv,
           SendFrame \/ WaitForAudioStreamStarted \/ StartArecordStream \/ CheckRecording
             \/ ReadArecordStream \/ SendLiveDone \/ WaitForConversationResult
             \/ Deadline \/ RecorderEnds \/ OnMessage \/ Disconnect
    PROVE  CountInv'
<1> USE DEF Goto, Before, Opened, Recording
<1>1. CASE SendFrame \/ WaitForAudioStreamStarted \/ StartArecordStream \/ CheckRecording
           \/ ReadArecordStream \/ SendLiveDone
  <2>1. calls = <<"start">> /\ pc \in Opened \cup Recording
    BY <1>1 DEF StreamInv, SendFrame, WaitForAudioStreamStarted, StartArecordStream, CheckRecording,
       ReadArecordStream, SendLiveDone
  <2>2. calls' \in {<<"start">>, <<"start", "finish">>, <<"start", "cancel">>}
    BY <1>1, <2>1, OneCall DEF SendFrame, WaitForAudioStreamStarted, StartArecordStream,
       CheckRecording, ReadArecordStream, SendLiveDone, FinishAudioStream, CancelAudioStream, mainVars
  <2>3. pc' \in Opened \cup Recording \cup {"wait", "abort"}
    BY <1>1, <2>1 DEF SendFrame, WaitForAudioStreamStarted, StartArecordStream, CheckRecording,
       ReadArecordStream, SendLiveDone, FinishAudioStream
  <2>4. UNCHANGED <<conf, code, got, fileVars, flags, playVars, cbVars, target>>
    BY <1>1 DEF SendFrame, WaitForAudioStreamStarted, StartArecordStream, CheckRecording,
       ReadArecordStream, SendLiveDone, mainVars
  <2>5. ~Succeeded /\ ~GivenUp /\ code # 0
    BY <2>1 DEF CountInv, Succeeded, GivenUp
  <2> QED
    BY <2>1, <2>2, <2>3, <2>4, <2>5, CountRests DEF fileVars, playVars, cbVars
<1>2. CASE WaitForConversationResult
  <2>1. pc = "wait" /\ pc' \in {"finish", "close", "abort"} /\ code # 0
    BY <1>2 DEF WaitForConversationResult, CountInv
  <2>2. ~Succeeded /\ ~GivenUp
    BY <2>1 DEF Succeeded, GivenUp
  <2> QED
    BY <1>2, <2>1, <2>2, CountRests DEF WaitForConversationResult, mainVars, fileVars, playVars, cbVars
<1>3. CASE Deadline \/ RecorderEnds
  BY <1>3, CountRests DEF Deadline, RecorderEnds, Succeeded, GivenUp, fileVars, playVars, cbVars
<1>4. CASE OnMessage
  <2>1. {"playFailed", "writeFailed", "enabled"} \cap flags' = {"playFailed", "writeFailed", "enabled"} \cap flags
    BY <1>4 DEF OnMessage, Messages
  <2> QED
    BY <1>4, <2>1, CountRests DEF OnMessage, Succeeded, GivenUp, mainVars, fileVars, playVars, cbVars
<1>5. CASE Disconnect
  BY <1>5, CountRests DEF Disconnect, Succeeded, GivenUp, mainVars, fileVars, playVars, cbVars
<1> QED
  BY <1>1, <1>2, <1>3, <1>4, <1>5

\* main when it has the answer.
LEMMA CountAnswer ==
    ASSUME CountInv, AplayInv, TalkInv, StreamInv,
           FinishAplayStream \/ WaitAplay \/ Conclude \/ PlayPcmWithAplay
    PROVE  CountInv'
<1> USE DEF Goto, Before, Opened, Recording
<1>1. /\ pc \in {"finish", "finishWait", "close", "replay"} /\ code # 0 /\ Succeeded /\ ~GivenUp
      /\ pc' \notin Before \cup Opened \cup Recording
      /\ UNCHANGED <<conf, calls, got, filed, path, cb>>
      /\ ("enabled" \in flags => "enabled" \in flags')
  BY DEF FinishAplayStream, TakePlayer, WaitAplay, Conclude, PlayPcmWithAplay, CountInv, Succeeded,
     GivenUp, mainVars, fileVars, playVars, cbVars
<1>2. Single => cb = "idle" /\ FileCount /\ StreamCount
  BY <1>1 DEF TalkInv, LastHeard, Single, CountInv
<1>3. heard' \in Nat
  BY DEF FinishAplayStream, TakePlayer, WaitAplay, Conclude, PlayPcmWithAplay, CountInv, playVars
<1>4. players \in Seq(Aplay) /\ fd = pid /\ {pid, target} \subseteq 0..Len(players)
      /\ (target # 0 => pc = "finishWait")
  BY <1>1 DEF AplayInv
<1>5. Single' = Single
  BY <1>1 DEF Single
<1>6. CASE FinishAplayStream
  <2>1. /\ code' = code /\ pc' = "finishWait" /\ fd' = 0 /\ target' = pid
        /\ UNCHANGED <<heard, players, flags, file>>
    BY <1>6 DEF FinishAplayStream, TakePlayer, fileVars
  <2>2. Single => FileCount'
    BY <1>1, <1>2, <2>1 DEF FileCount, Succeeded
  <2>3. Single => StreamCount'
    <3>1. InPipe' = InPipe /\ InHand' = InHand /\ Succeeded'
      BY <1>1, <2>1 DEF InPipe, InHand, Succeeded
    <3>2. target = 0
      BY <1>4, <1>6 DEF FinishAplayStream
    <3>3. Single => pid \in 0..1
      BY <1>2, <1>4 DEF StreamCount
    <3> QED
      BY <1>1, <1>2, <1>4, <2>1, <3>1, <3>2, <3>3 DEF StreamCount
  <2> QED
    BY <1>1, <1>3, <1>5, <2>1, <2>2, <2>3 DEF CountInv
<1>7. CASE WaitAplay
  <2>1. /\ code' = code /\ pc' = "close" /\ target' = 0
        /\ UNCHANGED <<heard, file, fd>> /\ ("writeFailed" \in flags' <=> "writeFailed" \in flags)
    BY <1>7 DEF WaitAplay, fileVars
  <2>2. Single => FileCount'
    BY <1>1, <1>2, <2>1 DEF FileCount, Succeeded
  <2>3. Single => StreamCount'
    <3> SUFFICES ASSUME Single PROVE StreamCount'
      OBVIOUS
    <3>1. InHand' = InHand /\ Succeeded'
      BY <1>1, <2>1 DEF InHand, Succeeded
    <3>2. CASE target = 0
      <4>1. UNCHANGED <<flags, players>>
        BY <1>7, <3>2 DEF WaitAplay
      <4> QED
        BY <1>1, <1>2, <2>1, <3>1, <3>2, <4>1 DEF StreamCount, InPipe
    <3>3. CASE target # 0
      <4> DEFINE r == [players[1] EXCEPT !.st = "reaped"]
      <4>1. target = 1 /\ Len(players) = 1 /\ players[1] \in Aplay
        <5>1. NoneOrOne
          BY <1>2, <1>4, AtMostOne DEF StreamCount
        <5> DEFINE n == Len(players)
        <5>2. target \in 0..n /\ n \in {0, 1}
          BY <1>4, <5>1 DEF NoneOrOne
        <5>3. target = 1 /\ n = 1
          <6> HIDE DEF n
          <6> QED
            BY <3>3, <5>2
        <5>4. players # << >>
          BY <5>3
        <5> QED
          BY <5>1, <5>3, <5>4 DEF NoneOrOne
      <4>2. /\ players' = [players EXCEPT ![1] = r]
            /\ flags' = (IF players[1].st = "ok" THEN flags ELSE flags \cup {"playFailed"})
        <5>1. /\ players' = [players EXCEPT ![target].st = "reaped"]
              /\ flags' = (IF players[target].st = "ok" THEN flags ELSE flags \cup {"playFailed"})
          BY <1>7, <3>3 DEF WaitAplay
        <5> QED
          BY <4>1, <5>1
      <4>3. r \in Aplay /\ r.st = "reaped" /\ r.pipe = players[1].pipe
        BY <4>1 DEF Aplay
      <4> HIDE DEF r
      <4>4. players' \in Seq(Aplay) /\ Len(players') = 1 /\ players'[1] = r
        BY <1>4, <4>1, <4>2, <4>3, OneProcess
      <4>5. InPipe' = InPipe
        BY <4>1, <4>3, <4>4 DEF InPipe
      <4> QED
        BY <1>1, <1>2, <2>1, <3>1, <4>1, <4>2, <4>3, <4>4, <4>5 DEF StreamCount
    <3> QED
      BY <3>2, <3>3
  <2> QED
    BY <1>1, <1>3, <1>5, <2>1, <2>2, <2>3 DEF CountInv
<1>8. CASE Conclude
  <2>1. pc = "close" /\ target = 0 /\ (Single => pid = 0) /\ UNCHANGED <<flags, players, heard, fd, target>>
    BY <1>4, <1>8 DEF Conclude, AplayInv, Single, playVars
  <2>2. file' # "open" /\ (file' # "none" => file # "none")
    BY <1>8 DEF Conclude, CloseTtsOutputFile
  <2>3. Single => heard \in Nat /\ got \in Nat /\ InHand = 0 /\ InPipe \in Nat /\ Len(players) <= 1
    <3>1. players = << >> \/ players[1] \in Aplay
      BY <1>4
    <3>2. InPipe \in Nat
      BY <3>1 DEF InPipe, Aplay
    <3> QED
      BY <1>2, <3>2 DEF CountInv, StreamCount, InHand
  <2>4. CASE code' # 0 /\ pc' = "abort"
    BY <1>1, <1>3, <1>5, <2>4 DEF CountInv, GivenUp
  <2>5. CASE pc' = "replay"
    <3>1. code' = code /\ Succeeded' /\ "writeFailed" \notin flags
      BY <1>8, <2>5 DEF Conclude, Succeeded
    <3>2. Single => FileCount'
      BY <1>1, <1>2, <2>1, <2>2, <3>1 DEF FileCount
    <3>3. Single => StreamCount'
      <4>1. InHand' = InHand /\ InPipe' = InPipe
        BY <1>1, <2>1 DEF InHand, InPipe
      <4> QED
        BY <1>1, <1>2, <2>1, <3>1, <4>1 DEF StreamCount
    <3> QED
      BY <1>1, <1>3, <1>5, <2>2, <2>5, <3>1, <3>2, <3>3 DEF CountInv
  <2>6. CASE code' = 0 /\ pc' = "abort"
    <3>1. /\ "writeFailed" \notin flags
          /\ conf.playback /\ path => "playFailed" \notin flags \/ ~(got > 0)
      BY <1>1, <1>8, <2>6 DEF Conclude, MustReplay
    <3>2. Single => FileCount'
      BY <1>1, <1>2, <2>1, <2>2, <2>6, <3>1 DEF FileCount, Succeeded
    <3>3. ASSUME Single, path PROVE heard = got
      <4>1. CASE ~(got > 0)
        BY <1>2, <2>3, <3>3, <4>1 DEF StreamCount
      <4>2. CASE "playFailed" \notin flags
        <5>1. InPipe = 0
          BY <1>2, <1>4, <2>1, <3>3, <4>2 DEF StreamCount, InPipe
        <5> QED
          BY <1>2, <2>3, <3>3, <4>2, <5>1 DEF StreamCount
      <4> QED
        BY <3>1, <3>3, <4>1, <4>2 DEF Single
    <3> QED
      BY <1>1, <1>3, <1>5, <2>1, <2>2, <2>6, <3>2, <3>3 DEF CountInv
  <2> QED
    BY <1>1, <1>8, <2>4, <2>5, <2>6 DEF Conclude
<1>9. CASE PlayPcmWithAplay
  <2>1. target = 0 /\ pc = "replay" /\ pc' = "abort" /\ UNCHANGED <<flags, file, target>>
    BY <1>4, <1>9 DEF PlayPcmWithAplay, fileVars
  <2>2. CASE code' # 0
    BY <1>1, <1>3, <1>5, <2>1, <2>2 DEF CountInv, GivenUp
  <2>3. CASE code' = 0
    <3>1. file # "none" /\ heard' = (IF filed > heard THEN filed ELSE heard)
      BY <1>1, <1>9, <2>3 DEF PlayPcmWithAplay
    <3>2. Single => got = filed /\ file # "open" /\ heard <= got
      <4>1. players = << >> \/ players[1] \in Aplay
        BY <1>4
      <4>2. InPipe \in Nat /\ InHand \in Nat
        BY <4>1 DEF InPipe, InHand, Aplay
      <4> QED
        BY <1>2, <2>1, <3>1, <4>2 DEF FileCount, StreamCount, CountInv
    <3>3. Single => heard' = got
      BY <3>1, <3>2 DEF CountInv
    <3>4. Single => FileCount'
      BY <1>1, <1>2, <2>1, <2>3 DEF FileCount, Succeeded
    <3> QED
      BY <1>1, <1>3, <1>5, <2>1, <2>3, <3>2, <3>3, <3>4 DEF CountInv
  <2> QED
    BY <2>2, <2>3
<1> QED
  BY <1>6, <1>7, <1>8, <1>9

\* main on its way out; with a success there is no aplay left to kill and no
\* file left to close.
LEMMA CountLeaving ==
    ASSUME CountInv, AplayInv, AbortAplayStream \/ KillAplay \/ CloseAtEnd
    PROVE  CountInv'
<1> USE DEF Goto
<1>1. /\ pc \in {"abort", "abortWait", "closeEnd"} /\ pc' \in {"abortWait", "closeEnd", "disconnect"}
      /\ UNCHANGED <<conf, code, calls, flags, got, filed, heard, path, cb>>
  BY DEF AbortAplayStream, TakePlayer, KillAplay, CloseAtEnd, mainVars, fileVars, playVars, cbVars
<1>2. CASE code # 0
  BY <1>1, <1>2 DEF CountInv, GivenUp, Single, Before, Opened, Recording
<1>3. CASE code = 0
  <2>1. file' = file
    BY <1>3 DEF AbortAplayStream, TakePlayer, KillAplay, CloseAtEnd, CloseTtsOutputFile, fileVars,
       CountInv
  <2>2. Single => target' = 0
    <3>1. Single => pid = 0 /\ target = 0
      BY <1>3 DEF AplayInv, CountInv, Single
    <3> QED
      BY <3>1 DEF AbortAplayStream, TakePlayer, KillAplay, CloseAtEnd, mainVars
  <2> QED
    BY <1>1, <1>3, <2>1, <2>2 DEF CountInv, FileCount, Succeeded, GivenUp, Single, Before, Opened,
       Recording
<1> QED
  BY <1>2, <1>3

\* aplay takes a chunk from its pipe to the loudspeaker, or ends.
LEMMA CountPlayer ==
    ASSUME CountInv, AplayInv, NEW i \in DOMAIN players, Play(i) \/ PlayerFails(i)
    PROVE  CountInv'
<1>1. /\ UNCHANGED <<conf, pc, code, calls, target, flags, got, file, path, filed, fd, cb>>
      /\ heard' \in {heard, heard + 1} /\ players[i].st = "live"
  BY DEF Play, PlayerFails, mainVars, fileVars, cbVars
<1>2. /\ {got, filed, heard} \subseteq Nat /\ heard' \in Nat
      /\ players \in Seq(Aplay) /\ i \in 1..Len(players) /\ pc \notin Before \cup Opened \cup Recording
  <2>1. {got, filed, heard} \subseteq Nat
    BY DEF CountInv
  <2>2. players \in Seq(Aplay) /\ i \in 1..Len(players)
    BY DEF AplayInv
  <2>3. players # << >>
    BY <2>2
  <2> QED
    BY <1>1, <2>1, <2>2, <2>3 DEF CountInv
<1>3. Single => code # 0
  <2>1. ~(Single /\ target = 0 /\ pid = 0)
    BY <1>1, <1>2 DEF AplayInv
  <2> QED
    BY <2>1 DEF AplayInv, CountInv, Single
<1>4. Single /\ ~GivenUp => FileCount' /\ StreamCount'
  <2> SUFFICES ASSUME Single, ~GivenUp PROVE FileCount' /\ StreamCount'
    OBVIOUS
  <2>1. FileCount /\ StreamCount
    BY <1>3 DEF CountInv
  <2>2. FileCount' /\ InHand' = InHand
    BY <1>1, <2>1 DEF FileCount, Succeeded, InHand
  <2>3. i = 1 /\ Len(players) = 1 /\ players[1] \in Aplay
    <3>1. NoneOrOne
      BY <1>2, <2>1, AtMostOne DEF StreamCount
    <3> DEFINE n == Len(players)
    <3>2. i \in 1..n /\ n \in {0, 1}
      BY <1>2, <3>1 DEF NoneOrOne
    <3>3. i = 1 /\ n = 1
      <4> HIDE DEF n
      <4> QED
        BY <3>2
    <3> HIDE DEF Aplay
    <3> QED
      BY <1>2, <3>3, ElementOfSeq
  <2>4. InHand \in Nat /\ InPipe = players[1].pipe /\ players[1].pipe \in Nat
    <3>1. players # << >>
      BY <2>3
    <3> QED
      BY <2>3, <3>1 DEF InHand, InPipe, Aplay
  <2>5. PICK r : /\ players' = [players EXCEPT ![1] = r] /\ r \in Aplay
                 /\ \/ heard' = heard + 1 /\ r.pipe = players[1].pipe - 1 /\ r.st = "live"
                    \/ heard' = heard /\ r.pipe = players[1].pipe /\ r.st = "failed"
                    \/ heard' = heard /\ r.pipe = 0 /\ players[1].pipe = 0 /\ r.st = "ok"
    <3>1. CASE PlayerFails(i)
      <4> DEFINE r == [players[1] EXCEPT !.st = "failed"]
      <4>1. players' = [players EXCEPT ![1] = r] /\ heard' = heard
        BY <2>3, <3>1 DEF PlayerFails
      <4>2. r \in Aplay /\ r.pipe = players[1].pipe /\ r.st = "failed"
        BY <2>3 DEF Aplay
      <4> HIDE DEF r
      <4> QED
        BY <4>1, <4>2
    <3>2. CASE Play(i) /\ players[1].pipe > 0
      <4> DEFINE r == [players[1] EXCEPT !.pipe = @ - 1]
      <4>1. players' = [players EXCEPT ![1] = r] /\ heard' = heard + 1
        BY <2>3, <2>4, <3>2 DEF Play
      <4>2. r \in Aplay /\ r.pipe = players[1].pipe - 1 /\ r.st = "live"
        BY <1>1, <2>3, <3>2 DEF Aplay
      <4> HIDE DEF r
      <4> QED
        BY <4>1, <4>2
    <3>3. CASE Play(i) /\ ~(players[1].pipe > 0)
      <4> DEFINE r == [players[1] EXCEPT !.st = "ok"]
      <4>1. players' = [players EXCEPT ![1] = r] /\ heard' = heard /\ players[1].pipe = 0
        BY <2>3, <2>4, <3>3 DEF Play
      <4>2. r \in Aplay /\ r.pipe = players[1].pipe /\ r.st = "ok"
        BY <2>3 DEF Aplay
      <4> HIDE DEF r
      <4> QED
        BY <4>1, <4>2
    <3> QED
      BY <3>1, <3>2, <3>3
  <2>6. players' \in Seq(Aplay) /\ Len(players') = 1 /\ players'[1] = r
    BY <1>2, <2>3, <2>5, OneProcess
  <2>7. InPipe' = r.pipe /\ players' # << >>
    <3>1. Len(players') = 1
      BY <2>6
    <3>2. players' # << >>
      BY <3>1
    <3> QED
      BY <2>6, <3>2 DEF InPipe
  <2>8. players[1].st = "live" /\ players # << >>
    BY <1>1, <2>3
  <2>9. StreamCount'
    <3>1. r.pipe \in Nat
      BY <2>5 DEF Aplay
    <3>2. {heard, got} \subseteq Nat /\ heard' \in Nat
      BY <1>2
    <3>3. /\ heard' + InPipe' + InHand' <= got'
          /\ "playFailed" \notin flags' => heard' + InPipe' + InHand' = got'
      <4>1. /\ heard + InPipe + InHand <= got
            /\ "playFailed" \notin flags => heard + InPipe + InHand = got
        BY <2>1 DEF StreamCount
      <4>2. heard' + InPipe' = heard + InPipe
        <5> DEFINE h == heard
                   g == heard'
                   p == InPipe
                   q == InPipe'
        <5>1. h \in Nat /\ g \in Nat /\ p \in Nat /\ q \in Nat
          BY <2>4, <2>7, <3>1, <3>2
        <5>2. \/ g = h + 1 /\ q = p - 1
              \/ g = h /\ q = p
          BY <2>4, <2>5, <2>7
        <5>3. g + q = h + p
          <6> HIDE DEF g, h, p, q
          <6> QED
            BY <5>1, <5>2
        <5> QED
          BY <5>3
      <4>3. heard' + InPipe' + InHand' = heard + InPipe + InHand
        BY <2>2, <4>2
      <4>4. UNCHANGED <<flags, got>>
        BY <1>1
      <4> HIDE DEF InPipe, InHand
      <4> QED
        BY <4>1, <4>3, <4>4
    <3>4. players # << >> /\ fd = 0 /\ "playFailed" \notin flags
             => Succeeded' /\ (target' = 1 \/ InPipe' = 0)
      BY <1>1, <2>1, <2>4, <2>5, <2>7, <3>1 DEF StreamCount, Succeeded
    <3>5. r.st = "ok" => InPipe' = 0
      BY <2>5, <2>7
    <3>6. cb' \in {"probe", "mark", "write", "writing"} => fd' = 1
      BY <1>1, <2>1 DEF StreamCount
    <3> QED
      BY <1>1, <2>6, <2>8, <3>3, <3>4, <3>5, <3>6 DEF StreamCount
  <2> QED
    BY <2>2, <2>9
<1>5. GivenUp' = GivenUp /\ Single' = Single
  BY <1>1 DEF GivenUp, Single
<1>6. CASE Single
  BY <1>1, <1>2, <1>3, <1>4, <1>5, <1>6 DEF CountInv
<1>7. CASE ~Single
  BY <1>1, <1>2, <1>5, <1>7 DEF CountInv
<1> QED
  BY <1>6, <1>7

LEMMA CountStep == StreamInv /\ TalkInv /\ AplayInv /\ CountInv /\ [Next]_vars => CountInv'
<1> SUFFICES ASSUME StreamInv, TalkInv, AplayInv, CountInv, [Next]_vars PROVE CountInv'
  OBVIOUS
<1>1. CASE CreateClient \/ CheckActivation \/ EnsureAuthorizedConnection \/ PrepareTtsOutputFile
             \/ ResetFlags \/ LoadPcmFile \/ StartAudioStream
  BY <1>1, CountEarly
<1>2. CASE SendFrame \/ WaitForAudioStreamStarted \/ StartArecordStream \/ CheckRecording
             \/ ReadArecordStream \/ SendLiveDone \/ WaitForConversationResult
             \/ Deadline \/ RecorderEnds \/ OnMessage \/ Disconnect
  BY <1>2, CountSending
<1>3. CASE FinishAplayStream \/ WaitAplay \/ Conclude \/ PlayPcmWithAplay
  BY <1>3, CountAnswer
<1>4. CASE AbortAplayStream \/ KillAplay \/ CloseAtEnd
  BY <1>4, CountLeaving
<1>5. CASE OnAudio \/ Callback
  BY <1>5, CountCallback
<1>6. CASE \E i \in DOMAIN players : Play(i) \/ PlayerFails(i)
  BY <1>6, CountPlayer
<1>7. CASE UNCHANGED vars
  BY <1>7, CountRests DEF vars, mainVars, fileVars, playVars, cbVars, GivenUp, Succeeded
<1> QED
  BY <1>1, <1>2, <1>3, <1>4, <1>5, <1>6, <1>7 DEF Next, Main, Player

\* Exit code 0 says that all that was received was heard, from the stream or from
\* the file, whatever aplay, the file and the order of the two threads did.
THEOREM AnswerHeard == Spec => []AllHeard
<1>1. CountInv => AllHeard
  BY DEF CountInv, AllHeard, Single
<1> QED
  BY <1>1, StreamInit, StreamStep, TalkInit, TalkStep, AplayInit, AplayStep, CountInit, CountStep,
     PTL DEF Spec
=============================================================================
