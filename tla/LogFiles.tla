------------------------------ MODULE LogFiles ------------------------------
(***************************************************************************)
(* The log of the service (main_service/src/log.c): lines from several     *)
(* threads go to the newest of at most MaxFiles files, each named after    *)
(* the second in which it was opened; a file that is full is closed, the   *)
(* oldest names are removed, and a new file is opened.  Files outlive the  *)
(* process.                                                                *)
(*                                                                         *)
(* localtime gives every caller the same structure.  log_write fills it    *)
(* before it takes the lock, so that the name of a new file may be made    *)
(* from another thread's time.  A line is a number, in the order in which  *)
(* the lines reached their files; the terminal's copy is left out.         *)
(***************************************************************************)
EXTENDS Integers, Sequences, FiniteSets, FiniteSetsExt

CONSTANTS Threads,
          None,
          MaxSize,     \* MAX_LOG_SIZE, in lines
          MaxFiles,    \* MAX_LOG_FILES
          LastSecond,  \* bound of the clock
          MaxLines,    \* bound: lines that reach a file
          MaxStarts    \* bound: starts of the service

ASSUME LogAssumption ==
    /\ {MaxSize, MaxFiles, LastSecond, MaxLines, MaxStarts} \subseteq Nat \ {0}
    /\ None \notin Threads /\ None \notin Nat

VARIABLES clock,   \* the time, in seconds
          tm,      \* the structure that localtime fills
          pc,      \* where each thread is in log_write
          tv,      \* the time each thread has read
          lock,    \* the thread that holds g_log_mutex while it opens a file
          files,   \* the log directory: name -> lines
          log_fp,  \* the name of the open file, or None
          use_file,
          lines,   \* lines that reached a file so far
          starts,  \* starts of the service so far
          tidy,    \* the last rotation removed every file it should
          inStep   \* every file was named after a time not before the last one's

threadVars == <<pc, tv, lock>>
vars == <<clock, tm, pc, tv, lock, files, log_fp, use_file, lines, starts,
          tidy, inStep>>

Seconds == 0..LastSecond

Init ==
    /\ clock \in Seconds /\ tm = 0
    /\ pc = [t \in Threads |-> "down"] /\ tv = [t \in Threads |-> 0] /\ lock = None
    /\ files = [name \in {} |-> << >>]
    /\ log_fp = None /\ use_file = FALSE
    /\ lines = 0 /\ starts = 0 /\ tidy = TRUE /\ inStep = TRUE

-----------------------------------------------------------------------------
(* The directory                                                           *)

Names == DOMAIN files

Oldest_KeepsMax(names) == IF Cardinality(names) > MaxFiles THEN {Min(names)} ELSE {}

Oldest_OneMore(names) ==
    LET excess == Cardinality(names) - MaxFiles + 1 IN
    {name \in names : Cardinality({n \in names : n < name}) <= excess}

Oldest_Newest(names) ==
    LET excess == Cardinality(names) - MaxFiles + 1 IN
    {name \in names : Cardinality({n \in names : n > name}) < excess}

\* The names that rotate_logs removes, the first ones in the order of names, so
\* that one less than MaxFiles remain.
Oldest(names) ==
    LET excess == Cardinality(names) - MaxFiles + 1 IN
    {name \in names : Cardinality({n \in names : n < name}) < excess}

\* rotate_logs, on a directory that holds content: opendir may fail, which
\* removes nothing, and so may any remove, which the code does not look at.
RotateLogs(content) ==
    \E gone \in SUBSET Oldest(Names) :
        /\ files' = [name \in Names \ gone |-> content[name]]
        /\ tidy' = (gone = Oldest(Names))

\* open_new_log_file, once localtime has filled tm: a file of that name is
\* continued.  fopen may fail, and then there are no more files.
OpenNewLogFile ==
    \/ /\ files' = [name \in Names \cup {tm} |-> IF name \in Names THEN files[name] ELSE << >>]
       /\ log_fp' = tm
       /\ inStep' = (inStep /\ \A name \in Names : name <= tm)
       /\ UNCHANGED use_file
    \/ /\ use_file' = FALSE /\ log_fp' = None
       /\ UNCHANGED <<files, inStep>>

-----------------------------------------------------------------------------
(* The service                                                             *)

\* log_init: main is alone then, so it is one step up to localtime.
LogInit ==
    /\ \A t \in Threads : pc[t] = "down"
    /\ lock = None /\ starts < MaxStarts
    /\ starts' = starts + 1
    /\ RotateLogs(files)
    /\ tm' = clock
    /\ \E main \in Threads : lock' = main /\ pc' = [pc EXCEPT ![main] = "open"]
    /\ use_file' = TRUE
    /\ UNCHANGED <<clock, tv, log_fp, lines, inStep>>

\* The other threads start after log_init.
ThreadStarts(t) ==
    /\ pc[t] = "down" /\ lock = None
    /\ \E main \in Threads : pc[main] # "down"
    /\ pc' = [pc EXCEPT ![t] = "idle"]
    /\ UNCHANGED <<clock, tm, tv, lock, files, log_fp, use_file, lines, starts, tidy, inStep>>

\* log_write: gettimeofday, ...
GetTime(t) ==
    /\ pc[t] = "idle"
    /\ tv' = [tv EXCEPT ![t] = clock]
    /\ pc' = [pc EXCEPT ![t] = "localtime"]
    /\ UNCHANGED <<clock, tm, lock, files, log_fp, use_file, lines, starts, tidy, inStep>>

\* ... localtime, outside the lock, ...
LocalTime(t) ==
    /\ pc[t] = "localtime"
    /\ tm' = tv[t]
    /\ pc' = [pc EXCEPT ![t] = "write"]
    /\ UNCHANGED <<clock, tv, lock, files, log_fp, use_file, lines, starts, tidy, inStep>>

\* ... no file to write to, ...
SkipFile(t) ==
    /\ pc[t] = "write" /\ lock = None
    /\ ~use_file \/ log_fp = None
    /\ pc' = [pc EXCEPT ![t] = "idle"]
    /\ UNCHANGED <<clock, tm, tv, lock, files, log_fp, use_file, lines, starts, tidy, inStep>>

Full(content) == Len(content) >= MaxSize

\* ... or the line, and check_log_rotation, with localtime for the new name.
WriteLine(t) ==
    /\ pc[t] = "write" /\ lock = None
    /\ use_file /\ log_fp # None /\ lines < MaxLines
    /\ lines' = lines + 1
    /\ LET content == [files EXCEPT ![log_fp] = Append(files[log_fp], lines + 1)] IN
       \/ /\ Full(content[log_fp])
          /\ log_fp' = None
          /\ RotateLogs(content)
          /\ tm' = clock
          /\ lock' = t /\ pc' = [pc EXCEPT ![t] = "open"]
       \/ /\ ~Full(content[log_fp])
          /\ files' = content
          /\ pc' = [pc EXCEPT ![t] = "idle"]
          /\ UNCHANGED <<log_fp, tm, lock, tidy>>
    /\ UNCHANGED <<clock, tv, use_file, starts, inStep>>

Open(t) ==
    /\ pc[t] = "open" /\ lock = t
    /\ OpenNewLogFile
    /\ lock' = None /\ pc' = [pc EXCEPT ![t] = "idle"]
    /\ UNCHANGED <<clock, tm, tv, lines, starts, tidy>>

-----------------------------------------------------------------------------
(* The board                                                               *)

Tick ==
    /\ clock < LastSecond
    /\ clock' = clock + 1
    /\ UNCHANGED <<tm, threadVars, files, log_fp, use_file, lines, starts, tidy, inStep>>

\* The clock is set (date -s), or starts again with the board.
SetClock ==
    /\ clock' \in Seconds
    /\ UNCHANGED <<tm, threadVars, files, log_fp, use_file, lines, starts, tidy, inStep>>

\* The service ends, wherever its threads are.
Stop ==
    /\ pc' = [t \in Threads |-> "down"] /\ lock' = None
    /\ log_fp' = None /\ use_file' = FALSE
    /\ tm' = 0 /\ tv' = [t \in Threads |-> 0]
    /\ UNCHANGED <<clock, files, lines, starts, tidy, inStep>>

Next ==
    \/ LogInit \/ Stop \/ Tick \/ SetClock
    \/ \E t \in Threads : \/ ThreadStarts(t) \/ GetTime(t) \/ LocalTime(t)
                          \/ SkipFile(t) \/ WriteLine(t) \/ Open(t)

Spec == Init /\ [][Next]_vars

-----------------------------------------------------------------------------
(* Properties                                                              *)

Kept == UNION {{files[name][i] : i \in 1..Len(files[name])} : name \in Names}

\* The names among the last MaxFiles - 1: no rotation removes one of those.
Recent == {name \in Names : Cardinality({n \in Names : n > name}) < MaxFiles - 1}

\* Every variable has its type; and when the last rotation could remove what it
\* should, no more files lie in the directory than rotate_logs allows, whatever
\* the rotations before it failed to do and whatever the clock and the threads do.
TypeOK ==
    /\ {clock, tm} \subseteq Seconds /\ Names \subseteq Seconds
    /\ lock \in Threads \cup {None} /\ log_fp \in Seconds \cup {None}
    /\ lines \in 0..MaxLines /\ starts \in 0..MaxStarts
    /\ {use_file, tidy, inStep} \subseteq BOOLEAN
    /\ tidy => Cardinality(Names) <= MaxFiles

\* As long as no file's name went back in time, the last MaxFiles - 1 files hold
\* the newest lines without a gap, whatever failed to be removed; and so do all
\* the files after a rotation that removed what it should.
NewestKept ==
    inStep =>
        \A name \in Names : tidy \/ name \in Recent =>
            \A i \in 1..Len(files[name]) : files[name][i]..lines \subseteq Kept

\* A rotation never leaves less than one file short of the limit: the log of
\* the last MaxFiles - 1 files is there when it is needed.
RotationSpares ==
    [][Names' # Names /\ Names \ Names' # {} => Cardinality(Names') >= MaxFiles - 1]_vars
=============================================================================
