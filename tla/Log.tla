--------------------------------- MODULE Log ---------------------------------
(***************************************************************************)
(* The log file (log.cpp), written by every thread, closed and opened      *)
(* again by the main thread.  LogWrite looks at s_file before it takes     *)
(* s_mutex, LogReopen changes it under s_mutex, LogClose under no lock:    *)
(* whether a FILE that is closed can be written to depends on when the     *)
(* threads of Daemon run.                                                  *)
(***************************************************************************)
EXTENDS Naturals

CONSTANTS
    Writers,    \* the threads that call LogWrite while others may close the file
    MaxLines    \* bound: lines written by them

ASSUME LogAssumption == MaxLines \in Nat /\ {"none", "main"} \cap Writers = {}

VARIABLES
    s_file,         \* "open", "closed" (the pointer is there yet), "null"
    s_mutex,        \* who holds it
    writing,        \* where each thread is in LogWrite
    logLines,
    reopenFailed    \* history: fopen has failed in LogReopen

logVars == <<s_file, s_mutex, writing, logLines, reopenFailed>>

LogTypeOK ==
    /\ s_file \in {"open", "closed", "null"}
    /\ s_mutex \in {"none", "main"} \cup Writers
    /\ writing \in [Writers -> {"no", "checked", "locked"}]
    /\ \A t \in Writers : writing[t] = "locked" <=> s_mutex = t
    /\ logLines \in 0 .. MaxLines /\ reopenFailed \in BOOLEAN

LogInit ==
    /\ s_file = "null" /\ s_mutex = "none"
    /\ writing = [t \in Writers |-> "no"]
    /\ logLines = 0 /\ reopenFailed = FALSE

LogOpen ==
    /\ s_file = "null" /\ s_file' = "open"
    /\ UNCHANGED <<s_mutex, writing, logLines, reopenFailed>>

\* LogWrite: the test of s_file, ...
LogTest(t) ==
    /\ writing[t] = "no" /\ s_file # "null" /\ logLines < MaxLines
    /\ writing' = [writing EXCEPT ![t] = "checked"]
    /\ logLines' = logLines + 1
    /\ UNCHANGED <<s_file, s_mutex, reopenFailed>>

\* ... the lock, ...
LogLock(t) ==
    /\ writing[t] = "checked" /\ s_mutex = "none"
    /\ writing' = [writing EXCEPT ![t] = "locked"]
    /\ s_mutex' = t
    /\ UNCHANGED <<s_file, logLines, reopenFailed>>

\* ... fprintf, fflush, and the unlock.
LogPrint(t) ==
    /\ writing[t] = "locked"
    /\ writing' = [writing EXCEPT ![t] = "no"]
    /\ s_mutex' = "none"
    /\ UNCHANGED <<s_file, logLines, reopenFailed>>

LogWrite(t) == LogLock(t) \/ LogPrint(t)

\* LogReopen: the lock, fclose in LogClose, ...
ReopenClose ==
    /\ s_mutex = "none" /\ s_mutex' = "main"
    /\ s_file' = IF s_file = "open" THEN "closed" ELSE s_file
    /\ UNCHANGED <<writing, logLines, reopenFailed>>

\* ... s_file = NULL, ...
ReopenClear ==
    /\ s_file' = "null"
    /\ UNCHANGED <<s_mutex, writing, logLines, reopenFailed>>

\* ... fopen, which may fail, and the unlock.
ReopenOpen ==
    /\ s_file' \in {"open", "null"}
    /\ s_mutex' = "none"
    /\ reopenFailed' = (reopenFailed \/ s_file' = "null")
    /\ UNCHANGED <<writing, logLines>>

LogClose ==
    /\ s_file' = "null"
    /\ UNCHANGED <<s_mutex, writing, logLines, reopenFailed>>

-----------------------------------------------------------------------------

\* LogWrite prints to a file that is open, whatever was done to s_file since it
\* looked: LogReopen leaves an open file behind, and when LogClose is called no
\* other thread runs.  Excepted is a LogReopen whose fopen failed: then fprintf
\* may get the NULL it left.
PrintsToOpenFile ==
    \A t \in Writers : writing[t] = "locked" => s_file = "open" \/ reopenFailed
=============================================================================
