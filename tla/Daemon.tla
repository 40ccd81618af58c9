------------------------------- MODULE Daemon -------------------------------
(***************************************************************************)
(* The life of the sircond process: the main thread (CDaemon), the server  *)
(* task (CSirServer), the radio task (CSirCon, CTTS100) and the timer task *)
(* that the radio task owns (CTimer), all built on CTask.                  *)
(*                                                                         *)
(* What ControlArbiter and ScpSender model in detail is reduced here to    *)
(* what the threads wait for: SERVER::m_mutex, the promise of one request, *)
(* a thread to join, a signal.  A pass over the clients holds m_mutex and  *)
(* may wait for a promise inside it; an event of the radio takes m_mutex   *)
(* on the radio thread.  The promise is set by the radio thread (an        *)
(* acknowledgement) or by the timer thread (a timeout), and deleted when   *)
(* the radio task exits.                                                   *)
(*                                                                         *)
(* The start of the radio task is CTTS100::OnStart (TtsHandshake), and all *)
(* threads write to the log (Log), which the main thread reopens on SIGHUP *)
(* and closes at the end.                                                  *)
(*                                                                         *)
(* CSirServer's own timer task (m_timermgr) never has a timer and is left  *)
(* out.                                                                    *)
(***************************************************************************)
EXTENDS TtsHandshake, Log

CONSTANT ExternalSignals   \* the signals the outside may send: a subset of Signals

Tasks == {"server", "radio", "timer"}
Signals == {"HUP", "TERM"}

ASSUME DaemonAssumption ==
    /\ ExternalSignals \subseteq Signals
    /\ Writers = Tasks

VARIABLES
    m_state,     \* CTask::m_state of each task
    m_shutdown,  \* CTask::m_shutdown of each task
    main,        \* where the main thread is, or how the process ended
    server,      \* where the server thread is
    radio,       \* where the radio thread is
    timer,       \* where the timer thread is
    m_mutex,     \* who holds SERVER::m_mutex
    promise,     \* of the request the server thread waits for
    m_port,      \* CSirCon::m_port
    blocked,     \* the main thread has blocked all signals
    pending      \* blocked signals waiting for sigwaitinfo

vars == <<m_state, m_shutdown, main, server, radio, timer, m_mutex, promise,
          m_port, blocked, pending, ttsVars, logVars>>

signalVars == <<blocked, pending>>
otherVars == <<ttsVars, logVars>>

Ends == {"exited", "killed", "aborted"}

TypeOK ==
    /\ m_state \in [Tasks -> {"STARTING", "RUNNING", "STOPPED"}]
    /\ m_shutdown \in [Tasks -> BOOLEAN]
    /\ main \in {"init", "poll", "mask", "wait", "reopen", "reclose", "refopen", "stop",
                 "join", "delete", "null", "stopTimer", "joinTimer", "joinRadio",
                 "closeLog"} \cup Ends
    /\ server \in {"none", "start", "poll", "loop", "select", "pass", "future",
                   "stuck", "exit", "raise", "done"}
    /\ radio \in {"none", "start", "startup", "loop", "event", "exit", "shutdown",
                  "stopTimer", "joinTimer", "drain", "close", "done"}
    /\ timer \in {"none", "run", "done"}
    /\ m_mutex \in {"free", "server"}
    /\ promise \in {"none", "pending", "set", "broken"}
    /\ m_port \in {"open", "closed", "dangling", "null"}
    /\ blocked \in BOOLEAN /\ pending \subseteq Signals
    /\ m_mutex = "server" <=> server \in {"pass", "future", "stuck"}
    /\ HandshakeTypeOK /\ LogTypeOK

\* CSirCon's constructor opens the port, or leaves it null.
Init ==
    /\ m_state = [t \in Tasks |-> "STOPPED"]
    /\ m_shutdown = [t \in Tasks |-> FALSE]
    /\ main = "init" /\ server = "none" /\ radio = "none" /\ timer = "none"
    /\ m_mutex = "free" /\ promise = "none"
    /\ m_port \in {"open", "null"}
    /\ blocked = FALSE /\ pending = {}
    /\ HandshakeInit /\ LogInit

Over == main \in Ends

\* The thread may go on: the process lives and it is not in LogWrite.
Runs(t) == ~ Over /\ writing[t] = "no"

SetState(t, s) == m_state' = [m_state EXCEPT ![t] = s]
Shutdown(t)    == m_shutdown' = [m_shutdown EXCEPT ![t] = TRUE]

\* A signal to the process: held back if blocked, deadly otherwise.
Raise(s) ==
    IF blocked THEN pending' = pending \cup {s} /\ UNCHANGED main
               ELSE main' = "killed" /\ UNCHANGED pending

-----------------------------------------------------------------------------
(* The main thread: CDaemon.                                               *)

Main(from, to) == main = from /\ main' = to

\* Init: the log is opened, or is not; then m_server->Start()
LogOpenFails ==
    /\ Main("init", "closeLog")
    /\ UNCHANGED <<m_state, m_shutdown, server, radio, timer, m_mutex, promise,
                   m_port, signalVars, otherVars>>

Launch ==
    /\ Main("init", "poll")
    /\ LogOpen
    /\ SetState("server", "STARTING") /\ server' = "start"
    /\ UNCHANGED <<m_shutdown, radio, timer, m_mutex, promise, m_port, signalVars, ttsVars>>

\* The thread could not be created: the state stays STARTING.
LaunchFails ==
    /\ Main("init", "stop")
    /\ LogOpen
    /\ SetState("server", "STARTING")
    /\ UNCHANGED <<m_shutdown, server, radio, timer, m_mutex, promise, m_port, signalVars, ttsVars>>

\* Init: the server is no longer STARTING
PollServer ==
    /\ m_state["server"] # "STARTING"
    /\ Main("poll", IF m_state["server"] = "RUNNING" THEN "mask" ELSE "stop")
    /\ UNCHANGED <<m_state, m_shutdown, server, radio, timer, m_mutex, promise,
                   m_port, signalVars, otherVars>>

\* Run: pthread_sigmask
BlockSignals ==
    /\ Main("mask", "wait")
    /\ blocked' = TRUE
    /\ UNCHANGED <<m_state, m_shutdown, server, radio, timer, m_mutex, promise,
                   m_port, pending, otherVars>>

\* Run: sigwaitinfo
TakeSignal(s) ==
    /\ s \in pending
    /\ pending' = pending \ {s}
    /\ Main("wait", IF s = "HUP" THEN "reopen" ELSE "stop")
    /\ UNCHANGED <<m_state, m_shutdown, server, radio, timer, m_mutex, promise,
                   m_port, blocked, otherVars>>

\* Run, on SIGHUP: LogReopen
Reopen ==
    /\ \/ Main("reopen", "reclose")  /\ ReopenClose
       \/ Main("reclose", "refopen") /\ ReopenClear
       \/ Main("refopen", "wait")    /\ ReopenOpen
    /\ UNCHANGED <<m_state, m_shutdown, server, radio, timer, m_mutex, promise,
                   m_port, signalVars, ttsVars>>

\* Shutdown: m_server->Stop() sets the flag and joins the thread.
StopServer ==
    /\ Main("stop", "join")
    /\ Shutdown("server")
    /\ UNCHANGED <<m_state, server, radio, timer, m_mutex, promise, m_port, signalVars, otherVars>>

JoinServer ==
    /\ Main("join", "delete")
    /\ server \in {"none", "done"}
    /\ UNCHANGED <<m_state, m_shutdown, server, radio, timer, m_mutex, promise,
                   m_port, signalVars, otherVars>>

\* delete m_server: ~CSirCon deletes the port and clears the pointer; then its
\* member m_timer is destroyed (Stop); then its base CTask, with a join.
DeletePort ==
    /\ Main("delete", "null")
    /\ m_port' = IF m_port = "null" THEN "null" ELSE "dangling"
    /\ UNCHANGED <<m_state, m_shutdown, server, radio, timer, m_mutex, promise, signalVars, otherVars>>

ClearPort ==
    /\ Main("null", "stopTimer")
    /\ m_port' = "null"
    /\ UNCHANGED <<m_state, m_shutdown, server, radio, timer, m_mutex, promise, signalVars, otherVars>>

StopTimer ==
    /\ Main("stopTimer", "joinTimer")
    /\ Shutdown("timer")
    /\ UNCHANGED <<m_state, server, radio, timer, m_mutex, promise, m_port, signalVars, otherVars>>

JoinTimer ==
    /\ Main("joinTimer", "joinRadio")
    /\ timer # "run"
    /\ UNCHANGED <<m_state, m_shutdown, server, radio, timer, m_mutex, promise,
                   m_port, signalVars, otherVars>>

\* Mutant of JoinRadio: the radio thread is not waited for.
JoinRadioNot ==
    /\ Main("joinRadio", "closeLog")
    /\ UNCHANGED <<m_state, m_shutdown, server, radio, timer, m_mutex, promise,
                   m_port, signalVars, otherVars>>

JoinRadio ==
    /\ Main("joinRadio", "closeLog")
    /\ radio \in {"none", "done"}
    /\ UNCHANGED <<m_state, m_shutdown, server, radio, timer, m_mutex, promise,
                   m_port, signalVars, otherVars>>

\* The log is closed, the pid file removed, and main returns.
CloseLog ==
    /\ Main("closeLog", "exited")
    /\ LogClose
    /\ UNCHANGED <<m_state, m_shutdown, server, radio, timer, m_mutex, promise,
                   m_port, signalVars, ttsVars>>

MainThread ==
    \/ LogOpenFails \/ Launch \/ LaunchFails \/ PollServer
    \/ BlockSignals \/ (\E s \in Signals : TakeSignal(s)) \/ Reopen
    \/ StopServer \/ JoinServer \/ DeletePort \/ ClearPort
    \/ StopTimer \/ JoinTimer \/ JoinRadio \/ CloseLog

-----------------------------------------------------------------------------
(* The server thread: CSirServer, SERVER.                                  *)

Server(from, to) == Runs("server") /\ server = from /\ server' = to

\* OnStart: the listening socket, then m_sircon.Start()
StartRadio ==
    /\ Server("start", "poll")
    /\ SetState("radio", "STARTING") /\ radio' = "start"
    /\ UNCHANGED <<m_shutdown, main, timer, m_mutex, promise, m_port, signalVars, otherVars>>

\* ... which may be the one that fails, for want of a thread: STARTING remains.
ServerStartFails ==
    /\ Server("start", "exit")
    /\ SetState("radio", "STARTING") \/ UNCHANGED m_state
    /\ UNCHANGED <<m_shutdown, main, radio, timer, m_mutex, promise,
                   m_port, signalVars, otherVars>>

\* Mutant of PollRadio: does not wait while the radio is STARTING.
PollRadioOnce ==
    /\ \/ m_state["radio"] # "STOPPED" /\ Server("poll", "loop") /\ SetState("server", "RUNNING")
       \/ m_state["radio"] = "STOPPED" /\ Server("poll", "exit") /\ UNCHANGED m_state
    /\ UNCHANGED <<m_shutdown, main, radio, timer, m_mutex, promise, m_port, signalVars, otherVars>>

\* OnStart: the radio is no longer STARTING.
PollRadio ==
    /\ m_state["radio"] # "STARTING"
    /\ \/ m_state["radio"] = "RUNNING" /\ Server("poll", "loop") /\ SetState("server", "RUNNING")
       \/ m_state["radio"] = "STOPPED" /\ Server("poll", "exit") /\ UNCHANGED m_state
    /\ UNCHANGED <<m_shutdown, main, radio, timer, m_mutex, promise, m_port, signalVars, otherVars>>

\* OnRun: the shutdown test, select(), and m_mutex.lock() come in that order.
LoopTest ==
    /\ Server("loop", IF m_shutdown["server"] THEN "exit" ELSE "select")
    /\ UNCHANGED <<m_state, m_shutdown, main, radio, timer, m_mutex, promise,
                   m_port, signalVars, otherVars>>

BeginPass ==
    /\ m_mutex = "free" /\ m_mutex' = "server"
    /\ Server("select", "pass")
    /\ UNCHANGED <<m_state, m_shutdown, main, radio, timer, promise, m_port, signalVars, otherVars>>

\* ProcessData finds no room for a line that is not complete and goes round for
\* ever, or send() waits for a client that does not read.
PassHangs ==
    /\ Server("pass", "stuck")
    /\ UNCHANGED <<m_state, m_shutdown, main, radio, timer, m_mutex, promise,
                   m_port, signalVars, otherVars>>

\* A client's GET or SET: NotifyResult waits for the result.
Request ==
    /\ Server("pass", "future")
    /\ promise' = "pending"
    /\ UNCHANGED <<m_state, m_shutdown, main, radio, timer, m_mutex, m_port, signalVars, otherVars>>

GetResult ==
    /\ promise = "set" /\ promise' = "none"
    /\ Server("future", "pass")
    /\ UNCHANGED <<m_state, m_shutdown, main, radio, timer, m_mutex, m_port, signalVars, otherVars>>

\* get() throws on a broken promise; nobody catches it.
GetThrows ==
    /\ Runs("server") /\ server = "future" /\ promise = "broken"
    /\ main' = "aborted"
    /\ UNCHANGED <<m_state, m_shutdown, server, radio, timer, m_mutex, promise,
                   m_port, signalVars, otherVars>>

\* Mutant of EndPass: m_mutex is not unlocked.
EndPassLocked ==
    /\ Server("pass", "loop")
    /\ UNCHANGED <<m_state, m_shutdown, main, radio, timer, m_mutex, promise, m_port, signalVars, otherVars>>

EndPass ==
    /\ Server("pass", "loop")
    /\ m_mutex' = "free"
    /\ UNCHANGED <<m_state, m_shutdown, main, radio, timer, promise, m_port, signalVars, otherVars>>

\* SERVER::OnExit, under m_mutex
ServerExit ==
    /\ m_mutex = "free"
    /\ Server("exit", "raise")
    /\ UNCHANGED <<m_state, m_shutdown, main, radio, timer, m_mutex, promise,
                   m_port, signalVars, otherVars>>

\* Mutant of ServerRaise: no signal.
ServerEndsQuietly ==
    /\ Server("raise", "done")
    /\ SetState("server", "STOPPED")
    /\ UNCHANGED <<m_shutdown, main, radio, timer, m_mutex, promise, m_port, signalVars, otherVars>>

\* CSirServer::OnExit: kill(getpid(), SIGTERM); then the thread ends.
ServerRaise ==
    /\ Server("raise", "done")
    /\ Raise("TERM")
    /\ SetState("server", "STOPPED")
    /\ UNCHANGED <<m_shutdown, radio, timer, m_mutex, promise, m_port, blocked, otherVars>>

ServerThread ==
    \/ StartRadio \/ ServerStartFails \/ PollRadio \/ LoopTest \/ BeginPass
    \/ GetResult \/ GetThrows \/ EndPass \/ ServerExit \/ ServerRaise

-----------------------------------------------------------------------------
(* The radio thread: CSirCon.                                              *)

Radio(from, to) == Runs("radio") /\ radio = from /\ radio' = to

\* A step of CTTS100::OnStart
Handshake(step) ==
    /\ m_port # "null"
    /\ Radio("start", "start")
    /\ step
    /\ UNCHANGED <<m_state, m_shutdown, main, server, timer, m_mutex, promise,
                   m_port, signalVars, logVars>>

\* CSirCon::OnStart starts the timer task, flushes the line (what is still
\* coming is noise to the receiver), then notifies SCEStartup.  It does not look
\* whether the timer's thread could be created.
RadioStart ==
    /\ tts.at \in {"plain", "open"}
    /\ Radio("start", "startup")
    /\ \/ timer' = "run" /\ SetState("timer", "RUNNING")
       \/ UNCHANGED timer /\ SetState("timer", "STARTING")
    /\ HandshakeOver
    /\ UNCHANGED <<m_shutdown, main, server, m_mutex, promise, m_port, signalVars, logVars>>

\* No port, or the TTS-100 refuses: OnRun is skipped.
RadioStartFails ==
    /\ m_port = "null" \/ tts.at = "refused"
    /\ Radio("start", "exit")
    /\ HandshakeOver
    /\ UNCHANGED <<m_state, m_shutdown, main, server, timer, m_mutex, promise,
                   m_port, signalVars, logVars>>

NotifyStartup ==
    /\ Radio("startup", "loop")
    /\ m_mutex = "free"
    /\ SetState("radio", "RUNNING")
    /\ UNCHANGED <<m_shutdown, main, server, timer, m_mutex, promise, m_port, signalVars, otherVars>>

Reading == Runs("radio") /\ radio = "loop" /\ ~ m_shutdown["radio"]

\* Read's assert(m_port != 0); a use of the deleted port may crash as well.
ReadAborts ==
    /\ Reading /\ m_port \in {"null", "dangling"}
    /\ main' = "aborted"
    /\ UNCHANGED <<m_state, m_shutdown, server, radio, timer, m_mutex, promise,
                   m_port, signalVars, otherVars>>

\* An acknowledgement of the request
ReadAck ==
    /\ Reading /\ m_port # "null"
    /\ promise = "pending" /\ promise' = "set"
    /\ UNCHANGED <<m_state, m_shutdown, main, server, radio, timer, m_mutex,
                   m_port, signalVars, otherVars>>

\* A data frame, or an error of the port
ReadData ==
    /\ Reading /\ m_port # "null"
    /\ Radio("loop", "event") \/ Radio("loop", "exit")
    /\ UNCHANGED <<m_state, m_shutdown, main, server, timer, m_mutex, promise,
                   m_port, signalVars, otherVars>>

\* Broadcast waits for m_mutex.
NotifyEvent ==
    /\ Radio("event", "loop")
    /\ m_mutex = "free"
    /\ UNCHANGED <<m_state, m_shutdown, main, server, timer, m_mutex, promise,
                   m_port, signalVars, otherVars>>

\* Mutant of RadioLoopEnds: the timer is stopped before SCEShutdown is notified.
RadioLoopEndsStopped ==
    /\ m_shutdown["radio"]
    /\ Radio("loop", "exit")
    /\ Shutdown("timer")
    /\ UNCHANGED <<m_state, main, server, timer, m_mutex, promise, m_port, signalVars, otherVars>>

RadioLoopEnds ==
    /\ m_shutdown["radio"]
    /\ Radio("loop", "exit")
    /\ UNCHANGED <<m_state, m_shutdown, main, server, timer, m_mutex, promise,
                   m_port, signalVars, otherVars>>

\* OnExit: OnSCEShutdown broadcasts, then shuts the server down; ...
NotifyShutdown ==
    /\ Radio("exit", "shutdown")
    /\ m_mutex = "free"
    /\ UNCHANGED <<m_state, m_shutdown, main, server, timer, m_mutex, promise,
                   m_port, signalVars, otherVars>>

ShutdownServer ==
    /\ Radio("shutdown", "stopTimer")
    /\ Shutdown("server")
    /\ UNCHANGED <<m_state, main, server, timer, m_mutex, promise, m_port, signalVars, otherVars>>

\* ... then m_timer.Stop(), the queue is emptied, the port closed.
RadioStopTimer ==
    /\ Radio("stopTimer", "joinTimer")
    /\ Shutdown("timer")
    /\ UNCHANGED <<m_state, main, server, timer, m_mutex, promise, m_port, signalVars, otherVars>>

RadioJoinTimer ==
    /\ Radio("joinTimer", "drain")
    /\ timer # "run"
    /\ UNCHANGED <<m_state, m_shutdown, main, server, timer, m_mutex, promise,
                   m_port, signalVars, otherVars>>

DrainQueue ==
    /\ Radio("drain", "close")
    /\ promise' = IF promise = "pending" THEN "broken" ELSE promise
    /\ UNCHANGED <<m_state, m_shutdown, main, server, timer, m_mutex, m_port, signalVars, otherVars>>

ClosePort ==
    /\ Radio("close", "done")
    /\ SetState("radio", "STOPPED")
    /\ m_port' = IF m_port = "open" THEN "closed" ELSE m_port
    /\ UNCHANGED <<m_shutdown, main, server, timer, m_mutex, promise, signalVars, otherVars>>

\* Close() on a deleted port, or two threads that join the timer thread
TeardownAborts ==
    /\ Runs("radio")
    /\ \/ radio = "close" /\ m_port = "dangling"
       \/ radio = "joinTimer" /\ main = "joinTimer" /\ timer # "none"
    /\ main' = "aborted"
    /\ UNCHANGED <<m_state, m_shutdown, server, radio, timer, m_mutex, promise,
                   m_port, signalVars, otherVars>>

RadioThread ==
    \/ Handshake(OnStart) \/ RadioStart \/ RadioStartFails \/ NotifyStartup \/ NotifyEvent
    \/ ReadAborts \/ RadioLoopEnds \/ NotifyShutdown \/ ShutdownServer
    \/ RadioStopTimer \/ RadioJoinTimer \/ DrainQueue \/ ClosePort

-----------------------------------------------------------------------------
(* The timer thread, with CSirCon::TimerProc.                              *)

Ticking == Runs("timer") /\ timer = "run" /\ ~ m_shutdown["timer"]

\* A request is given up; in the end the link is declared dead.
TimeOut ==
    /\ Ticking /\ promise = "pending"
    /\ promise' = "set"
    /\ Shutdown("radio") \/ UNCHANGED m_shutdown
    /\ UNCHANGED <<m_state, main, server, radio, timer, m_mutex, m_port, signalVars, otherVars>>

\* So is a request nobody waits for (keepalive, GetPower, SetPower).
LinkDies ==
    /\ Ticking /\ radio # "startup"
    /\ Shutdown("radio")
    /\ UNCHANGED <<m_state, main, server, radio, timer, m_mutex, promise, m_port, signalVars, otherVars>>

\* A frame is written to a port that is gone.
WriteAborts ==
    /\ Ticking /\ m_port \in {"null", "dangling"}
    /\ main' = "aborted"
    /\ UNCHANGED <<m_state, m_shutdown, server, radio, timer, m_mutex, promise,
                   m_port, signalVars, otherVars>>

TimerEnds ==
    /\ Runs("timer") /\ timer = "run" /\ m_shutdown["timer"]
    /\ timer' = "done" /\ SetState("timer", "STOPPED")
    /\ UNCHANGED <<m_shutdown, main, server, radio, m_mutex, promise, m_port, signalVars, otherVars>>

-----------------------------------------------------------------------------

\* kill(1), or the terminal
SendSignal(s) ==
    /\ ~ Over /\ Raise(s)
    /\ UNCHANGED <<m_state, m_shutdown, server, radio, timer, m_mutex, promise,
                   m_port, blocked, otherVars>>

\* The device and the line during the handshake
HandshakeOutside ==
    /\ ~ Over /\ radio = "start" /\ Outside
    /\ UNCHANGED <<m_state, m_shutdown, main, server, radio, timer, m_mutex, promise,
                   m_port, signalVars, logVars>>

\* A thread calls LogWrite; it may do so wherever it does not wait.
CallsLog(t) ==
    /\ ~ Over /\ LogTest(t)
    /\ t = "server" => server \notin {"none", "future", "stuck", "done"}
    /\ t = "radio"  => radio \notin {"none", "done"}
    /\ t = "timer"  => timer = "run"
    /\ UNCHANGED <<m_state, m_shutdown, main, server, radio, timer, m_mutex, promise,
                   m_port, signalVars, ttsVars>>

InLogWrite(t) ==
    /\ ~ Over /\ LogWrite(t)
    /\ UNCHANGED <<m_state, m_shutdown, main, server, radio, timer, m_mutex, promise,
                   m_port, signalVars, ttsVars>>

Next ==
    \/ MainThread
    \/ ServerThread \/ Request \/ PassHangs
    \/ RadioThread \/ Handshake(OnStartFails) \/ HandshakeOutside
    \/ ReadAck \/ ReadData \/ TeardownAborts
    \/ TimeOut \/ LinkDies \/ WriteAborts \/ TimerEnds
    \/ \E t \in Writers : CallsLog(t) \/ InLogWrite(t)
    \/ \E s \in ExternalSignals : SendSignal(s)

Spec == Init /\ [][Next]_vars

\* The threads keep running and the timer keeps ticking.  A pass that
\* does not hang handles finitely many lines and ends (SF on EndPass), and the radio thread is not
\* passed over for ever by the server thread, which waits in select() after
\* each pass (SF on RadioThread).  Nor is a thread in LogWrite by those that hold
\* s_mutex, for a line or a LogReopen.  SIGHUPs do not hide a SIGTERM for ever.
FairSpec ==
    /\ Spec
    /\ WF_vars(MainThread) /\ SF_vars(TakeSignal("TERM"))
    /\ WF_vars(ServerThread) /\ SF_vars(EndPass)
    /\ WF_vars(TimeOut \/ TimerEnds)
    /\ SF_vars(RadioThread)
    /\ SF_vars(\E t \in Writers : InLogWrite(t))

-----------------------------------------------------------------------------
(* Properties.                                                             *)

\* m_timer.Start() failed, for want of a thread.
NoTimer == timer = "none" /\ m_state["timer"] = "STARTING"

\* The server thread waits for a promise with m_mutex held and the radio
\* thread for m_mutex (NotifyResult, Broadcast): the timer thread, which needs
\* neither, is there to end the wait, unless it could not be created.
NoCircularWait ==
    server = "future" /\ radio \in {"startup", "event", "exit"} =>
        NoTimer \/ (timer = "run" /\ ~ m_shutdown["timer"])

\* CSirServer::OnStart: no client is served before the radio task has left
\* OnStart, with a port and a timer (or without the thread of one).
ServedOnlyWhenUp ==
    server \in {"loop", "select", "pass", "future", "stuck"} =>
        radio \notin {"none", "start", "startup"} /\ (timer # "none" \/ NoTimer)

\* CDaemon::Init and CSirServer::OnStart poll the state of another task: the
\* polls end, whichever task fails and whenever.
StartupResolves == main = "poll" ~> Over \/ (main # "poll" /\ server # "poll")

\* A request pushed after the radio task emptied its queue: nobody resolves it.
Orphaned == server = "future" /\ promise = "pending" /\ radio \in {"close", "done"}

PassNeverEnds == server = "stuck"

\* Nobody times the request out; the radio thread may be waiting for m_mutex.
Untimed == server = "future" /\ promise = "pending" /\ NoTimer

\* The server thread does not come back to its loop.
Stuck == Orphaned \/ PassNeverEnds \/ Untimed

\* Once the link is dead, or main has decided to stop, every thread ends and is
\* joined by one that does not wait for it: the process ends (it may abort),
\* unless the server thread is stuck for ever in a pass.
ShutdownCompletes ==
    main = "stop" \/ m_shutdown["radio"] ~> Over \/ []Stuck

\* assert(m_port != 0) in Read (sircon.cpp:148): the radio thread has a port
\* whenever it is about to read.
ReadHasPort == Reading => m_port # "null"
=============================================================================
