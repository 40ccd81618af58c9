--------------------------- MODULE ControlArbiter ---------------------------
(***************************************************************************)
(* The client side of sircond: the select() loop of SERVER (server.cpp),   *)
(* the line protocol of CSirServer (sirserver.cpp) and the "control" lock  *)
(* that lets one client at a time change the radio's settings.             *)
(*                                                                         *)
(* Two threads touch this state.  The server thread runs SERVER::OnRun: it *)
(* holds m_mutex for a whole pass over m_clients, and blocks inside the    *)
(* pass (NotifyResult) until the radio has answered a GET or SET.  The     *)
(* radio thread delivers events: Broadcast takes m_mutex, OnSCEGetResult   *)
(* and OnSCESetResult send to m_controller without any lock.               *)
(*                                                                         *)
(* Abstracted: a transmit buffer is only empty or not.  CLIENT::Send to an *)
(* empty buffer always finds room (the messages are far shorter than       *)
(* SIRCOND_BUFSIZE); to one that holds data it may fail, and every caller  *)
(* ignores that.  Command lines are the kinds the handlers tell apart.     *)
(***************************************************************************)
EXTENDS Naturals, SequencesExt

CONSTANTS
    Clients,    \* the CLIENT objects that may ever be allocated
    NoClient,   \* the null CLIENT pointer
    MaxLines,   \* bound: command lines that arrive in one recv()
    PartialLines \* TRUE: data may end in the middle of a line

ASSUME ClientsAssumption ==
    NoClient \notin Clients /\ MaxLines \in Nat \ {0} /\ PartialLines \in BOOLEAN

VARIABLES
    m_sock,          \* "none" before accept, "open", "closed" (-1), "freed"
    m_clients,       \* list<CLIENT*> of SERVER
    m_controller,    \* the client that owns control, or NoClient
    m_control_queue, \* clients waiting for control, oldest first
    m_txbuf,         \* TRUE when the client's transmit buffer holds data
    told,            \* history: the last CONTROL message put in that buffer,
                     \* while the client is connected
    revived,         \* history: dropped clients that asked for control again
    pc,              \* where the server thread is
    i,               \* its iterator in m_clients (a position)
    drop,            \* the local "drop" of SERVER::OnRun
    lines,           \* lines of m_rxbuf that ProcessData has still to process
    asked,           \* the request whose future is awaited: "GET" or "SET"
    m_shutdown       \* CTask's shutdown flag

vars == <<m_sock, m_clients, m_controller, m_control_queue, m_txbuf, told,
          revived, pc, i, drop, lines, asked, m_shutdown>>

lockVars == <<m_controller, m_control_queue>>
bufVars  == <<m_txbuf, told>>
connVars == <<m_sock, m_clients, revived>>
loopVars == <<pc, i, drop, lines, asked>>

Commands == {"ACQUIRE", "RELEASE", "SET", "GET", "QUIT", "OTHER"}
\* What recv() may bring: lines, the last of which may lack its end
Lines == Commands \cup {"PARTIAL"}
Received ==
    {data \in BoundedSeq(Lines, MaxLines) \ {<<>>} :
        \A k \in DOMAIN data : data[k] = "PARTIAL" => PartialLines /\ k = Len(data)}
ControlMessages == {"ACQUIRED", "PENDING", "RELEASED"}
\* "NONE": no CONTROL message yet; "LOST": Send refused the last one
Told == ControlMessages \cup {"NONE", "LOST"}

TypeOK ==
    /\ m_sock \in [Clients -> {"none", "open", "closed", "freed"}]
    /\ m_clients \in Seq(Clients)
    /\ m_controller \in Clients \cup {NoClient}
    /\ m_control_queue \in Seq(Clients)
    /\ m_txbuf \in [Clients -> BOOLEAN]
    /\ told \in [Clients -> Told]
    /\ revived \subseteq Clients
    /\ pc \in {"select", "visit", "lines", "future", "transmit", "exit", "stopped"}
    /\ i \in 1 .. Len(m_clients) + 1
    /\ pc \in {"lines", "future", "transmit"} => i <= Len(m_clients)
    /\ pc \in {"exit", "stopped"} => i = 1
    /\ drop \in BOOLEAN
    /\ lines \in Seq(Lines)
    /\ asked \in {"none", "GET", "SET"}
    /\ m_shutdown \in BOOLEAN

Init ==
    /\ m_sock = [c \in Clients |-> "none"]
    /\ m_clients = <<>>
    /\ m_controller = NoClient
    /\ m_control_queue = <<>>
    /\ m_txbuf = [c \in Clients |-> FALSE]
    /\ told = [c \in Clients |-> "NONE"]
    /\ revived = {}
    /\ pc = "select"
    /\ i = 1
    /\ drop = FALSE
    /\ lines = <<>>
    /\ asked = "none"
    /\ m_shutdown = FALSE

IsDead(c) == m_sock[c] # "open"
Current   == m_clients[i]

-----------------------------------------------------------------------------
(* CLIENT::Send, to each client in the domain of msgs; the client in       *)
(* cleared, if any, has its buffer emptied afterwards by CLIENT::Drop.     *)

Send(msgs, cleared) ==
    \E refused \in SUBSET {c \in DOMAIN msgs : m_txbuf[c]} :
        /\ m_txbuf' = [c \in Clients |-> \/ c \in DOMAIN msgs \ cleared
                                         \/ m_txbuf[c] /\ c \notin cleared]
        /\ told' = [c \in Clients |->
                      IF c \in cleared THEN "NONE"
                      ELSE IF \/ c \notin DOMAIN msgs \/ IsDead(c)
                              \/ msgs[c] \notin ControlMessages
                      THEN told[c]
                      ELSE IF c \in refused THEN "LOST" ELSE msgs[c]]

Reply(c, msg) == Send([d \in {c} |-> msg], {})

-----------------------------------------------------------------------------
(* The control lock.                                                       *)

HasControl(c) == c = m_controller
IsWaitingForControl(c) == Contains(m_control_queue, c)

\* Mutant: the next client is never told.
HeirUntold(c) == {c} \ {c}

\* The client ReleaseControl(c) hands control to, as a set of at most one.
Heir(c) ==
    IF HasControl(c) /\ m_control_queue # <<>> THEN {Head(m_control_queue)} ELSE {}

\* Mutant: no IsWaitingForControl test.
AcquireControlTwice(c) ==
    \/ /\ m_controller = NoClient /\ m_control_queue = <<>>
       /\ m_controller' = c
       /\ UNCHANGED m_control_queue
       /\ Reply(c, "ACQUIRED")
    \/ /\ m_controller # NoClient
       /\ m_control_queue' = Append(m_control_queue, c)
       /\ UNCHANGED m_controller
       /\ Reply(c, "PENDING")

AcquireControl(c) ==
    \/ /\ m_controller = NoClient /\ m_control_queue = <<>>
       /\ m_controller' = c
       /\ UNCHANGED m_control_queue
       /\ Reply(c, "ACQUIRED")
    \/ /\ HasControl(c)
       /\ UNCHANGED lockVars
       /\ Reply(c, "ACQUIRED")
    \/ /\ ~ (m_controller = NoClient /\ m_control_queue = <<>>)
       /\ ~ HasControl(c)
       /\ m_control_queue' = IF IsWaitingForControl(c) THEN m_control_queue
                             ELSE Append(m_control_queue, c)
       /\ UNCHANGED m_controller
       /\ Reply(c, "PENDING")

\* Mutant: control goes to the client that asked last.
ReleaseControlToLast(c) ==
    \/ /\ HasControl(c) /\ m_control_queue = <<>>
       /\ m_controller' = NoClient
       /\ UNCHANGED m_control_queue
    \/ /\ HasControl(c) /\ m_control_queue # <<>>
       /\ m_controller' = Last(m_control_queue)
       /\ m_control_queue' = Front(m_control_queue)
    \/ /\ ~ HasControl(c)
       /\ m_control_queue' = RemoveFirst(m_control_queue, c)
       /\ UNCHANGED m_controller

\* Mutant: the queue is not looked at when control is released.
ReleaseControlToNobody(c) ==
    \/ /\ HasControl(c)
       /\ m_controller' = NoClient
       /\ UNCHANGED m_control_queue
    \/ /\ ~ HasControl(c)
       /\ m_control_queue' = RemoveFirst(m_control_queue, c)
       /\ UNCHANGED m_controller

\* Only the lock; the caller sends the heir's "CONTROL,ACQUIRED".
ReleaseControl(c) ==
    \/ /\ HasControl(c) /\ m_control_queue = <<>>
       /\ m_controller' = NoClient
       /\ UNCHANGED m_control_queue
    \/ /\ HasControl(c) /\ m_control_queue # <<>>
       /\ m_controller' = Head(m_control_queue)
       /\ m_control_queue' = Tail(m_control_queue)
    \/ /\ ~ HasControl(c)
       /\ m_control_queue' = RemoveFirst(m_control_queue, c)
       /\ UNCHANGED m_controller

\* Mutant: OnDrop does not release control.
DropHolding(c, sock) ==
    /\ UNCHANGED lockVars
    /\ Send([h \in {} |-> "ACQUIRED"], {c})
    /\ m_sock' = [m_sock EXCEPT ![c] = sock]
    /\ revived' = revived \ {c}

\* SERVER::Drop with CSirServer::OnDrop and CLIENT::Drop
Drop(c, sock) ==
    /\ ReleaseControl(c)
    /\ Send([h \in Heir(c) |-> "ACQUIRED"], {c})
    /\ m_sock' = [m_sock EXCEPT ![c] = sock]
    /\ revived' = revived \ {c}

-----------------------------------------------------------------------------
(* The server thread: one pass of SERVER::OnRun is StartPass (which takes  *)
(* m_mutex), then a visit of every client, then EndPass.                   *)

StartPass ==
    /\ pc = "select" /\ ~ m_shutdown
    /\ pc' = "visit" /\ i' = 1
    /\ UNCHANGED <<drop, lines, asked, connVars, lockVars, bufVars, m_shutdown>>

OnConnect(c) ==
    /\ pc = "select" /\ ~ m_shutdown
    /\ m_sock[c] = "none"
    /\ m_sock' = [m_sock EXCEPT ![c] = "open"]
    /\ m_clients' = Append(m_clients, c)
    /\ pc' = "visit" /\ i' = 1
    /\ UNCHANGED <<revived, drop, lines, asked, lockVars, bufVars, m_shutdown>>

\* Mutant: the next pass starts without a look at the shutdown flag.
EndPassForever ==
    /\ pc = "visit" /\ i > Len(m_clients)
    /\ i' = 1
    /\ UNCHANGED <<pc, drop, lines, asked, connVars, lockVars, bufVars, m_shutdown>>

EndPass ==
    /\ pc = "visit" /\ i > Len(m_clients)
    /\ pc' = "select"
    /\ UNCHANGED <<i, drop, lines, asked, connVars, lockVars, bufVars, m_shutdown>>

SkipDead ==
    /\ pc = "visit" /\ i <= Len(m_clients) /\ IsDead(Current)
    /\ i' = i + 1
    /\ UNCHANGED <<pc, drop, lines, asked, connVars, lockVars, bufVars, m_shutdown>>

\* The socket is readable or not, and select() may report an exception too;
\* exc is the "DID AN ERROR OCCUR?" test.
VisitClient ==
    /\ pc = "visit" /\ i <= Len(m_clients) /\ ~ IsDead(Current)
    /\ \E exc \in BOOLEAN :
         \/ /\ pc' = "transmit" /\ drop' = exc           \* nothing to read
            /\ UNCHANGED lines
         \/ /\ pc' = "transmit" /\ drop' = TRUE          \* recv() <= 0
            /\ UNCHANGED lines
         \/ /\ pc' = "lines" /\ drop' = exc              \* recv() > 0
            /\ lines' \in Received
    /\ UNCHANGED <<i, asked, connVars, lockVars, bufVars, m_shutdown>>

\* ProcessData hands the next line to ProcessCommand.  At the beginning of a
\* line without an end its outer loop makes no progress and never returns: the
\* server thread has no step then.
NextLine(cmd) ==
    /\ pc = "lines" /\ lines # <<>> /\ Head(lines) = cmd
    /\ lines' = Tail(lines)
    /\ UNCHANGED <<i, drop, m_clients, m_shutdown>>

ProcessControlAcquire ==
    /\ NextLine("ACQUIRE")
    /\ AcquireControl(Current)
    /\ revived' = IF IsDead(Current) THEN revived \cup {Current} ELSE revived
    /\ UNCHANGED <<pc, asked, m_sock>>

ProcessControlRelease ==
    /\ NextLine("RELEASE")
    /\ ReleaseControl(Current)
    /\ Send([d \in Heir(Current) \cup {Current} |->
               IF d = Current THEN "RELEASED" ELSE "ACQUIRED"], {})
    /\ UNCHANGED <<pc, asked, m_sock, revived>>

\* Mutant: SET is not reserved to the controller.
ProcessSetAnyone ==
    /\ NextLine("SET")
    /\ pc' = "future" /\ asked' = "SET"
    /\ UNCHANGED <<m_sock, revived, lockVars, bufVars>>

\* ValidateSet, then the request goes to the radio and NotifyResult waits.
ProcessSet ==
    /\ NextLine("SET")
    /\ \/ HasControl(Current) /\ pc' = "future" /\ asked' = "SET" /\ UNCHANGED bufVars
       \/ ~ HasControl(Current) /\ Reply(Current, "ERROR") /\ UNCHANGED <<pc, asked>>
    /\ UNCHANGED <<m_sock, revived, lockVars>>

ProcessGet ==
    /\ NextLine("GET")
    /\ pc' = "future" /\ asked' = "GET"
    /\ UNCHANGED <<m_sock, revived, lockVars, bufVars>>

ProcessQuit ==
    /\ NextLine("QUIT")
    /\ Drop(Current, "closed")
    /\ UNCHANGED <<pc, asked>>

\* Any other line: answered (invalid command, "CONTROL" with another word)
\* or only logged.
ProcessOther ==
    /\ NextLine("OTHER")
    /\ Reply(Current, "ERROR") \/ UNCHANGED bufVars
    /\ UNCHANGED <<pc, asked, m_sock, revived, lockVars>>

\* result.get() returns: OK, TIMEOUT or ERROR
NotifyResult ==
    /\ pc = "future"
    /\ Reply(Current, "RESULT")
    /\ pc' = "lines" /\ asked' = "none"
    /\ UNCHANGED <<i, drop, lines, connVars, lockVars, m_shutdown>>

EndOfData ==
    /\ pc = "lines" /\ lines = <<>>
    /\ pc' = "transmit"
    /\ UNCHANGED <<i, drop, lines, asked, connVars, lockVars, bufVars, m_shutdown>>

\* OnRun is about to call, or inside, send() for the current client.
InSend == pc = "transmit" /\ ~ drop /\ ~ IsDead(Current) /\ m_txbuf[Current]

\* send() of some or all of the staged data
TransmitData ==
    /\ InSend
    /\ \/ /\ \E rest \in BOOLEAN : m_txbuf' = [m_txbuf EXCEPT ![Current] = rest]
          /\ pc' = "visit" /\ i' = i + 1 /\ UNCHANGED drop
       \/ drop' = TRUE /\ UNCHANGED <<pc, i, m_txbuf>>
    /\ UNCHANGED <<lines, asked, told, connVars, lockVars, m_shutdown>>

NextClient ==
    /\ pc = "transmit" /\ ~ drop /\ (IsDead(Current) \/ ~ m_txbuf[Current])
    /\ pc' = "visit" /\ i' = i + 1
    /\ UNCHANGED <<drop, lines, asked, connVars, lockVars, bufVars, m_shutdown>>

\* Mutant: the iterator is advanced past the client after the erased one.
DropClientSkips ==
    /\ pc = "transmit" /\ drop
    /\ Drop(Current, "closed")
    /\ m_clients' = RemoveAt(m_clients, i)
    /\ pc' = "visit" /\ drop' = FALSE /\ i' = i + 1
    /\ UNCHANGED <<lines, asked, m_shutdown>>

DropClient ==
    /\ pc = "transmit" /\ drop
    /\ Drop(Current, "closed")
    /\ m_clients' = RemoveAt(m_clients, i)
    /\ pc' = "visit" /\ drop' = FALSE
    /\ UNCHANGED <<i, lines, asked, m_shutdown>>

\* OnRun returns; SERVER::OnExit holds m_mutex from here on.
LeaveLoop ==
    /\ pc = "select" /\ m_shutdown
    /\ pc' = "exit" /\ i' = 1
    /\ UNCHANGED <<drop, lines, asked, connVars, lockVars, bufVars, m_shutdown>>

ExitDrop ==
    /\ pc = "exit" /\ m_clients # <<>>
    /\ Drop(Head(m_clients), "freed")
    /\ m_clients' = Tail(m_clients)
    /\ UNCHANGED <<pc, i, drop, lines, asked, m_shutdown>>

ExitDone ==
    /\ pc = "exit" /\ m_clients = <<>>
    /\ pc' = "stopped"
    /\ UNCHANGED <<i, drop, lines, asked, connVars, lockVars, bufVars, m_shutdown>>

\* The steps that wait for nobody
RunsFree ==
    \/ StartPass \/ (\E c \in Clients : OnConnect(c)) \/ EndPass
    \/ SkipDead \/ VisitClient
    \/ ProcessControlAcquire \/ ProcessControlRelease \/ ProcessSet
    \/ ProcessGet \/ ProcessQuit \/ ProcessOther \/ EndOfData
    \/ NextClient \/ DropClient
    \/ LeaveLoop \/ ExitDrop \/ ExitDone

ServerThread == RunsFree \/ NotifyResult \/ TransmitData

-----------------------------------------------------------------------------
(* The other threads.                                                      *)

\* OnSCE...: NotifyAll, which waits for m_mutex
Broadcast ==
    /\ pc \in {"select", "stopped"} /\ m_clients # <<>>
    /\ Send([c \in ToSet(m_clients) |-> "EVENT"], {})
    /\ UNCHANGED <<connVars, lockVars, loopVars, m_shutdown>>

\* OnSCEGetResult, OnSCESetResult: Notify(m_controller, ...) under no lock
NotifyController ==
    /\ m_controller # NoClient
    /\ Reply(m_controller, "EVENT")
    /\ UNCHANGED <<connVars, lockVars, loopVars, m_shutdown>>

\* CTask::Shutdown, called by OnSCEShutdown or by CTask::Stop
Shutdown ==
    /\ m_shutdown' = TRUE
    /\ UNCHANGED <<connVars, lockVars, bufVars, loopVars>>

Next == ServerThread \/ Broadcast \/ NotifyController \/ Shutdown

Spec == Init /\ [][Next]_vars
\* The server thread is an ordinary thread and keeps running.  It may stay in
\* result.get() for ever (a frame that is sent after CSirCon::OnExit has
\* emptied the queue is never resolved), and in send(), which nothing keeps
\* from blocking: of these two returns nothing is assumed.
FairSpec == Spec /\ WF_vars(RunsFree)
-----------------------------------------------------------------------------
(* Properties.                                                             *)

\* The wait queue of AcquireControl and ReleaseControl: nobody waits twice,
\* the controller does not wait for itself, and nobody waits for a lock that
\* is free.
QueueOK ==
    /\ \A j, k \in DOMAIN m_control_queue :
          m_control_queue[j] = m_control_queue[k] => j = k
    /\ \A j \in DOMAIN m_control_queue : m_control_queue[j] # m_controller
    /\ m_controller = NoClient => m_control_queue = <<>>

\* Every pointer kept by the lock is to a client that is still in m_clients:
\* no path drops a client from the list (OnRun, OnExit) and leaves it the
\* controller, or queued.
HoldersAttached ==
    /\ m_controller # NoClient => Contains(m_clients, m_controller)
    /\ ToSet(m_control_queue) \subseteq ToSet(m_clients)

\* What a connected client was last told about control is still true, over
\* every interleaving with other clients' commands, hang-ups and the shutdown:
\* a client that read ACQUIRED is the controller until it is told otherwise.
ClientViewAccurate ==
    \A c \in Clients : ~ IsDead(c) =>
        /\ told[c] = "ACQUIRED" => HasControl(c)
        /\ told[c] = "PENDING" => IsWaitingForControl(c)
        /\ told[c] \in {"NONE", "RELEASED"} => ~ HasControl(c) /\ ~ IsWaitingForControl(c)

\* While a SET is at the radio its client is the controller, and no other
\* connected client has been told that it is (README: "read/write access to
\* only one client at a time").
ExclusiveWrites ==
    pc = "future" /\ asked = "SET" =>
        /\ HasControl(Current)
        /\ \A c \in Clients \ {Current} : ~ IsDead(c) => told[c] # "ACQUIRED"

\* Dropped by QUIT, a hang-up, an error or the shutdown, in whatever state of
\* the lock: a client that is gone never has control, nor gets it later by its
\* turn in the queue.  Excepted is one that asked again after its drop, which
\* ProcessData lets a line behind QUIT do.
DroppedReleased ==
    \A c \in Clients : m_sock[c] \in {"closed", "freed"} /\ c \notin revived =>
        ~ HasControl(c) /\ ~ IsWaitingForControl(c)

\* server.cpp:269-270, Drop "closes the client's socket and performs other
\* cleanup": a client that was dropped neither owns control nor waits for it.
DroppedHoldsNothing ==
    \A c \in Clients : m_sock[c] \in {"closed", "freed"} =>
        ~ HasControl(c) /\ ~ IsWaitingForControl(c)

\* The lock that AcquireControl and ReleaseControl implement: first come,
\* first served.
AskedBefore ==
    {p \in ToSet(m_control_queue) \X ToSet(m_control_queue) :
        \E j, k \in DOMAIN m_control_queue :
            j < k /\ p = <<m_control_queue[j], m_control_queue[k]>>}

Lock == INSTANCE ControlLock WITH
    holder  <- m_controller,
    waiting <- ToSet(m_control_queue),
    before  <- AskedBefore

ImplementsLock == Lock!Spec

\* No waiting client starves: if no client keeps control for ever, every
\* client that waits is served or leaves (AcquireControl, ReleaseControl).
\* (While the server thread is stuck, whoever has control keeps it.)
WaitersServed ==
    (\A c \in Clients : []<>(~ HasControl(c)))
        => \A c \in Clients : IsWaitingForControl(c) ~> ~ IsWaitingForControl(c)

\* sirclient.cpp:51, "Returns the number of octets consumed from the buffer":
\* ProcessData returns, whatever data recv() has brought.
ProcessDataReturns == pc = "lines" ~> pc = "transmit"

\* The server thread is where it may stay for ever: in result.get(), in send(),
\* or in ProcessData at the beginning of a line without an end.
StuckInPass ==
    \/ pc = "future"
    \/ InSend
    \/ pc = "lines" /\ lines # <<>> /\ Head(lines) = "PARTIAL"

\* A shutdown gets through, unless it finds the server thread stuck: the pass
\* in progress ends, OnExit drops every client, and control is left with nobody.
ShutdownCompletes ==
    m_shutdown ~>
        \/ pc = "stopped" /\ m_clients = <<>> /\ m_controller = NoClient
        \/ []StuckInPass
=============================================================================
