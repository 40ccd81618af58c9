------------------------------ MODULE ScpSender ------------------------------
(***************************************************************************)
(* The sending half of the SCP link protocol in CSirCon (sircon.cpp): a    *)
(* stop-and-wait queue of frames shared by three kinds of thread.          *)
(*                                                                         *)
(*   - callers of Send: the server thread (client commands) and the radio  *)
(*     thread itself (keepalive probe, SetPower after a reset);            *)
(*   - the timer thread, which runs TimerProc every 100 ms: it transmits   *)
(*     the front frame, retransmits it, and gives it up;                   *)
(*   - the radio thread, which runs OnRun: it reads acknowledgements.      *)
(*                                                                         *)
(* m_queue is protected by m_queue_lock.  m_seq, m_busy_timer,             *)
(* m_link_alive and m_link_fail_cnt are plain variables that two threads   *)
(* read and write without a lock, so each load and each store of them is a *)
(* step of its own here.                                                   *)
(*                                                                         *)
(* The serial line is a FIFO in each direction that can lose a message or  *)
(* deliver garbage.  The radio answers every frame it receives.  Frames    *)
(* carry, beside the 8-bit sequence number of the protocol, the number of  *)
(* the frame in the order of composition (id), which the code never sees.  *)
(***************************************************************************)
EXTENDS Integers, SequencesExt

CONSTANTS
    Callers,          \* threads that call Send
    MaxFrames,        \* bound: frames composed
    SeqSpace,         \* sequence numbers are modulo this (256)
    MaxRetries,       \* SIRCON_MAX_RETRIES
    MaxLinkFailures,  \* SIRCON_MAX_LINK_FAILURES
    BusyDelay,        \* BUSY_DELAY_COUNT
    BusyWrap,         \* m_busy_timer is modulo this (2^32)
    WireCap,          \* bound: frames on the line to the radio
    ReplyCap          \* bound: messages on the line from the radio

ASSUME SenderAssumption ==
    /\ MaxFrames \in Nat \ {0} /\ WireCap \in Nat /\ ReplyCap \in Nat
    /\ SeqSpace \in Nat \ {0}
    /\ MaxRetries \in Nat /\ MaxLinkFailures \in Nat
    /\ BusyDelay \in Nat /\ BusyWrap \in Nat /\ BusyDelay < BusyWrap

VARIABLES
    m_seq,            \* next sequence number
    caller,           \* per caller: where it is in Send, and its frame
    composed,         \* history: number of frames composed so far
    raced,            \* history: two threads were inside "m_seq++" at once
    m_queue,          \* frames [id, seq, retries] waiting for acknowledgement
    result,           \* per frame: its promise
    m_busy_timer,     \* ticks to skip while the radio is busy
    timer,            \* the timer thread: where in TimerProc, and a register
    radio,            \* the radio thread: where in OnRun
    stagebuf,         \* messages read from the line, not yet parsed
    m_link_alive,
    m_link_fail_cnt,
    m_shutdown,       \* CTask's flag, set by OnTimeout
    wire,             \* frames on their way to the radio
    replies,          \* messages on their way from the radio
    received          \* history: frames the radio accepted

callVars == <<m_seq, caller, composed, raced>>
linkVars == <<m_link_alive, m_link_fail_cnt, m_shutdown>>
lineVars == <<wire, replies, received>>
vars == <<callVars, m_queue, result, m_busy_timer, timer, radio, stagebuf,
          linkVars, lineVars>>

Ids == 0 .. MaxFrames - 1
Seqs == 0 .. SeqSpace - 1
Frames == [id : Ids, seq : Seqs, retries : 0 .. MaxRetries]
Copies == [id : Ids, seq : Seqs]
AckKinds == {"ack", "nak", "busy"}
\* A data frame, or bytes whose checksum is wrong: no acknowledgement.
Noise == [kind : {"data", "garbage"}]
Replies == [kind : AckKinds, id : Ids, seq : Seqs] \cup Noise
\* A BROKEN promise is one whose frame was deleted: its future throws.
Results == {"none", "pending", "SUCCESS", "TIMEOUT", "BROKEN"}

TypeOK ==
    /\ m_seq \in Seqs
    /\ caller \in [Callers -> [pc : {"idle", "loaded", "composed"}, id : Ids, seq : Seqs]]
    /\ composed \in 0 .. MaxFrames
    /\ raced \in BOOLEAN
    /\ m_queue \in Seq(Frames)
    /\ result \in [Ids -> Results]
    /\ m_busy_timer \in 0 .. BusyWrap - 1
    /\ timer \in [pc : {"idle", "load", "store", "tick", "count", "bump", "stopped"}, tmp : Nat]
    /\ radio \in {"read", "wait", "revive", "reset", "parse", "exit", "drain", "done"}
    /\ stagebuf \in Seq(Replies)
    /\ m_link_alive \in BOOLEAN
    /\ m_link_fail_cnt \in Nat
    /\ m_shutdown \in BOOLEAN
    /\ wire \in Seq(Copies)
    /\ replies \in Seq(Replies)
    /\ received \subseteq Ids

Idle == [pc |-> "idle", id |-> 0, seq |-> 0]

Init ==
    /\ m_seq = 0
    /\ caller = [c \in Callers |-> Idle]
    /\ composed = 0
    /\ raced = FALSE
    /\ m_queue = <<>>
    /\ result = [f \in Ids |-> "none"]
    /\ m_busy_timer = 0
    /\ timer = [pc |-> "idle", tmp |-> 0]
    /\ radio = "read"
    /\ stagebuf = <<>>
    /\ m_link_alive = FALSE
    /\ m_link_fail_cnt = 0
    /\ m_shutdown = FALSE
    /\ wire = <<>> /\ replies = <<>> /\ received = {}

\* TimerProc holds m_queue_lock until OnTimeout has returned.
QueueUnlocked == timer.pc \notin {"count", "bump"}

\* The radio thread is inside a call of Send of its own.
InSend == "radio" \in Callers /\ caller["radio"].pc # "idle"

FrontFrame == Head(m_queue)

\* A message put on a full line is lost.
Put(line, cap, m) == IF Len(line) < cap THEN Append(line, m) ELSE line

TransmitFrame(f) == wire' = Put(wire, WireCap, [id |-> f.id, seq |-> f.seq])

-----------------------------------------------------------------------------
(* Send: ComposeFrame reads m_seq and writes it back, then the frame is    *)
(* pushed under the lock.  Some callers wait on the future that Send       *)
(* returns (NotifyResult), some drop it (OnStart, OnSCEReset, keepalive).  *)
(* A caller that waits is one that sends later, and is not told apart.     *)

\* Frames some message of which is still queued, staged or on the line.
Outstanding ==
    {f.id : f \in ToSet(m_queue)} \cup {m.id : m \in ToSet(wire)}
      \cup {m.id : m \in {r \in ToSet(replies \o stagebuf) : r.kind \in AckKinds}}
      \cup {caller[c].id : c \in {d \in Callers : caller[d].pc # "idle"}}

\* Bound on the environment: by the time a sequence number is used again,
\* nothing of its previous frame is left anywhere.
SeqReusable(f) == \A g \in Outstanding : f - g < SeqSpace

\* The radio thread sends from its own loop: a keepalive probe when nothing
\* was read, or a command from the handler of a message it parses.
MaySend(c) == c = "radio" => radio = "parse"

ComposeLoad(c) ==
    /\ caller[c].pc = "idle" /\ MaySend(c)
    /\ composed < MaxFrames /\ SeqReusable(composed)
    /\ caller' = [caller EXCEPT ![c] = [pc |-> "loaded", id |-> composed, seq |-> m_seq]]
    /\ composed' = composed + 1
    /\ raced' = (raced \/ \E d \in Callers : caller[d].pc = "loaded")
    /\ UNCHANGED <<m_seq, m_queue, result, m_busy_timer, timer, radio, stagebuf,
                   linkVars, lineVars>>

ComposeStore(c) ==
    /\ caller[c].pc = "loaded"
    /\ m_seq' = (caller[c].seq + 1) % SeqSpace
    /\ caller' = [caller EXCEPT ![c].pc = "composed"]
    /\ UNCHANGED <<composed, raced, m_queue, result, m_busy_timer, timer, radio, stagebuf,
                   linkVars, lineVars>>

\* Mutant of SendPush: the frame goes out at once.
SendPushTransmits(c) ==
    /\ caller[c].pc = "composed" /\ QueueUnlocked
    /\ m_queue' = Append(m_queue, [id |-> caller[c].id, seq |-> caller[c].seq, retries |-> 0])
    /\ TransmitFrame(caller[c])
    /\ result' = [result EXCEPT ![caller[c].id] = "pending"]
    /\ caller' = [caller EXCEPT ![c] = Idle]
    /\ UNCHANGED <<m_seq, composed, raced, m_busy_timer, timer, radio, stagebuf,
                   linkVars, replies, received>>

SendPush(c) ==
    /\ caller[c].pc = "composed" /\ QueueUnlocked
    /\ m_queue' = Append(m_queue, [id |-> caller[c].id, seq |-> caller[c].seq, retries |-> 0])
    /\ result' = [result EXCEPT ![caller[c].id] = "pending"]
    /\ caller' = [caller EXCEPT ![c] = Idle]
    /\ UNCHANGED <<m_seq, composed, raced, m_busy_timer, timer, radio, stagebuf,
                   linkVars, lineVars>>

-----------------------------------------------------------------------------
(* The timer thread: TimerProc.                                            *)

TimerAt(pc, tmp) == timer' = [pc |-> pc, tmp |-> tmp]

BusyCheck ==
    /\ timer.pc = "idle"
    /\ TimerAt(IF m_busy_timer > 0 THEN "load" ELSE "tick", 0)
    /\ UNCHANGED <<callVars, m_queue, result, m_busy_timer, radio, stagebuf,
                   linkVars, lineVars>>

BusyLoad ==
    /\ timer.pc = "load"
    /\ TimerAt("store", m_busy_timer)
    /\ UNCHANGED <<callVars, m_queue, result, m_busy_timer, radio, stagebuf,
                   linkVars, lineVars>>

BusyStore ==
    /\ timer.pc = "store"
    /\ m_busy_timer' = (timer.tmp - 1) % BusyWrap
    /\ TimerAt("idle", 0)
    /\ UNCHANGED <<callVars, m_queue, result, radio, stagebuf, linkVars, lineVars>>

NothingToSend ==
    /\ timer.pc = "tick" /\ m_queue = <<>>
    /\ TimerAt("idle", 0)
    /\ UNCHANGED <<callVars, m_queue, result, m_busy_timer, radio, stagebuf,
                   linkVars, lineVars>>

\* Mutant of Transmit: "bufptr->retries++" in place of "++bufptr->retries".
TransmitOnceMore ==
    /\ timer.pc = "tick" /\ m_queue # <<>>
    /\ FrontFrame.retries <= MaxRetries
    /\ m_queue' = [m_queue EXCEPT ![1].retries = FrontFrame.retries + 1]
    /\ TransmitFrame(FrontFrame)
    /\ TimerAt("idle", 0)
    /\ UNCHANGED <<callVars, result, m_busy_timer, radio, stagebuf, linkVars,
                   replies, received>>

\* Mutant of Transmit: the retry is not counted.
TransmitUncounted ==
    /\ timer.pc = "tick" /\ m_queue # <<>>
    /\ FrontFrame.retries + 1 <= MaxRetries
    /\ TransmitFrame(FrontFrame)
    /\ TimerAt("idle", 0)
    /\ UNCHANGED <<callVars, m_queue, result, m_busy_timer, radio, stagebuf,
                   linkVars, replies, received>>

Transmit ==
    /\ timer.pc = "tick" /\ m_queue # <<>>
    /\ FrontFrame.retries + 1 <= MaxRetries
    /\ m_queue' = [m_queue EXCEPT ![1].retries = FrontFrame.retries + 1]
    /\ TransmitFrame(FrontFrame)
    /\ TimerAt("idle", 0)
    /\ UNCHANGED <<callVars, result, m_busy_timer, radio, stagebuf, linkVars,
                   replies, received>>

\* Mutant of GiveUp: the frame stays at the front of the queue.
GiveUpKeeping ==
    /\ timer.pc = "tick" /\ m_queue # <<>>
    /\ FrontFrame.retries + 1 > MaxRetries
    /\ result' = [result EXCEPT ![FrontFrame.id] = "TIMEOUT"]
    /\ m_link_alive' = FALSE
    /\ TimerAt("count", 0)
    /\ UNCHANGED <<callVars, m_queue, m_busy_timer, radio, stagebuf, m_link_fail_cnt,
                   m_shutdown, lineVars>>

\* OnTimeout, first part: the promise is set and the link declared down.
GiveUp ==
    /\ timer.pc = "tick" /\ m_queue # <<>>
    /\ FrontFrame.retries + 1 > MaxRetries
    /\ m_queue' = Tail(m_queue)
    /\ result' = [result EXCEPT ![FrontFrame.id] = "TIMEOUT"]
    /\ m_link_alive' = FALSE
    /\ TimerAt("count", 0)
    /\ UNCHANGED <<callVars, m_busy_timer, radio, stagebuf, m_link_fail_cnt,
                   m_shutdown, lineVars>>

\* ++m_link_fail_cnt: load, then store and compare.
CountLoad ==
    /\ timer.pc = "count"
    /\ TimerAt("bump", m_link_fail_cnt)
    /\ UNCHANGED <<callVars, m_queue, result, m_busy_timer, radio, stagebuf,
                   linkVars, lineVars>>

CountStore ==
    /\ timer.pc = "bump"
    /\ m_link_fail_cnt' = timer.tmp + 1
    /\ m_shutdown' = (m_shutdown \/ timer.tmp + 1 > MaxLinkFailures)
    /\ TimerAt("idle", 0)
    /\ UNCHANGED <<callVars, m_queue, result, m_busy_timer, radio, stagebuf,
                   m_link_alive, lineVars>>

TimerThread ==
    \/ BusyCheck \/ BusyLoad \/ BusyStore \/ NothingToSend \/ Transmit \/ GiveUp
    \/ CountLoad \/ CountStore

-----------------------------------------------------------------------------
(* The radio thread: OnRun.                                                *)

\* IsShutdown is tested before Read, which waits for up to 100 ms.
EnterRead ==
    /\ radio = "read" /\ ~ m_shutdown
    /\ radio' = "wait"
    /\ UNCHANGED <<callVars, m_queue, result, m_busy_timer, timer, stagebuf,
                   linkVars, lineVars>>

\* Nothing came: on a live link a keepalive probe may be due.
ReadNothing ==
    /\ radio = "wait" /\ replies = <<>>
    /\ radio' = IF m_link_alive THEN "parse" ELSE "read"
    /\ UNCHANGED <<callVars, m_queue, result, m_busy_timer, timer, stagebuf,
                   linkVars, lineVars>>

\* Read takes all that has arrived.
ReadBytes ==
    /\ radio = "wait" /\ replies # <<>>
    /\ stagebuf' = replies /\ replies' = <<>>
    /\ radio' = IF m_link_alive THEN "parse" ELSE "revive"
    /\ UNCHANGED <<callVars, m_queue, result, m_busy_timer, timer, m_link_alive,
                   m_link_fail_cnt, m_shutdown, wire, received>>

\* "BACK FROM THE DEAD!"
Revive ==
    /\ radio = "revive"
    /\ m_link_alive' = TRUE /\ radio' = "reset"
    /\ UNCHANGED <<callVars, m_queue, result, m_busy_timer, timer, stagebuf,
                   m_link_fail_cnt, m_shutdown, lineVars>>

ResetFailCount ==
    /\ radio = "reset"
    /\ m_link_fail_cnt' = 0 /\ radio' = "parse"
    /\ UNCHANGED <<callVars, m_queue, result, m_busy_timer, timer, stagebuf,
                   m_link_alive, m_shutdown, lineVars>>

NothingStaged ==
    /\ radio = "parse" /\ stagebuf = <<>>
    /\ radio' = "read"
    /\ UNCHANGED <<callVars, m_queue, result, m_busy_timer, timer, stagebuf,
                   linkVars, lineVars>>

\* The next staged message, of one of the given kinds.
Parse(kinds) ==
    /\ radio = "parse" /\ stagebuf # <<>> /\ Head(stagebuf).kind \in kinds
    /\ stagebuf' = Tail(stagebuf)
    /\ UNCHANGED <<callVars, radio, timer, linkVars, replies, received>>

\* Mutant of MatchesFront: any acknowledgement counts for the front frame.
MatchesAnything == m_queue # <<>>

MatchesFront == m_queue # <<>> /\ Head(stagebuf).seq = FrontFrame.seq

\* OnACK: "RADIO RECEIVED THE FRAME OK"
ParseAck ==
    /\ Parse({"ack"}) /\ QueueUnlocked /\ MatchesFront
    /\ m_queue' = Tail(m_queue)
    /\ result' = [result EXCEPT ![FrontFrame.id] = "SUCCESS"]
    /\ UNCHANGED <<m_busy_timer, wire>>

\* SF_CHKSUM: "RETRANSMIT IMMEDIATELY", not counted as a retry
ParseNak ==
    /\ Parse({"nak"}) /\ QueueUnlocked /\ MatchesFront
    /\ TransmitFrame(FrontFrame)
    /\ UNCHANGED <<m_queue, result, m_busy_timer>>

ParseBusy ==
    /\ Parse({"busy"}) /\ QueueUnlocked /\ MatchesFront
    /\ m_busy_timer' = BusyDelay
    /\ UNCHANGED <<m_queue, result, wire>>

ParseStaleAck ==
    /\ Parse(AckKinds) /\ QueueUnlocked /\ ~ MatchesFront
    /\ UNCHANGED <<m_queue, result, m_busy_timer, wire>>

\* A data frame ends with m_busy_timer = 0 (ScpReceiver models the rest);
\* a bad checksum changes nothing here.
ParseNoise ==
    /\ Parse({"data", "garbage"})
    /\ \/ Head(stagebuf).kind = "data" /\ m_busy_timer' = 0
       \/ Head(stagebuf).kind = "garbage" /\ UNCHANGED m_busy_timer
    /\ UNCHANGED <<m_queue, result, wire>>

\* The loop ends when the task is shut down ...
LeaveLoop ==
    /\ radio' = "exit"
    /\ UNCHANGED <<callVars, m_queue, result, m_busy_timer, timer, stagebuf,
                   linkVars, lineVars>>

LoopEnds == radio = "read" /\ m_shutdown /\ LeaveLoop

\* ... or Read reports an error of the port.
PortFails == radio = "wait" /\ LeaveLoop

\* OnExit joins the timer thread, ...
StopTimer ==
    /\ radio = "exit" /\ timer.pc = "idle"
    /\ radio' = "drain" /\ TimerAt("stopped", 0)
    /\ UNCHANGED <<callVars, m_queue, result, m_busy_timer, stagebuf,
                   linkVars, lineVars>>

\* ... and deletes the frames that are left, their promises with them.
DrainQueue ==
    /\ radio = "drain"
    /\ m_queue' = <<>>
    /\ result' = [f \in Ids |->
          IF \E q \in ToSet(m_queue) : q.id = f THEN "BROKEN" ELSE result[f]]
    /\ radio' = "done"
    /\ UNCHANGED <<callVars, m_busy_timer, timer, stagebuf, linkVars, lineVars>>

RadioThread ==
    /\ ~ InSend
    /\ \/ EnterRead \/ ReadNothing \/ ReadBytes \/ Revive \/ ResetFailCount \/ NothingStaged
       \/ ParseAck \/ ParseNak \/ ParseBusy \/ ParseStaleAck \/ ParseNoise
       \/ LoopEnds \/ StopTimer \/ DrainQueue

-----------------------------------------------------------------------------
(* The radio and the serial line.                                          *)

RadioAnswers ==
    /\ wire # <<>>
    /\ wire' = Tail(wire)
    /\ \E kind \in AckKinds :
         /\ replies' = Put(replies, ReplyCap, [kind |-> kind, id |-> Head(wire).id, seq |-> Head(wire).seq])
         /\ received' = IF kind = "ack" THEN received \cup {Head(wire).id} ELSE received
    /\ UNCHANGED <<callVars, m_queue, result, m_busy_timer, timer, radio, stagebuf,
                   linkVars>>

RadioSpeaks ==
    /\ Len(replies) < ReplyCap
    /\ \E m \in Noise : replies' = Append(replies, m)
    /\ UNCHANGED <<callVars, m_queue, result, m_busy_timer, timer, radio, stagebuf,
                   linkVars, wire, received>>

LineLoses ==
    /\ \/ wire # <<>> /\ wire' = Tail(wire) /\ UNCHANGED replies
       \/ replies # <<>> /\ replies' = Tail(replies) /\ UNCHANGED wire
    /\ UNCHANGED <<callVars, m_queue, result, m_busy_timer, timer, radio, stagebuf,
                   linkVars, received>>

-----------------------------------------------------------------------------

CallerThread(c) == ComposeLoad(c) \/ ComposeStore(c) \/ SendPush(c)

Next ==
    \/ \E c \in Callers : CallerThread(c)
    \/ TimerThread
    \/ RadioThread
    \/ PortFails \/ RadioAnswers \/ RadioSpeaks \/ LineLoses

Spec == Init /\ [][Next]_vars

\* The 100 ms timer keeps ticking and the radio thread keeps running.  The
\* radio, the line and the port promise nothing.
FairSpec == Spec /\ WF_vars(TimerThread) /\ WF_vars(RadioThread)

-----------------------------------------------------------------------------
(* Properties.                                                             *)

InLoop == radio \in {"read", "wait", "revive", "reset", "parse"}

\* "RADIO RECEIVED THE FRAME OK" (sircon.cpp:671): a caller is told SUCCESS
\* only for a frame that the radio accepted, whatever acknowledgements of
\* earlier transmissions are still under way.
OkMeansReceived == \A f \in Ids : result[f] = "SUCCESS" => f \in received

\* The lost increment of m_seq is all that can break OkMeansReceived: until one
\* thread reads m_seq (sircon.cpp:364) between another's read and its write,
\* SUCCESS means accepted, in whatever order the threads push their frames.
OkUnlessRaced == ~ raced => OkMeansReceived

\* scp.h:39, "stop-and-wait": whatever is on the line to the radio is a copy of
\* the frame at the front of the queue or of one that already has its verdict,
\* also when two threads send and their frames share a sequence number.
StopAndWait ==
    \A m \in ToSet(wire) :
        result[m.id] = "pending" => m_queue # <<>> /\ FrontFrame.id = m.id

\* Callers get what ScpService promises: one verdict for each frame, in the
\* order in which the frames were pushed, and SUCCESS only for an accepted
\* frame until an increment of m_seq is lost.
Service == INSTANCE ScpService
    WITH pending <- [i \in DOMAIN m_queue |-> m_queue[i].id],
         accepted <- received, confused <- raced
ImplementsService == Service!Spec

\* A data frame clears m_busy_timer after TimerProc has tested it and before
\* it decrements it: the counter wraps around.
DecrementRaced == timer.pc = "load" /\ m_busy_timer > 0 /\ m_busy_timer' = 0

\* No queued frame waits for ever for its verdict while the radio thread is in
\* its loop: neither NAK and BUSY answers nor lost acknowledgements put off the
\* timer's retries without end.  The one exception is a radio whose data frames hit
\* the window of DecrementRaced again and again.
EventuallyResolved ==
    []<><<DecrementRaced>>_vars
      \/ \A f \in Ids : []<>(result[f] = "pending" => ~ InLoop)

\* sircon.cpp:496-498, "declaring the link completely dead. Once that happens,
\* the CSirCon object (and eventually the entire daemon) will terminate": once
\* the link is dead no thread is left waiting for ever on a promise that
\* nobody will set or break.
NobodyLeftWaiting ==
    \A f \in Ids : (m_shutdown /\ result[f] = "pending") ~> result[f] # "pending"
=============================================================================
