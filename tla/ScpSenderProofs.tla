--------------------------- MODULE ScpSenderProofs ---------------------------
(***************************************************************************)
(* Proofs about ScpSender, for any number of frames, any size of the       *)
(* sequence space and of the line, and any retry limit.                    *)
(***************************************************************************)
EXTENDS ScpSender, SequenceLemmas

-----------------------------------------------------------------------------
(* Arithmetic modulo the size of the sequence space.                       *)

LEMMA ModRange ==
    ASSUME NEW a \in Int, NEW m \in Nat \ {0}
    PROVE  a % m \in 0 .. m - 1
OBVIOUS

LEMMA ModDiv ==
    ASSUME NEW a \in Int, NEW m \in Nat \ {0}
    PROVE  \E q \in Int : a = m * q + (a % m)
<1>1. a = m * (a \div m) + (a % m) /\ a \div m \in Int
  OBVIOUS
<1> QED
  BY <1>1

\* Zero is the only multiple of m that is smaller than m.
LEMMA SmallMultiple ==
    ASSUME NEW m \in Nat \ {0}, NEW q \in Int, m * q < m, -m < m * q
    PROVE  q = 0
<1>1. CASE q >= 1
  <2>1. m * q >= m * 1
    BY <1>1, SMT
  <2> QED
    BY <2>1
<1>2. CASE q <= -1
  <2>1. m * q <= m * (-1)
    BY <1>2, SMT
  <2> QED
    BY <2>1
<1> QED
  BY <1>1, <1>2

\* Two numbers in a window of size m with the same residue are equal.
LEMMA ModInjective ==
    ASSUME NEW a \in Int, NEW b \in Int, NEW m \in Nat \ {0},
           a % m = b % m, a - b < m, b - a < m
    PROVE  a = b
<1>1. PICK q \in Int : a = m * q + (a % m)
  BY ModDiv
<1>2. PICK r \in Int : b = m * r + (b % m)
  BY ModDiv
<1>3. m * q \in Int /\ m * r \in Int /\ a % m \in Int
  BY ModRange
<1>4. PICK d \in Int : d = q - r
  OBVIOUS
<1>5. m * d = m * q - m * r
  BY <1>4
<1>6. m * d = a - b
  BY <1>1, <1>2, <1>3, <1>5
<1>7. d = 0
  BY <1>6, SmallMultiple
<1> QED
  BY <1>6, <1>7

LEMMA ModSuccessor ==
    ASSUME NEW a \in Int, NEW m \in Nat \ {0}
    PROVE  ((a % m) + 1) % m = (a + 1) % m
<1>1. PICK c \in Int : c = a % m
  BY ModRange
<1>2. PICK q \in Int : a = m * q + c
  BY <1>1, ModDiv
<1>3. PICK x \in Int : x = (c + 1) % m /\ 0 <= x /\ x < m
  <2>1. c + 1 \in Int
    OBVIOUS
  <2> QED
    BY <2>1, ModRange
<1>4. PICK r \in Int : c + 1 = m * r + x
  <2>1. c + 1 \in Int
    OBVIOUS
  <2> QED
    BY <2>1, <1>3, ModDiv
<1>5. PICK y \in Int : y = (a + 1) % m /\ 0 <= y /\ y < m
  <2>1. a + 1 \in Int
    OBVIOUS
  <2> QED
    BY <2>1, ModRange
<1>6. PICK s \in Int : a + 1 = m * s + y
  <2>1. a + 1 \in Int
    OBVIOUS
  <2> QED
    BY <2>1, <1>5, ModDiv
<1>7. PICK d \in Int : d = s - q - r
  OBVIOUS
<1>8. m * d = m * s - m * q - m * r
  BY <1>7
<1>9. m * q \in Int /\ m * r \in Int /\ m * s \in Int
  OBVIOUS
<1>10. m * d = x - y
  BY <1>2, <1>4, <1>6, <1>8, <1>9
<1>11. d = 0
  BY <1>3, <1>5, <1>10, SmallMultiple
<1> QED
  BY <1>1, <1>3, <1>5, <1>10, <1>11

-----------------------------------------------------------------------------
(* Types.                                                                  *)

USE SenderAssumption

LEMMA PutFacts ==
    ASSUME NEW S, NEW line \in Seq(S), NEW cap, NEW m \in S
    PROVE  /\ Put(line, cap, m) \in Seq(S)
           /\ ToSet(Put(line, cap, m)) \subseteq ToSet(line) \cup {m}
BY ToSetAppend DEF Put

LEMMA FrontIsFrame ==
    ASSUME TypeOK, m_queue # <<>>
    PROVE  /\ FrontFrame \in Frames /\ FrontFrame = m_queue[1]
           /\ Tail(m_queue) \in Seq(Frames)
           /\ 1 \in DOMAIN m_queue
BY DEF TypeOK, FrontFrame

LEMMA TypeInit == Init => TypeOK
<1> SUFFICES ASSUME Init PROVE TypeOK
  OBVIOUS
<1>1. 0 \in Ids /\ 0 \in Seqs /\ 0 \in 0 .. BusyWrap - 1 /\ 0 \in 0 .. MaxFrames
  BY DEF Ids, Seqs
<1>2. caller \in [Callers -> [pc : {"idle", "loaded", "composed"}, id : Ids, seq : Seqs]]
  BY <1>1 DEF Init, Idle
<1>3. /\ m_queue \in Seq(Frames) /\ stagebuf \in Seq(Replies)
      /\ wire \in Seq(Copies) /\ replies \in Seq(Replies)
  BY DEF Init
<1>4. result \in [Ids -> Results] /\ received \subseteq Ids
  BY DEF Init, Results
<1>5. timer \in [pc : {"idle", "load", "store", "tick", "count", "bump", "stopped"}, tmp : Nat]
  BY DEF Init
<1> QED
  BY <1>1, <1>2, <1>3, <1>4, <1>5 DEF Init, TypeOK

LEMMA TypeCallers ==
    ASSUME TypeOK, NEW c \in Callers, CallerThread(c)
    PROVE  TypeOK'
<1>1. CASE ComposeLoad(c)
  <2>1. composed \in Ids /\ composed + 1 \in 0 .. MaxFrames
    BY <1>1 DEF ComposeLoad, TypeOK, Ids
  <2> QED
    BY <1>1, <2>1 DEF ComposeLoad, TypeOK, linkVars, lineVars
<1>2. CASE ComposeStore(c)
  <2>1. (caller[c].seq + 1) % SeqSpace \in Seqs
    <3>1. caller[c].seq + 1 \in Int
      BY DEF TypeOK, Seqs
    <3> QED
      BY <3>1, ModRange DEF Seqs
  <2> QED
    BY <1>2, <2>1, ZenonT(30) DEF ComposeStore, TypeOK, linkVars, lineVars
<1>3. CASE SendPush(c)
  <2>1. [id |-> caller[c].id, seq |-> caller[c].seq, retries |-> 0] \in Frames
    BY DEF TypeOK, Frames
  <2>2. m_queue' \in Seq(Frames)
    BY <1>3, <2>1, ToSetAppend DEF SendPush, TypeOK
  <2>3. result' \in [Ids -> Results]
    BY <1>3 DEF SendPush, TypeOK, Results
  <2>4. caller' \in [Callers -> [pc : {"idle", "loaded", "composed"}, id : Ids, seq : Seqs]]
    <3>1. caller \in [Callers -> [pc : {"idle", "loaded", "composed"}, id : Ids, seq : Seqs]]
      BY DEF TypeOK
    <3>2. caller' = [caller EXCEPT ![c] = Idle]
      BY <1>3 DEF SendPush
    <3>3. 0 \in Ids /\ 0 \in Seqs
      BY DEF Ids, Seqs
    <3> QED
      BY <3>1, <3>2, <3>3 DEF Idle
  <2> QED
    BY <1>3, <2>2, <2>3, <2>4 DEF SendPush, TypeOK, linkVars, lineVars
<1> QED
  BY <1>1, <1>2, <1>3 DEF CallerThread

LEMMA TypeTimer ==
    ASSUME TypeOK, TimerThread
    PROVE  TypeOK'
<1> USE DEF TimerAt, callVars, linkVars, lineVars
<1>1. CASE BusyCheck
  BY <1>1 DEF BusyCheck, TypeOK
<1>2. CASE BusyLoad
  BY <1>2 DEF BusyLoad, TypeOK
<1>3. CASE BusyStore
  <2>1. (timer.tmp - 1) % BusyWrap \in 0 .. BusyWrap - 1
    <3>1. timer.tmp - 1 \in Int /\ BusyWrap \in Nat \ {0}
      BY DEF TypeOK
    <3> QED
      BY <3>1, ModRange
  <2> QED
    BY <1>3, <2>1 DEF BusyStore, TypeOK
<1>4. CASE NothingToSend
  BY <1>4 DEF NothingToSend, TypeOK
<1>5. CASE Transmit
  <2>1. FrontFrame \in Frames /\ FrontFrame = m_queue[1] /\ 1 \in DOMAIN m_queue
    BY <1>5, FrontIsFrame DEF Transmit
  <2>2. m_queue' \in Seq(Frames)
    <3>1. FrontFrame.retries + 1 \in 0 .. MaxRetries
      BY <1>5, <2>1 DEF Transmit, Frames
    <3>2. [FrontFrame EXCEPT !.retries = FrontFrame.retries + 1] \in Frames
      BY <2>1, <3>1 DEF Frames
    <3>3. m_queue' = [m_queue EXCEPT ![1] = [FrontFrame EXCEPT !.retries = FrontFrame.retries + 1]]
      BY <1>5, <2>1 DEF Transmit
    <3> QED
      BY <2>1, <3>2, <3>3, ExceptSeq DEF TypeOK
  <2>3. wire' \in Seq(Copies)
    <3>1. [id |-> FrontFrame.id, seq |-> FrontFrame.seq] \in Copies
      BY <2>1 DEF Frames, Copies
    <3> QED
      BY <1>5, <3>1, PutFacts DEF Transmit, TransmitFrame, TypeOK
  <2> QED
    BY <1>5, <2>2, <2>3 DEF Transmit, TypeOK
<1>6. CASE GiveUp
  <2>1. FrontFrame \in Frames /\ m_queue' \in Seq(Frames)
    BY <1>6, FrontIsFrame DEF GiveUp
  <2>2. result' \in [Ids -> Results]
    BY <1>6 DEF GiveUp, TypeOK, Results
  <2> QED
    BY <1>6, <2>1, <2>2 DEF GiveUp, TypeOK
<1>7. CASE CountLoad
  BY <1>7 DEF CountLoad, TypeOK
<1>8. CASE CountStore
  BY <1>8 DEF CountStore, TypeOK
<1> QED
  BY <1>1, <1>2, <1>3, <1>4, <1>5, <1>6, <1>7, <1>8 DEF TimerThread

LEMMA TypeRadio ==
    ASSUME TypeOK, RadioThread \/ PortFails
    PROVE  TypeOK'
<1> USE DEF TimerAt, callVars, linkVars, lineVars
<1>1. CASE EnterRead \/ ReadNothing \/ ReadBytes
  <2>1. CASE EnterRead
    BY <2>1 DEF EnterRead, TypeOK
  <2>2. CASE ReadNothing
    BY <2>2 DEF ReadNothing, TypeOK
  <2>3. CASE ReadBytes
    BY <2>3 DEF ReadBytes, TypeOK
  <2> QED
    BY <1>1, <2>1, <2>2, <2>3
<1>2. CASE Revive
  BY <1>2 DEF Revive, TypeOK
<1>3. CASE ResetFailCount
  BY <1>3 DEF ResetFailCount, TypeOK
<1>4. CASE NothingStaged
  BY <1>4 DEF NothingStaged, TypeOK
<1>5. ASSUME NEW kinds, Parse(kinds)
      PROVE  stagebuf' \in Seq(Replies)
  BY <1>5, ToSetTail DEF Parse, TypeOK
<1>6. CASE ParseAck
  <2>1. m_queue' \in Seq(Frames)
    BY <1>6, FrontIsFrame DEF ParseAck, MatchesFront
  <2>2. result' \in [Ids -> Results]
    BY <1>6 DEF ParseAck, TypeOK, Results
  <2> QED
    BY <1>5, <1>6, <2>1, <2>2 DEF ParseAck, Parse, TypeOK
<1>7. CASE ParseNak
  <2>1. wire' \in Seq(Copies)
    <3>1. [id |-> FrontFrame.id, seq |-> FrontFrame.seq] \in Copies
      BY <1>7, FrontIsFrame DEF ParseNak, MatchesFront, Frames, Copies
    <3> QED
      BY <1>7, <3>1, PutFacts DEF ParseNak, TransmitFrame, TypeOK
  <2> QED
    BY <1>5, <1>7, <2>1 DEF ParseNak, Parse, TypeOK
<1>8. CASE ParseBusy
  BY <1>5, <1>8 DEF ParseBusy, Parse, TypeOK
<1>9. CASE ParseStaleAck
  BY <1>5, <1>9 DEF ParseStaleAck, Parse, TypeOK
<1>10. CASE ParseNoise
  BY <1>5, <1>10 DEF ParseNoise, Parse, TypeOK
<1>11. CASE LoopEnds \/ PortFails
  BY <1>11 DEF LoopEnds, PortFails, LeaveLoop, TypeOK
<1>12. CASE StopTimer
  BY <1>12 DEF StopTimer, TypeOK
<1>13. CASE DrainQueue
  <2>1. result' \in [Ids -> Results]
    BY <1>13 DEF DrainQueue, TypeOK, Results
  <2> QED
    BY <1>13, <2>1 DEF DrainQueue, TypeOK
<1> QED
  BY <1>1, <1>2, <1>3, <1>4, <1>6, <1>7, <1>8, <1>9, <1>10, <1>11, <1>12, <1>13
  DEF RadioThread

LEMMA TypeLine ==
    ASSUME TypeOK, RadioAnswers \/ RadioSpeaks \/ LineLoses
    PROVE  TypeOK'
<1> USE DEF callVars, linkVars
<1>1. CASE RadioAnswers
  <2>1. Head(wire) \in Copies /\ wire' \in Seq(Copies)
    BY <1>1, ToSetTail DEF RadioAnswers, TypeOK
  <2>2. PICK kind \in AckKinds :
          /\ replies' = Put(replies, ReplyCap, [kind |-> kind, id |-> Head(wire).id, seq |-> Head(wire).seq])
          /\ received' = IF kind = "ack" THEN received \cup {Head(wire).id} ELSE received
    BY <1>1 DEF RadioAnswers
  <2>3. [kind |-> kind, id |-> Head(wire).id, seq |-> Head(wire).seq] \in Replies
    BY <2>1 DEF Copies, Replies
  <2>4. replies' \in Seq(Replies)
    BY <2>2, <2>3, PutFacts DEF TypeOK
  <2>5. received' \subseteq Ids
    BY <2>1, <2>2 DEF TypeOK, Copies
  <2> QED
    BY <1>1, <2>1, <2>4, <2>5 DEF RadioAnswers, TypeOK
<1>2. CASE RadioSpeaks
  <2>1. replies' \in Seq(Replies)
    BY <1>2, ToSetAppend DEF RadioSpeaks, TypeOK, Replies
  <2> QED
    BY <1>2, <2>1 DEF RadioSpeaks, TypeOK
<1>3. CASE LineLoses
  <2>1. CASE wire # <<>> /\ wire' = Tail(wire) /\ UNCHANGED replies
    BY <1>3, <2>1, ToSetTail DEF LineLoses, TypeOK
  <2>2. CASE replies # <<>> /\ replies' = Tail(replies) /\ UNCHANGED wire
    BY <1>3, <2>2, ToSetTail DEF LineLoses, TypeOK
  <2> QED
    BY <1>3, <2>1, <2>2 DEF LineLoses
<1> QED
  BY <1>1, <1>2, <1>3

LEMMA TypeStep == TypeOK /\ [Next]_vars => TypeOK'
<1> SUFFICES ASSUME TypeOK, [Next]_vars PROVE TypeOK'
  OBVIOUS
<1>1. CASE UNCHANGED vars
  BY <1>1 DEF vars, callVars, linkVars, lineVars, TypeOK
<1>2. CASE Next
  BY <1>2, TypeCallers, TypeTimer, TypeRadio, TypeLine DEF Next
<1> QED
  BY <1>1, <1>2

\* The variables of the sender keep their types; in particular no frame is
\* ever charged more than SIRCON_MAX_RETRIES retries (TimerProc).
THEOREM TypeCorrect == Spec => []TypeOK
BY TypeInit, TypeStep, PTL DEF Spec

-----------------------------------------------------------------------------
(* The invariant.  Until an increment of m_seq is lost, sequence numbers    *)
(* are the frame numbers modulo SeqSpace, and whatever is still under way  *)
(* lies in one window of the sequence space, so that equal sequence        *)
(* numbers mean the same frame.  What does not speak of sequence numbers   *)
(* holds for any number of threads in any order.                           *)

SeqNumber(f) == f % SeqSpace

\* A queued frame, a copy of it or an answer to it.
InWindow(m) ==
    /\ ~ raced => m.seq = SeqNumber(m.id)
    /\ m.id < composed /\ composed - m.id <= SeqSpace

\* One thread at a time is inside "m_seq++", with the frame composed last.
NoLostIncrement ==
    /\ \A c, d \in Callers : caller[c].pc = "loaded" /\ caller[d].pc = "loaded" => c = d
    /\ \A c \in Callers : caller[c].pc = "loaded" => caller[c].id + 1 = composed
    /\ (\A c \in Callers : caller[c].pc # "loaded") => m_seq = SeqNumber(composed)

CallersGood ==
    /\ \A c \in Callers : caller[c].pc # "idle" => InWindow(caller[c])
    /\ \A c, d \in Callers :
          caller[c].pc # "idle" /\ caller[d].pc # "idle" /\ caller[c].id = caller[d].id => c = d
    /\ ~ raced => NoLostIncrement

\* The frames without a result are those not yet pushed.
NoneMeansUnsent ==
    \A f \in Ids : result[f] = "none" <=>
        (f >= composed \/ \E c \in Callers : caller[c].pc # "idle" /\ caller[c].id = f)

QueueGood == \A i \in DOMAIN m_queue : InWindow(m_queue[i])

QueueDistinct == \A i, j \in DOMAIN m_queue : m_queue[i].id = m_queue[j].id => i = j

\* A promise is pending exactly while its frame is queued.
PendingQueued ==
    \A f \in Ids : result[f] = "pending" <=> \E i \in DOMAIN m_queue : m_queue[i].id = f

WireGood == \A m \in ToSet(wire) : InWindow(m) /\ result[m.id] # "none"

RepliesGood ==
    \A r \in ToSet(replies) \cup ToSet(stagebuf) : r.kind \in AckKinds =>
        InWindow(r) /\ (r.kind = "ack" => r.id \in received)

\* StopAndWait, without Head.
FrontOnly ==
    \A m \in ToSet(wire) :
        result[m.id] = "pending" => 1 \in DOMAIN m_queue /\ m_queue[1].id = m.id

IInv ==
    /\ CallersGood /\ NoneMeansUnsent
    /\ QueueGood /\ QueueDistinct /\ PendingQueued
    /\ WireGood /\ RepliesGood
    /\ OkUnlessRaced /\ FrontOnly

\* What the types say of the elements of the sequences.
LEMMA Elements ==
    ASSUME TypeOK
    PROVE  /\ m_queue \in Seq(Frames) /\ Len(m_queue) \in Nat
           /\ DOMAIN m_queue = 1 .. Len(m_queue)
           /\ \A i \in DOMAIN m_queue : m_queue[i].id \in Ids /\ m_queue[i].seq \in Seqs
           /\ \A m \in ToSet(wire) : m \in Copies /\ m.id \in Ids
           /\ \A r \in ToSet(replies) \cup ToSet(stagebuf) :
                r.kind \in AckKinds => r.id \in Ids
           /\ composed \in Nat /\ Ids \subseteq Nat /\ SeqSpace \in Nat \ {0}
<1>1. /\ m_queue \in Seq(Frames) /\ Len(m_queue) \in Nat
      /\ DOMAIN m_queue = 1 .. Len(m_queue)
      /\ \A i \in DOMAIN m_queue : m_queue[i] \in Frames
  BY DEF TypeOK
<1>2. ToSet(wire) \subseteq Copies
  BY DEF TypeOK, ToSet
<1>3. ToSet(replies) \cup ToSet(stagebuf) \subseteq Replies
  BY DEF TypeOK, ToSet
<1>4. \A r \in Replies : r.kind \in AckKinds => r.id \in Ids
  BY DEF Replies, Noise, AckKinds
<1> QED
  BY <1>1, <1>2, <1>3, <1>4, SMTT(60) DEF Frames, Copies, TypeOK, Ids

LEMMA IInvInit == Init => IInv
<1> SUFFICES ASSUME Init PROVE IInv
  OBVIOUS
<1>1. 0 % SeqSpace = 0
  BY SMT
<1>2. ToSet(<<>>) = {} /\ DOMAIN m_queue = {}
  BY DEF ToSet, Init
<1>3. CallersGood
  BY <1>1 DEF Init, Idle, CallersGood, NoLostIncrement, SeqNumber
<1>4. NoneMeansUnsent
  BY DEF Init, Idle, NoneMeansUnsent, Ids
<1>5. QueueGood /\ QueueDistinct /\ PendingQueued
  BY <1>2 DEF Init, QueueGood, QueueDistinct, PendingQueued
<1>6. WireGood /\ RepliesGood /\ OkUnlessRaced /\ FrontOnly
  BY <1>2 DEF Init, WireGood, RepliesGood, OkUnlessRaced, OkMeansReceived, FrontOnly
<1> QED
  BY <1>3, <1>4, <1>5, <1>6 DEF IInv

\* The queue keeps its frames, and the line, in both directions, gains at
\* most a copy of the front frame and answers that are in the window.
LEMMA LineStep ==
    ASSUME TypeOK, IInv, UNCHANGED <<m_seq, caller, composed, raced, result>>,
           DOMAIN m_queue' = DOMAIN m_queue,
           \A i \in DOMAIN m_queue :
              m_queue'[i].id = m_queue[i].id /\ m_queue'[i].seq = m_queue[i].seq,
           received \subseteq received',
           \A m \in ToSet(wire') :
              \/ m \in ToSet(wire)
              \/ 1 \in DOMAIN m_queue /\ m.id = m_queue[1].id /\ m.seq = m_queue[1].seq,
           \A r \in ToSet(replies') \cup ToSet(stagebuf') : r.kind \in AckKinds =>
              \/ r \in ToSet(replies) \cup ToSet(stagebuf)
              \/ InWindow(r) /\ (r.kind = "ack" => r.id \in received')
    PROVE  IInv'
<1> USE Elements
<1>1. \A m : InWindow(m)' <=> InWindow(m)
  BY DEF InWindow, SeqNumber
<1>2. CallersGood' /\ NoneMeansUnsent'
  BY <1>1 DEF IInv, CallersGood, NoLostIncrement, NoneMeansUnsent, SeqNumber
<1>3. QueueGood' /\ QueueDistinct' /\ PendingQueued'
  <2>1. \A i \in DOMAIN m_queue' : InWindow(m_queue'[i])
    BY DEF IInv, QueueGood, InWindow
  <2>2. QueueGood'
    BY <1>1, <2>1 DEF QueueGood
  <2>3. QueueDistinct'
    BY DEF IInv, QueueDistinct
  <2>4. PendingQueued'
    BY DEF IInv, PendingQueued
  <2> QED
    BY <2>2, <2>3, <2>4
<1>4. ASSUME 1 \in DOMAIN m_queue
      PROVE  result[m_queue[1].id] = "pending"
  BY <1>4 DEF IInv, PendingQueued
<1>5. WireGood'
  <2> SUFFICES ASSUME NEW m \in ToSet(wire') PROVE InWindow(m) /\ result[m.id] # "none"
    BY <1>1 DEF WireGood
  <2>1. CASE m \in ToSet(wire)
    BY <2>1 DEF IInv, WireGood
  <2>2. CASE 1 \in DOMAIN m_queue /\ m.id = m_queue[1].id /\ m.seq = m_queue[1].seq
    BY <2>2, <1>4 DEF IInv, QueueGood, InWindow
  <2> QED
    BY <2>1, <2>2
<1>6. RepliesGood'
  BY <1>1 DEF IInv, RepliesGood
<1>7. OkUnlessRaced'
  BY DEF IInv, OkUnlessRaced, OkMeansReceived
<1>8. FrontOnly'
  BY DEF IInv, FrontOnly
<1> QED
  BY <1>2, <1>3, <1>5, <1>6, <1>7, <1>8 DEF IInv

\* ComposeFrame: the new frame takes the next number; SeqReusable keeps all
\* that is under way in the window.
LEMMA ComposeStep ==
    ASSUME TypeOK, IInv, NEW c \in Callers, ComposeLoad(c)
    PROVE  IInv'
<1> USE Elements
<1>1. /\ caller[c].pc = "idle" /\ composed < MaxFrames /\ SeqReusable(composed)
      /\ caller' = [caller EXCEPT ![c] = [pc |-> "loaded", id |-> composed, seq |-> m_seq]]
      /\ composed' = composed + 1
      /\ raced' = (raced \/ \E d \in Callers : caller[d].pc = "loaded")
      /\ UNCHANGED <<m_seq, m_queue, result, wire, replies, stagebuf, received>>
  BY DEF ComposeLoad, lineVars
<1>2. /\ caller'[c] = [pc |-> "loaded", id |-> composed, seq |-> m_seq]
      /\ \A d \in Callers : d # c => caller'[d] = caller[d]
  BY <1>1 DEF TypeOK
<1>3. ~ raced' => ~ raced /\ \A d \in Callers : caller[d].pc # "loaded"
  BY <1>1
<1>4. ASSUME NEW m, m.id \in Int, InWindow(m), composed - m.id < SeqSpace
      PROVE  InWindow(m)'
  BY <1>1, <1>3, <1>4 DEF InWindow, SeqNumber
<1>5. \A g \in Outstanding : composed - g < SeqSpace
  BY <1>1 DEF SeqReusable
<1>6. ASSUME NEW d \in Callers, d # c, caller[d].pc # "idle"
      PROVE  /\ caller[d].id \in Int /\ caller[d].id < composed
             /\ InWindow(caller[d])'
  <2>1. caller[d].id \in Outstanding
    BY <1>6 DEF Outstanding
  <2>2. caller[d].id \in Int /\ InWindow(caller[d])
    BY <1>6 DEF IInv, CallersGood, TypeOK, Ids
  <2> QED
    BY <1>2, <1>4, <1>5, <1>6, <2>1, <2>2 DEF InWindow, SeqNumber
<1>7. CallersGood'
  <2>1. ~ raced' => m_seq = SeqNumber(composed)
    BY <1>3 DEF IInv, CallersGood, NoLostIncrement
  <2>2. InWindow(caller[c])'
    BY <1>1, <1>2, <2>1 DEF InWindow, SeqNumber
  <2>3. \A d \in Callers : caller'[d].pc # "idle" => InWindow(caller[d])'
    BY <1>2, <1>6, <2>2
  <2>4. ASSUME NEW d \in Callers, NEW e \in Callers, caller'[d].pc # "idle",
               caller'[e].pc # "idle", caller'[d].id = caller'[e].id
        PROVE  d = e
    <3>1. CASE d # c /\ e # c
      BY <1>2, <2>4, <3>1 DEF IInv, CallersGood
    <3>2. CASE d = c /\ e # c
      <4>1. caller'[d].id = composed /\ caller[e].id < composed
        BY <1>2, <1>6, <2>4, <3>2
      <4> QED
        BY <1>2, <1>6, <2>4, <3>2, <4>1
    <3>3. CASE e = c /\ d # c
      <4>1. caller'[e].id = composed /\ caller[d].id < composed
        BY <1>2, <1>6, <2>4, <3>3
      <4> QED
        BY <1>2, <1>6, <2>4, <3>3, <4>1
    <3> QED
      BY <3>1, <3>2, <3>3
  <2>5. ~ raced' => NoLostIncrement'
    BY <1>1, <1>2, <1>3 DEF NoLostIncrement
  <2> QED
    BY <2>3, <2>4, <2>5 DEF CallersGood
<1>8. NoneMeansUnsent'
  <2> SUFFICES ASSUME NEW f \in Ids
               PROVE  result[f] = "none" <=>
                        \/ f >= composed + 1
                        \/ \E d \in Callers : caller'[d].pc # "idle" /\ caller'[d].id = f
    BY <1>1 DEF NoneMeansUnsent
  <2>1. result[f] = "none" <=>
          (f >= composed \/ \E d \in Callers : caller[d].pc # "idle" /\ caller[d].id = f)
    BY DEF IInv, NoneMeansUnsent
  <2>2. (\E d \in Callers : caller'[d].pc # "idle" /\ caller'[d].id = f) <=>
          (f = composed \/ \E d \in Callers : caller[d].pc # "idle" /\ caller[d].id = f)
    BY <1>1, <1>2
  <2> QED
    BY <2>1, <2>2 DEF Ids
<1>9. QueueGood'
  <2> SUFFICES ASSUME NEW i \in DOMAIN m_queue PROVE InWindow(m_queue[i])'
    BY <1>1 DEF QueueGood
  <2>1. m_queue[i].id \in Outstanding
    BY DEF Outstanding, ToSet
  <2> QED
    BY <1>1, <1>3, <1>5, <2>1 DEF IInv, QueueGood, InWindow, SeqNumber, Ids
<1>10. QueueDistinct' /\ PendingQueued'
  BY <1>1 DEF IInv, QueueDistinct, PendingQueued
<1>11. WireGood'
  <2> SUFFICES ASSUME NEW m \in ToSet(wire) PROVE InWindow(m)' /\ result[m.id] # "none"
    BY <1>1 DEF WireGood
  <2>1. m.id \in Outstanding
    BY DEF Outstanding
  <2> QED
    BY <1>1, <1>3, <1>5, <2>1 DEF IInv, WireGood, InWindow, SeqNumber, Ids
<1>12. RepliesGood'
  <2> SUFFICES ASSUME NEW r \in ToSet(replies) \cup ToSet(stagebuf), r.kind \in AckKinds
               PROVE  InWindow(r)' /\ (r.kind = "ack" => r.id \in received)
    BY <1>1 DEF RepliesGood
  <2>1. r.id \in Outstanding
    <3>1. r \in ToSet(replies \o stagebuf)
      BY ToSetConcat DEF TypeOK
    <3> QED
      BY <3>1 DEF Outstanding
  <2> QED
    BY <1>1, <1>3, <1>5, <2>1 DEF IInv, RepliesGood, InWindow, SeqNumber, Ids
<1>13. OkUnlessRaced' /\ FrontOnly'
  BY <1>1, <1>3 DEF IInv, OkUnlessRaced, OkMeansReceived, FrontOnly
<1> QED
  BY <1>7, <1>8, <1>9, <1>10, <1>11, <1>12, <1>13 DEF IInv

\* ComposeFrame: m_seq is written back.
LEMMA ComposeStoreStep ==
    ASSUME TypeOK, IInv, NEW c \in Callers, ComposeStore(c)
    PROVE  IInv'
<1> USE Elements
<1>1. /\ caller[c].pc = "loaded"
      /\ m_seq' = (caller[c].seq + 1) % SeqSpace
      /\ caller' = [caller EXCEPT ![c].pc = "composed"]
      /\ UNCHANGED <<composed, raced, m_queue, result, wire, replies, stagebuf, received>>
  BY DEF ComposeStore, lineVars
<1>2. /\ caller'[c].pc = "composed" /\ caller'[c].id = caller[c].id
      /\ caller'[c].seq = caller[c].seq
      /\ \A d \in Callers : d # c => caller'[d] = caller[d]
  BY <1>1 DEF TypeOK
<1>3. \A d \in Callers : /\ caller'[d].id = caller[d].id /\ caller'[d].seq = caller[d].seq
                         /\ caller'[d].pc # "idle" <=> caller[d].pc # "idle"
  BY <1>1, <1>2
<1>4. CallersGood'
  <2>1. \A d \in Callers : caller'[d].pc # "idle" => InWindow(caller[d])'
    BY <1>1, <1>3 DEF IInv, CallersGood, InWindow, SeqNumber
  <2>2. \A d, e \in Callers : caller'[d].pc # "idle" /\ caller'[e].pc # "idle"
                                /\ caller'[d].id = caller'[e].id => d = e
    BY <1>3 DEF IInv, CallersGood
  <2>3. ASSUME ~ raced PROVE NoLostIncrement'
    <3>1. NoLostIncrement /\ caller[c].id + 1 = composed /\ caller[c].seq = SeqNumber(caller[c].id)
      BY <1>1, <2>3 DEF IInv, CallersGood, NoLostIncrement, InWindow
    <3>2. caller[c].id \in Int
      BY DEF TypeOK, Ids
    <3>3. m_seq' = SeqNumber(composed)
      BY <1>1, <3>1, <3>2, ModSuccessor DEF SeqNumber
    <3>4. \A d \in Callers : caller'[d].pc # "loaded"
      BY <1>1, <1>2, <3>1 DEF NoLostIncrement
    <3> QED
      BY <1>1, <3>3, <3>4 DEF NoLostIncrement, SeqNumber
  <2> QED
    BY <1>1, <2>1, <2>2, <2>3 DEF CallersGood
<1>5. NoneMeansUnsent'
  BY <1>1, <1>3 DEF IInv, NoneMeansUnsent
<1>6. QueueGood' /\ WireGood' /\ RepliesGood'
  BY <1>1 DEF IInv, QueueGood, WireGood, RepliesGood, InWindow, SeqNumber
<1>7. QueueDistinct' /\ PendingQueued' /\ OkUnlessRaced' /\ FrontOnly'
  BY <1>1 DEF IInv, QueueDistinct, PendingQueued, OkUnlessRaced, OkMeansReceived, FrontOnly
<1> QED
  BY <1>4, <1>5, <1>6, <1>7 DEF IInv

\* Send: the frame goes behind all the others.
LEMMA PushStep ==
    ASSUME TypeOK, IInv, NEW c \in Callers, SendPush(c)
    PROVE  IInv'
<1> USE Elements
<1> DEFINE id == caller[c].id
           frame == [id |-> id, seq |-> caller[c].seq, retries |-> 0]
           n == Len(m_queue)
<1>1. /\ caller[c].pc = "composed"
      /\ m_queue' = Append(m_queue, frame)
      /\ result' = [result EXCEPT ![id] = "pending"]
      /\ caller' = [caller EXCEPT ![c] = Idle]
      /\ UNCHANGED <<m_seq, composed, raced, wire, replies, stagebuf, received>>
  BY DEF SendPush, lineVars
<1>2. /\ caller'[c].pc = "idle"
      /\ \A d \in Callers : d # c => caller'[d] = caller[d]
  BY <1>1 DEF TypeOK, Idle
<1>3. id \in Ids /\ id \in Nat
  <2>1. id \in Ids
    BY DEF TypeOK
  <2> QED
    BY <2>1
<1>4. InWindow(caller[c]) /\ result[id] = "none"
  BY <1>1, <1>3 DEF IInv, CallersGood, NoneMeansUnsent
<1>5. result'[id] = "pending" /\ \A f \in Ids : f # id => result'[f] = result[f]
  BY <1>1, <1>3 DEF TypeOK
<1>6. /\ DOMAIN m_queue' = 1 .. n + 1 /\ n \in Nat
      /\ \A i \in 1 .. n : m_queue'[i] = m_queue[i]
      /\ m_queue'[n + 1] = frame
  BY <1>1, AppendProperties
<1>7. \A m : InWindow(m)' <=> InWindow(m)
  BY <1>1 DEF InWindow, SeqNumber
<1>8. \A i \in DOMAIN m_queue : m_queue[i].id # id
  BY <1>4 DEF IInv, PendingQueued
<1>9. CallersGood'
  <2>1. \A d \in Callers : caller'[d].pc # "idle" => d # c
    BY <1>2
  <2>2. ~ raced => NoLostIncrement'
    BY <1>1, <1>2 DEF IInv, CallersGood, NoLostIncrement, SeqNumber
  <2> QED
    BY <1>1, <1>2, <1>7, <2>1, <2>2 DEF IInv, CallersGood
<1>10. NoneMeansUnsent'
  <2> SUFFICES ASSUME NEW f \in Ids
               PROVE  result'[f] = "none" <=>
                        \/ f >= composed
                        \/ \E d \in Callers : caller'[d].pc # "idle" /\ caller'[d].id = f
    BY <1>1 DEF NoneMeansUnsent
  <2>1. CASE f = id
    <3>1. \A d \in Callers : caller'[d].pc # "idle" => caller'[d].id # id
      BY <1>1, <1>2 DEF IInv, CallersGood
    <3>2. id < composed
      BY <1>4 DEF InWindow
    <3> QED
      BY <1>3, <1>5, <2>1, <3>1, <3>2
  <2>2. CASE f # id
    <3>1. (\E d \in Callers : caller'[d].pc # "idle" /\ caller'[d].id = f) <=>
            \E d \in Callers : caller[d].pc # "idle" /\ caller[d].id = f
      BY <1>1, <1>2, <2>2
    <3> QED
      BY <1>5, <2>2, <3>1 DEF IInv, NoneMeansUnsent
  <2> QED
    BY <2>1, <2>2
<1>11. QueueGood'
  <2>1. InWindow(frame)
    BY <1>3, <1>4 DEF InWindow, SeqNumber
  <2>2. \A i \in DOMAIN m_queue' : InWindow(m_queue'[i])
    <3> SUFFICES ASSUME NEW i \in 1 .. n + 1 PROVE InWindow(m_queue'[i])
      BY <1>6
    <3>1. CASE i = n + 1
      BY <3>1, <1>6, <2>1
    <3>2. CASE i \in 1 .. n
      BY <3>2, <1>6 DEF IInv, QueueGood
    <3> QED
      BY <3>1, <3>2, <1>6
  <2> QED
    BY <1>7, <2>2 DEF QueueGood
<1>12. QueueDistinct'
  <2> SUFFICES ASSUME NEW i \in 1 .. n + 1, NEW j \in 1 .. n + 1,
                      m_queue'[i].id = m_queue'[j].id
               PROVE  i = j
    BY <1>6 DEF QueueDistinct
  <2>1. (i = n + 1 \/ i \in 1 .. n) /\ (j = n + 1 \/ j \in 1 .. n)
    <3>1. n \in Nat
      BY <1>6
    <3> QED
      BY <3>1
  <2>2. CASE i \in 1 .. n /\ j \in 1 .. n
    BY <1>6, <2>2 DEF IInv, QueueDistinct
  <2>3. CASE i = n + 1 /\ j \in 1 .. n
    BY <1>6, <1>8, <2>3
  <2>4. CASE i \in 1 .. n /\ j = n + 1
    BY <1>6, <1>8, <2>4
  <2> QED
    BY <2>1, <2>2, <2>3, <2>4
<1>13. PendingQueued'
  <2> SUFFICES ASSUME NEW f \in Ids
               PROVE  result'[f] = "pending" <=> \E i \in 1 .. n + 1 : m_queue'[i].id = f
    BY <1>6 DEF PendingQueued
  <2>1. CASE f = id
    <3>1. n + 1 \in 1 .. n + 1 /\ m_queue'[n + 1].id = f
      BY <1>6, <2>1
    <3> QED
      BY <3>1, <2>1, <1>5
  <2>2. CASE f # id
    <3>1. result[f] = "pending" <=> \E i \in 1 .. n : m_queue[i].id = f
      BY DEF IInv, PendingQueued
    <3>2. (\E i \in 1 .. n + 1 : m_queue'[i].id = f) <=> \E i \in 1 .. n : m_queue[i].id = f
      BY <1>6, <2>2
    <3> QED
      BY <1>5, <2>2, <3>1, <3>2
  <2> QED
    BY <2>1, <2>2
<1>14. WireGood'
  BY <1>1, <1>5, <1>7 DEF IInv, WireGood
<1>15. RepliesGood'
  BY <1>1, <1>7 DEF IInv, RepliesGood
<1>16. OkUnlessRaced'
  BY <1>1, <1>5 DEF IInv, OkUnlessRaced, OkMeansReceived
<1>17. FrontOnly'
  <2> SUFFICES ASSUME NEW m \in ToSet(wire), result'[m.id] = "pending"
               PROVE  1 \in 1 .. n + 1 /\ m_queue'[1].id = m.id
    BY <1>1, <1>6 DEF FrontOnly
  <2>1. m.id \in Ids /\ m.id # id
    BY <1>4 DEF IInv, WireGood
  <2>2. 1 \in DOMAIN m_queue /\ m_queue[1].id = m.id
    BY <1>5, <2>1 DEF IInv, FrontOnly
  <2> QED
    BY <1>6, <2>2
<1> QED
  BY <1>9, <1>10, <1>11, <1>12, <1>13, <1>14, <1>15, <1>16, <1>17 DEF IInv

\* The front frame gets its verdict: SUCCESS only if it was received.
LEMMA PopStep ==
    ASSUME TypeOK, IInv, m_queue # <<>>, NEW verdict \in {"SUCCESS", "TIMEOUT"},
           verdict = "SUCCESS" => FrontFrame.id \in received \/ raced,
           m_queue' = Tail(m_queue),
           result' = [result EXCEPT ![FrontFrame.id] = verdict],
           UNCHANGED <<m_seq, caller, composed, raced, wire, replies, received>>,
           ToSet(stagebuf') \subseteq ToSet(stagebuf)
    PROVE  IInv'
<1> USE Elements
<1> DEFINE id == FrontFrame.id
           n == Len(m_queue)
<1>1. /\ FrontFrame = m_queue[1] /\ 1 \in DOMAIN m_queue /\ id \in Ids
  BY FrontIsFrame
<1>2. /\ n \in Nat \ {0} /\ DOMAIN m_queue' = 1 .. n - 1
      /\ \A i \in 1 .. n - 1 : m_queue'[i] = m_queue[i + 1] /\ i + 1 \in 1 .. n
  BY <1>1
<1>3. result'[id] = verdict /\ \A f \in Ids : f # id => result'[f] = result[f]
  BY <1>1 DEF TypeOK
<1>4. result[id] = "pending"
  BY <1>1 DEF IInv, PendingQueued
<1>5. \A m : InWindow(m)' <=> InWindow(m)
  BY DEF InWindow, SeqNumber
<1>6. CallersGood'
  BY <1>5 DEF IInv, CallersGood, NoLostIncrement, SeqNumber
<1>7. NoneMeansUnsent'
  BY <1>3, <1>4 DEF IInv, NoneMeansUnsent
<1>8. QueueGood'
  <2>1. \A i \in DOMAIN m_queue' : InWindow(m_queue'[i])
    BY <1>2 DEF IInv, QueueGood
  <2> QED
    BY <1>5, <2>1 DEF QueueGood
<1>9. QueueDistinct'
  <2> SUFFICES ASSUME NEW i \in 1 .. n - 1, NEW j \in 1 .. n - 1,
                      m_queue'[i].id = m_queue'[j].id
               PROVE  i = j
    BY <1>2 DEF QueueDistinct
  <2>1. i + 1 = j + 1
    BY <1>2, SMTT(60) DEF IInv, QueueDistinct
  <2> QED
    BY <2>1
<1>10. PendingQueued'
  <2> SUFFICES ASSUME NEW f \in Ids
               PROVE  result'[f] = "pending" <=> \E i \in 1 .. n - 1 : m_queue'[i].id = f
    BY <1>2 DEF PendingQueued
  <2>1. \A k \in 2 .. n : m_queue[k].id # id
    BY <1>1, <1>2, SMTT(30) DEF IInv, QueueDistinct
  <2>2. ASSUME NEW k \in 2 .. n, m_queue[k].id = f
        PROVE  \E i \in 1 .. n - 1 : m_queue'[i].id = f
    <3>1. k - 1 \in 1 .. n - 1 /\ (k - 1) + 1 = k
      BY <1>2
    <3> QED
      BY <1>2, <2>2, <3>1
  <2>3. (\E i \in 1 .. n - 1 : m_queue'[i].id = f) <=> \E k \in 2 .. n : m_queue[k].id = f
    <3>1. \A i \in 1 .. n - 1 : i + 1 \in 2 .. n
      BY <1>2
    <3> QED
      BY <1>2, <2>2, <3>1
  <2>4. CASE f = id
    <3>1. ~ \E k \in 2 .. n : m_queue[k].id = f
      BY <1>1, <2>1, <2>4 DEF Ids
    <3> QED
      BY <1>3, <2>3, <2>4, <3>1
  <2>5. CASE f # id
    <3>1. result[f] = "pending" <=> \E k \in 1 .. n : m_queue[k].id = f
      BY DEF IInv, PendingQueued
    <3>2. \A k \in 1 .. n : k = 1 \/ k \in 2 .. n
      BY <1>2
    <3> QED
      BY <1>1, <1>2, <1>3, <2>3, <2>5, <3>1, <3>2
  <2> QED
    BY <2>4, <2>5
<1>11. WireGood'
  BY <1>3, <1>5 DEF IInv, WireGood
<1>12. RepliesGood'
  BY <1>5 DEF IInv, RepliesGood
<1>13. OkUnlessRaced'
  BY <1>3 DEF IInv, OkUnlessRaced, OkMeansReceived
<1>14. FrontOnly'
  <2> SUFFICES ASSUME NEW m \in ToSet(wire), result'[m.id] = "pending"
               PROVE  FALSE
    BY DEF FrontOnly
  <2>1. m.id # id /\ result[m.id] = "pending"
    BY <1>3
  <2> QED
    BY <1>1, <2>1 DEF IInv, FrontOnly
<1> QED
  BY <1>6, <1>7, <1>8, <1>9, <1>10, <1>11, <1>12, <1>13, <1>14 DEF IInv

\* OnExit: all that is pending is queued, and broken with the queue.
LEMMA DrainFacts ==
    ASSUME TypeOK, IInv, DrainQueue
    PROVE  /\ result' = [f \in Ids |-> IF result[f] = "pending" THEN "BROKEN" ELSE result[f]]
           /\ UNCHANGED <<m_seq, caller, composed, raced, wire, replies, stagebuf, received>>
           /\ m_queue' = <<>>
<1>1. ASSUME NEW f \in Ids
      PROVE  (\E q \in ToSet(m_queue) : q.id = f) <=> result[f] = "pending"
  BY DEF IInv, PendingQueued, ToSet
<1> QED
  BY <1>1 DEF DrainQueue, callVars, lineVars

LEMMA DrainStep ==
    ASSUME TypeOK, IInv, DrainQueue
    PROVE  IInv'
<1> USE Elements
<1>1. /\ \A f \in Ids : result'[f] = IF result[f] = "pending" THEN "BROKEN" ELSE result[f]
      /\ UNCHANGED <<m_seq, caller, composed, raced, wire, replies, stagebuf, received>>
      /\ m_queue' = <<>>
  BY DrainFacts
<1>2. DOMAIN m_queue' = {} /\ ToSet(m_queue') = {}
  BY <1>1 DEF ToSet
<1>3. CallersGood' /\ NoneMeansUnsent'
  BY <1>1 DEF IInv, CallersGood, NoLostIncrement, NoneMeansUnsent, InWindow, SeqNumber
<1>4. QueueGood' /\ QueueDistinct'
  BY <1>2 DEF QueueGood, QueueDistinct
<1>5. PendingQueued' /\ OkUnlessRaced' /\ FrontOnly'
  BY <1>1, <1>2 DEF IInv, PendingQueued, OkUnlessRaced, OkMeansReceived, FrontOnly
<1>6. WireGood' /\ RepliesGood'
  BY <1>1 DEF IInv, WireGood, RepliesGood, InWindow, SeqNumber
<1> QED
  BY <1>3, <1>4, <1>5, <1>6 DEF IInv

-----------------------------------------------------------------------------
(* What each step does to the variables of the invariant.                  *)

\* An acknowledgement that matches the front frame is one of the front frame.
LEMMA AckIsForFront ==
    ASSUME TypeOK, IInv, ParseAck, ~ raced
    PROVE  FrontFrame.id \in received
<1> USE Elements
<1> DEFINE r == Head(stagebuf)
<1>1. /\ stagebuf # <<>> /\ r.kind = "ack"
      /\ m_queue # <<>> /\ r.seq = FrontFrame.seq
  BY DEF ParseAck, Parse, MatchesFront
<1>2. r \in ToSet(stagebuf)
  BY <1>1, ToSetTail DEF TypeOK
<1>3. FrontFrame = m_queue[1] /\ 1 \in DOMAIN m_queue
  BY <1>1, FrontIsFrame
<1>4. InWindow(r) /\ r.id \in received /\ r.id \in Ids
  BY <1>1, <1>2 DEF IInv, RepliesGood, AckKinds
<1>5. InWindow(FrontFrame) /\ FrontFrame.id \in Ids
  BY <1>3 DEF IInv, QueueGood
<1>6. r.id = FrontFrame.id
  <2>1. r.id \in Int /\ FrontFrame.id \in Int
    BY <1>4, <1>5 DEF Ids
  <2>2. /\ r.id % SeqSpace = FrontFrame.id % SeqSpace
        /\ r.id - FrontFrame.id < SeqSpace /\ FrontFrame.id - r.id < SeqSpace
    BY <1>1, <1>4, <1>5, <2>1 DEF InWindow, SeqNumber
  <2> QED
    BY <2>1, <2>2, ModInjective
<1> QED
  BY <1>4, <1>6

LEMMA CallerStep ==
    ASSUME TypeOK, IInv, NEW c \in Callers, CallerThread(c)
    PROVE  IInv'
BY ComposeStep, ComposeStoreStep, PushStep DEF CallerThread

\* A step that leaves the variables of the invariant alone, but for messages
\* that disappear.
LEMMA QuietStep ==
    ASSUME TypeOK, IInv, UNCHANGED <<m_seq, caller, composed, raced, result, m_queue, received>>,
           ToSet(wire') \subseteq ToSet(wire),
           ToSet(replies') \cup ToSet(stagebuf') \subseteq ToSet(replies) \cup ToSet(stagebuf)
    PROVE  IInv'
BY LineStep

\* The front frame is put on the wire; only its retry count may change.
LEMMA RetransmitStep ==
    ASSUME TypeOK, IInv, m_queue # <<>>, TransmitFrame(FrontFrame),
           UNCHANGED <<m_seq, caller, composed, raced, result, received, replies>>,
           ToSet(stagebuf') \subseteq ToSet(stagebuf),
           \/ m_queue' = m_queue
           \/ m_queue' = [m_queue EXCEPT ![1].retries = FrontFrame.retries + 1]
    PROVE  IInv'
<1>1. FrontFrame \in Frames /\ FrontFrame = m_queue[1] /\ 1 \in DOMAIN m_queue
  BY FrontIsFrame
<1>2. /\ DOMAIN m_queue' = DOMAIN m_queue
      /\ \A i \in DOMAIN m_queue :
           m_queue'[i].id = m_queue[i].id /\ m_queue'[i].seq = m_queue[i].seq
  <2>1. CASE m_queue' = m_queue
    BY <2>1
  <2>2. CASE m_queue' = [m_queue EXCEPT ![1].retries = FrontFrame.retries + 1]
    <3>1. DOMAIN m_queue' = DOMAIN m_queue
      BY <2>2, Elements
    <3>2. ASSUME NEW i \in DOMAIN m_queue
          PROVE  m_queue'[i].id = m_queue[i].id /\ m_queue'[i].seq = m_queue[i].seq
      <4>1. CASE i = 1
        <5>1. m_queue'[1] = [FrontFrame EXCEPT !.retries = FrontFrame.retries + 1]
          BY <1>1, <2>2, Elements
        <5> QED
          BY <1>1, <4>1, <5>1 DEF Frames
      <4>2. CASE i # 1
        BY <2>2, <4>2, Elements
      <4> QED
        BY <4>1, <4>2
    <3> QED
      BY <3>1, <3>2
  <2> QED
    BY <2>1, <2>2
<1>3. \A m \in ToSet(wire') :
         \/ m \in ToSet(wire)
         \/ 1 \in DOMAIN m_queue /\ m.id = m_queue[1].id /\ m.seq = m_queue[1].seq
  <2>1. [id |-> FrontFrame.id, seq |-> FrontFrame.seq] \in Copies
    BY <1>1 DEF Frames, Copies
  <2>2. ToSet(wire') \subseteq ToSet(wire) \cup {[id |-> FrontFrame.id, seq |-> FrontFrame.seq]}
    BY <2>1, PutFacts, SMTT(30) DEF TransmitFrame, TypeOK
  <2> QED
    BY <1>1, <2>2
<1> QED
  BY <1>2, <1>3, LineStep

LEMMA TimerStep ==
    ASSUME TypeOK, IInv, TimerThread
    PROVE  IInv'
<1> USE DEF callVars, linkVars, lineVars
<1>1. CASE BusyCheck \/ BusyLoad \/ BusyStore \/ NothingToSend \/ CountLoad \/ CountStore
  <2>1. UNCHANGED <<m_seq, caller, composed, raced, result, m_queue, received, wire, replies, stagebuf>>
    BY <1>1 DEF BusyCheck, BusyLoad, BusyStore, NothingToSend, CountLoad, CountStore
  <2> QED
    BY <2>1, QuietStep
<1>2. CASE Transmit
  <2>1. /\ m_queue # <<>> /\ TransmitFrame(FrontFrame)
        /\ UNCHANGED <<m_seq, caller, composed, raced, result, received, replies, stagebuf>>
        /\ m_queue' = [m_queue EXCEPT ![1].retries = FrontFrame.retries + 1]
    BY <1>2 DEF Transmit
  <2> QED
    BY <2>1, RetransmitStep
<1>3. CASE GiveUp
  <2>1. /\ m_queue # <<>> /\ m_queue' = Tail(m_queue)
        /\ result' = [result EXCEPT ![FrontFrame.id] = "TIMEOUT"]
        /\ UNCHANGED <<m_seq, caller, composed, raced, wire, replies, received, stagebuf>>
    BY <1>3 DEF GiveUp
  <2> QED
    BY <2>1, PopStep
<1> QED
  BY <1>1, <1>2, <1>3 DEF TimerThread

LEMMA RadioStep ==
    ASSUME TypeOK, IInv, RadioThread \/ PortFails
    PROVE  IInv'
<1> USE DEF callVars, linkVars, lineVars
<1>1. CASE ReadBytes
  <2>1. /\ UNCHANGED <<m_seq, caller, composed, raced, result, m_queue, received, wire>>
        /\ stagebuf' = replies /\ replies' = <<>>
    BY <1>1 DEF ReadBytes
  <2>2. ToSet(replies') = {}
    BY <2>1 DEF ToSet
  <2> QED
    BY <2>1, <2>2, QuietStep
<1>2. CASE EnterRead \/ ReadNothing \/ Revive \/ ResetFailCount \/ NothingStaged \/ LoopEnds \/ PortFails \/ StopTimer
  <2>1. UNCHANGED <<m_seq, caller, composed, raced, result, m_queue, received, wire, replies, stagebuf>>
    BY <1>2 DEF EnterRead, ReadNothing, Revive, ResetFailCount, NothingStaged, LoopEnds,
                PortFails, LeaveLoop, StopTimer
  <2> QED
    BY <2>1, QuietStep
<1>3. ASSUME NEW kinds, Parse(kinds)
      PROVE  /\ ToSet(stagebuf') \subseteq ToSet(stagebuf)
             /\ UNCHANGED <<m_seq, caller, composed, raced, replies, received>>
  BY <1>3, ToSetTail DEF Parse, TypeOK
<1>4. CASE ParseStaleAck \/ ParseBusy \/ ParseNoise
  <2>1. /\ UNCHANGED <<m_seq, caller, composed, raced, result, m_queue, received, wire, replies>>
        /\ ToSet(stagebuf') \subseteq ToSet(stagebuf)
    BY <1>3, <1>4 DEF ParseStaleAck, ParseBusy, ParseNoise
  <2> QED
    BY <2>1, QuietStep
<1>5. CASE ParseNak
  <2>1. /\ m_queue # <<>> /\ TransmitFrame(FrontFrame)
        /\ UNCHANGED <<m_seq, caller, composed, raced, result, received, replies, m_queue>>
        /\ ToSet(stagebuf') \subseteq ToSet(stagebuf)
    BY <1>3, <1>5 DEF ParseNak, MatchesFront
  <2> QED
    BY <2>1, RetransmitStep
<1>6. CASE ParseAck
  <2>1. /\ m_queue # <<>> /\ m_queue' = Tail(m_queue)
        /\ result' = [result EXCEPT ![FrontFrame.id] = "SUCCESS"]
        /\ UNCHANGED <<m_seq, caller, composed, raced, wire, replies, received>>
        /\ ToSet(stagebuf') \subseteq ToSet(stagebuf)
    BY <1>3, <1>6 DEF ParseAck, MatchesFront
  <2> QED
    BY <1>6, <2>1, AckIsForFront, PopStep
<1>7. CASE DrainQueue
  BY <1>7, DrainStep
<1> QED
  BY <1>1, <1>2, <1>4, <1>5, <1>6, <1>7 DEF RadioThread

LEMMA ExternalStep ==
    ASSUME TypeOK, IInv, RadioAnswers \/ RadioSpeaks \/ LineLoses
    PROVE  IInv'
<1> USE DEF callVars, linkVars
<1>1. CASE RadioAnswers
  <2>1. /\ wire # <<>> /\ wire' = Tail(wire)
        /\ UNCHANGED <<m_seq, caller, composed, raced, result, m_queue, stagebuf>>
    BY <1>1 DEF RadioAnswers
  <2>2. /\ Head(wire) \in ToSet(wire) /\ ToSet(wire') \subseteq ToSet(wire)
        /\ Head(wire) \in Copies
    BY <2>1, ToSetTail DEF TypeOK
  <2>3. PICK kind \in AckKinds :
          /\ replies' = Put(replies, ReplyCap, [kind |-> kind, id |-> Head(wire).id, seq |-> Head(wire).seq])
          /\ received' = IF kind = "ack" THEN received \cup {Head(wire).id} ELSE received
    BY <1>1 DEF RadioAnswers
  <2> DEFINE answer == [kind |-> kind, id |-> Head(wire).id, seq |-> Head(wire).seq]
  <2>4. ToSet(replies') \subseteq ToSet(replies) \cup {answer}
    <3>1. answer \in Replies
      BY <2>2 DEF Copies, Replies
    <3> QED
      BY <2>3, <3>1, PutFacts DEF TypeOK
  <2>5. InWindow(answer) /\ (answer.kind = "ack" => answer.id \in received')
    BY <2>2, <2>3 DEF IInv, WireGood, InWindow
  <2>6. received \subseteq received'
    BY <2>3
  <2> HIDE DEF answer
  <2>7. \A r \in ToSet(replies') \cup ToSet(stagebuf') : r.kind \in AckKinds =>
              \/ r \in ToSet(replies) \cup ToSet(stagebuf)
              \/ InWindow(r) /\ (r.kind = "ack" => r.id \in received')
    BY <2>1, <2>4, <2>5
  <2> QED
    BY <2>1, <2>2, <2>6, <2>7, LineStep
<1>2. CASE RadioSpeaks
  <2>1. PICK m \in Noise : replies' = Append(replies, m)
    BY <1>2 DEF RadioSpeaks
  <2>2. UNCHANGED <<m_seq, caller, composed, raced, result, m_queue, stagebuf, wire, received>>
    BY <1>2 DEF RadioSpeaks
  <2>3. ToSet(replies') = ToSet(replies) \cup {m}
    <3>1. m \in Replies
      BY DEF Replies
    <3> QED
      BY <2>1, <3>1, ToSetAppend DEF TypeOK
  <2>4. ~ (m.kind \in AckKinds)
    BY DEF Noise, AckKinds
  <2> QED
    BY <2>2, <2>3, <2>4, LineStep
<1>3. CASE LineLoses
  <2>1. /\ UNCHANGED <<m_seq, caller, composed, raced, result, m_queue, received, stagebuf>>
        /\ ToSet(wire') \subseteq ToSet(wire) /\ ToSet(replies') \subseteq ToSet(replies)
    BY <1>3, ToSetTail DEF LineLoses, TypeOK
  <2> QED
    BY <2>1, QuietStep
<1> QED
  BY <1>1, <1>2, <1>3

LEMMA IInvStep == TypeOK /\ IInv /\ [Next]_vars => IInv'
<1> SUFFICES ASSUME TypeOK, IInv, [Next]_vars PROVE IInv'
  OBVIOUS
<1>1. CASE UNCHANGED vars
  <2>1. UNCHANGED <<m_seq, caller, composed, raced, result, m_queue, received, wire, replies, stagebuf>>
    BY <1>1 DEF vars, callVars, lineVars
  <2> QED
    BY <2>1, QuietStep
<1>2. CASE Next
  BY <1>2, CallerStep, TimerStep, RadioStep, ExternalStep DEF Next
<1> QED
  BY <1>1, <1>2

LEMMA Invariance == Spec => [](TypeOK /\ IInv)
<1>1. Init => TypeOK /\ IInv
  BY TypeInit, IInvInit
<1>2. TypeOK /\ IInv /\ [Next]_vars => (TypeOK /\ IInv)'
  BY TypeStep, IInvStep
<1> QED
  BY <1>1, <1>2, PTL DEF Spec

\* For any threads that send, in any order: until an increment of m_seq is
\* lost (ComposeFrame, outside m_queue_lock), SUCCESS is reported only for
\* frames that the radio has accepted, whatever copies and acknowledgements of
\* earlier transmissions are on the line (OnRun, the SF_ACK branch).
THEOREM OkCorrect == Spec => []OkUnlessRaced
<1>1. TypeOK /\ IInv => OkUnlessRaced
  BY DEF IInv
<1> QED
  BY <1>1, Invariance, PTL

\* scp.h:39: the protocol is stop-and-wait, with any threads that send and also
\* when their frames share sequence numbers (TimerProc, OnRun).
THEOREM StopAndWaitCorrect == Spec => []StopAndWait
<1>1. TypeOK /\ IInv => StopAndWait
  <2> SUFFICES ASSUME TypeOK, IInv, NEW m \in ToSet(wire), result[m.id] = "pending"
               PROVE  m_queue # <<>> /\ FrontFrame.id = m.id
    BY DEF StopAndWait
  <2>1. 1 \in DOMAIN m_queue /\ m_queue[1].id = m.id
    BY DEF IInv, FrontOnly
  <2>2. m_queue # <<>>
    BY <2>1
  <2> QED
    BY <2>1, <2>2, FrontIsFrame
<1> QED
  BY <1>1, Invariance, PTL

-----------------------------------------------------------------------------
(* ScpSender implements ScpService.                                        *)

QueueIds == [i \in DOMAIN m_queue |-> m_queue[i].id]

LEMMA QueueIdsFacts ==
    ASSUME TypeOK
    PROVE  /\ QueueIds \in Seq(Ids) /\ Len(QueueIds) = Len(m_queue)
           /\ m_queue # <<>> => QueueIds # <<>> /\ Head(QueueIds) = FrontFrame.id
<1> USE Elements
<1>1. QueueIds \in [1 .. Len(m_queue) -> Ids]
  BY DEF QueueIds
<1>2. QueueIds \in Seq(Ids) /\ Len(QueueIds) = Len(m_queue)
  BY <1>1
<1>3. ASSUME m_queue # <<>>
      PROVE  QueueIds # <<>> /\ Head(QueueIds) = FrontFrame.id
  <2>1. FrontFrame = m_queue[1] /\ 1 \in DOMAIN m_queue
    BY <1>3, FrontIsFrame
  <2>2. QueueIds[1] = FrontFrame.id
    BY <2>1 DEF QueueIds
  <2>3. Len(m_queue) > 0
    BY <2>1
  <2> QED
    BY <1>2, <2>2, <2>3
<1> QED
  BY <1>2, <1>3

\* The number of each queued frame is that of the frame it was before the step.
LEMMA SameQueueIds ==
    ASSUME TypeOK, m_queue # <<>>,
           m_queue' = [m_queue EXCEPT ![1].retries = FrontFrame.retries + 1]
    PROVE  QueueIds' = QueueIds
<1> USE Elements
<1>1. FrontFrame \in Frames /\ FrontFrame = m_queue[1] /\ 1 \in DOMAIN m_queue
  BY FrontIsFrame
<1>2. DOMAIN m_queue' = DOMAIN m_queue
  BY Elements
<1>3. ASSUME NEW i \in DOMAIN m_queue PROVE m_queue'[i].id = m_queue[i].id
  <2>1. CASE i = 1
    <3>1. m_queue'[1] = [FrontFrame EXCEPT !.retries = FrontFrame.retries + 1]
      BY <1>1
    <3> QED
      BY <1>1, <2>1, <3>1 DEF Frames
  <2>2. CASE i # 1
    BY <2>2
  <2> QED
    BY <2>1, <2>2
<1> QED
  BY <1>2, <1>3 DEF QueueIds

LEMMA TailQueueIds ==
    ASSUME TypeOK, m_queue # <<>>, m_queue' = Tail(m_queue)
    PROVE  QueueIds' = Tail(QueueIds)
<1> USE Elements
<1> DEFINE n == Len(m_queue)
<1>1. /\ n \in Nat \ {0} /\ DOMAIN m_queue' = 1 .. n - 1
      /\ \A i \in 1 .. n - 1 : m_queue'[i] = m_queue[i + 1] /\ i + 1 \in 1 .. n
  OBVIOUS
<1>2. QueueIds' = [i \in 1 .. n - 1 |-> m_queue[i + 1].id]
  BY <1>1 DEF QueueIds
<1>3. QueueIds \in Seq(Ids) /\ Len(QueueIds) = n
  BY QueueIdsFacts
<1>4. \A i \in 1 .. n : QueueIds[i] = m_queue[i].id
  BY DEF QueueIds
<1>5. Tail(QueueIds) = [i \in 1 .. n - 1 |-> QueueIds[i + 1]]
  <2>1. PICK q : q = QueueIds
    OBVIOUS
  <2>2. q \in Seq(Ids) /\ Len(q) = n /\ q # <<>>
    BY <1>1, <1>3, <2>1
  <2>3. PICK t : t = Tail(q)
    OBVIOUS
  <2>4. t \in Seq(Ids) /\ Len(t) = n - 1 /\ \A i \in 1 .. n - 1 : t[i] = q[i + 1]
    BY <1>1, <2>2, <2>3, HeadTailProperties
  <2>5. t = [i \in 1 .. n - 1 |-> q[i + 1]]
    <3>1. t = [i \in DOMAIN t |-> t[i]] /\ DOMAIN t = 1 .. n - 1
      BY <1>1, <2>4, SMTT(60)
    <3> QED
      BY ONLY <2>4, <3>1, SMTT(60)
  <2> QED
    BY <2>1, <2>3, <2>5
<1> QED
  BY <1>1, <1>2, <1>4, <1>5

LEMMA AppendQueueIds ==
    ASSUME TypeOK, NEW frame \in Frames, m_queue' = Append(m_queue, frame)
    PROVE  QueueIds' = Append(QueueIds, frame.id)
<1> USE Elements
<1> DEFINE n == Len(m_queue)
<1>1. /\ DOMAIN m_queue' = 1 .. n + 1 /\ n \in Nat
      /\ \A i \in 1 .. n : m_queue'[i] = m_queue[i]
      /\ m_queue'[n + 1] = frame
  BY AppendProperties
<1>2. QueueIds' = [i \in 1 .. n + 1 |-> m_queue'[i].id]
  BY <1>1 DEF QueueIds
<1>3. QueueIds \in Seq(Ids) /\ Len(QueueIds) = n /\ frame.id \in Ids
  BY QueueIdsFacts DEF Frames
<1>4. \A i \in 1 .. n : QueueIds[i] = m_queue[i].id
  BY DEF QueueIds
<1>5. Append(QueueIds, frame.id)
        = [i \in 1 .. n + 1 |-> IF i = n + 1 THEN frame.id ELSE QueueIds[i]]
  BY <1>3
<1>6. \A i \in 1 .. n + 1 : i = n + 1 \/ i \in 1 .. n
  BY <1>1
<1>7. \A i \in 1 .. n + 1 :
         m_queue'[i].id = IF i = n + 1 THEN frame.id ELSE QueueIds[i]
  BY <1>1, <1>4, <1>6
<1> QED
  BY <1>2, <1>5, <1>7

\* The verdict on the front frame.
LEMMA VerdictResolves ==
    ASSUME TypeOK, m_queue # <<>>, NEW verdict \in {"SUCCESS", "TIMEOUT"},
           verdict = "SUCCESS" => FrontFrame.id \in received \/ raced,
           m_queue' = Tail(m_queue),
           result' = [result EXCEPT ![FrontFrame.id] = verdict],
           UNCHANGED <<received, raced>>
    PROVE  Service!Resolve(verdict)
<1>1. QueueIds # <<>> /\ Head(QueueIds) = FrontFrame.id
  BY QueueIdsFacts
<1>2. QueueIds' = Tail(QueueIds)
  BY TailQueueIds
<1> QED
  BY <1>1, <1>2 DEF Service!Resolve, QueueIds

LEMMA ServiceStep ==
    TypeOK /\ IInv /\ [Next]_vars => [Service!Next]_(Service!vars)
<1> SUFFICES ASSUME TypeOK, IInv, [Next]_vars
             PROVE  Service!Next \/ UNCHANGED <<result, QueueIds, received, raced>>
  BY DEF Service!vars, QueueIds
<1> USE DEF Service!Ids, Ids
<1> USE DEF callVars, linkVars, lineVars
<1>1. ASSUME UNCHANGED m_queue
      PROVE  QueueIds' = QueueIds
  BY <1>1 DEF QueueIds
<1>2. CASE \E c \in Callers : CallerThread(c)
  <2>1. PICK c \in Callers : CallerThread(c)
    BY <1>2
  <2>2. CASE ComposeLoad(c)
    <3>1. /\ UNCHANGED <<result, m_queue, received>>
          /\ raced' = (raced \/ \E d \in Callers : caller[d].pc = "loaded")
      BY <2>2 DEF ComposeLoad
    <3>2. raced \in BOOLEAN
      BY DEF TypeOK
    <3>3. CASE raced' = TRUE
      BY <1>1, <3>1, <3>3 DEF Service!Next, Service!Collide, QueueIds
    <3>4. CASE raced' = raced
      BY <1>1, <3>1, <3>4
    <3> QED
      BY <3>1, <3>2, <3>3, <3>4
  <2>3. CASE ComposeStore(c)
    BY <1>1, <2>3 DEF ComposeStore
  <2>4. CASE SendPush(c)
    <3> DEFINE frame == [id |-> caller[c].id, seq |-> caller[c].seq, retries |-> 0]
    <3>1. /\ caller[c].pc = "composed" /\ UNCHANGED <<received, raced>>
          /\ m_queue' = Append(m_queue, frame)
          /\ result' = [result EXCEPT ![caller[c].id] = "pending"]
      BY <2>4 DEF SendPush
    <3>2. caller[c].id \in Ids /\ frame \in Frames /\ frame.id = caller[c].id
      BY DEF TypeOK, Frames
    <3>3. result[caller[c].id] = "none"
      BY <3>1, <3>2 DEF IInv, NoneMeansUnsent
    <3>4. QueueIds' = Append(QueueIds, caller[c].id)
      BY <3>1, <3>2, AppendQueueIds
    <3>5. PICK f \in Ids : f = caller[c].id
      BY <3>2
    <3>6. Service!Submit(f)
      BY <3>1, <3>3, <3>4, <3>5 DEF Service!Submit, QueueIds
    <3> QED
      BY <3>6 DEF Service!Next
  <2> QED
    BY <2>1, <2>2, <2>3, <2>4 DEF CallerThread
<1>3. CASE GiveUp
  <2>1. /\ m_queue # <<>> /\ UNCHANGED <<received, raced>>
        /\ m_queue' = Tail(m_queue)
        /\ result' = [result EXCEPT ![FrontFrame.id] = "TIMEOUT"]
    BY <1>3 DEF GiveUp
  <2> QED
    BY <2>1, VerdictResolves DEF Service!Next
<1>4. CASE ParseAck
  <2>1. /\ m_queue # <<>> /\ UNCHANGED <<received, raced>>
        /\ m_queue' = Tail(m_queue)
        /\ result' = [result EXCEPT ![FrontFrame.id] = "SUCCESS"]
    BY <1>4 DEF ParseAck, Parse, MatchesFront
  <2>2. FrontFrame.id \in received \/ raced
    BY <1>4, AckIsForFront
  <2> QED
    BY <2>1, <2>2, VerdictResolves DEF Service!Next
<1>5. CASE DrainQueue
  <2>1. QueueIds' = <<>>
    BY <1>5, DrainFacts DEF QueueIds
  <2> QED
    BY <1>5, <2>1, DrainFacts DEF Service!Next, Service!Close, QueueIds
<1>6. CASE RadioAnswers
  <2>1. wire # <<>> /\ UNCHANGED <<result, m_queue, raced>>
    BY <1>6 DEF RadioAnswers
  <2>2. \/ received' = received \cup {Head(wire).id}
        \/ received' = received
    BY <1>6 DEF RadioAnswers
  <2>3. Head(wire) \in ToSet(wire)
    BY <2>1, ToSetTail DEF TypeOK
  <2>4. Head(wire).id \in Ids /\ result[Head(wire).id] # "none"
    BY <2>3, Elements DEF IInv, WireGood
  <2>5. CASE received' = received \cup {Head(wire).id}
    <3>1. Service!Accept(Head(wire).id)
      BY <1>1, <2>1, <2>4, <2>5 DEF Service!Accept, QueueIds
    <3> QED
      BY <2>4, <3>1 DEF Service!Next
  <2>6. CASE received' = received
    BY <1>1, <2>1, <2>6
  <2> QED
    BY <2>2, <2>5, <2>6
<1>7. CASE RadioSpeaks \/ LineLoses \/ PortFails
  BY <1>1, <1>7 DEF RadioSpeaks, LineLoses, PortFails, LeaveLoop
<1>8. CASE TimerThread
  <2>1. CASE BusyCheck \/ BusyLoad \/ BusyStore \/ NothingToSend \/ CountLoad \/ CountStore
    BY <1>1, <2>1 DEF BusyCheck, BusyLoad, BusyStore, NothingToSend, CountLoad, CountStore
  <2>2. CASE Transmit
    <3>1. /\ m_queue # <<>> /\ UNCHANGED <<result, received, raced>>
          /\ m_queue' = [m_queue EXCEPT ![1].retries = FrontFrame.retries + 1]
      BY <2>2 DEF Transmit
    <3> QED
      BY <3>1, SameQueueIds
  <2> QED
    BY <1>3, <1>8, <2>1, <2>2 DEF TimerThread
<1>9. CASE RadioThread
  <2>1. CASE EnterRead \/ ReadNothing \/ ReadBytes \/ Revive \/ ResetFailCount
                \/ NothingStaged \/ LoopEnds \/ StopTimer
    BY <1>1, <2>1 DEF EnterRead, ReadNothing, ReadBytes, Revive, ResetFailCount,
                      NothingStaged, LoopEnds, LeaveLoop, StopTimer
  <2>2. CASE ParseNak \/ ParseBusy \/ ParseStaleAck \/ ParseNoise
    BY <1>1, <2>2 DEF ParseNak, ParseBusy, ParseStaleAck, ParseNoise, Parse
  <2> QED
    BY <1>4, <1>5, <1>9, <2>1, <2>2 DEF RadioThread
<1>10. CASE UNCHANGED vars
  BY <1>1, <1>10 DEF vars
<1> QED
  BY <1>2, <1>6, <1>7, <1>8, <1>9, <1>10 DEF Next

\* For any threads that send: the queue, the timer and the radio thread together
\* keep the promises of ScpService: one verdict for each frame, in the order in
\* which the frames were pushed, and SUCCESS only for an accepted frame until
\* an increment of m_seq is lost.
THEOREM ServiceCorrect == Spec => ImplementsService
<1>1. Init => Service!Init
  <2> SUFFICES ASSUME Init PROVE Service!Init
    OBVIOUS
  <2>1. [i \in DOMAIN m_queue |-> m_queue[i].id] = <<>>
    BY DEF Init
  <2> QED
    BY <2>1 DEF Init, Service!Init, Service!Ids, Ids
<1>2. TypeOK /\ IInv /\ [Next]_vars => [Service!Next]_(Service!vars)
  BY ServiceStep
<1> QED
  BY <1>1, <1>2, Invariance, PTL DEF Spec, ImplementsService, Service!Spec
=============================================================================
