---------------------------- MODULE DaemonProofs ----------------------------
(***************************************************************************)
(* Proofs about Daemon with TtsHandshake and Log, for any limit of         *)
(* attempts, any sizes of the buffers, and any number of log lines.        *)
(***************************************************************************)
EXTENDS Daemon, SequenceLemmas, TLAPS

-----------------------------------------------------------------------------
(* The inductive invariant.                                                *)

Sorts == {"Time Trax", "Version", "lf", ">", "key", "P", "F", "noise"}
Values == {"Time Trax", "Version", "lf", ">", "P", "F"} \cup AnyValue

Octets == Sorts \X Nat \X Values

Tries == {"version", "auth"} \cup Reads

TtsOK ==
    /\ tts \in [at : Tries \cup {"plain", "open", "refused", "over"},
                cnt : 0 .. MAX_AUTH_ATTEMPTS, buf : Seq(Octets)]
    /\ Len(tts.buf) <= BufLen
    /\ tts.at \in Tries => tts.cnt < MAX_AUTH_ATTEMPTS
    /\ input \in Seq(Octets) /\ coming \in Seq(Octets)
    /\ device \in [challenge : Nat, value : Values \cup {"none"}, open : BOOLEAN]

\* TypeOK without the parts of TtsHandshake and Log
TasksOK ==
    /\ m_state \in [Tasks -> {"STARTING", "RUNNING", "STOPPED"}]
    /\ m_shutdown \in [Tasks -> BOOLEAN]
    /\ main \in {"init", "poll", "mask", "wait", "reopen", "reclose", "refopen", "stop",
                 "join", "delete", "null", "stopTimer", "joinTimer", "joinRadio",
                 "closeLog"} \cup Ends
    /\ server \in {"none", "start", "poll", "loop", "select", "pass", "future",
                   "stuck", "exit", "raise", "done"}
    /\ radio \in {"none", "start", "startup", "loop", "event", "exit", "shutdown",
                  "stopTimer", "joinTimer", "drain", "close", "done"}
    /\ timer \in {"none", "run", "done"}
    /\ m_mutex \in {"free", "server"}
    /\ promise \in {"none", "pending", "set", "broken"}
    /\ m_port \in {"open", "closed", "dangling", "null"}
    /\ blocked \in BOOLEAN /\ pending \subseteq Signals
    /\ m_mutex = "server" <=> server \in {"pass", "future", "stuck"}

ServerGone == server \in {"none", "done"}
RadioGone  == radio \in {"none", "done"}
AllGone    == ServerGone /\ RadioGone /\ timer # "run"

TimerTried == timer # "none" \/ NoTimer

\* The states of the tasks go with the places of their threads: the server
\* polls until the radio task has left OnStart, the timer is stopped only
\* after the server thread's end or by the radio thread itself, and the main
\* thread gets where it is by joining.
LifeOK ==
    /\ main = "init" => /\ server = "none" /\ radio = "none" /\ timer = "none"
                        /\ ~ m_shutdown["timer"]
    /\ server \in {"none", "start"} => radio = "none"
    /\ radio = "none" => m_state["radio"] # "RUNNING" /\ timer = "none"
    /\ server = "poll" => radio # "none"
    /\ radio \in {"start", "startup"} => server = "poll" /\ m_state["radio"] = "STARTING"
    /\ m_state["radio"] = "RUNNING" => TimerTried
    /\ radio = "startup" => TimerTried
    /\ server \in {"loop", "select", "pass", "future", "stuck"} => radio # "none" /\ TimerTried
    /\ m_shutdown["timer"] =>
          ServerGone \/ radio \in {"joinTimer", "drain", "close", "done"}
    /\ timer = "done" => m_shutdown["timer"]
    /\ main \in {"delete", "null", "stopTimer", "joinTimer", "joinRadio"} => ServerGone
    /\ main = "joinRadio" => timer # "run"
    /\ main \in {"closeLog", "exited"} => AllGone

\* A thread in LogWrite is alive; a file that is not open is being reopened, or
\* could not be, or nobody is left to write to it.
LogOK ==
    /\ main \in {"reclose", "refopen"} => s_mutex = "main"
    /\ writing["server"] # "no" => ~ ServerGone
    /\ writing["radio"] # "no" => ~ RadioGone
    /\ writing["timer"] # "no" => timer = "run"
    /\ s_file = "open" \/ reopenFailed \/ s_mutex = "main" \/ AllGone

\* What is on the way between the host and the device: nothing says which
\* question an answer belongs to, but the line keeps their order.
Keys == {"key"} \X Nat \X Values
Asks == {Octet("V"), Octet("A")} \cup {"response"} \X Keys

\* What is before the host and not read yet.
Stream == tts.buf \o input \o coming

\* What of it the host may still take for a challenge.
Unread == IF tts.at = "readChallenge" THEN Stream ELSE input \o coming

\* Keys come in ascending order, and no success behind one: it was the answer
\* to a response to an earlier key, which is read before the response is sent.
KeysInOrder(s) ==
    \A i, j \in DOMAIN s : i < j /\ s[i] \in Keys =>
        s[j] # Octet("P") /\ (s[j] \in Keys => s[i][2] < s[j][2])

\* A key follows two prompts.
PromptsLead(s) ==
    \A i \in DOMAIN s : s[i] = Octet(">") =>
        /\ i + 1 \in DOMAIN s
        /\ s[i + 1] = Octet(">") => i + 2 \in DOMAIN s /\ s[i + 2] \in Keys

\* The responses on their way are to keys before those that are not read yet.
AnswersEarlier(s, q) ==
    \A i \in DOMAIN s, k \in DOMAIN q :
        s[i] \in Keys /\ q[k][1] = "response" => q[k][2][2] < s[i][2]

KnownKeys(s, q, challenge) ==
    /\ \A i \in DOMAIN s : s[i] \in Keys => s[i][2] <= challenge
    /\ \A k \in DOMAIN q : q[k][1] = "response" => q[k][2][2] <= challenge

StreamOK(s, q, challenge) ==
    KeysInOrder(s) /\ PromptsLead(s) /\ AnswersEarlier(s, q) /\ KnownKeys(s, q, challenge)

\* In the last read, only the response just sent may be the right one, and a
\* success is the answer to it.
ResultOK ==
    /\ \A k \in 1 .. Len(asked) - 1 :
          asked[k][1] = "response" => asked[k][2][2] < device.challenge
    /\ \A i \in DOMAIN Stream :
          Stream[i] = Octet("P") => asked = <<>> /\ device.open

Genuine ==
    /\ asked \in Seq(Asks)
    /\ tts.at \in {"version", "auth"} => tts.buf = <<>>
    /\ StreamOK(Unread, asked, device.challenge)
    /\ tts.at = "readResult" => ResultOK
    /\ tts.at = "open" => asked = <<>> /\ device.open

\* Nothing is known of the stream once an octet has passed for another.
AuthOK == mistaken \in BOOLEAN /\ (~ mistaken => Genuine)

IInv == TasksOK /\ TtsOK /\ AuthOK /\ LogTypeOK /\ LifeOK /\ LogOK

-----------------------------------------------------------------------------
(* The parts of TtsHandshake and Log.                                      *)

LEMMA RetryTyped ==
    ASSUME TtsOK, tts.at \in Tries, NEW first \in Tries, NEW last \in {"plain", "refused"},
           Retry(first, last), UNCHANGED <<input, coming, device>>
    PROVE  TtsOK'
  BY HandshakeAssumption DEF TtsOK, Retry, Tries, Reads

LEMMA JudgeTyped ==
    ASSUME TtsOK, Judge
    PROVE  TtsOK'
<1>1. CASE tts.at = "readVersion" /\ VersionRead
  <2>1. UNCHANGED <<input, coming, device>>
    BY DEF Judge
  <2>2. CASE tts' = [at |-> "auth", cnt |-> 0, buf |-> <<>>]
    BY <2>1, <2>2, HandshakeAssumption DEF TtsOK, Tries, Reads
  <2>3. CASE Retry("version", "plain")
    BY <1>1, <2>1, <2>3, RetryTyped DEF Tries, Reads
  <2> QED
    BY <1>1, <2>2, <2>3 DEF VersionRead, RetryVersion
<1>2. CASE tts.at = "readChallenge" /\ ChallengeRead
  <2>1. UNCHANGED <<input, coming, device>>
    BY DEF Judge
  <2>2. CASE tts' = [tts EXCEPT !.at = "readResult", !.buf = <<>>]
    <3>1. tts' = [at |-> "readResult", cnt |-> tts.cnt, buf |-> <<>>]
      BY <2>2 DEF TtsOK
    <3>2. tts.cnt \in 0 .. MAX_AUTH_ATTEMPTS /\ tts.cnt < MAX_AUTH_ATTEMPTS
      BY <1>2 DEF TtsOK, Tries, Reads
    <3> QED
      BY <2>1, <3>1, <3>2, HandshakeAssumption DEF TtsOK, Tries, Reads
  <2>3. CASE Retry("auth", "refused")
    BY <1>2, <2>1, <2>3, RetryTyped DEF Tries, Reads
  <2> QED
    BY <1>2, <2>2, <2>3 DEF ChallengeRead, RetryAuth
<1>3. CASE tts.at = "readResult" /\ ResultRead
  <2>1. UNCHANGED <<input, coming, device>>
    BY DEF Judge
  <2>2. CASE tts' = [tts EXCEPT !.at = "open", !.buf = <<>>]
    <3>1. tts' = [at |-> "open", cnt |-> tts.cnt, buf |-> <<>>]
      BY <2>2 DEF TtsOK
    <3>2. tts.cnt \in 0 .. MAX_AUTH_ATTEMPTS /\ tts.cnt < MAX_AUTH_ATTEMPTS
      BY <1>3 DEF TtsOK, Tries, Reads
    <3> QED
      BY <2>1, <3>1, <3>2, HandshakeAssumption DEF TtsOK, Tries, Reads
  <2>3. CASE Retry("auth", "refused")
    BY <1>3, <2>1, <2>3, RetryTyped DEF Tries, Reads
  <2> QED
    BY <1>3, <2>2, <2>3 DEF ResultRead, RetryAuth
<1> QED
  BY <1>1, <1>2, <1>3 DEF Judge

LEMMA AskTyped ==
    ASSUME TtsOK, NEW from \in {"version", "auth"}, NEW what,
           NEW to \in {"readVersion", "readChallenge"}, Ask(from, what, to)
    PROVE  TtsOK'
<1>1. input' = <<>> /\ UNCHANGED <<coming, device>> /\ tts.at \in Tries
  BY DEF Ask, Tries, Reads
<1>2. tts' = [at |-> to, cnt |-> tts.cnt, buf |-> tts.buf]
  BY DEF Ask, TtsOK
<1> QED
  BY <1>1, <1>2 DEF TtsOK, Tries, Reads

LEMMA AskFailsTyped ==
    ASSUME TtsOK, AskFails
    PROVE  TtsOK'
<1>1. input' = <<>> /\ UNCHANGED <<coming, device>>
  BY DEF AskFails
<1>2. CASE tts.at = "version" /\ Retry("version", "plain")
  BY <1>1, <1>2, HandshakeAssumption DEF TtsOK, Retry, Tries, Reads
<1>3. CASE tts.at = "auth" /\ Retry("auth", "refused")
  BY <1>1, <1>3, HandshakeAssumption DEF TtsOK, Retry, Tries, Reads
<1> QED
  BY <1>2, <1>3 DEF AskFails, RetryVersion, RetryAuth

LEMMA RecvTyped ==
    ASSUME TtsOK, Recv
    PROVE  TtsOK'
<1> DEFINE n == IF Len(input) < Room THEN Len(input) ELSE Room
           part == SubSeq(input, 1, n)
<1>1. /\ input \in Seq(Octets) /\ tts.buf \in Seq(Octets) /\ n \in 1 .. Len(input)
      /\ n <= BufLen - Len(tts.buf)
  BY HandshakeAssumption, SMTT(30) DEF Recv, TtsOK, Room
<1>2. part \in Seq(Octets) /\ Len(part) = n
  BY <1>1
<1>3. SubSeq(input, n + 1, Len(input)) \in Seq(Octets)
  BY <1>1
<1>4. tts.buf \o part \in Seq(Octets) /\ Len(tts.buf \o part) <= BufLen
  BY <1>1, <1>2, HandshakeAssumption
<1>5. /\ tts' = [tts EXCEPT !.buf = tts.buf \o part]
      /\ input' = SubSeq(input, n + 1, Len(input))
      /\ UNCHANGED <<coming, device>>
  BY DEF Recv, TtsOK
<1> HIDE DEF n, part
<1> QED
  BY <1>3, <1>4, <1>5 DEF TtsOK

LEMMA HostTyped ==
    ASSUME TtsOK, OnStart \/ OnStartFails
    PROVE  TtsOK'
<1>1. CASE QueryVersion
  BY <1>1, AskTyped DEF QueryVersion
<1>2. CASE Authenticate
  BY <1>2, AskTyped DEF Authenticate
<1> QED
  BY <1>1, <1>2, AskFailsTyped, RecvTyped, JudgeTyped DEF OnStart, OnStartFails, EndRead,
     ReadFails

LEMMA AnswerTyped ==
    ASSUME NEW S, NEW a \in S, NEW b \in S
    PROVE  <<a, b>> \in Seq(S) /\ (\A c \in S : <<a, b, c>> \in Seq(S))
  OBVIOUS

LEMMA LineTyped ==
    ASSUME TtsOK, Outside
    PROVE  TtsOK'
<1>1. CASE DeviceAnswers
  <2> DEFINE n == device.challenge + 1
  <2>1. UNCHANGED <<tts, input>>
    BY <1>1 DEF DeviceAnswers
  <2>2. coming \in Seq(Octets) /\ device.challenge \in Nat
    BY DEF TtsOK
  <2>3. CASE coming' = coming \o <<Octet("Time Trax"), Octet("Version"), Octet("lf")>>
             /\ UNCHANGED device
    <3>1. Octet("Time Trax") \in Octets /\ Octet("Version") \in Octets /\ Octet("lf")
       \in Octets
      BY DEF Octet, Octets, Sorts, Values
    <3>2. <<Octet("Time Trax"), Octet("Version"), Octet("lf")>> \in Seq(Octets)
      BY <3>1, AnswerTyped
    <3>3. \E answer \in Seq(Octets) : coming' = coming \o answer
      BY <2>3, <3>2
    <3>4. coming' \in Seq(Octets)
      BY <2>2, <3>3
    <3> QED
      BY <2>1, <2>3, <3>4 DEF TtsOK
  <2>4. ASSUME NEW v \in AnyValue,
               coming' = coming \o <<Octet(">"), Octet(">"), Key(n, v)>>,
               device' = [challenge |-> n, value |-> v, open |-> FALSE]
        PROVE  TtsOK'
    <3>1. Octet(">") \in Octets
      BY DEF Octet, Octets, Sorts, Values
    <3>2. n \in Nat
      BY <2>2
    <3> HIDE DEF n
    <3>3. Key(n, v) \in Octets /\ v \in Values
      BY <3>2 DEF Octets, Key, Sorts, Values
    <3>4. coming' \in Seq(Octets)
      BY <2>2, <2>4, <3>1, <3>3, AnswerTyped
    <3>5. device' \in [challenge : Nat, value : Values \cup {"none"}, open : BOOLEAN]
      BY <2>4, <3>2, <3>3
    <3> QED
      BY <2>1, <3>4, <3>5 DEF TtsOK
  <2>5. ASSUME NEW right \in BOOLEAN,
               coming' = coming \o <<Octet(IF right THEN "P" ELSE "F"), Octet("lf")>>,
               device' = [device EXCEPT !.open = right]
        PROVE  TtsOK'
    <3>1. Octet(IF right THEN "P" ELSE "F") \in Octets /\ Octet("lf") \in Octets
      BY DEF Octet, Octets, Sorts, Values
    <3>2. device' \in [challenge : Nat, value : Values \cup {"none"}, open : BOOLEAN]
      BY <2>5 DEF TtsOK
    <3>3. <<Octet(IF right THEN "P" ELSE "F"), Octet("lf")>> \in Seq(Octets)
      BY <3>1, AnswerTyped
    <3>4. coming' \in Seq(Octets)
      BY <2>2, <2>5, <3>3
    <3> QED
      BY <2>1, <3>2, <3>4 DEF TtsOK
  <2> QED
    BY <1>1, <2>3, <2>4, <2>5 DEF DeviceAnswers
<1>2. CASE DeviceIgnores
  BY <1>2 DEF DeviceIgnores, TtsOK
<1>3. CASE Noise
  <2>1. \A v \in AnyValue : <<"noise", 0, v>> \in Octets
    BY DEF Octets, Sorts, Values
  <2> QED
    BY <1>3, <2>1 DEF Noise, TtsOK
<1>4. CASE Arrive
  <2>1. Head(coming) \in Octets /\ Tail(coming) \in Seq(Octets)
    BY <1>4 DEF Arrive, TtsOK
  <2> QED
    BY <1>4, <2>1 DEF Arrive, TtsOK
<1> QED
  BY <1>1, <1>2, <1>3, <1>4 DEF Outside

LEMMA OverTyped ==
    ASSUME TtsOK, HandshakeOver
    PROVE  TtsOK'
  BY HandshakeAssumption DEF TtsOK, HandshakeOver, Tries, Reads

LEMMA LogTestTyped ==
    ASSUME LogTypeOK, NEW t \in Writers, LogTest(t) \/ LogWrite(t)
    PROVE  LogTypeOK'
  BY LogAssumption DEF LogTypeOK, LogTest, LogWrite, LogLock, LogPrint

LEMMA LogMainTyped ==
    ASSUME LogTypeOK,
           \/ LogOpen \/ LogClose \/ ReopenClose \/ ReopenClear
           \/ s_mutex = "main" /\ ReopenOpen
           \/ UNCHANGED logVars
    PROVE  LogTypeOK'
  BY LogAssumption DEF LogTypeOK, logVars, LogOpen, LogClose, ReopenClose, ReopenClear,
     ReopenOpen

-----------------------------------------------------------------------------
(* The stream of octets between the device and the host.                   *)

\* t is what remains of s when its first octets have been taken.
Rest(t, s) ==
    \E n \in 0 .. Len(s) :
        Len(t) = Len(s) - n /\ \A k \in 1 .. Len(t) : t[k] = s[n + k]

LEMMA RestOK ==
    ASSUME NEW s \in Seq(Octets), NEW t \in Seq(Octets), NEW q, NEW challenge,
           Rest(t, s), StreamOK(s, q, challenge)
    PROVE  StreamOK(t, q, challenge)
<1>1. PICK n \in 0 .. Len(s) :
           Len(t) = Len(s) - n /\ \A k \in 1 .. Len(t) : t[k] = s[n + k]
  BY DEF Rest
<1>2. /\ DOMAIN s = 1 .. Len(s) /\ DOMAIN t = 1 .. Len(t) /\ n \in Nat
      /\ Len(s) \in Nat /\ Len(t) \in Nat
  OBVIOUS
<1>3. \A k \in DOMAIN t : n + k \in DOMAIN s /\ t[k] = s[n + k]
  BY <1>1, <1>2
<1>4. \A k \in Int : k \in DOMAIN t <=> k > 0 /\ n + k \in DOMAIN s
  BY <1>1, <1>2
<1>5. KeysInOrder(t)
  <2> SUFFICES ASSUME NEW i \in DOMAIN t, NEW j \in DOMAIN t, i < j, t[i] \in Keys
               PROVE  t[j] # Octet("P") /\ (t[j] \in Keys => t[i][2] < t[j][2])
    BY DEF KeysInOrder
  <2>1. n + i < n + j
    BY <1>2
  <2> QED
    BY <1>3, <2>1 DEF StreamOK, KeysInOrder
<1>6. PromptsLead(t)
  <2> SUFFICES ASSUME NEW i \in DOMAIN t, t[i] = Octet(">")
               PROVE  /\ i + 1 \in DOMAIN t
                      /\ t[i + 1] = Octet(">") => i + 2 \in DOMAIN t /\ t[i + 2] \in Keys
    BY DEF PromptsLead
  <2>1. (n + i) + 1 = n + (i + 1) /\ (n + i) + 2 = n + (i + 2) /\ i + 1 > 0 /\ i + 2 > 0
        /\ i + 1 \in Int /\ i + 2 \in Int
    BY <1>2, SMTT(30)
  <2>2. n + (i + 1) \in DOMAIN s
        /\ (s[n + (i + 1)] = Octet(">") => n + (i + 2) \in DOMAIN s /\ s[n + (i + 2)] \in Keys)
    BY <1>3, <2>1 DEF StreamOK, PromptsLead
  <2> QED
    BY <1>3, <1>4, <2>1, <2>2
<1>7. AnswersEarlier(t, q)
  BY <1>3 DEF StreamOK, AnswersEarlier
<1>8. KnownKeys(t, q, challenge)
  BY <1>3 DEF StreamOK, KnownKeys
<1> QED
  BY <1>5, <1>6, <1>7, <1>8 DEF StreamOK

LEMMA FewerOK ==
    ASSUME NEW s, NEW q, NEW r, NEW challenge, StreamOK(s, q, challenge),
           \A k \in DOMAIN r : \E j \in DOMAIN q : r[k] = q[j]
    PROVE  StreamOK(s, r, challenge)
  BY DEF StreamOK, AnswersEarlier, KnownKeys

LEMMA MoreOK ==
    ASSUME NEW s, NEW q \in Seq(Asks), NEW a \in Asks, NEW challenge, StreamOK(s, q, challenge),
           a[1] = "response" =>
              a[2][2] <= challenge /\ \A i \in DOMAIN s : s[i] \in Keys => a[2][2] < s[i][2]
    PROVE  Append(q, a) \in Seq(Asks) /\ StreamOK(s, Append(q, a), challenge)
<1>1. PICK r : r = Append(q, a)
  OBVIOUS
<1>2. r \in Seq(Asks) /\ \A k \in DOMAIN r : r[k] = a \/ \E j \in DOMAIN q : r[k] = q[j]
  <2>1. r \in Seq(Asks) /\ Len(r) = Len(q) + 1 /\ Len(q) \in Nat
        /\ r[Len(q) + 1] = a /\ \A k \in 1 .. Len(q) : r[k] = q[k]
    BY <1>1
  <2>2. DOMAIN r = 1 .. Len(q) + 1 /\ DOMAIN q = 1 .. Len(q)
    BY <2>1
  <2>3. ASSUME NEW k \in DOMAIN r PROVE k = Len(q) + 1 \/ k \in 1 .. Len(q)
    BY <2>1, <2>2
  <2> QED
    BY <2>1, <2>2, <2>3
<1> QED
  BY <1>1, <1>2 DEF StreamOK, AnswersEarlier, KnownKeys

-----------------------------------------------------------------------------

LEMMA AnsweredOK ==
    ASSUME NEW s \in Seq(Octets), NEW u \in Seq(Octets), NEW q, NEW challenge,
           StreamOK(s, q, challenge),
           \A k \in DOMAIN u : u[k] \notin Keys /\ u[k] # Octet(">"),
           (\E k \in DOMAIN u : u[k] = Octet("P")) => \A i \in DOMAIN s : s[i] \notin Keys
    PROVE  StreamOK(s \o u, q, challenge)
<1>1. PICK t : t = s \o u
  OBVIOUS
<1>2. /\ DOMAIN s = 1 .. Len(s) /\ DOMAIN u = 1 .. Len(u) /\ Len(s) \in Nat /\ Len(u) \in Nat
      /\ DOMAIN t = 1 .. Len(s) + Len(u)
      /\ \A j \in DOMAIN t : t[j] = IF j <= Len(s) THEN s[j] ELSE u[j - Len(s)]
  BY <1>1, ConcatFacts
<1>3. \A j \in DOMAIN t : \/ j \in DOMAIN s /\ t[j] = s[j]
                          \/ j > Len(s) /\ \E k \in DOMAIN u : t[j] = u[k]
  <2> SUFFICES ASSUME NEW j \in DOMAIN t
               PROVE  \/ j \in DOMAIN s /\ t[j] = s[j]
                      \/ j > Len(s) /\ \E k \in DOMAIN u : t[j] = u[k]
    OBVIOUS
  <2>1. CASE j <= Len(s)
    BY <1>2, <2>1
  <2>2. CASE ~ (j <= Len(s))
    <3>1. j - Len(s) \in DOMAIN u /\ j > Len(s)
      BY <1>2, <2>2
    <3> QED
      BY <1>2, <2>2, <3>1
  <2> QED
    BY <2>1, <2>2
<1>4. \A i \in DOMAIN s : i \in DOMAIN t /\ t[i] = s[i] /\ i <= Len(s)
  BY <1>2
<1>5. \A j \in DOMAIN t : t[j] \in Keys \/ t[j] = Octet(">") => j \in DOMAIN s /\ t[j] = s[j]
  BY <1>3
<1>6. KeysInOrder(t)
  <2> SUFFICES ASSUME NEW i \in DOMAIN t, NEW j \in DOMAIN t, i < j, t[i] \in Keys
               PROVE  t[j] # Octet("P") /\ (t[j] \in Keys => t[i][2] < t[j][2])
    BY DEF KeysInOrder
  <2>1. i \in DOMAIN s /\ s[i] \in Keys /\ t[i] = s[i]
    BY <1>5
  <2>2. CASE j \in DOMAIN s /\ t[j] = s[j]
    BY <2>1, <2>2 DEF StreamOK, KeysInOrder
  <2>3. CASE \E k \in DOMAIN u : t[j] = u[k]
    BY <2>1, <2>3
  <2> QED
    BY <1>3, <2>2, <2>3
<1>7. PromptsLead(t)
  <2> SUFFICES ASSUME NEW i \in DOMAIN t, t[i] = Octet(">")
               PROVE  /\ i + 1 \in DOMAIN t
                      /\ t[i + 1] = Octet(">") => i + 2 \in DOMAIN t /\ t[i + 2] \in Keys
    BY DEF PromptsLead
  <2> QED
    BY <1>4, <1>5 DEF StreamOK, PromptsLead
<1>8. AnswersEarlier(t, q) /\ KnownKeys(t, q, challenge)
  BY <1>5 DEF StreamOK, AnswersEarlier, KnownKeys
<1> QED
  BY <1>1, <1>6, <1>7, <1>8 DEF StreamOK

LEMMA ChallengedOK ==
    ASSUME NEW s \in Seq(Octets), NEW q \in Seq(Asks), NEW challenge \in Nat,
           NEW v \in AnyValue, StreamOK(s, q, challenge)
    PROVE  StreamOK(s \o <<Octet(">"), Octet(">"), Key(challenge + 1, v)>>, q, challenge + 1)
<1>1. PICK next \in Nat : next = challenge + 1
  OBVIOUS
<1>2. PICK prompt \in Octets : prompt = Octet(">")
  BY DEF Octet, Octets, Sorts, Values
<1>3. PICK key \in Octets : key = Key(next, v)
  BY DEF Octets, Key, Sorts, Values
<1>4. key \in Keys /\ key[2] = next /\ prompt \notin Keys /\ prompt # key /\ key # Octet("P")
  BY <1>2, <1>3 DEF Keys, Key, Octet, Values
<1>5. PICK u : u = <<prompt, prompt, key>>
  OBVIOUS
<1>6. u \in Seq(Octets) /\ Len(u) = 3 /\ u[1] = prompt /\ u[2] = prompt /\ u[3] = key
  BY <1>5
<1>7. PICK t : t = s \o u
  OBVIOUS
<1>8. PICK n \in Nat : n = Len(s)
  OBVIOUS
<1>9. /\ DOMAIN s = 1 .. n /\ DOMAIN t = 1 .. n + 3
      /\ \A j \in 1 .. n + 3 : t[j] = IF j <= n THEN s[j] ELSE u[j - n]
  <2>1. /\ t \in Seq(Octets) /\ Len(t) = Len(s) + Len(u)
        /\ \A j \in 1 .. Len(s) + Len(u) : t[j] = IF j <= Len(s) THEN s[j] ELSE u[j - Len(s)]
    BY <1>6, <1>7, ConcatFacts
  <2>2. Len(s) = n /\ Len(u) = 3 /\ Len(t) = n + 3
    BY <1>6, <1>8, <2>1
  <2>3. DOMAIN s = 1 .. n /\ DOMAIN t = 1 .. n + 3
    BY <2>1, <2>2, LenProperties
  <2>4. \A j \in 1 .. n + 3 : t[j] = IF j <= n THEN s[j] ELSE u[j - n]
    BY ONLY <2>1, <2>2, Zenon
  <2> QED
    BY <2>3, <2>4
<1>10. /\ \A j \in DOMAIN s : j \in DOMAIN t /\ t[j] = s[j] /\ j <= n
       /\ t[n + 1] = prompt /\ t[n + 2] = prompt /\ t[n + 3] = key
  <2>1. \A j \in 1 .. n : j \in 1 .. n + 3 /\ j <= n
    OBVIOUS
  <2>2. \A j \in DOMAIN s : j \in DOMAIN t /\ t[j] = s[j] /\ j <= n
    BY ONLY <1>9, <2>1, Zenon
  <2>3. /\ n + 1 \in 1 .. n + 3 /\ n + 2 \in 1 .. n + 3 /\ n + 3 \in 1 .. n + 3
        /\ ~ (n + 1 <= n) /\ ~ (n + 2 <= n) /\ ~ (n + 3 <= n)
        /\ (n + 1) - n = 1 /\ (n + 2) - n = 2 /\ (n + 3) - n = 3
    OBVIOUS
  <2>4. t[n + 1] = u[1] /\ t[n + 2] = u[2] /\ t[n + 3] = u[3]
    BY ONLY <1>9, <2>3
  <2> QED
    BY <1>6, <2>2, <2>4
<1>11. \A j \in DOMAIN t : j \in DOMAIN s \/ j = n + 1 \/ j = n + 2 \/ j = n + 3
  <2>1. \A j \in 1 .. n + 3 : j \in 1 .. n \/ j = n + 1 \/ j = n + 2 \/ j = n + 3
    OBVIOUS
  <2> QED
    BY ONLY <1>9, <2>1, Zenon
<1>12. \A j \in DOMAIN t : (j \in DOMAIN s /\ t[j] = s[j]) \/ t[j] = prompt \/ (j = n + 3 /\ t[j] = key)
  BY <1>10, <1>11
<1>13. \A j \in DOMAIN t : 
           t[j] \in Keys => (j \in DOMAIN s /\ t[j] = s[j]) \/ (j = n + 3 /\ t[j] = key)
  BY <1>4, <1>12
<1>14. \A j \in DOMAIN s : s[j] \in Keys => s[j][2] \in Nat /\ s[j][2] <= challenge
  BY DEF StreamOK, KnownKeys, Keys
<1>15. KeysInOrder(t)
  <2> SUFFICES ASSUME NEW i \in DOMAIN t, NEW j \in DOMAIN t, i < j, t[i] \in Keys
               PROVE  t[j] # Octet("P") /\ (t[j] \in Keys => t[i][2] < t[j][2])
    BY DEF KeysInOrder
  <2>1. i # n + 3
    BY <1>9
  <2>2. i \in DOMAIN s /\ t[i] = s[i]
    BY <1>13, <2>1
  <2>3. CASE j \in DOMAIN s
    BY <1>10, <2>2, <2>3 DEF StreamOK, KeysInOrder
  <2>4. CASE t[j] = prompt
    BY <1>2, <1>4, <2>4 DEF Octet
  <2>5. CASE t[j] = key
    BY <1>1, <1>4, <1>14, <2>2, <2>5
  <2> QED
    BY <1>12, <2>3, <2>4, <2>5
<1>16. PromptsLead(t)
  <2> SUFFICES ASSUME NEW i \in DOMAIN t, t[i] = Octet(">")
               PROVE  /\ i + 1 \in DOMAIN t
                      /\ t[i + 1] = Octet(">") => i + 2 \in DOMAIN t /\ t[i + 2] \in Keys
    BY DEF PromptsLead
  <2>1. CASE i \in DOMAIN s
    <3>1. /\ i + 1 \in DOMAIN s
          /\ s[i + 1] = Octet(">") => i + 2 \in DOMAIN s /\ s[i + 2] \in Keys
      BY <1>10, <2>1 DEF StreamOK, PromptsLead
    <3> QED
      BY <1>10, <3>1
  <2>2. CASE i = n + 1
    BY <1>4, <1>9, <1>10, <2>2
  <2>3. CASE i = n + 2
    BY <1>2, <1>4, <1>9, <1>10, <2>3
  <2>4. i # n + 3
    BY <1>2, <1>4, <1>10
  <2> QED
    BY <1>11, <2>1, <2>2, <2>3, <2>4
<1>17. AnswersEarlier(t, q)
  <2> SUFFICES ASSUME NEW i \in DOMAIN t, NEW k \in DOMAIN q, t[i] \in Keys, q[k][1] = "response"
               PROVE  q[k][2][2] < t[i][2]
    BY DEF AnswersEarlier
  <2>1. CASE i \in DOMAIN s /\ t[i] = s[i]
    BY <2>1 DEF StreamOK, AnswersEarlier
  <2>2. CASE t[i] = key
    <3>1. q[k] \in {"response"} \X Keys
      BY DEF Asks, Octet
    <3>2. q[k][2][2] \in Nat /\ q[k][2][2] <= challenge
      BY <3>1 DEF StreamOK, KnownKeys, Keys
    <3> QED
      BY <1>1, <1>4, <2>2, <3>2
  <2> QED
    BY <1>13, <2>1, <2>2
<1>18. KnownKeys(t, q, next)
  <2>1. ASSUME NEW i \in DOMAIN t, t[i] \in Keys
        PROVE  t[i][2] <= next
    BY <1>1, <1>4, <1>13, <1>14, <2>1
  <2>2. ASSUME NEW k \in DOMAIN q, q[k][1] = "response"
        PROVE  q[k][2][2] <= next
    <3>1. q[k] \in {"response"} \X Keys
      BY <2>2 DEF Asks, Octet
    <3>2. q[k][2][2] \in Nat /\ q[k][2][2] <= challenge
      BY <2>2, <3>1 DEF StreamOK, KnownKeys, Keys
    <3> QED
      BY <1>1, <3>2
  <2> QED
    BY <2>1, <2>2 DEF KnownKeys
<1>19. StreamOK(t, q, next)
  BY <1>15, <1>16, <1>17, <1>18 DEF StreamOK
<1> QED
  BY <1>1, <1>2, <1>3, <1>5, <1>7, <1>19

LEMMA Rests ==
    ASSUME NEW a \in Seq(Octets), NEW b \in Seq(Octets), NEW c \in Seq(Octets)
    PROVE  /\ b \o c \in Seq(Octets) /\ a \o b \o c \in Seq(Octets)
           /\ <<>> \o c = c /\ <<>> \o b \o c = b \o c
           /\ a \o b \o c = a \o (b \o c)
           /\ Rest(c, c) /\ Rest(b, a \o b) /\ Rest(c, b \o c)
           /\ Rest(c, a \o b \o c) /\ Rest(b \o c, a \o b \o c)
<1>1. ASSUME NEW d \in Seq(Octets), NEW e \in Seq(Octets)
      PROVE  Rest(e, d \o e)
  <2>1. PICK t : t = d \o e
    OBVIOUS
  <2>2. /\ Len(t) = Len(d) + Len(e)
        /\ \A j \in 1 .. Len(d) + Len(e) : t[j] = IF j <= Len(d) THEN d[j] ELSE e[j - Len(d)]
    BY <2>1, ConcatFacts
  <2>3. PICK n \in Nat, m \in Nat : n = Len(d) /\ m = Len(e)
    OBVIOUS
  <2>4. \A k \in 1 .. m : n + k \in 1 .. n + m /\ ~ (n + k <= n) /\ (n + k) - n = k
    OBVIOUS
  <2>5. \A k \in 1 .. m : e[k] = t[n + k]
    BY <2>2, <2>3, <2>4
  <2>6. n \in 0 .. Len(t) /\ Len(e) = Len(t) - n
    BY <2>2, <2>3
  <2>7. Rest(e, t)
    BY <2>3, <2>5, <2>6 DEF Rest
  <2> QED
    BY <2>1, <2>7
<1>2. b \o c \in Seq(Octets) /\ a \o b \in Seq(Octets) /\ a \o b \o c \in Seq(Octets)
  OBVIOUS
<1>3. a \o b \o c = a \o (b \o c)
  BY ConcatAssociative
<1>4. <<>> \o c = c /\ <<>> \o b = b
  BY ConcatEmptySeq
<1>5. Rest(c, c)
  <2>1. 0 \in 0 .. Len(c) /\ Len(c) = Len(c) - 0 /\ \A k \in 1 .. Len(c) : c[k] = c[0 + k]
    OBVIOUS
  <2> QED
    BY <2>1 DEF Rest
<1> QED
  BY <1>1, <1>2, <1>3, <1>4, <1>5

LEMMA SplitOnce ==
    ASSUME NEW a \in Seq(Octets), NEW b \in Seq(Octets), NEW c \in Seq(Octets),
           NEW n \in 0 .. Len(b)
    PROVE  /\ a \o SubSeq(b, 1, n) \o SubSeq(b, n + 1, Len(b)) \o c = a \o b \o c
           /\ Rest(SubSeq(b, n + 1, Len(b)) \o c, b \o c)
<1>1a. PICK d : d = SubSeq(b, 1, n)
  OBVIOUS
<1>1. /\ d \in Seq(Octets) /\ d = SubSeq(b, 1, n)
      /\ Len(d) = n /\ \A k \in 1 .. n : d[k] = b[k]
  BY <1>1a, PrefixFacts
<1>2. PICK e : e = SubSeq(b, n + 1, Len(b))
  OBVIOUS
<1>3. e \in Seq(Octets) /\ Len(e) = Len(b) - n /\ \A k \in 1 .. Len(b) - n : e[k] = b[n + k]
  BY <1>2, SuffixFacts
<1>4. d \o e = b
  <2>1. PICK t : t = d \o e
    OBVIOUS
  <2>2. /\ t \in Seq(Octets) /\ Len(t) = Len(d) + Len(e)
        /\ \A j \in 1 .. Len(d) + Len(e) : t[j] = IF j <= Len(d) THEN d[j] ELSE e[j - Len(d)]
    <3>1. d \in Seq(Octets) /\ e \in Seq(Octets)
      BY <1>1, <1>3
    <3> QED
      BY ONLY <2>1, <3>1, ConcatFacts, SMTT(30)
  <2>3. Len(b) \in Nat /\ n \in Nat /\ Len(t) = Len(b)
    BY <1>1, <1>3, <2>2
  <2>4. ASSUME NEW j \in 1 .. Len(b) PROVE t[j] = b[j]
    <3>0. t[j] = IF j <= n THEN d[j] ELSE e[j - n]
      <4>1. Len(d) = n /\ Len(d) + Len(e) = Len(b) /\ j \in 1 .. Len(b)
        BY <1>1, <2>2, <2>3
      <4> QED
        BY ONLY <2>2, <4>1
    <3>1. CASE j <= n
      <4>1. j \in 1 .. n
        BY <2>3, <3>1
      <4> QED
        BY <1>1, <3>0, <3>1, <4>1
    <3>2. CASE ~ (j <= n)
      <4>1. j - n \in 1 .. Len(b) - n /\ n + (j - n) = j
        BY <2>3, <3>2
      <4>2. e[j - n] = b[n + (j - n)]
        BY ONLY <1>3, <4>1
      <4> QED
        BY <3>0, <3>2, <4>1, <4>2
    <3> QED
      BY <3>1, <3>2
  <2>5. t = b
    BY <2>2, <2>3, <2>4, SeqEqual
  <2> QED
    BY <2>1, <2>5
<1>5. a \o d \o e = a \o b
  <2>0. e \in Seq(Octets) /\ d \in Seq(Octets)
    BY <1>1, <1>3
  <2>1. a \o d \o e = a \o (d \o e)
    BY <2>0, ConcatAssociative, SMTT(30)
  <2> QED
    BY <1>4, <2>1
<1>6. Rest(e \o c, d \o e \o c)
  <2>1. c \in Seq(Octets) /\ d \in Seq(Octets) /\ e \in Seq(Octets)
    BY <1>1, <1>3
  <2> QED
    BY ONLY <2>1, Rests, SMTT(30)
<1> QED
  BY <1>1, <1>2, <1>4, <1>5, <1>6

LEMMA MoveOne ==
    ASSUME NEW a \in Seq(Octets), NEW b \in Seq(Octets), NEW c \in Seq(Octets), c # <<>>
    PROVE  /\ Append(b, Head(c)) \o Tail(c) = b \o c
           /\ a \o Append(b, Head(c)) \o Tail(c) = a \o b \o c
<1> Head(c) \in Octets /\ Tail(c) \in Seq(Octets)
  BY ToSetTail
<1>1. PICK h \in Octets : h = Head(c)
  OBVIOUS
<1>2. PICK r \in Seq(Octets) : r = Tail(c)
  OBVIOUS
<1>3. c = <<h>> \o r
  BY <1>1, <1>2
<1>4. <<h>> \in Seq(Octets) /\ Append(b, h) = b \o <<h>>
  OBVIOUS
<1>5. b \o <<h>> \o r = b \o c
  BY <1>3, <1>4, Rests
<1>6. a \o (b \o <<h>>) \o r = a \o (b \o <<h>> \o r)
  <2>1. b \o <<h>> \in Seq(Octets)
    BY <1>4
  <2> QED
    BY <2>1, ConcatAssociative, SMTT(30)
<1>7. a \o b \o c = a \o (b \o c)
  BY Rests, SMTT(30)
<1> QED
  BY <1>1, <1>2, <1>4, <1>5, <1>6, <1>7

LEMMA Streams ==
    ASSUME TtsOK
    PROVE  /\ tts.buf \in Seq(Octets) /\ input \in Seq(Octets) /\ coming \in Seq(Octets)
           /\ Stream \in Seq(Octets) /\ Unread \in Seq(Octets) /\ device.challenge \in Nat
           /\ input \o coming \in Seq(Octets) /\ Stream = tts.buf \o (input \o coming)
           /\ Rest(input \o coming, Unread) /\ Rest(coming, Unread)
<1>1. /\ tts.buf \in Seq(Octets) /\ input \in Seq(Octets) /\ coming \in Seq(Octets)
      /\ device.challenge \in Nat
  BY DEF TtsOK
<1>2. ASSUME NEW s \in Seq(Octets) PROVE Rest(s, s)
  BY DEF Rest
<1>3. /\ input \o coming \in Seq(Octets) /\ Stream \in Seq(Octets)
      /\ Stream = tts.buf \o (input \o coming)
  BY <1>1, Rests DEF Stream
<1>4. CASE tts.at = "readChallenge"
  <2>1. Unread = Stream
    BY <1>4 DEF Unread
  <2>2. Rest(input \o coming, Stream) /\ Rest(coming, Stream)
    BY <1>1, Rests DEF Stream
  <2> QED
    BY <1>1, <1>3, <2>1, <2>2
<1>5. CASE tts.at # "readChallenge"
  <2>1. Unread = input \o coming
    BY <1>5 DEF Unread
  <2>2. Rest(coming, input \o coming)
    BY <1>1, Rests
  <2> QED
    BY <1>1, <1>2, <1>3, <2>1, <2>2
<1> QED
  BY <1>4, <1>5

\* OnStart leaves a read, or does not begin one: what was read is dropped.
LEMMA LeaveAuth ==
    ASSUME TtsOK, Genuine, TtsOK', UNCHANGED <<asked, coming, device>>,
           input' \in {input, <<>>}, tts'.buf = <<>>,
           tts'.at \in {"version", "auth", "plain", "refused"}
    PROVE  Genuine'
<1>1. Unread' = input' \o coming
  BY DEF Unread
<1>2. Unread' = input \o coming \/ Unread' = coming
  BY <1>1, Streams, Rests
<1>3. Rest(Unread', Unread) /\ Unread' \in Seq(Octets)
  BY <1>2, Streams
<1>4. StreamOK(Unread', asked', device.challenge')
  BY <1>3, RestOK, Streams DEF Genuine
<1> QED
  BY <1>4 DEF Genuine

LEMMA JudgeAuth ==
    ASSUME TtsOK, Genuine, TtsOK', Judge, ~ mistaken'
    PROVE  Genuine'
<1>1. UNCHANGED <<input, coming, device>> /\ tts.at \in Reads
  BY DEF Judge, Reads
<1>2. ASSUME NEW first \in {"version", "auth"}, NEW last \in {"plain", "refused"},
             Retry(first, last), UNCHANGED asked
      PROVE  Genuine'
  <2>1. tts'.buf = <<>> /\ tts'.at \in {first, last}
    BY <1>2 DEF Retry
  <2> QED
    BY <1>1, <1>2, <2>1, LeaveAuth
<1>3. CASE tts.at = "readVersion" /\ VersionRead /\ UNCHANGED asked
  <2>1. CASE tts' = [at |-> "auth", cnt |-> 0, buf |-> <<>>]
    BY <1>1, <1>3, <2>1, LeaveAuth
  <2> QED
    BY <1>2, <1>3, <2>1 DEF VersionRead, RetryVersion
<1>4. CASE /\ tts.at = "readChallenge" /\ IsChallenge(tts.buf)
           /\ tts' = [tts EXCEPT !.at = "readResult", !.buf = <<>>]
           /\ asked' = Append(asked, <<"response", tts.buf[3]>>)
           /\ ~ \E i \in {1, 2} : PassesFor(tts.buf[i], ">")
  <2>1. PICK s \in Seq(Octets) : s = Stream
    BY Streams
  <2>2. StreamOK(s, asked, device.challenge) /\ Unread = s
    BY <1>4, <2>1 DEF Genuine, Unread
  <2>3. PICK buf \in Seq(Octets) : buf = tts.buf
    BY Streams
  <2>4. Len(buf) >= 3 /\ buf[1] = Octet(">") /\ buf[2] = Octet(">")
    BY <1>4, <2>3 DEF IsChallenge, PassesFor
  <2>5. input \o coming \in Seq(Octets) /\ s = buf \o (input \o coming)
    BY <2>1, <2>3, Streams, Rests DEF Stream
  <2>6. PICK r \in Seq(Octets) : r = input \o coming
    BY <2>5
  <2>7. /\ Len(s) = Len(buf) + Len(r)
        /\ \A j \in 1 .. Len(buf) + Len(r) :
              s[j] = IF j <= Len(buf) THEN buf[j] ELSE r[j - Len(buf)]
    BY <2>5, <2>6, ConcatFacts
  <2>8. DOMAIN s = 1 .. Len(s) /\ DOMAIN r = 1 .. Len(r) /\ Len(r) \in Nat /\ Len(buf) \in Nat
    OBVIOUS
  <2>9. 1 \in DOMAIN s /\ 2 \in DOMAIN s /\ 3 \in DOMAIN s /\ s[1] = buf[1] /\ s[2] = buf[2]
        /\ s[3] = buf[3]
    BY <2>4, <2>7, <2>8
  <2>10. s[3] \in Keys
    <3>1. s[1 + 1] = Octet(">") => s[1 + 2] \in Keys
      BY <2>2, <2>4, <2>9 DEF StreamOK, PromptsLead
    <3> QED
      BY <2>4, <2>9, <3>1
  <2>11. \A j \in DOMAIN r : Len(buf) + j \in DOMAIN s /\ 3 < Len(buf) + j /\ r[j] = s[Len(buf) + j]
    <3> SUFFICES ASSUME NEW j \in DOMAIN r
                 PROVE  Len(buf) + j \in DOMAIN s /\ 3 < Len(buf) + j /\ r[j] = s[Len(buf) + j]
      OBVIOUS
    <3>1. /\ Len(buf) + j \in 1 .. Len(buf) + Len(r) /\ 3 < Len(buf) + j
          /\ ~ (Len(buf) + j <= Len(buf)) /\ (Len(buf) + j) - Len(buf) = j
      BY <2>4, <2>8
    <3> QED
      BY <2>7, <2>8, <3>1
  <2>12. \A j \in DOMAIN r : r[j] # Octet("P") /\ (r[j] \in Keys => s[3][2] < r[j][2])
    BY <2>2, <2>9, <2>10, <2>11 DEF StreamOK, KeysInOrder
  <2>13. StreamOK(r, asked, device.challenge)
    BY <2>2, <2>6, RestOK, Streams
  <2>14. PICK a \in Asks : a = <<"response", s[3]>>
    BY <2>10 DEF Asks
  <2>15. s[3][2] <= device.challenge
    BY <2>2, <2>9, <2>10 DEF StreamOK, KnownKeys
  <2>16. asked \in Seq(Asks)
    BY DEF Genuine
  <2>17. Append(asked, a) \in Seq(Asks) /\ StreamOK(r, Append(asked, a), device.challenge)
    BY <2>12, <2>13, <2>14, <2>15, <2>16, MoreOK
  <2>18. asked' = Append(asked, a) /\ tts'.at = "readResult" /\ tts'.buf = <<>>
    BY <1>4, <2>3, <2>9, <2>14 DEF TtsOK
  <2>19. Unread' = r /\ Stream' = r
    BY <1>1, <2>6, <2>18, Streams, Rests DEF Unread, Stream
  <2>20. ResultOK'
    <3>1. ASSUME NEW k \in 1 .. Len(asked') - 1, asked'[k][1] = "response"
          PROVE  asked'[k][2][2] < device'.challenge
      <4>1. k \in DOMAIN asked /\ asked'[k] = asked[k]
        BY <2>16, <2>18, <3>1
      <4>2. asked[k][2][2] < s[3][2]
        BY <2>2, <2>9, <2>10, <3>1, <4>1 DEF StreamOK, AnswersEarlier
      <4>3. asked[k] \in {"response"} \X Keys
        BY <2>16, <3>1, <4>1 DEF Asks, Octet
      <4>4. asked[k][2][2] \in Nat /\ s[3][2] \in Nat /\ device.challenge \in Nat
        BY <2>10, <4>3, Streams DEF Keys
      <4>5. asked[k][2][2] < device.challenge
        BY <2>15, <4>2, <4>4, SMTT(30)
      <4> QED
        BY <1>1, <4>1, <4>5
    <3>2. \A i \in DOMAIN Stream' : Stream'[i] # Octet("P")
      BY <2>12, <2>19
    <3> QED
      BY <3>1, <3>2 DEF ResultOK
  <2> QED
    BY <1>1, <2>17, <2>18, <2>19, <2>20 DEF Genuine
<1>5. CASE /\ tts.at = "readResult" /\ Len(tts.buf) >= 2 /\ tts.buf[1] = Octet("P")
           /\ tts' = [tts EXCEPT !.at = "open", !.buf = <<>>] /\ UNCHANGED asked
  <2>1. tts'.at = "open" /\ tts'.buf = <<>>
    BY <1>5 DEF TtsOK
  <2>2. 1 \in DOMAIN Stream /\ Stream[1] = tts.buf[1]
    <3>1. PICK buf \in Seq(Octets) : buf = tts.buf
      BY Streams
    <3>2. PICK r \in Seq(Octets) : r = input \o coming
      BY Streams
    <3>3. PICK s \in Seq(Octets) : s = Stream
      BY Streams
    <3>4. s = buf \o r
      BY <3>1, <3>2, <3>3, Streams
    <3>5. Len(s) = Len(buf) + Len(r) /\ (1 <= Len(buf) => s[1] = buf[1])
      BY <3>4, ConcatFacts
    <3> QED
      BY <1>5, <3>1, <3>3, <3>5
  <2>3. asked = <<>> /\ device.open
    BY <1>5, <2>2 DEF Genuine, ResultOK
  <2>4. Unread' = input \o coming
    BY <1>1, <2>1 DEF Unread
  <2>5. StreamOK(input \o coming, asked, device.challenge)
    BY Streams, Rests, RestOK DEF Genuine
  <2> QED
    BY <1>1, <1>5, <2>1, <2>3, <2>4, <2>5 DEF Genuine
<1> QED
  BY <1>2, <1>3, <1>4, <1>5 DEF Judge, ChallengeRead, ResultRead, RetryAuth, PassesFor

LEMMA AskAuth ==
    ASSUME TtsOK, Genuine, NEW from \in {"version", "auth"}, NEW what \in {"V", "A"},
           NEW to \in {"readVersion", "readChallenge"}, Ask(from, what, to)
    PROVE  Genuine'
<1>1. /\ input' = <<>> /\ UNCHANGED <<coming, device>> /\ tts'.at = to /\ tts'.buf = <<>>
      /\ asked' = Append(asked, Octet(what))
  BY DEF Ask, Genuine, TtsOK
<1>2. Unread' = coming
  BY <1>1, Streams, Rests DEF Unread, Stream
<1>3. StreamOK(coming, asked, device.challenge)
  BY Streams, RestOK DEF Genuine
<1>4. Octet(what) \in Asks /\ Octet(what)[1] # "response"
  BY DEF Asks, Octet
<1>5. asked \in Seq(Asks)
  BY DEF Genuine
<1>6. asked' \in Seq(Asks) /\ StreamOK(coming, asked', device.challenge)
  BY <1>1, <1>3, <1>4, <1>5, MoreOK
<1> QED
  BY <1>1, <1>2, <1>6 DEF Genuine

LEMMA RecvAuth ==
    ASSUME TtsOK, Genuine, TtsOK', Recv
    PROVE  Genuine'
<1> DEFINE n == IF Len(input) < Room THEN Len(input) ELSE Room
<1>1. n \in 0 .. Len(input) /\ tts.at \in Reads
  <2>1. Len(input) \in Nat /\ Len(tts.buf) \in Nat /\ Len(tts.buf) <= BufLen
    BY DEF TtsOK
  <2> QED
    BY <2>1, HandshakeAssumption, SMTT(30) DEF Recv, Room
<1>2. /\ tts' = [tts EXCEPT !.buf = tts.buf \o SubSeq(input, 1, n)]
      /\ input' = SubSeq(input, n + 1, Len(input))
      /\ UNCHANGED <<coming, asked, device>>
  BY DEF Recv, TtsOK
<1> HIDE DEF n
<1>3. tts'.at = tts.at /\ tts'.buf = tts.buf \o SubSeq(input, 1, n)
  BY <1>2 DEF TtsOK
<1>4. Stream' = Stream /\ Rest(input' \o coming, input \o coming)
  <2>1. /\ tts.buf \o SubSeq(input, 1, n) \o SubSeq(input, n + 1, Len(input)) \o coming
              = tts.buf \o input \o coming
        /\ Rest(SubSeq(input, n + 1, Len(input)) \o coming, input \o coming)
    <3>1. PICK a \in Seq(Octets), b \in Seq(Octets), c \in Seq(Octets), m \in 0 .. Len(input) :
              a = tts.buf /\ b = input /\ c = coming /\ m = n
      BY <1>1, Streams
    <3> m \in 0 .. Len(b)
      BY <3>1
    <3>2. /\ a \o SubSeq(b, 1, m) \o SubSeq(b, m + 1, Len(b)) \o c = a \o b \o c
          /\ Rest(SubSeq(b, m + 1, Len(b)) \o c, b \o c)
      BY SplitOnce
    <3> QED
      BY <3>1, <3>2
  <2> QED
    BY <1>2, <1>3, <2>1 DEF Stream
<1>5. Unread' \in Seq(Octets) /\ Rest(Unread', Unread)
  <2>1. CASE tts.at = "readChallenge"
    <3>1. Unread' = Unread
      BY <1>3, <1>4, <2>1 DEF Unread
    <3>2. Rest(Unread, Unread)
      BY Streams, Rests
    <3> QED
      BY <3>1, <3>2, Streams
  <2>2. CASE tts.at # "readChallenge"
    <3>1. Unread' = input' \o coming /\ Unread = input \o coming
      BY <1>2, <1>3, <2>2 DEF Unread
    <3>2. input' \in Seq(Octets)
      BY DEF TtsOK
    <3>3. Unread' \in Seq(Octets)
      BY <3>1, <3>2, Streams
    <3> QED
      BY <1>4, <3>1, <3>3
  <2> QED
    BY <2>1, <2>2
<1>6. StreamOK(Unread', asked', device.challenge')
  BY <1>2, <1>5, RestOK, Streams DEF Genuine
<1> QED
  BY <1>1, <1>2, <1>3, <1>4, <1>6 DEF Genuine, ResultOK, Reads

LEMMA HostAuth ==
    ASSUME TtsOK, Genuine, OnStart \/ OnStartFails, ~ mistaken'
    PROVE  Genuine'
<1>1. TtsOK'
  BY HostTyped
<1>2. CASE AskFails
  <2>1. /\ UNCHANGED <<asked, coming, device>> /\ input' = <<>> /\ tts'.buf = <<>>
        /\ tts'.at \in {"version", "auth", "plain", "refused"}
    BY <1>2 DEF AskFails, RetryVersion, RetryAuth, Retry
  <2> QED
    BY <1>1, <2>1, LeaveAuth
<1>3. CASE QueryVersion \/ Authenticate
  BY <1>3, AskAuth DEF QueryVersion, Authenticate
<1> QED
  BY <1>1, <1>2, <1>3, RecvAuth, JudgeAuth DEF OnStart, OnStartFails, EndRead, ReadFails

\* More comes, and the host waits.
LEMMA Grown ==
    ASSUME TtsOK, NEW u \in Seq(Octets), coming' = coming \o u, UNCHANGED <<tts, input>>
    PROVE  Unread' = Unread \o u /\ Stream' = Stream \o u
<1>1. /\ tts.buf \in Seq(Octets) /\ input \in Seq(Octets) /\ coming \in Seq(Octets)
      /\ tts.buf \o input \in Seq(Octets)
  BY Streams
<1>2. input \o (coming \o u) = input \o coming \o u
  BY <1>1, ConcatAssociative, SMTT(30)
<1>3. tts.buf \o input \o (coming \o u) = tts.buf \o input \o coming \o u
  <2>1. PICK a \in Seq(Octets) : a = tts.buf \o input
    BY <1>1
  <2>2. PICK c \in Seq(Octets) : c = coming
    BY <1>1
  <2>3. a \o c \o u = a \o (c \o u)
    BY Rests
  <2> QED
    BY <2>1, <2>2, <2>3
<1> QED
  BY <1>2, <1>3 DEF Unread, Stream

LEMMA Taken ==
    ASSUME NEW s, NEW q \in Seq(Asks), NEW challenge, q # <<>>, StreamOK(s, q, challenge)
    PROVE  /\ Head(q) = q[1] /\ q[1] \in Asks /\ 1 \in DOMAIN q
           /\ Tail(q) \in Seq(Asks) /\ StreamOK(s, Tail(q), challenge)
           /\ Len(Tail(q)) = Len(q) - 1 /\ (Len(q) = 1 => Tail(q) = <<>>)
           /\ \A k \in 1 .. Len(q) - 1 : Tail(q)[k] = q[k + 1]
<1>1. Head(q) = q[1] /\ q[1] \in Asks /\ 1 \in DOMAIN q
  OBVIOUS
<1>2. PICK r : r = Tail(q)
  OBVIOUS
<1>3. /\ r \in Seq(Asks) /\ Len(r) = Len(q) - 1 /\ Len(q) \in Nat
      /\ \A k \in 1 .. Len(q) - 1 : r[k] = q[k + 1]
  BY <1>2
<1>4. Len(q) = 1 => r = <<>>
  BY <1>3
<1>5. \A k \in DOMAIN r : \E j \in DOMAIN q : r[k] = q[j]
  <2>1. DOMAIN r = 1 .. Len(q) - 1 /\ DOMAIN q = 1 .. Len(q)
    BY <1>3
  <2>2. \A k \in DOMAIN r : k + 1 \in DOMAIN q
    BY <1>3, <2>1
  <2> QED
    BY <1>3, <2>1, <2>2
<1>6. StreamOK(s, r, challenge)
  BY <1>5, FewerOK
<1> QED
  BY <1>1, <1>2, <1>3, <1>4, <1>6

\* The device takes a question: its answer is u, unless it ignores it.
LEMMA DeviceTakes ==
    ASSUME TtsOK, Genuine, asked # <<>>, NEW u \in Seq(Octets),
           asked' = Tail(asked), coming' = coming \o u, UNCHANGED <<tts, input>>,
           StreamOK(Unread \o u, asked, device'.challenge),
           device.challenge <= device'.challenge, device'.challenge \in Nat,
           (\E k \in DOMAIN u : u[k] = Octet("P")) =>
              device'.open /\ asked[1][1] = "response" /\ asked[1][2][2] = device.challenge
    PROVE  Genuine'
<1>1. asked \in Seq(Asks) /\ tts.at # "open"
  BY DEF Genuine
<1>2. Unread' = Unread \o u /\ Stream' = Stream \o u
  BY Grown
<1>3. /\ asked' \in Seq(Asks) /\ StreamOK(Unread', asked', device'.challenge)
      /\ Len(asked') = Len(asked) - 1 /\ (Len(asked) = 1 => asked' = <<>>)
      /\ \A k \in 1 .. Len(asked) - 1 : asked'[k] = asked[k + 1]
  BY <1>1, <1>2, Taken
<1>4. ASSUME tts.at = "readResult" PROVE ResultOK'
  <2>1. \A k \in 1 .. Len(asked) - 1 :
           asked[k][1] = "response" => asked[k][2][2] < device.challenge
    BY <1>4 DEF Genuine, ResultOK
  <2>2. \A i \in DOMAIN Stream : Stream[i] # Octet("P")
    BY <1>4 DEF Genuine, ResultOK
  <2>3. Len(asked) \in Nat /\ Len(asked) # 0
    BY <1>1
  <2>4. ASSUME NEW k \in 1 .. Len(asked') - 1, asked'[k][1] = "response"
        PROVE  asked'[k][2][2] < device'.challenge
    <3>1. k + 1 \in 1 .. Len(asked) - 1 /\ k \in 1 .. Len(asked) - 1 /\ k + 1 \in DOMAIN asked
      BY <1>3, <2>3
    <3>2. asked'[k] = asked[k + 1]
      BY <1>3, <3>1
    <3>3. asked[k + 1] \in {"response"} \X Keys
      BY <1>1, <2>4, <3>1, <3>2 DEF Asks, Octet
    <3>4. asked[k + 1][2][2] \in Nat /\ asked[k + 1][2][2] < device.challenge
      BY <2>1, <2>4, <3>1, <3>2, <3>3 DEF Keys
    <3>5. device.challenge \in Nat
      BY Streams
    <3>6. asked'[k][2][2] = asked[k + 1][2][2]
      BY ONLY <3>2
    <3> QED
      BY <3>4, <3>5, <3>6, SMTT(30)
  <2>5. ASSUME NEW i \in DOMAIN Stream', Stream'[i] = Octet("P")
        PROVE  asked' = <<>> /\ device'.open
    <3>1. PICK s \in Seq(Octets) : s = Stream
      BY Streams
    <3>2. PICK t : t = s \o u
      OBVIOUS
    <3>3. /\ t \in Seq(Octets) /\ Len(t) = Len(s) + Len(u)
          /\ \A j \in 1 .. Len(s) + Len(u) : t[j] = IF j <= Len(s) THEN s[j] ELSE u[j - Len(s)]
      BY <3>2, ConcatFacts
    <3>4. t = Stream'
      BY <1>2, <3>1, <3>2
    <3>5. i \in 1 .. Len(s) + Len(u)
      BY <2>5, <3>3, <3>4
    <3>6. ~ (i <= Len(s))
      BY <2>2, <2>5, <3>1, <3>3, <3>4, <3>5
    <3>7. i - Len(s) \in DOMAIN u /\ u[i - Len(s)] = Octet("P")
      BY <2>5, <3>3, <3>4, <3>5, <3>6
    <3>8. device'.open /\ asked[1][1] = "response" /\ asked[1][2][2] = device.challenge
      BY <3>7
    <3>9. ~ (1 \in 1 .. Len(asked) - 1)
      BY <2>1, <3>8, Streams
    <3>10. Len(asked) = 1
      <4>1. PICK m \in Nat : m = Len(asked)
        BY <2>3
      <4>2. ~ (1 \in 1 .. m - 1) /\ m # 0
        BY <2>3, <3>9, <4>1
      <4>3. m = 1
        BY <4>2
      <4> QED
        BY <4>1, <4>3
    <3> QED
      BY <1>3, <3>8, <3>10
  <2> QED
    BY <2>4, <2>5 DEF ResultOK
<1> QED
  BY <1>1, <1>3, <1>4 DEF Genuine

LEMMA AnswersAuth ==
    ASSUME TtsOK, Genuine, DeviceAnswers, ~ mistaken'
    PROVE  Genuine'
<1>1. asked # <<>> /\ asked' = Tail(asked) /\ UNCHANGED <<tts, input>>
  BY DEF DeviceAnswers
<1>2. asked \in Seq(Asks) /\ StreamOK(Unread, asked, device.challenge)
  BY DEF Genuine
<1>3. Head(asked) = asked[1] /\ asked[1] \in Asks /\ 1 \in DOMAIN asked
  BY <1>1, <1>2, Taken
<1>4. device.challenge \in Nat /\ Unread \in Seq(Octets)
      /\ device = [challenge |-> device.challenge, value |-> device.value,
                   open |-> device.open]
  BY Streams DEF TtsOK
<1>5. CASE /\ coming' = coming \o <<Octet("Time Trax"), Octet("Version"), Octet("lf")>>
           /\ UNCHANGED device
  <2>1. PICK a \in Octets, b \in Octets, c \in Octets :
             a = Octet("Time Trax") /\ b = Octet("Version") /\ c = Octet("lf")
    BY DEF Octet, Octets, Sorts, Values
  <2>2. PICK u : u = <<a, b, c>>
    OBVIOUS
  <2>3. u \in Seq(Octets) /\ \A k \in DOMAIN u : u[k] \in {a, b, c}
    BY <2>2
  <2>4. \A k \in DOMAIN u : u[k] \notin Keys /\ u[k] # Octet(">") /\ u[k] # Octet("P")
    <3>1. \A text \in {"Time Trax", "Version", "lf"} :
             Octet(text) \notin Keys /\ Octet(text) # Octet(">") /\ Octet(text) # Octet("P")
      BY DEF Octet, Keys
    <3> QED
      BY <2>1, <2>3, <3>1
  <2>5. coming' = coming \o u
    BY <1>5, <2>1, <2>2
  <2>6. StreamOK(Unread \o u, asked, device.challenge)
    BY <1>2, <1>4, <2>3, <2>4, AnsweredOK
  <2>7. device'.challenge = device.challenge /\ device.challenge <= device.challenge
    <3>1. device' = device
      BY <1>5
    <3>2. \A n \in Nat : n <= n
      OBVIOUS
    <3> QED
      BY <1>4, <3>1, <3>2
  <2> QED
    BY <1>1, <1>4, <2>3, <2>4, <2>5, <2>6, <2>7, DeviceTakes
<1>6. ASSUME NEW v \in AnyValue,
             coming' = coming \o <<Octet(">"), Octet(">"), Key(device.challenge + 1, v)>>,
             device' = [challenge |-> device.challenge + 1, value |-> v, open |-> FALSE]
      PROVE  Genuine'
  <2>0. PICK n \in Nat : n = device.challenge + 1
    BY <1>4
  <2>1. PICK a \in Octets, c \in Octets : a = Octet(">") /\ c = Key(n, v)
    BY DEF Octet, Octets, Key, Sorts, Values
  <2>2. PICK u : u = <<a, a, c>>
    OBVIOUS
  <2>3. u \in Seq(Octets) /\ \A k \in DOMAIN u : u[k] \in {a, c}
    BY <2>2
  <2>4. \A k \in DOMAIN u : u[k] # Octet("P")
    <3>1. a # Octet("P") /\ c # Octet("P")
      BY ONLY <2>1 DEF Octet, Key
    <3> QED
      BY ONLY <2>3, <3>1, Zenon
  <2>5. coming' = coming \o u
    BY <1>6, <2>0, <2>1, <2>2
  <2>6. /\ device'.challenge = device.challenge + 1 /\ device'.challenge \in Nat
        /\ device.challenge <= device'.challenge
    BY <1>4, <1>6
  <2>7. StreamOK(Unread \o u, asked, device'.challenge)
    <3>1. StreamOK(Unread \o <<Octet(">"), Octet(">"), Key(device.challenge + 1, v)>>, asked,
                   device.challenge + 1)
      BY <1>2, <1>4, ChallengedOK
    <3> QED
      BY <2>0, <2>1, <2>2, <2>6, <3>1
  <2> QED
    BY <1>1, <2>3, <2>4, <2>5, <2>6, <2>7, DeviceTakes
<1>7. ASSUME asked[1] \notin {Octet("V"), Octet("A")},
             NEW right \in BOOLEAN,
             right => asked[1][2] = Key(device.challenge, device.value),
             coming' = coming \o <<Octet(IF right THEN "P" ELSE "F"), Octet("lf")>>,
             device' = [device EXCEPT !.open = right]
      PROVE  Genuine'
  <2>1. PICK a \in Octets, b \in Octets : a = Octet(IF right THEN "P" ELSE "F") /\ b = Octet("lf")
    BY DEF Octet, Octets, Sorts, Values
  <2>2. PICK u : u = <<a, b>>
    OBVIOUS
  <2>3. u \in Seq(Octets) /\ \A k \in DOMAIN u : u[k] \in {a, b}
    BY <2>2
  <2>4. \A k \in DOMAIN u : u[k] \notin Keys /\ u[k] # Octet(">") /\ (u[k] = Octet("P") => right)
    BY <2>1, <2>3 DEF Octet, Keys
  <2>5. coming' = coming \o u
    BY <1>7, <2>1, <2>2
  <2>6. /\ device'.challenge = device.challenge /\ device'.open = right
        /\ device.challenge <= device'.challenge
    BY <1>4, <1>7
  <2>7. asked[1] \in {"response"} \X Keys
    BY <1>3, <1>7 DEF Asks
  <2>8. right => asked[1][1] = "response" /\ asked[1][2][2] = device.challenge
    <3>1. right => asked[1][2][2] = device.challenge
      BY <1>7 DEF Key
    <3>2. asked[1][1] = "response"
      BY <2>7
    <3> QED
      BY <3>1, <3>2
  <2>9. right => \A i \in DOMAIN Unread : Unread[i] \notin Keys
    <3> SUFFICES ASSUME right, NEW i \in DOMAIN Unread, Unread[i] \in Keys PROVE FALSE
      OBVIOUS
    <3>1. device.challenge < Unread[i][2] /\ Unread[i][2] <= device.challenge
      BY <1>2, <1>3, <2>8 DEF StreamOK, AnswersEarlier, KnownKeys
    <3>2. Unread[i][2] \in Nat
      BY DEF Keys
    <3> QED
      BY <1>4, <3>1, <3>2
  <2>10. StreamOK(Unread \o u, asked, device.challenge)
    BY <1>2, <1>4, <2>3, <2>4, <2>9, AnsweredOK
  <2> QED
    BY <1>1, <1>4, <2>3, <2>4, <2>5, <2>6, <2>8, <2>10, DeviceTakes
<1>8. CASE Head(asked) = Octet("V")
  <2>1. /\ coming' = coming \o <<Octet("Time Trax"), Octet("Version"), Octet("lf")>>
        /\ UNCHANGED device
    <3>1. Octet("A") # Octet("V")
      BY DEF Octet
    <3> QED
      BY <1>8, <3>1 DEF DeviceAnswers
  <2> QED
    BY <1>5, <2>1
<1>9. CASE Head(asked) = Octet("A")
  <2>1. Octet("A") # Octet("V")
    BY DEF Octet
  <2> QED
    BY <1>6, <1>9, <2>1 DEF DeviceAnswers
<1> DEFINE right == Value(Head(asked)[2]) = device.value
<1>10. CASE Head(asked) \notin {Octet("V"), Octet("A")}
  <2>1. /\ coming' = coming \o <<Octet(IF right THEN "P" ELSE "F"), Octet("lf")>>
        /\ device' = [device EXCEPT !.open = right]
        /\ mistaken' = (mistaken \/ (right /\ Head(asked)[2] # Key(device.challenge, device.value)))
    BY <1>10 DEF DeviceAnswers
  <2>2. right \in BOOLEAN /\ (right => asked[1][2] = Key(device.challenge, device.value))
    BY <1>3, <2>1
  <2> HIDE DEF right
  <2> QED
    BY <1>3, <1>7, <1>10, <2>1, <2>2
<1> QED
  BY <1>8, <1>9, <1>10

LEMMA LineAuth ==
    ASSUME TtsOK, Genuine, Outside, ~ mistaken'
    PROVE  Genuine'
<1>1. CASE DeviceIgnores
  <2>1. asked # <<>> /\ asked' = Tail(asked) /\ UNCHANGED <<tts, input, coming, device>>
    BY <1>1 DEF DeviceIgnores
  <2>2. PICK u : u = <<>>
    OBVIOUS
  <2> u \in Seq(Octets)
    BY <2>2
  <2>3. coming' = coming \o u /\ Unread \o u = Unread
    BY <2>1, <2>2, Streams, ConcatEmptySeq
  <2>4. StreamOK(Unread \o u, asked, device'.challenge)
    BY <2>1, <2>3 DEF Genuine
  <2>5. device'.challenge \in Nat /\ device.challenge <= device'.challenge
    BY <2>1, Streams
  <2>6. \A k \in DOMAIN u : u[k] # Octet("P")
    BY <2>2
  <2> QED
    BY <2>1, <2>3, <2>4, <2>5, <2>6, DeviceTakes
<1>2. CASE Noise
  <2>0. PICK v \in AnyValue : coming' = Append(coming, <<"noise", 0, v>>)
    BY <1>2 DEF Noise
  <2>1. PICK a \in Octets : a = <<"noise", 0, v>>
    BY DEF Octets, Sorts, Values
  <2>2. PICK u : u = <<a>>
    OBVIOUS
  <2>3. /\ u \in Seq(Octets)
        /\ \A k \in DOMAIN u : u[k] \notin Keys /\ u[k] # Octet(">") /\ u[k] # Octet("P")
    BY <2>1, <2>2 DEF Octet, Keys
  <2>4. coming' = coming \o u /\ UNCHANGED <<tts, input, asked, device>>
    BY <1>2, <2>0, <2>1, <2>2, Streams, AppendIsConcat DEF Noise
  <2>5. StreamOK(Unread \o u, asked, device.challenge)
    BY <2>3, Streams, AnsweredOK DEF Genuine
  <2>6. Unread' = Unread \o u /\ Stream' = Stream \o u
    BY <2>3, <2>4, Grown
  <2>7. ASSUME tts.at = "readResult" PROVE ResultOK'
    <3>1. PICK s \in Seq(Octets) : s = Stream
      BY Streams
    <3>2. PICK t : t = s \o u
      OBVIOUS
    <3>3. /\ t \in Seq(Octets) /\ Len(t) = Len(s) + Len(u)
          /\ \A j \in 1 .. Len(s) + Len(u) : t[j] = IF j <= Len(s) THEN s[j] ELSE u[j - Len(s)]
      BY <2>3, <3>2, ConcatFacts
    <3>4. t = Stream'
      BY <2>6, <3>1, <3>2
    <3>5. ASSUME NEW i \in DOMAIN t, t[i] = Octet("P")
          PROVE  i \in DOMAIN s /\ s[i] = Octet("P")
      <4>1. CASE i <= Len(s)
        BY <3>3, <3>5, <4>1
      <4>2. CASE ~ (i <= Len(s))
        <5>1. i - Len(s) \in DOMAIN u /\ t[i] = u[i - Len(s)]
          BY <2>3, <3>3, <3>5, <4>2
        <5> QED
          BY <2>3, <3>5, <5>1
      <4> QED
        BY <4>1, <4>2
    <3> QED
      BY <2>4, <2>7, <3>1, <3>4, <3>5 DEF Genuine, ResultOK
  <2> QED
    BY <2>4, <2>5, <2>6, <2>7 DEF Genuine
<1>3. CASE Arrive
  <2>1. /\ coming # <<>> /\ UNCHANGED <<tts, asked, device>>
        /\ input' = Append(input, Head(coming)) /\ coming' = Tail(coming)
    BY <1>3 DEF Arrive
  <2>2. PICK a \in Seq(Octets), b \in Seq(Octets), c \in Seq(Octets) :
             a = tts.buf /\ b = input /\ c = coming
    BY Streams
  <2>3. /\ Append(b, Head(c)) \o Tail(c) = b \o c
        /\ a \o Append(b, Head(c)) \o Tail(c) = a \o b \o c
    <3>1. c # <<>>
      BY <2>1, <2>2
    <3> QED
      BY <3>1, MoveOne, ZenonT(30)
  <2>4. Unread' = Unread /\ Stream' = Stream
    BY <2>1, <2>2, <2>3 DEF Unread, Stream
  <2> QED
    BY <2>1, <2>4 DEF Genuine, ResultOK
<1> QED
  BY <1>1, <1>2, <1>3, AnswersAuth DEF Outside

LEMMA FreshAuth ==
    ASSUME input = <<>>, coming = <<>>, asked = <<>>, tts.buf = <<>>,
           tts.at \notin {"open", "readResult"}
    PROVE  Genuine
<1>1. Unread = <<>>
  BY DEF Unread, Stream
<1> QED
  BY <1>1 DEF Genuine, StreamOK, KeysInOrder, PromptsLead, AnswersEarlier, KnownKeys

LEMMA OverAuth ==
    ASSUME HandshakeOver
    PROVE  Genuine'
<1>1. /\ input' = <<>> /\ coming' = <<>> /\ asked' = <<>> /\ tts'.buf = <<>>
      /\ tts'.at = "over"
  BY DEF HandshakeOver
<1>2. Unread' = <<>>
  BY <1>1 DEF Unread, Stream
<1> QED
  BY <1>1, <1>2 DEF Genuine, StreamOK, KeysInOrder, PromptsLead, AnswersEarlier, KnownKeys

LEMMA MistakenStays ==
    ASSUME mistaken \in BOOLEAN, OnStart \/ OnStartFails \/ Outside
    PROVE  mistaken' \in BOOLEAN /\ (mistaken => mistaken')
<1>1. CASE Judge
  BY <1>1 DEF Judge, ChallengeRead, ResultRead
<1>2. CASE DeviceAnswers
  BY <1>2 DEF DeviceAnswers
<1> QED
  BY <1>1, <1>2 DEF OnStart, OnStartFails, Outside, QueryVersion, Authenticate, Ask, AskFails, Recv,
     EndRead, ReadFails, DeviceIgnores, Noise, Arrive

LEMMA RaiseTyped ==
    ASSUME pending \subseteq Signals, NEW s \in Signals, Raise(s)
    PROVE  pending' \subseteq Signals /\ main' \in {main, "killed"}
<1>1. CASE blocked
  BY <1>1 DEF Raise
<1>2. CASE ~ blocked
  BY <1>2 DEF Raise
<1> QED
  BY <1>1, <1>2

LEMMA TasksStep ==
    ASSUME TasksOK, LifeOK, Next
    PROVE  TasksOK' /\ LifeOK'
<1> USE DEF TasksOK, LifeOK, Tasks, Signals, Ends, ServerGone, RadioGone, AllGone, Over,
        TimerTried, NoTimer, Main, Server, Radio, SetState, Shutdown, Runs, Reading, Ticking, signalVars
<1>1. ASSUME LogOpenFails PROVE TasksOK' /\ LifeOK'
  BY <1>1 DEF LogOpenFails
<1>2. ASSUME Launch PROVE TasksOK' /\ LifeOK'
  <2>1. TasksOK'
    BY <1>2 DEF Launch
  <2>2. LifeOK'
    BY <1>2 DEF Launch
  <2> QED BY <2>1, <2>2
<1>3. ASSUME LaunchFails PROVE TasksOK' /\ LifeOK'
  BY <1>3 DEF LaunchFails
<1>4. ASSUME PollServer PROVE TasksOK' /\ LifeOK'
  BY <1>4 DEF PollServer
<1>5. ASSUME BlockSignals PROVE TasksOK' /\ LifeOK'
  BY <1>5 DEF BlockSignals
<1>6. ASSUME Reopen PROVE TasksOK' /\ LifeOK'
  BY <1>6 DEF Reopen
<1>7. ASSUME StopServer PROVE TasksOK' /\ LifeOK'
  BY <1>7 DEF StopServer
<1>8. ASSUME JoinServer PROVE TasksOK' /\ LifeOK'
  BY <1>8 DEF JoinServer
<1>9. ASSUME DeletePort PROVE TasksOK' /\ LifeOK'
  BY <1>9 DEF DeletePort
<1>10. ASSUME ClearPort PROVE TasksOK' /\ LifeOK'
  BY <1>10 DEF ClearPort
<1>11. ASSUME StopTimer PROVE TasksOK' /\ LifeOK'
  BY <1>11 DEF StopTimer
<1>12. ASSUME JoinTimer PROVE TasksOK' /\ LifeOK'
  BY <1>12 DEF JoinTimer
<1>13. ASSUME JoinRadio PROVE TasksOK' /\ LifeOK'
  BY <1>13 DEF JoinRadio
<1>14. ASSUME CloseLog PROVE TasksOK' /\ LifeOK'
  BY <1>14 DEF CloseLog
<1>15. ASSUME StartRadio PROVE TasksOK' /\ LifeOK'
  BY <1>15 DEF StartRadio
<1>16. ASSUME ServerStartFails PROVE TasksOK' /\ LifeOK'
  BY <1>16 DEF ServerStartFails
<1>17. ASSUME PollRadio PROVE TasksOK' /\ LifeOK'
  BY <1>17 DEF PollRadio
<1>18. ASSUME LoopTest PROVE TasksOK' /\ LifeOK'
  BY <1>18 DEF LoopTest
<1>19. ASSUME BeginPass PROVE TasksOK' /\ LifeOK'
  BY <1>19 DEF BeginPass
<1>20. ASSUME Request PROVE TasksOK' /\ LifeOK'
  BY <1>20 DEF Request
<1>21. ASSUME GetResult PROVE TasksOK' /\ LifeOK'
  BY <1>21 DEF GetResult
<1>22. ASSUME GetThrows PROVE TasksOK' /\ LifeOK'
  BY <1>22 DEF GetThrows
<1>23. ASSUME EndPass PROVE TasksOK' /\ LifeOK'
  BY <1>23 DEF EndPass
<1>24. ASSUME ServerExit PROVE TasksOK' /\ LifeOK'
  BY <1>24 DEF ServerExit
<1>25. ASSUME ServerRaise PROVE TasksOK' /\ LifeOK'
  <2>1. TasksOK'
    <3>1. pending' \subseteq Signals /\ main' \in {main, "killed"}
      BY <1>25, RaiseTyped DEF ServerRaise
    <3> QED
      BY <1>25, <3>1 DEF ServerRaise
  <2>2. LifeOK'
    BY <1>25 DEF ServerRaise, Raise
  <2> QED BY <2>1, <2>2
<1>26. ASSUME RadioStart PROVE TasksOK' /\ LifeOK'
  BY <1>26 DEF RadioStart
<1>27. ASSUME RadioStartFails PROVE TasksOK' /\ LifeOK'
  BY <1>27 DEF RadioStartFails
<1>28. ASSUME NotifyStartup PROVE TasksOK' /\ LifeOK'
  BY <1>28 DEF NotifyStartup
<1>29. ASSUME NotifyEvent PROVE TasksOK' /\ LifeOK'
  BY <1>29 DEF NotifyEvent
<1>30. ASSUME ReadAck PROVE TasksOK' /\ LifeOK'
  BY <1>30 DEF ReadAck
<1>31. ASSUME ReadData PROVE TasksOK' /\ LifeOK'
  BY <1>31 DEF ReadData
<1>32. ASSUME ReadAborts PROVE TasksOK' /\ LifeOK'
  BY <1>32 DEF ReadAborts
<1>33. ASSUME RadioLoopEnds PROVE TasksOK' /\ LifeOK'
  BY <1>33 DEF RadioLoopEnds
<1>34. ASSUME NotifyShutdown PROVE TasksOK' /\ LifeOK'
  BY <1>34 DEF NotifyShutdown
<1>35. ASSUME ShutdownServer PROVE TasksOK' /\ LifeOK'
  BY <1>35 DEF ShutdownServer
<1>36. ASSUME RadioStopTimer PROVE TasksOK' /\ LifeOK'
  BY <1>36 DEF RadioStopTimer
<1>37. ASSUME RadioJoinTimer PROVE TasksOK' /\ LifeOK'
  BY <1>37 DEF RadioJoinTimer
<1>38. ASSUME DrainQueue PROVE TasksOK' /\ LifeOK'
  BY <1>38 DEF DrainQueue
<1>39. ASSUME ClosePort PROVE TasksOK' /\ LifeOK'
  BY <1>39 DEF ClosePort
<1>40. ASSUME TeardownAborts PROVE TasksOK' /\ LifeOK'
  BY <1>40 DEF TeardownAborts
<1>41. ASSUME TimeOut PROVE TasksOK' /\ LifeOK'
  <2>1. TasksOK'
    <3>1. CASE Shutdown("radio")
      BY <1>41, <3>1 DEF TimeOut
    <3>2. CASE UNCHANGED m_shutdown
      BY <1>41, <3>2 DEF TimeOut
    <3> QED BY <1>41, <3>1, <3>2 DEF TimeOut
  <2>2. LifeOK'
    BY <1>41 DEF TimeOut
  <2> QED BY <2>1, <2>2
<1>42. ASSUME LinkDies PROVE TasksOK' /\ LifeOK'
  BY <1>42 DEF LinkDies
<1>43. ASSUME WriteAborts PROVE TasksOK' /\ LifeOK'
  BY <1>43 DEF WriteAborts
<1>44. ASSUME TimerEnds PROVE TasksOK' /\ LifeOK'
  BY <1>44 DEF TimerEnds
<1>45. ASSUME HandshakeOutside PROVE TasksOK' /\ LifeOK'
  BY <1>45 DEF HandshakeOutside
<1>46. ASSUME NEW s \in Signals, TakeSignal(s) PROVE TasksOK' /\ LifeOK'
  BY <1>46, DaemonAssumption DEF TakeSignal
<1>47. ASSUME NEW s \in ExternalSignals, SendSignal(s) PROVE TasksOK' /\ LifeOK'
  <2>1. TasksOK'
    <3>1. pending' \subseteq Signals /\ main' \in {main, "killed"}
      BY <1>47, DaemonAssumption, RaiseTyped DEF SendSignal
    <3> QED
      BY <1>47, <3>1 DEF SendSignal
  <2>2. LifeOK'
    BY <1>47 DEF SendSignal, Raise
  <2> QED BY <2>1, <2>2
<1>48. ASSUME NEW t \in Writers, CallsLog(t) \/ InLogWrite(t) PROVE TasksOK' /\ LifeOK'
  <2>1. CASE CallsLog(t)
    BY <2>1 DEF CallsLog
  <2>2. CASE InLogWrite(t)
    BY <2>2 DEF InLogWrite
  <2> QED BY <1>48, <2>1, <2>2
<1>49. ASSUME Handshake(OnStart) PROVE TasksOK' /\ LifeOK'
  BY <1>49 DEF Handshake
<1>50. ASSUME Handshake(OnStartFails) PROVE TasksOK' /\ LifeOK'
  BY <1>50 DEF Handshake
<1>51. ASSUME PassHangs PROVE TasksOK' /\ LifeOK'
  BY <1>51 DEF PassHangs
<1> QED
  BY <1>1, <1>2, <1>3, <1>4, <1>5, <1>6, <1>7, <1>8, <1>9, <1>10, <1>11, <1>12, <1>13,
     <1>14, <1>15, <1>16, <1>17, <1>18, <1>19, <1>20, <1>21, <1>22, <1>23, <1>24, <1>25,
     <1>26, <1>27, <1>28, <1>29, <1>30, <1>31, <1>32, <1>33, <1>34, <1>35, <1>36, <1>37,
     <1>38, <1>39, <1>40, <1>41, <1>42, <1>43, <1>44, <1>45, <1>46, <1>47, <1>48, <1>49,
     <1>50, <1>51 DEF Next, MainThread, ServerThread, RadioThread

\* What Daemon's actions do to the handshake is a step of it.
LEMMA TtsStep ==
    ASSUME TtsOK, AuthOK, Next
    PROVE  TtsOK' /\ AuthOK'
<1>1. \/ UNCHANGED ttsVars
      \/ OnStart \/ OnStartFails \/ Outside \/ HandshakeOver
  BY DEF Next, MainThread, ServerThread, RadioThread, otherVars, LogOpenFails, Launch,
     LaunchFails, PollServer, BlockSignals, Reopen, StopServer, JoinServer, DeletePort,
     ClearPort, StopTimer, JoinTimer, JoinRadio, CloseLog, TakeSignal, StartRadio,
     ServerStartFails, PollRadio, LoopTest, BeginPass, Request, PassHangs, GetResult, GetThrows,
     EndPass, ServerExit, ServerRaise, RadioStart, RadioStartFails, NotifyStartup,
     NotifyEvent, ReadAck, ReadData, ReadAborts, RadioLoopEnds, NotifyShutdown,
     ShutdownServer, RadioStopTimer, RadioJoinTimer, DrainQueue, ClosePort,
     TeardownAborts, TimeOut, LinkDies, WriteAborts, TimerEnds, HandshakeOutside,
     SendSignal, CallsLog, InLogWrite, Handshake
<1>2. CASE UNCHANGED ttsVars
  BY <1>2 DEF TtsOK, AuthOK, Genuine, ResultOK, Unread, Stream, ttsVars
<1>3. CASE OnStart \/ OnStartFails \/ Outside
  <2>1. mistaken' \in BOOLEAN /\ (mistaken => mistaken')
    BY <1>3, MistakenStays DEF AuthOK
  <2>2. ~ mistaken' => Genuine'
    BY <1>3, <2>1, HostAuth, LineAuth DEF AuthOK
  <2> QED
    BY <1>3, <2>1, <2>2, HostTyped, LineTyped DEF AuthOK
<1>4. CASE HandshakeOver
  <2>1. mistaken' \in BOOLEAN
    BY <1>4 DEF HandshakeOver
  <2> QED
    BY <1>4, <2>1, OverTyped, OverAuth DEF AuthOK
<1> QED
  BY <1>1, <1>2, <1>3, <1>4

\* Nobody but the main thread touches the file outside LogWrite, and a thread
\* in LogWrite does nothing else.
LEMMA LogStep ==
    ASSUME TasksOK, LifeOK, LogTypeOK, LogOK, Next, TasksOK', LifeOK'
    PROVE  LogTypeOK' /\ LogOK'
<1> USE DEF LogOK, ServerGone, RadioGone, AllGone, otherVars, logVars
<1>1. CASE ServerThread \/ Request \/ PassHangs
  <2>1. UNCHANGED <<timer, logVars>>
    BY <1>1 DEF ServerThread, StartRadio, ServerStartFails, PollRadio, LoopTest,
       BeginPass, Request, PassHangs, GetResult, GetThrows, EndPass, ServerExit, ServerRaise
  <2>2. writing["server"] = "no" /\ server \notin {"none", "done"}
    BY <1>1 DEF Server, Runs, ServerThread, StartRadio, ServerStartFails, PollRadio,
       LoopTest, BeginPass, Request, PassHangs, GetResult, GetThrows, EndPass, ServerExit,
       ServerRaise
  <2>3. UNCHANGED radio \/ (server = "start" /\ radio' = "start")
    BY <1>1 DEF Server, ServerThread, StartRadio, ServerStartFails, PollRadio, LoopTest,
       BeginPass, Request, PassHangs, GetResult, GetThrows, EndPass, ServerExit, ServerRaise
  <2>4. main' \notin {"reclose", "refopen"} \ {main}
    BY <1>1 DEF Raise, ServerThread, StartRadio, ServerStartFails, PollRadio, LoopTest,
       BeginPass, Request, PassHangs, GetResult, GetThrows, EndPass, ServerExit, ServerRaise
  <2>5. LogTypeOK'
    BY <2>1, LogMainTyped
  <2> QED
    BY <2>1, <2>2, <2>3, <2>4, <2>5 DEF LifeOK
<1>2. CASE RadioThread \/ Handshake(OnStartFails) \/ ReadAck \/ ReadData \/ TeardownAborts
  <2>1. UNCHANGED <<server, logVars>> /\ writing["radio"] = "no"
    BY <1>2 DEF Radio, Reading, Runs, RadioThread, Handshake, RadioStart,
       RadioStartFails, NotifyStartup, NotifyEvent, ReadAck, ReadData, ReadAborts,
       RadioLoopEnds, NotifyShutdown, ShutdownServer, RadioStopTimer, RadioJoinTimer,
       DrainQueue, ClosePort, TeardownAborts
  <2>2. radio \notin {"none", "done"} /\ main' \notin {"reclose", "refopen"} \ {main}
    BY <1>2 DEF Radio, Reading, RadioThread, Handshake, RadioStart, RadioStartFails,
       NotifyStartup, NotifyEvent, ReadAck, ReadData, ReadAborts, RadioLoopEnds,
       NotifyShutdown, ShutdownServer, RadioStopTimer, RadioJoinTimer, DrainQueue,
       ClosePort, TeardownAborts
  <2>3. timer' = timer \/ timer' = "run"
    BY <1>2 DEF RadioThread, Handshake, RadioStart, RadioStartFails, NotifyStartup,
       NotifyEvent, ReadAck, ReadData, ReadAborts, RadioLoopEnds, NotifyShutdown,
       ShutdownServer, RadioStopTimer, RadioJoinTimer, DrainQueue, ClosePort,
       TeardownAborts
  <2>4. LogTypeOK'
    BY <2>1, LogMainTyped
  <2> QED
    BY <2>1, <2>2, <2>3, <2>4
<1>3. CASE TimeOut \/ LinkDies \/ WriteAborts \/ TimerEnds
  <2>1. UNCHANGED <<server, radio, logVars>> /\ writing["timer"] = "no" /\ timer = "run"
    BY <1>3 DEF Ticking, Runs, TimeOut, LinkDies, WriteAborts, TimerEnds
  <2>2. main' \notin {"reclose", "refopen"} \ {main}
    BY <1>3 DEF TimeOut, LinkDies, WriteAborts, TimerEnds
  <2>3. LogTypeOK'
    BY <2>1, LogMainTyped
  <2> QED
    BY <2>1, <2>2, <2>3
<1>4. CASE HandshakeOutside \/ (\E s \in ExternalSignals : SendSignal(s))
  <2>1. UNCHANGED <<server, radio, timer, logVars>> /\ main' \in {main, "killed"}
    BY <1>4 DEF HandshakeOutside, SendSignal, Raise
  <2>2. LogTypeOK'
    BY <2>1, LogMainTyped
  <2> QED
    BY <2>1, <2>2
<1>5. ASSUME NEW t \in Writers, CallsLog(t) \/ InLogWrite(t)
      PROVE  LogTypeOK' /\ LogOK'
  <2>1. LogTypeOK'
    BY <1>5, LogTestTyped DEF CallsLog, InLogWrite
  <2>2. UNCHANGED <<main, server, radio, timer, s_file, reopenFailed>>
    BY <1>5 DEF CallsLog, InLogWrite, LogTest, LogWrite, LogLock, LogPrint
  <2>3. s_mutex = "main" <=> s_mutex' = "main"
    BY <1>5, LogAssumption DEF CallsLog, InLogWrite, LogTest, LogWrite, LogLock,
       LogPrint, LogTypeOK
  <2>4. ASSUME NEW u \in Writers, writing'[u] # "no"
        PROVE  writing[u] # "no" \/ (u = t /\ CallsLog(t))
    <3>1. CASE CallsLog(t)
      BY <2>4, <3>1 DEF CallsLog, LogTest, LogTypeOK
    <3>2. CASE LogLock(t)
      BY <2>4, <3>2 DEF LogLock, LogTypeOK
    <3>3. CASE LogPrint(t)
      BY <2>4, <3>3 DEF LogPrint, LogTypeOK
    <3> QED
      BY <1>5, <3>1, <3>2, <3>3 DEF InLogWrite, LogWrite
  <2> QED
    BY <2>1, <2>2, <2>3, <2>4, DaemonAssumption DEF CallsLog, Tasks
<1>6. CASE Launch \/ LaunchFails
  <2>1. LogTypeOK'
    BY <1>6, LogMainTyped DEF Launch, LaunchFails
  <2> QED
    BY <1>6, <2>1 DEF Launch, LaunchFails, Main, LogOpen, LifeOK
<1>7. CASE Reopen
  <2>1. UNCHANGED <<server, radio, timer>>
    BY <1>7 DEF Reopen
  <2>2. CASE Main("reopen", "reclose") /\ ReopenClose
    BY <2>1, <2>2, LogMainTyped DEF Main, ReopenClose
  <2>3. CASE Main("reclose", "refopen") /\ ReopenClear
    BY <2>1, <2>3, LogMainTyped DEF Main, ReopenClear
  <2>4. CASE Main("refopen", "wait") /\ ReopenOpen
    BY <2>1, <2>4, LogMainTyped DEF Main, ReopenOpen
  <2> QED
    BY <1>7, <2>2, <2>3, <2>4 DEF Reopen
<1>8. CASE CloseLog
  <2>1. LogTypeOK'
    BY <1>8, LogMainTyped DEF CloseLog
  <2> QED
    BY <1>8, <2>1 DEF CloseLog, Main, LogClose, LifeOK
<1>9. ASSUME \/ LogOpenFails \/ PollServer \/ BlockSignals \/ StopServer
             \/ JoinServer \/ DeletePort \/ ClearPort \/ StopTimer \/ JoinTimer \/ JoinRadio
             \/ \E s \in Signals : TakeSignal(s)
      PROVE  LogTypeOK' /\ LogOK'
  <2>1. UNCHANGED <<radio, timer, logVars>>
    BY <1>9 DEF LogOpenFails, PollServer, BlockSignals, StopServer, JoinServer,
       DeletePort, ClearPort, StopTimer, JoinTimer, JoinRadio, TakeSignal
  <2>2. main' \notin {"reclose", "refopen"} \ {main}
    BY <1>9 DEF Main, LogOpenFails, PollServer, BlockSignals, StopServer, JoinServer,
       DeletePort, ClearPort, StopTimer, JoinTimer, JoinRadio, TakeSignal
  <2>3. UNCHANGED server
    BY <1>9 DEF LogOpenFails, PollServer, BlockSignals, StopServer, JoinServer,
       DeletePort, ClearPort, StopTimer, JoinTimer, JoinRadio, TakeSignal
  <2>4. LogTypeOK'
    BY <2>1, LogMainTyped
  <2> QED
    BY <2>1, <2>2, <2>3, <2>4
<1> QED
  BY <1>1, <1>2, <1>3, <1>4, <1>5, <1>6, <1>7, <1>8, <1>9 DEF Next, MainThread

-----------------------------------------------------------------------------

LEMMA InitIInv == Init => IInv
<1> SUFFICES ASSUME Init PROVE IInv
  OBVIOUS
<1>1. TasksOK /\ LifeOK
  BY DEF Init, TasksOK, LifeOK, Tasks, Signals, Ends
<1>2. TtsOK
  BY HandshakeAssumption DEF Init, HandshakeInit, TtsOK, Tries, Reads
<1>3. LogTypeOK
  <2>1. \A t \in Writers : t # "none"
    BY LogAssumption
  <2>2. \A t \in Writers : writing[t] = "locked" <=> s_mutex = t
    BY <2>1 DEF Init, LogInit
  <2>3. writing \in [Writers -> {"no", "checked", "locked"}] /\ logLines \in 0 .. MaxLines
    BY LogAssumption DEF Init, LogInit
  <2> QED
    BY <2>2, <2>3 DEF Init, LogInit, LogTypeOK
<1>4. LogOK
  BY DaemonAssumption DEF Init, LogInit, LogOK, Tasks, AllGone, ServerGone, RadioGone
<1>5. AuthOK
  BY FreshAuth DEF Init, HandshakeInit, AuthOK
<1> QED
  BY <1>1, <1>2, <1>3, <1>4, <1>5 DEF IInv

LEMMA NextIInv == IInv /\ [Next]_vars => IInv'
<1> SUFFICES ASSUME IInv, [Next]_vars PROVE IInv'
  OBVIOUS
<1>1. CASE Next
  <2>1. TasksOK' /\ LifeOK'
    BY <1>1, TasksStep DEF IInv
  <2> QED
    BY <1>1, <2>1, TtsStep, LogStep DEF IInv
<1>2. CASE UNCHANGED vars
  BY <1>2 DEF IInv, TasksOK, TtsOK, AuthOK, Genuine, ResultOK, Unread, Stream, LogTypeOK, LifeOK, LogOK, ServerGone, RadioGone,
     AllGone, TimerTried, NoTimer,
     vars, ttsVars, logVars
<1> QED
  BY <1>1, <1>2

\* The inductive invariant.
THEOREM Invariance == Spec => []IInv
  BY InitIInv, NextIInv, PTL DEF Spec

\* The variables have their types; OnStart's Recv never writes past its buffer
\* (Len(tts.buf) <= BufLen) and at most one thread is in the log's critical
\* section.
THEOREM TypeCorrect == Spec => []TypeOK
<1>1. IInv => TypeOK
  BY HandshakeAssumption DEF IInv, TasksOK, TtsOK, AuthOK, TypeOK, HandshakeTypeOK, Tries
<1> QED
  BY <1>1, Invariance, PTL

\* When the server thread waits for a promise with m_mutex held and the radio
\* thread for m_mutex, the timer thread, whose timeout ends the wait, runs and
\* has not been asked to stop, unless it could not be created.
THEOREM NoDeadlockOverMutex == Spec => []NoCircularWait
<1>1. IInv => NoCircularWait
  BY DEF IInv, TasksOK, LifeOK, NoCircularWait, ServerGone, TimerTried, NoTimer
<1> QED
  BY <1>1, Invariance, PTL

\* The server thread serves no client before the radio task has left OnStart,
\* with a port and a timer, or without the thread of one.
THEOREM NoServiceBeforeStart == Spec => []ServedOnlyWhenUp
<1>1. IInv => ServedOnlyWhenUp
  BY DEF IInv, LifeOK, ServedOnlyWhenUp, TimerTried
<1> QED
  BY <1>1, Invariance, PTL

\* Whatever the number of lines written: LogWrite, which looked at s_file before
\* it took the lock, prints to an open file, unless LogReopen's fopen failed.
THEOREM LogFileOpen == Spec => []PrintsToOpenFile
<1>1. IInv => PrintsToOpenFile
  <2> SUFFICES ASSUME IInv, NEW t \in Writers, writing[t] = "locked", ~ reopenFailed
               PROVE  s_file = "open"
    BY DEF PrintsToOpenFile
  <2>1. s_mutex # "main"
    BY LogAssumption DEF IInv, LogTypeOK
  <2>2. ~ AllGone
    BY DaemonAssumption DEF IInv, LogOK, Tasks, AllGone
  <2> QED
    BY <2>1, <2>2 DEF IInv, LogOK
<1> QED
  BY <1>1, Invariance, PTL

\* Authenticate takes no late answer and no answer of an earlier attempt for the
\* success of this one: when OnStart goes on with an opened TTS-100, the device
\* is open, unless some octet passed for another one of its value.  It rests on
\* Genuine: a success on the line is never behind a challenge that is not read
\* yet, so the one read after a response was sent is the answer to that response,
\* and no question is left that would close the device again.
THEOREM OpenedByRightResponse == Spec => []OpenWhenAuthenticated
<1>1. IInv => OpenWhenAuthenticated
  BY DEF IInv, AuthOK, Genuine, OpenWhenAuthenticated
<1> QED
  BY <1>1, Invariance, PTL
=============================================================================
