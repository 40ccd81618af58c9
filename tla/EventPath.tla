------------------------------ MODULE EventPath ------------------------------
(***************************************************************************)
(* The way of a message of the radio to the clients: the radio thread      *)
(* dispatches it (ScpDispatch), CSirServer turns each event into a line of *)
(* text and puts it in the transmit buffers (SlideBuffer) of the clients,  *)
(* and the server thread's pass sends what is there.  And the way of a     *)
(* client's GET or SET to the radio (ClientCommands).                      *)
(*                                                                         *)
(* Events for everybody go through Broadcast, under SERVER::m_mutex, which *)
(* the pass holds too.  The result of a GET or SET goes to the controller  *)
(* through Notify, under no lock: there the two threads may be inside      *)
(* one buffer at once.  Each call of an SOBuffer function is a step.       *)
(*                                                                         *)
(* A line is its number in the order of composition; an octet of it is     *)
(* <<line, how many follow in the line>>, so <<line, 0>> is its end.       *)
(***************************************************************************)
EXTENDS ClientCommands

CONSTANTS
    Clients, NoClient,
    BufSize,        \* SIRCOND_BUFSIZE
    TextSpace,      \* lengths in Broadcast are modulo this (256)
    ShortText,      \* the length of most lines
    LongText,       \* the length of a line with song information, possibly
    Commands,       \* the lines with a GET or SET that clients send in a run
    AsyncReports,   \* what the radio notifies by itself: [type, fields]
    Answers,        \* what the radio says of each name: [name -> fields]
    MaxReports,     \* bound: messages of the radio
    MaxCommands     \* bound: commands of the clients

Numbers(n) == [1 .. n -> [1 .. 1 -> Octets]]
Strings == {str \in Seq(Octets) : Len(str) <= 255}

\* The fields of a report, or of an answer, of this type
Fields(type) ==
    CASE type \in {"RESET", "CHANNELMAP"} -> {<<>>}
      [] type \in {"MUTE", "POWER", "CHANNEL", "SIGNAL", "ANTENNA"} -> Numbers(1)
      [] type \in {"STATUS", "RSSI"} -> Numbers(3)
      [] type = "GAIN" -> [1 .. 1 -> [1 .. 1 -> -128 .. 127]]
      [] type = "TZINFO" -> [1 .. 1 -> -32768 .. 32767] \X [1 .. 1 -> Octets]
      [] type = "TIME" ->
            {f \in [1 .. 8 -> [1 .. 1 -> 0 .. 65535]] : \A k \in 2 .. 8 : f[k][1] \in Octets}
      [] type \in {"SID", "SONGID"} -> [1 .. 1 -> Strings]
      [] type = "SONGINFO" ->
            {f \in [1 .. 6 -> Strings] : f[1] \in [1 .. 1 -> Octets]}
      [] type = "CHANNELINFO" ->
            {f \in [1 .. 11 -> Strings] : \A k \in 1 .. 2 : f[k] \in [1 .. 1 -> Octets]}

AsyncTypes == {"RESET", "SONGINFO", "SONGID", "TIME", "CHANNEL", "SIGNAL", "ANTENNA", "RSSI"}

ASSUME EventPathAssumption ==
    /\ NoClient \notin Clients /\ IsFiniteSet(Clients)
    /\ \A r \in AsyncReports : r.type \in AsyncTypes /\ r.fields \in Fields(r.type)
    /\ DOMAIN Answers = DOMAIN SCP_GET
    /\ \A name \in DOMAIN SCP_GET : Answers[name] \in Fields(name)
    /\ BufSize \in Nat \ {0} /\ TextSpace \in Nat \ {0}
    /\ ShortText \in 1 .. BufSize /\ ShortText < TextSpace /\ LongText \in Nat
    /\ Commands \subseteq ClientLines
    /\ \A line \in Commands : ProcessCommand(StrTokenize(line), TRUE, 0).do = "request"
    /\ MaxReports \in Nat /\ MaxCommands \in Nat

VARIABLES
    m_clients,      \* list<CLIENT*>, the connected clients
    m_controller,
    m_txbuf,        \* CLIENT::m_txbuf of each client
    server,         \* the server thread: where it is, at which client, and the
                    \* pointer and length it took from that client's buffer
    todo,           \* the rest of m_clients that the pass has yet to visit
    call,           \* the call of CLIENT::Send each thread is in
    program,        \* what is left of the radio thread's Dispatch
    m_curr_channel,
    asked,          \* requests on their way to the radio
    kind,           \* history: the kind of message being dispatched
    due,            \* history: the events it stands for, not yet notified
    announced,      \* history: the channel the clients were last told is current
    lines,          \* how many lines were composed
    owed,           \* history: the octets put in a client's buffer for it to get
    torn,           \* history: clients whose buffer holds, or that were sent,
                    \* something else
    raced,          \* history: clients whose buffer two threads used at once
    reports, commands,  \* how many there were
    aborted         \* an assertion of SOBuffer failed

clientVars == <<m_clients, m_controller>>
bufVars    == <<m_txbuf, owed, torn, raced, aborted>>
radioVars  == <<program, m_curr_channel, kind, due, announced, reports>>
passVars   == <<server, todo>>
vars == <<clientVars, bufVars, passVars, call, radioVars, asked, lines, commands>>

Tx == INSTANCE SlideBuffer WITH m_size <- BufSize

Threads == {"server", "radio"}
NoCall  == [client |-> NoClient, data |-> <<>>, at |-> "none"]
AtClient(at, c) == [at |-> at, client |-> c, pos |-> 0, n |-> 0]
NoChannel == 255        \* SCP_INVALID_CHANNEL
Junk    == <<0, 0>>     \* what an octet of memory holds that was not written

Visiting == {"visit", "future", "send", "blocked", "sent"}
\* SERVER::m_mutex is held by the server thread during a pass.
Locked == server.at # "select"

TypeOK ==
    /\ m_clients \in Seq(Clients) /\ IsInjective(m_clients) /\ IsSuffix(todo, m_clients)
    /\ m_controller \in Range(m_clients) \cup {NoClient}
    /\ \A c \in Clients : m_txbuf[c].pos + m_txbuf[c].len <= BufSize
    /\ server.at \in {"select", "pass"} \cup Visiting
    /\ IF server.at \in Visiting THEN server.client \in Range(m_clients)
                                ELSE server.client = NoClient
    /\ \A t \in Threads : call[t].at \in {"none", "reserve", "copy", "mark"}
    /\ call["server"] # NoCall => server.at = "visit"
    /\ m_curr_channel \in 0 .. 255

-----------------------------------------------------------------------------
(* The radio: what its messages look like.  Layouts as the handlers take   *)
(* them apart; a song's fields come with a tag without a string and one    *)
(* that is not known.                                                      *)

Pascal(str) == <<Len(str)>> \o str

SongTags == <<SIT.SONGID, SIT.ARTISTID, SIT.TITLE, SIT.ARTIST, SIT.COMPOSER>>

\* A string that is empty is not sent.
Given(str) == IF str = <<>> THEN 0 ELSE 1
Tagged(tag, str) == IF str = <<>> THEN <<>> ELSE <<tag>> \o Pascal(str)

EncodeSong(f) ==
    <<2 + Given(f[1]) + Given(f[2]) + Given(f[3]) + Given(f[4]) + Given(f[5]), SIT.ERASE, 99>> \o
    Pascal(<<0>>) \o FlattenSeq([k \in 1 .. 5 |-> Tagged(SongTags[k], f[k])])

EncodeChannel(f) ==
    f[1] \o f[2] \o <<0, 0, 0>> \o Pascal(f[4]) \o Pascal(f[3]) \o Pascal(f[6]) \o Pascal(f[5])
    \o EncodeSong(SubSeq(f, 7, 11))

Encode(type, f) ==
    CASE type = "GAIN" -> <<f[1][1] % 256>>
      [] type = "TZINFO" -> <<(f[1][1] % 65536) \div 256, f[1][1] % 256, f[2][1]>>
      [] type = "TIME" -> <<f[1][1] \div 256, f[1][1] % 256>> \o FlattenSeq(Tail(f))
      [] type \in {"SID", "SONGID"} -> Pascal(f[1])
      [] type = "CHANNELMAP" -> [k \in 1 .. SCP_CHANNEL_BITMAP_SIZE |-> 0]
      [] type = "SONGINFO" -> f[1] \o EncodeSong(Tail(f))
      [] type = "CHANNELINFO" -> EncodeChannel(f)
      [] OTHER -> FlattenSeq(f)

AsyncHeader(type) ==
    CASE type = "SONGID"  -> <<SCP_ASYNC.SONGID, 0>>
      [] type = "CHANNEL" -> <<SCP_ASYNC.STATUS, ST.TUNE, 0>>
      [] type = "SIGNAL"  -> <<SCP_ASYNC.STATUS, ST.SIGNAL>>
      [] type = "ANTENNA" -> <<SCP_ASYNC.STATUS, ST.ANTENNA>>
      [] type = "RSSI"    -> <<SCP_ASYNC.SIGNAL>>
      [] OTHER -> <<SCP_ASYNC[type]>>

\* What a report tells: for a channel, its current song as well.
Meaning(type, f) ==
    IF type = "CHANNELINFO"
      THEN <<Event(type, SubSeq(f, 1, 6)), Event("SONGINFO", <<f[1]>> \o SubSeq(f, 7, 11))>>
      ELSE <<Event(type, f)>>

\* A message arrives: [data, events it stands for].
Async(r) ==
    [data |-> <<MSG_ASYNC>> \o AsyncHeader(r.type) \o Encode(r.type, r.fields),
     events |-> Meaning(r.type, r.fields)]

\* An answer repeats the kind of the request, then says its result and, if that
\* is 0, what was asked for; the answer to a SET of the channel may do so.
Answer(response, result, code, type, fields) ==
    [data |-> <<response, code, 0, result>> \o
              (IF type = "NONE" THEN <<>> ELSE Encode(type, fields)),
     events |-> <<Event(IF response = MSG_GET_RESP THEN "GET" ELSE "SET", <<<<result>>>>)>> \o
                (IF type = "NONE" THEN <<>> ELSE Meaning(type, fields))]

AboutChannel(fields, channel) == [fields EXCEPT ![1] = <<channel>>]

AnswersTo(req) ==
    {Answer(req[1] + 32, 1, req[2], "NONE", <<>>)} \cup
    IF req[1] = MSG_SET
      THEN {Answer(MSG_SET_RESP, 0, req[2], "NONE", <<>>)} \cup
           IF req[2] = SCP_SET.CHANNEL
             THEN {Answer(MSG_SET_RESP, 0, req[2], "CHANNELINFO",
                          AboutChannel(Answers["CHANNELINFO"], req[3]))}
             ELSE {}
      ELSE LET name == CHOOSE n \in DOMAIN SCP_GET : SCP_GET[n] = req[2]
           IN  {Answer(MSG_GET_RESP, 0, req[2], name,
                       IF name \in {"CHANNELINFO", "SONGINFO"}
                         THEN AboutChannel(Answers[name], req[3]) ELSE Answers[name])}

\* The answer to the GetPower of OnStart is over.  The first controller is any
\* client, or none.
Init ==
    /\ m_clients = SetToSeq(Clients)
    /\ m_controller \in Range(m_clients) \cup {NoClient}
    /\ m_txbuf = [c \in Clients |-> Tx!EmptyBuffer(Junk)]
    /\ server = AtClient("select", NoClient) /\ todo = <<>>
    /\ call = [t \in Threads |-> NoCall]
    /\ program = <<>> /\ due = <<>> /\ kind = MSG_ASYNC /\ reports = 0
    /\ m_curr_channel = NoChannel
    /\ asked = <<>>
    /\ announced = NoChannel
    /\ lines = 0
    /\ owed = [c \in Clients |-> <<>>] /\ torn = {}
    /\ raced = {} /\ aborted = FALSE
    /\ commands = 0

-----------------------------------------------------------------------------
(* CLIENT::Send, in the three calls it makes to its buffer.                *)

Line(len) == [k \in 1 .. len |-> <<lines + 1, len - k>>]

\* The thread uses c's buffer: it is in Send, or in TransmitData.
Inside(t, c) ==
    \/ call[t].client = c
    \/ t = "server" /\ server.client = c /\ server.at \in {"send", "blocked", "sent"}

Touch(t, c) ==
    raced' = IF \E u \in Threads \ {t} : Inside(u, c) THEN raced \cup {c} ELSE raced

\* c's buffer is b now, for the octets of o.  Memory outside of the data is of
\* no account in a buffer that t alone uses, nor is what a torn one holds.
Memory(t, c, b) ==
    [k \in 1 .. BufSize |->
        IF \/ k \in b.pos + 1 .. b.pos + b.len
           \/ \E u \in Threads \ {t} : Inside(u, c)
          THEN b.mem[k] ELSE Junk]

Becomes(t, c, b, o) ==
    LET lost == c \in torn \/ Tx!Contents(b) # o
    IN  /\ torn' = IF lost THEN torn \cup {c} ELSE torn
        /\ owed' = [owed EXCEPT ![c] = IF lost THEN <<>> ELSE o]
        /\ m_txbuf' = [m_txbuf EXCEPT ![c] =
              [b EXCEPT !.mem = IF lost THEN Tx!EmptyBuffer(Junk).mem ELSE Memory(t, c, b)]]

\* A line of this length is composed, and Send called with it.
CallSend(t, c, len) ==
    /\ lines' = lines + 1
    /\ call' = [call EXCEPT ![t] = [client |-> c, data |-> Line(len), at |-> "reserve"]]

\* len <= m_txbuf.GetWriteLen()
Fits(data, b) == Len(data) <= Tx!GetWriteLen(b)

Reserve(t) ==
    LET c == call[t].client
    IN  /\ call[t].at = "reserve"
        /\ m_txbuf' = [m_txbuf EXCEPT ![c] = Tx!MakeRoom(@)]
        /\ call' = IF Fits(call[t].data, m_txbuf[c])
                     THEN [call EXCEPT ![t].at = "copy"] ELSE [call EXCEPT ![t] = NoCall]
        /\ Touch(t, c)
        /\ UNCHANGED <<owed, torn, aborted>>

Copy(t) ==
    LET c == call[t].client
    IN  /\ call[t].at = "copy"
        /\ m_txbuf' = [m_txbuf EXCEPT ![c] = Tx!Store(@, call[t].data)]
        /\ call' = [call EXCEPT ![t].at = "mark"]
        /\ Touch(t, c)
        /\ UNCHANGED <<owed, torn, aborted>>

\* MarkWritten, with its assertion
Mark(t) ==
    LET c    == call[t].client
        data == call[t].data
    IN  /\ call[t].at = "mark"
        /\ aborted' = ~ Fits(data, m_txbuf[c])
        /\ IF aborted' THEN UNCHANGED <<m_txbuf, owed, torn>>
           ELSE Becomes(t, c, Tx!MarkWritten(m_txbuf[c], Len(data)), owed[c] \o data)
        /\ call' = [call EXCEPT ![t] = NoCall]
        /\ Touch(t, c)

SendStep(t) ==
    /\ ~ aborted
    /\ Reserve(t) \/ Copy(t) \/ Mark(t)
    /\ UNCHANGED <<clientVars, passVars, radioVars, asked, lines, commands>>

-----------------------------------------------------------------------------
(* The radio thread: Dispatch, with the handlers of CSirServer::Update.    *)

RadioFree == call["radio"] = NoCall /\ ~ aborted

\* A message of the radio, by itself or in answer to a request.  The requests
\* before that one stay without an answer.
Receive ==
    \E k \in 0 .. Len(asked) :
    \E m \in IF k = 0 THEN {Async(r) : r \in AsyncReports} ELSE AnswersTo(asked[k]) :
        /\ RadioFree /\ program = <<>> /\ reports < MaxReports
        /\ program' = Dispatch(m.data)
        /\ due' = m.events
        /\ kind' = m.data[1]
        /\ asked' = SubSeq(asked, k + 1, Len(asked))
        /\ reports' = reports + 1
        /\ UNCHANGED <<clientVars, bufVars, passVars, call, m_curr_channel, announced,
                       lines, commands>>

StoreChannel ==
    /\ RadioFree /\ program # <<>> /\ Head(program).do = "tune"
    /\ m_curr_channel' = Head(program).channel
    /\ program' = Tail(program)
    /\ UNCHANGED <<clientVars, bufVars, passVars, call, kind, due, announced,
                   reports, asked, lines, commands>>

\* Notify, with an event of one of these types
Notify(types) ==
    /\ RadioFree /\ program # <<>> /\ Head(program).do = "notify"
    /\ Head(program).event.type \in types
    /\ program' = Tail(program)
    /\ due' = IF due = <<>> THEN due ELSE Tail(due)
    /\ kind' = IF Len(program) = 1 THEN MSG_ASYNC ELSE kind
    /\ UNCHANGED <<clientVars, passVars, m_curr_channel, reports, commands>>

ToController == {"GET", "SET"}
NoHandler    == {"SONGID", "ANTENNA"}
ToAll        == (DOMAIN SCP_GET \cup {"SIGNAL"}) \ NoHandler

TextLengths(type) == IF type = "SONGINFO" THEN {ShortText, LongText} ELSE {ShortText}

\* The buffer after a call of CLIENT::Send that nothing interrupts
Sent(data, b) ==
    IF Fits(data, b) THEN Tx!MarkWritten(Tx!Store(Tx!MakeRoom(b), data), Len(data))
                     ELSE Tx!MakeRoom(b)

\* Mutant of Broadcast: it does not take m_mutex.
BroadcastUnlocked(data) ==
    LET got == {c \in Range(m_clients) : Fits(data, m_txbuf[c])}
    IN  /\ m_txbuf' = [c \in Clients |->
                IF c \notin Range(m_clients) THEN m_txbuf[c]
                ELSE [Sent(data, m_txbuf[c]) EXCEPT !.mem =
                        IF c \in torn THEN @ ELSE Memory("radio", c, Sent(data, m_txbuf[c]))]]
        /\ owed' = [c \in Clients |-> IF c \in got \ torn THEN owed[c] \o data ELSE owed[c]]

\* Under m_mutex, each client in the list is sent the data.
Broadcast(data) ==
    LET got == {c \in Range(m_clients) : Fits(data, m_txbuf[c])}
    IN  /\ ~ Locked
        /\ m_txbuf' = [c \in Clients |->
                IF c \notin Range(m_clients) THEN m_txbuf[c]
                ELSE [Sent(data, m_txbuf[c]) EXCEPT !.mem =
                        IF c \in torn THEN @ ELSE Memory("radio", c, Sent(data, m_txbuf[c]))]]
        /\ owed' = [c \in Clients |-> IF c \in got \ torn THEN owed[c] \o data ELSE owed[c]]

\* What a uint8_t leaves of a line
Passed(data) == SubSeq(data, 1, Len(data) % TextSpace)

NotifyAll ==
    /\ Notify(ToAll)
    /\ LET e == Head(program).event
       IN  /\ \E len \in TextLengths(e.type) : Broadcast(Passed(Line(len)))
           /\ announced' = IF \/ e.type = "CHANNEL"
                              \/ e.type = "CHANNELINFO" /\ kind = MSG_SET_RESP
                             THEN e.fields[1][1] ELSE announced
    /\ lines' = lines + 1
    /\ UNCHANGED <<torn, raced, aborted, call, asked>>

\* Notify(m_controller, ...): the pointer is read once, under no lock.
NotifyController ==
    /\ Notify(ToController)
    /\ IF m_controller = NoClient THEN UNCHANGED <<call, lines>>
                                  ELSE CallSend("radio", m_controller, ShortText)
    /\ UNCHANGED <<bufVars, announced, asked>>

OnSCEReset ==
    /\ Notify({"RESET"})
    /\ asked' = Append(asked, SetRequest("POWER", <<3>>))
    /\ UNCHANGED <<bufVars, call, announced, lines>>

Unhandled ==
    /\ Notify(NoHandler)
    /\ UNCHANGED <<bufVars, call, announced, asked, lines>>

RadioThread ==
    StoreChannel \/ NotifyAll \/ NotifyController \/ OnSCEReset \/ Unhandled

-----------------------------------------------------------------------------
(* The server thread: SERVER::OnRun.                                       *)

ServerAt(at) == server.at = at /\ call["server"] = NoCall /\ ~ aborted

BeginPass ==
    /\ ServerAt("select")
    /\ server' = AtClient("pass", NoClient)
    /\ todo' = m_clients
    /\ UNCHANGED <<clientVars, bufVars, call, radioVars, asked, lines, commands>>

Visit ==
    /\ ServerAt("pass") /\ todo # <<>>
    /\ server' = AtClient("visit", Head(todo))
    /\ todo' = Tail(todo)
    /\ UNCHANGED <<clientVars, bufVars, call, radioVars, asked, lines, commands>>

\* Mutant of EndPass: m_mutex is not unlocked.
EndPassLocked ==
    /\ ServerAt("pass") /\ todo = <<>>
    /\ UNCHANGED vars

EndPass ==
    /\ ServerAt("pass") /\ todo = <<>>
    /\ server' = AtClient("select", NoClient)
    /\ UNCHANGED <<clientVars, bufVars, todo, call, radioVars, asked, lines, commands>>

\* ProcessCommand: the request is queued and its verdict awaited, or the client
\* is told ERROR, as it lacks control.
Command(line) ==
    LET outcome == ProcessCommand(StrTokenize(line), m_controller = server.client, m_curr_channel)
    IN  /\ ServerAt("visit") /\ commands < MaxCommands
        /\ \/ /\ outcome.do = "request"
              /\ asked' = Append(asked, outcome.msg)
              /\ server' = [server EXCEPT !.at = "future"]
              /\ UNCHANGED <<call, lines>>
           \/ /\ outcome = Error
              /\ CallSend("server", server.client, ShortText)
              /\ UNCHANGED <<server, asked>>
        /\ commands' = commands + 1
        /\ UNCHANGED <<clientVars, bufVars, todo, radioVars>>

\* NotifyResult
Verdict ==
    /\ ServerAt("future")
    /\ server' = [server EXCEPT !.at = "visit"]
    /\ CallSend("server", server.client, ShortText)
    /\ UNCHANGED <<clientVars, bufVars, todo, radioVars, asked, commands>>

\* TransmitData, up to the call of send()
TransmitBegin ==
    LET c == server.client
    IN  /\ ServerAt("visit") /\ m_txbuf[c].len > 0
        /\ server' = [at |-> "send", client |-> c, pos |-> m_txbuf[c].pos, n |-> m_txbuf[c].len]
        /\ Touch("server", c)
        /\ UNCHANGED <<clientVars, m_txbuf, owed, torn, aborted, todo, call, radioVars, asked, lines,
                       commands>>

\* send() takes n of the octets that the memory holds now.
TransmitSend ==
    LET c == server.client
    IN  /\ ServerAt("send")
        /\ \E n \in 1 .. server.n :
            LET out == SubSeq(m_txbuf[c].mem, server.pos + 1, server.pos + n)
            IN  /\ torn' = IF IsPrefix(out, owed[c]) THEN torn ELSE torn \cup {c}
                /\ owed' = [owed EXCEPT ![c] =
                                IF IsPrefix(out, @) THEN SubSeq(@, n + 1, Len(@)) ELSE <<>>]
                /\ server' = [server EXCEPT !.at = "sent", !.n = n]
        /\ Touch("server", c)
        /\ UNCHANGED <<clientVars, m_txbuf, aborted, todo, call, radioVars, asked, lines,
                       commands>>

\* MarkRead, with its assertion
TransmitMark ==
    LET c == server.client
    IN  /\ ServerAt("sent")
        /\ aborted' = (server.n > m_txbuf[c].len)
        /\ IF aborted' THEN UNCHANGED <<m_txbuf, owed, torn>>
           ELSE Becomes("server", c, Tx!MarkRead(m_txbuf[c], server.n), owed[c])
        /\ server' = AtClient("pass", NoClient)
        /\ Touch("server", c)
        /\ UNCHANGED <<clientVars, todo, call, radioVars, asked, lines, commands>>

\* Nothing to send
Leave ==
    /\ ServerAt("visit") /\ m_txbuf[server.client].len = 0
    /\ server' = AtClient("pass", NoClient)
    /\ UNCHANGED <<clientVars, bufVars, todo, call, radioVars, asked, lines, commands>>

\* Mutant of DropClient: control is not released.
DropClientHolding ==
    LET c == server.client
    IN  /\ ServerAt("visit")
        /\ Touch("server", c)
        /\ Becomes("server", c, Tx!MarkRead(m_txbuf[c], m_txbuf[c].len), <<>>)
        /\ m_controller' = m_controller
        /\ m_clients' = RemoveFirst(m_clients, c)
        /\ server' = AtClient("pass", NoClient)
        /\ UNCHANGED <<aborted, todo, call, radioVars, asked, lines, commands>>

\* The client hung up, or its socket failed.  Control is released (nobody waits
\* for it here), the socket closed and the buffer cleared.
DropClient ==
    LET c == server.client
    IN  /\ ServerAt("visit")
        /\ Touch("server", c)
        /\ Becomes("server", c, Tx!MarkRead(m_txbuf[c], m_txbuf[c].len), <<>>)
        /\ m_controller' = IF m_controller = c THEN NoClient ELSE m_controller
        /\ m_clients' = RemoveFirst(m_clients, c)
        /\ server' = AtClient("pass", NoClient)
        /\ UNCHANGED <<aborted, todo, call, radioVars, asked, lines, commands>>

ServerThread ==
    \/ BeginPass \/ Visit \/ EndPass \/ Verdict
    \/ TransmitBegin \/ TransmitSend \/ TransmitMark \/ Leave

\* The client does not read from its socket any more: send() blocks.
ClientStops ==
    /\ ServerAt("send")
    /\ server' = [server EXCEPT !.at = "blocked"]
    /\ UNCHANGED <<clientVars, bufVars, todo, call, radioVars, asked, lines, commands>>

Next ==
    \/ Receive \/ RadioThread
    \/ \E t \in Threads : SendStep(t)
    \/ ServerThread
    \/ \E line \in Commands : Command(line)
    \/ DropClient \/ ClientStops

Spec == Init /\ [][Next]_vars

\* The threads run; the mutex is fair to the radio thread, as the server thread
\* sleeps in select() outside of it.  Nothing is assumed of clients and radio,
\* except that a request gets its verdict (ScpSender).
FairSpec ==
    /\ Spec
    /\ WF_vars(ServerThread)
    /\ SF_vars(RadioThread)
    /\ \A t \in Threads : WF_vars(SendStep(t))

-----------------------------------------------------------------------------
(* Properties.                                                             *)

\* What c's buffer holds that was not sent
Unsent(c) ==
    LET data == Tx!Contents(m_txbuf[c])
    IN  IF server.at = "sent" /\ server.client = c
          THEN SubSeq(data, server.n + 1, Len(data)) ELSE data

Intact(c) == c \notin torn /\ Unsent(c) = owed[c]

\* A client that stays connected gets the octets of the lines that Send or
\* Broadcast accepted for it, each once and in the order they were accepted,
\* and never the rest of its memory, however the buffer slides and whatever
\* send() takes at a time; and no assertion of SOBuffer fails.  Excepted are
\* clients whose buffer was used by both threads at once (see StreamIntact).
IntactUnlessRaced ==
    /\ \A c \in Range(m_clients) \ raced : Intact(c)
    /\ aborted => raced # {}

\* The same, as CLIENT::Send says of every message it accepts.
StreamIntact == \A c \in Range(m_clients) : Intact(c)

\* The clients' and the server's view of the tuned channel agree: m_curr_channel,
\* which GET CHANNELINFO and GET SONGINFO ask about, is the channel that was
\* last announced, unless the announcement of a newer one is under way.
AnnouncedIsCached ==
    \/ announced \in {NoChannel, m_curr_channel}
    \/ program # <<>> /\ Head(program) \in {Tell(due[k]) : k \in DOMAIN due}
       /\ Head(program).event.type \in {"CHANNEL", "CHANNELINFO"}
       /\ Head(program).event.fields[1] = <<m_curr_channel>>

Notified(steps) ==
    FlattenSeq([k \in DOMAIN steps |->
                   IF steps[k].do = "notify" THEN <<steps[k].event>> ELSE <<>>])

\* CSirServer is notified of what the radio's message says: every event of it,
\* every field, in order, and of nothing else, whichever of the handlers takes
\* the message apart; and so it will be of the answer to any GET.
EventsAsReported ==
    /\ Notified(program) = due
    /\ reports = 0 /\ server.at = "select" =>
          \A name \in DOMAIN Answers : \A m \in AnswersTo(GetRequest(name, NoChannel)) :
             Notified(Dispatch(m.data)) = m.events

\* Where the server thread has a line of this client to process, StrTokenize makes
\* of any line the tokens that, with single spaces between them, are the line again.
TokensMakeTheLine == ServerAt("visit") => LinesTokenized

\* Where the line is the controller's, a value in any SET comes back as the same
\* value in the event that reports the octets of its request: what atoi, casts,
\* shifts and masks do on the way to the frame, deserialize undoes.
SetIsReported == ServerAt("visit") /\ m_controller = server.client => SettingsKept

\* The server thread is in send() to a client that does not read any more.
Stalled == server.at = "blocked"

\* Everything the radio reports is dispatched and everything put in the buffer
\* of a connected client goes out, although both threads wait for each other's
\* lock and buffers run full; only a client that stops to read holds up all
\* the others, as send() blocks with m_mutex held.
EventsGoOut ==
    \/ <>[]Stalled \/ <>[]aborted
    \/ []<>(program = <<>> /\ call["radio"] = NoCall /\ \A c \in Range(m_clients) : m_txbuf[c].len = 0)
=============================================================================
