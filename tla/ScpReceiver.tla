----------------------------- MODULE ScpReceiver -----------------------------
(***************************************************************************)
(* The receiving half of the SCP link protocol in CSirCon (sircon.cpp),    *)
(* byte by byte: Read undoes the escaping of the serial line, OnRun finds  *)
(* the frames in the staging buffer, resynchronises after damage,          *)
(* acknowledges every frame and dispatches those that are not repeated.    *)
(*                                                                         *)
(* A frame is sentinel, sequence number, length, payload, checksum; the    *)
(* other header fields are constant.  Frames that are acknowledgements are *)
(* the subject of ScpSender.  The checksum is a sum of octets, so that     *)
(* damaged bytes, or bytes from the middle of a frame, may pass for a      *)
(* frame: such a message is acknowledged and dispatched as NoFrame.        *)
(*                                                                         *)
(* The radio is stop-and-wait: it may send the current frame again at any  *)
(* time and goes on to the next when it has been acknowledged, or when it  *)
(* gives up.  The line damages bytes and delivers them in pieces.          *)
(***************************************************************************)
EXTENDS Integers, SequencesExt

CONSTANTS
    ByteSpace,      \* bytes are modulo this (256)
    PKT_SENTINEL, ASCII_ESC, SENTINEL_ESC,
    StageSize,      \* SCP_STAGEBUFSIZE
    SeqSpace,       \* sequence numbers of the radio are modulo this (256)
    Payloads,       \* the payload of each frame the radio sends, in order
    MaxSends,       \* bound: transmissions
    MaxDamage,      \* bound: transmissions that are damaged
    LineCap         \* bound: bytes on the line

HdrLen == 3         \* sizeof(SHDR), here
Bytes  == 0 .. ByteSpace - 1

ASSUME ReceiverAssumption ==
    /\ ByteSpace \in Nat /\ SeqSpace \in 1 .. ByteSpace
    /\ {PKT_SENTINEL, ASCII_ESC, SENTINEL_ESC} \subseteq Bytes
    /\ PKT_SENTINEL # ASCII_ESC /\ PKT_SENTINEL # SENTINEL_ESC /\ ASCII_ESC # SENTINEL_ESC
    /\ Payloads \in Seq(Seq(Bytes)) \ {<<>>} /\ \A f \in DOMAIN Payloads : Len(Payloads[f]) \in Bytes
    /\ StageSize \in Nat /\ StageSize >= HdrLen + ByteSpace   \* SCP_MAX_PKT fits
    /\ MaxSends \in Nat /\ MaxDamage \in Nat /\ LineCap \in Nat

VARIABLES
    m_stagebuf,     \* the staging buffer
    inESC,          \* Read: the last byte began an escape sequence
    m_last_seq,     \* sequence number of the latest frame, -1 at first
    radio,          \* the radio thread: "read" or "parse"
    line,           \* bytes on their way from the radio
    lineFrame,      \* history: the frame each of them was sent for
    current,        \* the frame the radio is sending
    skipped,        \* frames the radio has given up since one was acknowledged
    sends, damages, \* transmissions so far, and damaged ones
    arrived,        \* history: the bytes Read has delivered
    arrivedFrame,   \* history: the frame each of them was sent for
    consumed,       \* history: how many of them OnRun has consumed
    accepted,       \* history: [first, last] of each frame found in them
    acked,          \* history: frames acknowledged to the radio, or NoFrame
    dispatched      \* history: frames dispatched, in order, or NoFrame

radioVars == <<current, skipped, sends, damages>>
history   == <<arrived, arrivedFrame, accepted, acked, dispatched>>
vars == <<m_stagebuf, inESC, m_last_seq, radio, line, lineFrame, radioVars, consumed, history>>

Stage == INSTANCE SlideBuffer WITH m_size <- StageSize

Frames == DOMAIN Payloads
NoFrame == 0        \* a good message that is no frame its bytes were sent for

TypeOK ==
    /\ m_stagebuf \in Stage!Buffers(Bytes)
    /\ inESC \in BOOLEAN
    /\ m_last_seq \in {-1} \cup Bytes
    /\ radio \in {"read", "parse"}
    /\ line \in Seq(Bytes) /\ lineFrame \in Seq(Frames) /\ Len(lineFrame) = Len(line)
    /\ current \in Frames /\ skipped \in Nat
    /\ sends \in 0 .. MaxSends /\ damages \in 0 .. MaxDamage
    /\ arrived \in Seq(Bytes) /\ consumed \in 0 .. Len(arrived)
    /\ arrivedFrame \in Seq(Frames) /\ Len(arrivedFrame) = Len(arrived)
    /\ accepted \subseteq [first : Nat, last : Nat]
    /\ acked \subseteq Frames \cup {NoFrame} /\ dispatched \in Seq(Frames \cup {NoFrame})

Init ==
    /\ m_stagebuf = Stage!EmptyBuffer(0)
    /\ inESC = FALSE
    /\ m_last_seq = -1
    /\ radio = "read"
    /\ line = <<>> /\ lineFrame = <<>>
    /\ current = 1 /\ skipped = 0 /\ sends = 0 /\ damages = 0
    /\ arrived = <<>> /\ arrivedFrame = <<>> /\ consumed = 0 /\ accepted = {}
    /\ acked = {} /\ dispatched = <<>>

-----------------------------------------------------------------------------
(* Frames on the line.  Write and Read, ComputeChecksum and                *)
(* ValidateChecksum are each other's counterparts: the radio is taken to   *)
(* write its frames as the code writes its own.                            *)

\* Mutant of ComputeChecksum: the header is summed, the payload is not.
ComputeChecksumOfHeader(data) == (- FoldLeft(+, 0, SubSeq(data, 1, 3))) % ByteSpace

ComputeChecksum(data) == (- FoldLeft(+, 0, data)) % ByteSpace

FrameBytes ==
    [f \in Frames |->
        LET body == <<PKT_SENTINEL, f % SeqSpace, Len(Payloads[f])>> \o Payloads[f]
        IN  Append(body, ComputeChecksum(body))]

\* Mutant of EscapeByte: the escape byte itself is not escaped.
EscapeByteSentinelOnly(b) == IF b = PKT_SENTINEL THEN <<ASCII_ESC, SENTINEL_ESC>> ELSE <<b>>

EscapeByte(b) ==
    CASE b = PKT_SENTINEL -> <<ASCII_ESC, SENTINEL_ESC>>
      [] b = ASCII_ESC    -> <<ASCII_ESC, ASCII_ESC>>
      [] OTHER            -> <<b>>

\* Write: every byte but the first is escaped.
Escape(data) == <<Head(data)>> \o FlattenSeq([k \in 1 .. Len(data) - 1 |-> EscapeByte(data[k + 1])])

\* One byte of Read's loop
Unescape(acc, b) ==
    CASE b = ASCII_ESC /\ ~ acc.esc -> [acc EXCEPT !.esc = TRUE]
      [] b = ASCII_ESC /\ acc.esc   -> [out |-> Append(acc.out, ASCII_ESC), esc |-> FALSE]
      [] b = SENTINEL_ESC /\ acc.esc -> [out |-> Append(acc.out, PKT_SENTINEL), esc |-> FALSE]
      [] OTHER -> [out |-> IF acc.esc THEN acc.out ELSE Append(acc.out, b), esc |-> FALSE]

\* Read's loop over the bytes, and the byte with which it has j bytes
Decode(bytes, esc) == FoldLeft(Unescape, [out |-> <<>>, esc |-> esc], bytes)
CompletedBy(bytes, esc, j) ==
    Min({i \in DOMAIN bytes : Len(Decode(SubSeq(bytes, 1, i), esc).out) >= j})

ValidateChecksum(msg) == FoldLeft(+, 0, msg) % ByteSpace = 0

-----------------------------------------------------------------------------
(* The radio thread: OnRun.                                                *)

\* Mutant of ReadLine: as much as the buffer holds in all, not what is free.
ReadLineUnbounded ==
    /\ radio = "read" /\ radio' = "parse"
    /\ \E n \in 1 .. Len(line) :
         LET part == SubSeq(line, 1, n)
             got == Decode(part, inESC)
             buf == Stage!MakeRoom(m_stagebuf)
         IN  /\ n <= StageSize
             /\ m_stagebuf' = Stage!MarkWritten(Stage!Store(buf, got.out), Len(got.out))
             /\ inESC' = got.esc
             /\ line' = SubSeq(line, n + 1, Len(line))
             /\ lineFrame' = SubSeq(lineFrame, n + 1, Len(line))
             /\ arrived' = arrived \o got.out
             /\ arrivedFrame' = arrivedFrame \o
                    [j \in DOMAIN got.out |-> lineFrame[CompletedBy(part, inESC, j)]]
    /\ UNCHANGED <<m_last_seq, radioVars, consumed, accepted, acked, dispatched>>

\* GetWriteLen is called in the assertion before the two pointers are taken.
ReadLine ==
    /\ radio = "read" /\ radio' = "parse"
    /\ \E n \in 1 .. Len(line) :
         LET part == SubSeq(line, 1, n)
             got == Decode(part, inESC)
             buf == Stage!MakeRoom(m_stagebuf)
         IN  /\ n <= Stage!GetWriteLen(m_stagebuf)
             /\ m_stagebuf' = Stage!MarkWritten(Stage!Store(buf, got.out), Len(got.out))
             /\ inESC' = got.esc
             /\ line' = SubSeq(line, n + 1, Len(line))
             /\ lineFrame' = SubSeq(lineFrame, n + 1, Len(line))
             /\ arrived' = arrived \o got.out
             /\ arrivedFrame' = arrivedFrame \o
                    [j \in DOMAIN got.out |-> lineFrame[CompletedBy(part, inESC, j)]]
    /\ UNCHANGED <<m_last_seq, radioVars, consumed, accepted, acked, dispatched>>

Staged == Stage!Contents(m_stagebuf)
HasHeader == Len(Staged) >= HdrLen
Aligned == Staged[1] = PKT_SENTINEL
FrameSeq == Staged[2]
MsgLen == HdrLen + Staged[3] + 1
Msg == SubSeq(Staged, 1, MsgLen)

\* The frames that the bytes of the message were sent for, and the one it is.
SentFor == {arrivedFrame[k] : k \in consumed + 1 .. consumed + MsgLen}
FrameOf(msg) ==
    IF \E f \in SentFor : msg = FrameBytes[f] THEN CHOOSE f \in SentFor : msg = FrameBytes[f]
                                           ELSE NoFrame

Consume(n) ==
    /\ m_stagebuf' = Stage!MarkRead(m_stagebuf, n)
    /\ consumed' = consumed + n
    /\ UNCHANGED <<inESC, radio, line, lineFrame, radioVars, arrived, arrivedFrame>>

\* No header, or not the whole message: back to Read.
NeedMore ==
    /\ radio = "parse" /\ radio' = "read"
    /\ HasHeader => Aligned /\ MsgLen > Len(Staged)
    /\ UNCHANGED <<m_stagebuf, inESC, m_last_seq, line, lineFrame, radioVars, consumed, history>>

Resync ==
    /\ radio = "parse" /\ HasHeader /\ ~ Aligned
    /\ Consume(1)
    /\ UNCHANGED <<m_last_seq, accepted, acked, dispatched>>

HasMessage == radio = "parse" /\ HasHeader /\ Aligned /\ MsgLen <= Len(Staged)

\* Mutant of BadChecksum: the whole message is skipped.
BadChecksumSkips ==
    /\ HasMessage /\ ~ ValidateChecksum(Msg)
    /\ Consume(MsgLen)
    /\ UNCHANGED <<m_last_seq, accepted, acked, dispatched>>

\* "Invalid chksum!": a negative acknowledgement, and "FORCE A RESYNC"
BadChecksum ==
    /\ HasMessage /\ ~ ValidateChecksum(Msg)
    /\ Consume(1)
    /\ UNCHANGED <<m_last_seq, accepted, acked, dispatched>>

\* A good message is acknowledged, new or not.
GoodMessage ==
    /\ HasMessage /\ ValidateChecksum(Msg)
    /\ accepted' = accepted \cup {[first |-> consumed + 1, last |-> consumed + MsgLen]}
    /\ acked' = acked \cup {FrameOf(Msg)}
    /\ m_last_seq' = FrameSeq
    /\ Consume(MsgLen)

\* Mutant of Repeated: any sequence number not above the last one.
RepeatedOrOlder == FrameSeq <= m_last_seq

\* Mutant of Repeated: nothing is filtered.
RepeatedNever == FALSE

Repeated == FrameSeq = m_last_seq

Dispatch ==
    /\ GoodMessage
    /\ ~ Repeated
    /\ dispatched' = Append(dispatched, FrameOf(Msg))

\* "Ignoring duplicate frame."
IgnoreDuplicate ==
    /\ GoodMessage
    /\ Repeated
    /\ UNCHANGED dispatched

RadioThread ==
    \/ ReadLine \/ NeedMore \/ Resync \/ BadChecksum \/ Dispatch \/ IgnoreDuplicate

-----------------------------------------------------------------------------
(* The radio and the serial line.                                          *)

Put(bytes) ==
    /\ sends < MaxSends /\ sends' = sends + 1
    /\ Len(line) + Len(bytes) <= LineCap
    /\ line' = line \o bytes
    /\ lineFrame' = lineFrame \o [k \in DOMAIN bytes |-> current]
    /\ UNCHANGED <<m_stagebuf, inESC, m_last_seq, radio, current, skipped, consumed, history>>

RadioSends == Put(Escape(FrameBytes[current])) /\ UNCHANGED damages

\* A byte is lost or altered.
LineDamages ==
    /\ damages < MaxDamage /\ damages' = damages + 1
    /\ LET bytes == Escape(FrameBytes[current])
       IN  \E k \in DOMAIN bytes :
             \/ Put(RemoveAt(bytes, k))
             \/ \E b \in Bytes \ {bytes[k]} : Put([bytes EXCEPT ![k] = b])

\* Bound on the radio: it does not give up a whole round of sequence numbers,
\* so that two frames that follow each other have different ones.
RadioGoesOn ==
    /\ current < Len(Payloads) /\ current' = current + 1
    /\ skipped' = IF current \in acked THEN 0 ELSE skipped + 1
    /\ skipped' < SeqSpace - 1
    /\ UNCHANGED <<m_stagebuf, inESC, m_last_seq, radio, line, lineFrame, sends, damages,
                   consumed, history>>

Next == RadioThread \/ RadioSends \/ LineDamages \/ RadioGoesOn

Spec == Init /\ [][Next]_vars

-----------------------------------------------------------------------------
(* Properties.                                                             *)

\* SOBuffer under Read and OnRun: what is staged is what arrived and was not
\* consumed, in order, wherever the data lies and however often it slid.
StageIsFifo == Staged = SubSeq(arrived, consumed + 1, Len(arrived))

\* assert(m_stagebuf.GetWriteLen() > 0U) (sircon.cpp:564): whatever the line
\* delivers, OnRun never waits for the rest of a message that cannot fit.
RoomToRead == radio = "read" => Stage!GetWriteLen(m_stagebuf) > 0

\* OnRun's resync: no intact frame is skipped, whatever damage precedes it.
\* Every frame in the consumed bytes was accepted, or lies across one that was.
NoFrameSkipped ==
    \A k \in 1 .. consumed, f \in Frames :
        LET last == k + Len(FrameBytes[f]) - 1
        IN  last <= consumed /\ SubSeq(arrived, k, last) = FrameBytes[f] =>
                \E a \in accepted : a.first <= last /\ a.last >= k

OneOctetDiffers(s, t) ==
    /\ Len(s) = Len(t)
    /\ \E k \in DOMAIN t : s[k] # t[k] /\ \A j \in DOMAIN t \ {k} : s[j] = t[j]

\* ComputeChecksum and ValidateChecksum: a frame of which one octet was altered
\* on its way, but not its length, is never accepted, whichever octet it was.
AlteredOctetRefused ==
    HasMessage /\ ValidateChecksum(Msg) => \A f \in Frames : ~ OneOctetDiffers(Msg, FrameBytes[f])

\* Write, Read and OnRun's parsing: as long as the line damages nothing, OnRun
\* neither resynchronises nor refuses a message, whatever bytes the payloads have
\* and in whatever pieces they arrive, and each is a frame its bytes were sent for.
IntactIsAccepted ==
    damages = 0 /\ radio = "parse" /\ HasHeader =>
        Aligned /\ (MsgLen <= Len(Staged) => ValidateChecksum(Msg) /\ FrameOf(Msg) # NoFrame)

\* A damaged message had a sum of 0, or bytes that are not a frame's had one.  The
\* duplicate filter then remembers a number that the radio did not send, and may
\* pass a repeated frame or drop a new one: the next two properties except it.
Collision == NoFrame \in acked

\* The duplicate filter: a frame is dispatched at most once, in the order of
\* sending, however often the radio repeats it, until bytes collide.
InOrderOnce ==
    ~ Collision => \A j, k \in DOMAIN dispatched : j < k => dispatched[j] < dispatched[k]

\* SendACK: a frame that the radio is told was received has been dispatched;
\* until bytes collide, the filter never takes a new frame for a duplicate.
AckedIsDispatched == ~ Collision => acked \subseteq ToSet(dispatched)
=============================================================================
