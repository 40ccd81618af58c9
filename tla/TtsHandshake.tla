---------------------------- MODULE TtsHandshake ----------------------------
(***************************************************************************)
(* CTTS100::OnStart: a TTS-100 interface between the serial port and the   *)
(* radio is looked for ('V', QueryVersion) and, if there is one, opened by *)
(* a challenge and its response ('A', Authenticate).  Both are tried again *)
(* when they fail.  There is no flow control and nothing says which        *)
(* question an answer belongs to: it may come after its Recv timed out.    *)
(*                                                                         *)
(* Texts are shortened: a version is three octets, one for "Time Trax" and *)
(* one for "Version"; a challenge is three, the last of them the part that *)
(* counts; a result is two.                                                *)
(*                                                                         *)
(* An octet is <<what it was sent as, which one, its value>>.  The host    *)
(* and the device see values only; noise and the part of a challenge that  *)
(* counts may have any value, also one that the host looks for.            *)
(***************************************************************************)
EXTENDS Integers, SequencesExt

CONSTANTS
    MAX_AUTH_ATTEMPTS,
    BufLen,         \* the size of buf (256)
    VersionLen,     \* a shorter version is none (9)
    NoiseCap,       \* bound: noise only while less than this is on the line
    AnyValue        \* bound: the values of noise and of challenges

ASSUME HandshakeAssumption ==
    /\ MAX_AUTH_ATTEMPTS \in Nat \ {0} /\ NoiseCap \in Nat
    /\ BufLen \in Nat /\ BufLen >= 3 /\ VersionLen \in 1 .. BufLen

VARIABLES
    tts,        \* OnStart: where it is, its loop counter, the buf of the call
    input,      \* octets in the terminal's queue
    coming,     \* octets on their way
    asked,      \* what is on its way to the device
    device,     \* the TTS-100: its last challenge, and whether it is open
    mistaken    \* history: an octet has passed for another of its value

ttsVars == <<tts, input, coming, asked, device, mistaken>>

\* "P" stands for 0x50 and 0x70.
Octet(what) == <<what, 0, what>>

Key(n, v) == <<"key", n, v>>

Value(octet) == octet[3]

PassesFor(octet, what) == Value(octet) = what /\ octet # Octet(what)

Reads == {"readVersion", "readChallenge", "readResult"}

HandshakeTypeOK ==
    /\ tts.at \in {"version", "auth", "plain", "open", "refused", "over"} \cup Reads
    /\ tts.cnt \in 0 .. MAX_AUTH_ATTEMPTS
    /\ Len(tts.buf) <= BufLen
    /\ mistaken \in BOOLEAN

HandshakeInit ==
    /\ tts = [at |-> "version", cnt |-> 0, buf |-> <<>>]
    /\ input = <<>> /\ coming = <<>> /\ asked = <<>>
    /\ device = [challenge |-> 0, value |-> "none", open |-> FALSE]
    /\ mistaken = FALSE

-----------------------------------------------------------------------------
(* The host.                                                               *)

\* The loops of OnStart: `last` when the attempt that failed was the last one.
Retry(first, last) ==
    tts' = [at  |-> IF tts.cnt + 1 < MAX_AUTH_ATTEMPTS THEN first ELSE last,
            cnt |-> tts.cnt + 1, buf |-> <<>>]

RetryVersion == Retry("version", "plain")
RetryAuth    == Retry("auth", "refused")

\* SetDataRate(9600) flushes the input; one octet is sent.
Ask(from, what, to) ==
    /\ tts.at = from
    /\ tts' = [tts EXCEPT !.at = to]
    /\ input' = <<>> /\ asked' = Append(asked, Octet(what))
    /\ UNCHANGED <<coming, device, mistaken>>

QueryVersion == Ask("version", "V", "readVersion")
Authenticate == Ask("auth", "A", "readChallenge")

\* ... or not sent
AskFails ==
    /\ \/ tts.at = "version" /\ RetryVersion
       \/ tts.at = "auth" /\ RetryAuth
    /\ input' = <<>>
    /\ UNCHANGED <<coming, asked, device, mistaken>>

\* Recv takes what there is and fits.
Room == BufLen - Len(tts.buf)

Complete ==
    \/ tts.at = "readVersion" /\ tts.buf # <<>> /\ Value(Last(tts.buf)) = "lf"
    \/ tts.at = "readChallenge" /\ Len(tts.buf) >= 3
    \/ tts.at = "readResult" /\ Len(tts.buf) >= 2

Recv ==
    LET n == IF Len(input) < Room THEN Len(input) ELSE Room
    IN  /\ tts.at \in Reads /\ ~ Complete /\ n > 0
        /\ tts' = [tts EXCEPT !.buf = @ \o SubSeq(input, 1, n)]
        /\ input' = SubSeq(input, n + 1, Len(input))
        /\ UNCHANGED <<coming, asked, device, mistaken>>

\* Mutant of ReadEnds: a Recv that returns 0, for want of room, is repeated.
ReadEndsUnlessFull == Complete \/ input = <<>>

\* The answer is complete, or Recv times out, or returns 0.
ReadEnds == Complete \/ input = <<>> \/ Room = 0

\* strstr looks for the texts in buf, which has no terminating NUL: behind the
\* answer it may find what an earlier call has left on the stack.
Detected ==
    IF Len(tts.buf) < VersionLen THEN {FALSE}
    ELSE {TRUE, \A text \in {"Time Trax", "Version"} :
                    \E i \in DOMAIN tts.buf : Value(tts.buf[i]) = text}

VersionRead ==
    \E found \in Detected :
        IF found THEN tts' = [at |-> "auth", cnt |-> 0, buf |-> <<>>] ELSE RetryVersion

\* Mutant of IsChallenge: its first octets are not looked at.
IsChallengeAny(buf) == Len(buf) >= 3

IsChallenge(buf) == Len(buf) >= 3 /\ Value(buf[1]) = ">" /\ Value(buf[2]) = ">"

\* The response is sent, unless Send fails.
ChallengeRead ==
    \/ /\ IsChallenge(tts.buf)
       /\ tts' = [tts EXCEPT !.at = "readResult", !.buf = <<>>]
       /\ asked' = Append(asked, <<"response", tts.buf[3]>>)
       /\ mistaken' = (mistaken \/ \E i \in {1, 2} : PassesFor(tts.buf[i], ">"))
    \/ RetryAuth /\ UNCHANGED <<asked, mistaken>>

\* Of the result only the first octet is looked at.
ResultRead ==
    IF Len(tts.buf) >= 2 /\ Value(tts.buf[1]) = "P"
      THEN /\ tts' = [tts EXCEPT !.at = "open", !.buf = <<>>]
           /\ mistaken' = (mistaken \/ PassesFor(tts.buf[1], "P"))
      ELSE RetryAuth /\ UNCHANGED mistaken

Judge ==
    /\ \/ tts.at = "readVersion"   /\ VersionRead /\ UNCHANGED <<asked, mistaken>>
       \/ tts.at = "readChallenge" /\ ChallengeRead
       \/ tts.at = "readResult"    /\ ResultRead /\ UNCHANGED asked
    /\ UNCHANGED <<input, coming, device>>

EndRead == ReadEnds /\ Judge

\* Recv fails.
ReadFails == ~ ReadEnds /\ Judge

OnStart == QueryVersion \/ Authenticate \/ Recv \/ EndRead

OnStartFails == AskFails \/ ReadFails

\* SetDataRate(57600), in CSirCon::OnStart, flushes the input.  What is still
\* coming is noise to the receiver, and nothing here is looked at again.
HandshakeOver ==
    /\ tts' = [at |-> "over", cnt |-> 0, buf |-> <<>>]
    /\ input' = <<>> /\ coming' = <<>> /\ asked' = <<>>
    /\ device' = [challenge |-> 0, value |-> "none", open |-> FALSE]
    /\ mistaken' = FALSE

-----------------------------------------------------------------------------
(* The device, if there is one, and the line.                              *)

\* A new challenge closes the device until it gets the response to that.
DeviceAnswers ==
    /\ asked # <<>> /\ asked' = Tail(asked)
    /\ CASE Head(asked) = Octet("V") ->
              /\ coming' = coming \o <<Octet("Time Trax"), Octet("Version"), Octet("lf")>>
              /\ UNCHANGED <<device, mistaken>>
         [] Head(asked) = Octet("A") ->
              \E v \in AnyValue :
                  LET n == device.challenge + 1
                  IN  /\ coming' = coming \o <<Octet(">"), Octet(">"), Key(n, v)>>
                      /\ device' = [challenge |-> n, value |-> v, open |-> FALSE]
                      /\ UNCHANGED mistaken
         [] OTHER ->
              LET octet == Head(asked)[2]
                  right == Value(octet) = device.value
              IN  /\ coming' = coming \o <<Octet(IF right THEN "P" ELSE "F"), Octet("lf")>>
                  /\ device' = [device EXCEPT !.open = right]
                  /\ mistaken' =
                        (mistaken \/ (right /\ octet # Key(device.challenge, device.value)))
    /\ UNCHANGED <<tts, input>>

DeviceIgnores ==
    /\ asked # <<>> /\ asked' = Tail(asked)
    /\ UNCHANGED <<tts, input, coming, device, mistaken>>

\* The radio itself, or something else, is talking.
Noise ==
    /\ Len(coming) + Len(input) < NoiseCap
    /\ \E v \in AnyValue : coming' = Append(coming, <<"noise", 0, v>>)
    /\ UNCHANGED <<tts, input, asked, device, mistaken>>

Arrive ==
    /\ coming # <<>>
    /\ input' = Append(input, Head(coming)) /\ coming' = Tail(coming)
    /\ UNCHANGED <<tts, asked, device, mistaken>>

Outside == DeviceAnswers \/ DeviceIgnores \/ Noise \/ Arrive

-----------------------------------------------------------------------------

\* "\retval bool Returns TRUE if the authentication process was successful"
\* (timetrax.cpp:135): Authenticate does not take the result of an earlier
\* attempt, or any late answer, for the success of this one; it returns true
\* only when the device is open.  Not so when an octet of noise or of a late
\* challenge has the value of one that was looked for (timetrax.cpp:200 tests
\* one octet): then the device may be closed.
OpenWhenAuthenticated == ~ mistaken /\ tts.at = "open" => device.open
=============================================================================
