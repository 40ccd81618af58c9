---------------------------- MODULE ClientCommands ----------------------------
(***************************************************************************)
(* From a line of a client to the request in a frame: StrTokenize          *)
(* (util.cpp), the handler tables of CSirServer (ProcessCommand) and the   *)
(* requests of CSirCon (ScpDispatch).  No state: EventPath uses it.  What  *)
(* ACQUIRE, RELEASE and QUIT do is the subject of ControlArbiter.          *)
(*                                                                         *)
(* A line is a sequence of characters, a token one without spaces.  The    *)
(* names of commands and the numerals are single characters here, <<text,  *)
(* number>>: a name is <<name, 0>>, a numeral <<"#", n>>.                  *)
(***************************************************************************)
EXTENDS ScpDispatch, SequencesExt

CONSTANT ClientLines    \* what clients may send

ASSUME ClientLinesAssumption ==
    \A line \in ClientLines : line \in Seq(STRING \X Int)

Space == <<" ", 0>>

Nothing == [do |-> "nothing", msg |-> <<>>]
Error   == [do |-> "error", msg |-> <<>>]
Request(msg) == [do |-> "request", msg |-> msg]

Octets == 0 .. 255

-----------------------------------------------------------------------------
(* StrTokenize, with one separator and return_partial.                     *)

Split(chars) ==
    FoldLeft(LAMBDA acc, c : IF c = Space THEN [tokens |-> Append(acc.tokens, acc.sub), sub |-> <<>>]
                                          ELSE [acc EXCEPT !.sub = Append(@, c)],
             [tokens |-> <<>>, sub |-> <<>>], chars)

\* Mutant of StrTokenize: separators in a row count as one.
StrTokenizeSkipping(chars) ==
    LET s == Split(chars) IN SelectSeq(Append(s.tokens, s.sub), LAMBDA t : t # <<>>)

\* A token up to each separator, and what is left, if anything is.
StrTokenize(chars) ==
    LET s == Split(chars) IN IF s.sub = <<>> THEN s.tokens ELSE Append(s.tokens, s.sub)

-----------------------------------------------------------------------------
(* ProcessCommand.                                                         *)

\* The token is this name and nothing else.
Is(token, name) == token = <<<<name, 0>>>>

\* atoi, or strtoul: the numeral that the token begins with, or 0.  (strtoul
\* wraps a negative one around, which the casts undo.)
Number(token) == IF token # <<>> /\ token[1][1] = "#" THEN token[1][2] ELSE 0

GetNames == DOMAIN SCP_GET \ {"CHANNELMAP"}
SetNames == DOMAIN SCP_SET

\* Validate...: how many tokens the command has
GetSize(name) == IF name = "STATUS" THEN 3 ELSE 2
SetSize(name) == CASE name = "RESET" -> 2 [] name = "TZINFO" -> 4 [] OTHER -> 3

\* A name that is not in the table, or the wrong number of tokens, is logged:
\* the client is told nothing.
ProcessGet(tokens, channel) ==
    LET known == {n \in GetNames : Is(tokens[2], n) /\ Len(tokens) = GetSize(n)}
        name  == CHOOSE n \in known : TRUE
    IN  IF known = {} THEN Nothing
        ELSE Request(GetRequest(name, IF name = "STATUS" THEN Number(tokens[3]) ELSE channel))

\* strtoul > 0: any numeral but 0 is true.
Flag(n) == IF n = 0 THEN 0 ELSE 1

ProcessSet(tokens) ==
    LET known == {n \in SetNames : Is(tokens[2], n) /\ Len(tokens) = SetSize(n)}
        name  == CHOOSE n \in known : TRUE
        v     == [k \in 1 .. Len(tokens) - 2 |-> Number(tokens[k + 2])]
    IN  IF known = {} THEN Nothing
        ELSE Request(SetRequest(name,
                CASE name = "MUTE"   -> <<Flag(v[1])>>
                  [] name = "TZINFO" -> <<v[1], Flag(v[2])>>
                  [] OTHER -> v))

\* channel: m_curr_channel
ProcessCommand(tokens, hasControl, channel) ==
    LET First(name) == Is(tokens[1], name)
        size == Len(tokens)
    IN  IF size = 0 THEN Nothing
        ELSE CASE First("GET")  -> IF size >= 2 THEN ProcessGet(tokens, channel) ELSE Error
               [] First("SET")  -> IF size >= 2 /\ hasControl THEN ProcessSet(tokens) ELSE Error
               [] First("QUIT") -> IF size = 1 THEN [Nothing EXCEPT !.do = "drop"] ELSE Error
               [] First("CONTROL") ->
                    IF size = 2 THEN [Nothing EXCEPT !.do = "control"] ELSE Error
               [] OTHER -> Nothing

-----------------------------------------------------------------------------
(* What the lines of ClientLines come to (EventPath has the properties).   *)

Joined(tokens) ==
    FlattenSeq([k \in DOMAIN tokens |-> IF k = 1 THEN tokens[k] ELSE <<Space>> \o tokens[k]])

\* StrTokenize against what it is for: no token has a space, and the tokens with
\* single spaces between them are the line, but for one space at its end.
LinesTokenized ==
    \A line \in ClientLines :
        LET tokens == StrTokenize(line)
            ended  == line # <<>> /\ Last(line) = Space
        IN  /\ \A k \in DOMAIN tokens : ~ Contains(tokens[k], Space)
            /\ Joined(tokens) \o (IF ended THEN <<Space>> ELSE <<>>) = line
            /\ ~ ended /\ tokens # <<>> => Last(tokens) # <<>>

\* SET name n, and for the time zone the daylight saving flag dst
Setting(name, n, dst) ==
    <<<<"SET", 0>>, Space, <<name, 0>>, Space, <<"#", n>>>> \o
    IF name = "TZINFO" THEN <<Space, <<"#", dst>>>> ELSE <<>>

\* The numerals that a radio takes as they are
InRange(name, n) ==
    CASE name = "GAIN"   -> n \in -128 .. 127
      [] name = "TZINFO" -> n \in -32768 .. 32767
      [] name = "POWER"  -> n \in 0 .. 3
      [] name = "MUTE"   -> n \in {0, 1}
      [] OTHER -> n \in Octets

\* A value that a client sets is the one that an event would report if the radio
\* has stored the octets it got: the casts, shifts and masks between atoi and the
\* frame are undone by the deserialize functions, signs included.
SettingsKept ==
    \A line \in ClientLines, name \in {"GAIN", "MUTE", "POWER", "CHANNEL", "TZINFO"} :
        \A n \in {c[2] : c \in ToSet(line)}, dst \in {c[2] : c \in ToSet(line)} :
            line = Setting(name, n, dst) /\ InRange(name, n) =>
                LET outcome == ProcessCommand(StrTokenize(line), TRUE, 0)
                IN  /\ outcome.do = "request" /\ outcome.msg \in Seq(Octets)
                    /\ Deserialize(name, outcome.msg, 2).fields =
                          IF name = "TZINFO" THEN <<<<n>>, <<Flag(dst)>>>> ELSE <<<<n>>>>
=============================================================================
