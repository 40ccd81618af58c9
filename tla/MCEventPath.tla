----------------------------- MODULE MCEventPath -----------------------------
(* Instances of EventPath for TLC, with the lines for ClientCommands: the    *)
(* commands, and every line that is one edit away from a command.            *)
EXTENDS EventPath

CONSTANTS c1, c2

Numerals == {<<"#", n>> : n \in {-32769, -32768, -300, -129, -128, -1, 0, 1, 3, 127, 128, 255, 256,
                                 32767, 32768}}
Name(n) == <<n, 0>>

Valid ==
    {<<Name("GET"), Space, Name(n)>> : n \in GetNames \ {"STATUS"}} \cup
    {<<Name("GET"), Space, Name("STATUS"), Space, v>> : v \in Numerals} \cup
    {<<Name("SET"), Space, Name(n), Space, v>> : n \in SetNames \ {"RESET", "TZINFO"}, v \in Numerals} \cup
    {<<Name("SET"), Space, Name("TZINFO"), Space, v, Space, <<"#", dst>>>> :
        v \in Numerals, dst \in {-1, 0, 1, 2}} \cup
    {<<Name("SET"), Space, Name("RESET")>>, <<Name("QUIT")>>,
     <<Name("CONTROL"), Space, Name("ACQUIRE")>>}

Chars == {Space, <<"#", 3>>, Name("GAIN"), Name("RESET"), Name("SET"), Name("x")}

\* Two numerals in a row would be another numeral.
Readable(l) ==
    \A k \in 1 .. Len(l) - 1 : l[k][1] = "#" => l[k + 1][1] # "#"

MCClientLines ==
    {l \in UNION {{c} \cup {RemoveAt(c, k) : k \in DOMAIN c}
               \cup {ReplaceAt(c, k, x) : k \in DOMAIN c, x \in Chars}
               \cup {InsertAt(c, k, x) : k \in 1 .. Len(c) + 1, x \in Chars} : c \in Valid} :
        Readable(l)}

MCCommands ==
    {<<Name("GET"), Space, Name("CHANNELINFO")>>,
     <<Name("SET"), Space, Name("CHANNEL"), Space, <<"#", 1>>>>}

Report(type, fields) == [type |-> type, fields |-> fields]

MCAsyncReports ==
    {Report("RESET", <<>>), Report("SONGINFO", <<<<2>>, <<7, 8>>, <<>>, <<9>>, <<>>, <<5>>>>),
     Report("SONGID", <<<<6>>>>), Report("TIME", <<<<2015>>, <<8>>, <<23>>, <<13>>, <<0>>, <<12>>, <<0>>, <<1>>>>),
     Report("CHANNEL", <<<<2>>>>), Report("SIGNAL", <<<<1>>>>), Report("ANTENNA", <<<<0>>>>),
     Report("RSSI", <<<<3>>, <<2>>, <<1>>>>)}
MCAnswers ==
    [POWER |-> <<<<3>>>>, CHANNEL |-> <<<<3>>>>, GAIN |-> <<<<-3>>>>, MUTE |-> <<<<1>>>>,
     TZINFO |-> <<<<-300>>, <<1>>>>, SID |-> <<<<4, 5>>>>, STATUS |-> <<<<1>>, <<2>>, <<3>>>>,
     RSSI |-> <<<<3>>, <<2>>, <<1>>>>, CHANNELMAP |-> <<>>,
     TIME |-> <<<<2015>>, <<8>>, <<23>>, <<13>>, <<0>>, <<12>>, <<0>>, <<1>>>>,
     CHANNELINFO |-> <<<<4>>, <<6>>, <<1, 2>>, <<1>>, <<>>, <<3>>, <<8>>, <<>>, <<9>>, <<4>>, <<>>>>,
     SONGINFO |-> <<<<4>>, <<8>>, <<7>>, <<>>, <<4>>, <<5>>>>]
=============================================================================
