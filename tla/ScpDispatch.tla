----------------------------- MODULE ScpDispatch -----------------------------
(***************************************************************************)
(* The messages inside SCP frames (scp.h): what the requests of CSirCon    *)
(* hold (GetMute ... GetPower) and what Dispatch makes of an answer or   *)
(* of an asynchronous notification, with the deserialize functions of      *)
(* scevents.cpp.  No state: the operators are used by EventPath.           *)
(*                                                                         *)
(* A message is a sequence of octets; offsets count from 0, as in the      *)
(* code.  An event is its type and the fields that operator<< (scevents.h) *)
(* prints, in that order, each a sequence of numbers.                      *)
(***************************************************************************)
EXTENDS Integers, Sequences

CONSTANTS
    SCP_CHANNEL_BITMAP_SIZE,
    LenSpace,   \* uint32_t lengths are modulo this (2^32)
    Behind      \* the octet that the staging buffer holds behind the message

\* No message is as long as the lengths can count.
ASSUME DispatchAssumption ==
    /\ SCP_CHANNEL_BITMAP_SIZE \in Nat /\ Behind \in 0 .. 255
    /\ LenSpace \in Nat /\ LenSpace > 4096

MSG_SET == 0
MSG_SET_RESP == 32
MSG_GET == 64
MSG_GET_RESP == 96
MSG_ASYNC == 128

\* SCP_GET_IDS, named by the command (and the event) they belong to
SCP_GET ==
    [GAIN |-> 2, MUTE |-> 3, POWER |-> 7, CHANNELINFO |-> 8, CHANNEL |-> 10,
     SONGINFO |-> 13, CHANNELMAP |-> 16, SID |-> 17, TZINFO |-> 18, TIME |-> 19,
     STATUS |-> 22, RSSI |-> 24]

SCP_SET ==
    [GAIN |-> 2, MUTE |-> 3, POWER |-> 8, RESET |-> 9, CHANNEL |-> 10, TZINFO |-> 12,
     ASYNC |-> 13]

SCP_ASYNC ==
    [RESET |-> 0, SONGINFO |-> 1, SONGID |-> 2, TIME |-> 3, STATUS |-> 4, SIGNAL |-> 5]

ST == [TUNE |-> 0, SIGNAL |-> 1, ANTENNA |-> 2]

SIT ==
    [ARTIST |-> 1, TITLE |-> 2, ALBUM |-> 3, COMPOSER |-> 6, SONGID |-> 134,
     ARTISTID |-> 136, ERASE |-> 224]

-----------------------------------------------------------------------------
(* Requests.                                                               *)

\* `arg`: a channel, or the status asked for
GetRequest(name, arg) ==
    <<MSG_GET, SCP_GET[name]>> \o
    CASE name = "CHANNELINFO" -> <<arg, 0, 0, 0>>
      [] name = "SONGINFO"    -> <<arg, 0>>
      [] name = "STATUS"      -> <<arg % 256>>
      [] name = "CHANNELMAP"  -> <<0>>
      [] OTHER -> <<>>

\* Mutant of SetRequest: the high octet of the time zone is not sent.
SetRequestLow(name, v) ==
    <<MSG_SET, SCP_SET[name]>> \o
    CASE name = "RESET"   -> <<>>
      [] name = "MUTE"    -> <<IF v[1] > 0 THEN 1 ELSE 0>>
      [] name = "POWER"   -> <<v[1] % 4>>
      [] name = "CHANNEL" -> <<v[1] % 256, 0, 0, 11>>
      [] name = "TZINFO"  -> <<0, v[1] % 256, IF v[2] > 0 THEN 1 ELSE 0>>
      [] name = "ASYNC"   -> <<0, 0, 0, v[1] % 256, 0>>
      [] OTHER -> <<v[1] % 256>>

\* v: the numbers of the command.  Casts to int8_t, uint8_t and short, shifts
\* and masks all come to an octet, or two, of the number.
SetRequest(name, v) ==
    <<MSG_SET, SCP_SET[name]>> \o
    CASE name = "RESET"   -> <<>>
      [] name = "MUTE"    -> <<IF v[1] > 0 THEN 1 ELSE 0>>
      [] name = "POWER"   -> <<v[1] % 4>>
      [] name = "CHANNEL" -> <<v[1] % 256, 0, 0, 11>>
      [] name = "TZINFO"  -> <<(v[1] \div 256) % 256, v[1] % 256, IF v[2] > 0 THEN 1 ELSE 0>>
      [] name = "ASYNC"   -> <<0, 0, 0, v[1] % 256, 0>>
      [] OTHER -> <<v[1] % 256>>

-----------------------------------------------------------------------------
(* Events.                                                                 *)

Event(type, fields) == [type |-> type, fields |-> fields]

\* data[i], wherever the message ends
Octet(data, i) == IF i < Len(data) THEN data[i + 1] ELSE Behind

\* uint32_t subtraction
Minus(len, k) == (len - k) % LenSpace

Signed(x, space) == IF x < space \div 2 THEN x ELSE x - space

\* Mutant of CopyPascalString: the length octet is not counted.
CopyPascalStringShort(data, at) ==
    LET n == Octet(data, at)
    IN  [str |-> [k \in 1 .. n |-> Octet(data, at + k)], used |-> n]

CopyPascalString(data, at) ==
    LET n == Octet(data, at)
    IN  [str |-> [k \in 1 .. n |-> Octet(data, at + k)], used |-> n + 1]

\* SCESongInfo::deserialize.  A tag that is not known is skipped with its
\* string; SIT_ERASE has none.
SongFields(data, at, len) ==
    LET none == [tag \in {SIT[t] : t \in DOMAIN SIT} |-> <<>>]
        after[i \in 0 .. Octet(data, at)] ==
            IF i = 0 THEN [used |-> 1, str |-> none]
            ELSE LET prev == after[i - 1]
                     tag  == Octet(data, at + prev.used)
                     s    == CopyPascalString(data, at + prev.used + 1)
                 IN  IF prev.used >= len THEN prev
                     ELSE IF tag = SIT.ERASE THEN [prev EXCEPT !.used = @ + 1]
                     ELSE [used |-> prev.used + 1 + s.used,
                           str  |-> [t \in DOMAIN prev.str |->
                                        IF t = tag THEN s.str ELSE prev.str[t]]]
    IN  IF len < 1 THEN [used |-> 0, str |-> none] ELSE after[Octet(data, at)]

\* The text does not name the album.
SongInfo(channel, data, at, len) ==
    LET s == SongFields(data, at, len).str
    IN  Event("SONGINFO", <<<<channel>>, s[SIT.SONGID], s[SIT.ARTISTID], s[SIT.TITLE],
                            s[SIT.ARTIST], s[SIT.COMPOSER]>>)

\* SCEChannelInfo::deserialize: five octets, then four strings
ChannelStrings(data, at) ==
    LET sname  == CopyPascalString(data, at + 5)
        lname  == CopyPascalString(data, at + 5 + sname.used)
        sgenre == CopyPascalString(data, at + 5 + sname.used + lname.used)
        lgenre == CopyPascalString(data, at + 5 + sname.used + lname.used + sgenre.used)
    IN  [used |-> 5 + sname.used + lname.used + sgenre.used + lgenre.used,
         str  |-> <<lname.str, sname.str, lgenre.str, sgenre.str>>]

ChannelInfo(data, at) ==
    Event("CHANNELINFO",
          <<<<Octet(data, at)>>, <<Octet(data, at + 1)>>>> \o ChannelStrings(data, at).str)

\* The events of fixed layout, and those of one string
Deserialize(type, data, at) ==
    LET O(k) == Octet(data, at + k)
    IN  Event(type,
        CASE type = "GAIN" -> <<<<Signed(O(0), 256)>>>>
          [] type \in {"MUTE", "POWER", "CHANNEL", "SIGNAL", "ANTENNA"} -> <<<<O(0)>>>>
          [] type \in {"STATUS", "RSSI"} -> <<<<O(0)>>, <<O(1)>>, <<O(2)>>>>
          [] type = "TZINFO" -> <<<<Signed(O(0) * 256 + O(1), 65536)>>, <<O(2)>>>>
          [] type = "TIME" ->
                <<<<O(0) * 256 + O(1)>>>> \o [k \in 1 .. 7 |-> <<O(k + 1)>>]
          [] type \in {"SID", "SONGID"} -> <<CopyPascalString(data, at).str>>
          [] type \in {"CHANNELMAP", "RESET"} -> <<>>)

-----------------------------------------------------------------------------
(* Dispatch.  Its outcome is the sequence of what it does: "tune" is the   *)
(* store to m_curr_channel, "notify" a call of Notify.  m_cache_lock is    *)
(* taken by no other thread (IsValidChannel has no caller), and the map it *)
(* protects has no reader.                                                 *)

Tune(channel) == [do |-> "tune", channel |-> channel]
Tell(event)   == [do |-> "notify", event |-> event]

\* Mutant of TuneAndTell: the cache follows the notification.
TellAndTune(channel, events) ==
    [k \in DOMAIN events |-> Tell(events[k])] \o <<Tune(channel)>>

TuneAndTell(channel, events) ==
    <<Tune(channel)>> \o [k \in DOMAIN events |-> Tell(events[k])]

\* SCEChannelInfo and SCESongInfo one behind the other, for one channel
ChannelAndSong(data, at) ==
    LET info == ChannelInfo(data, at)
        used == ChannelStrings(data, at).used
    IN  <<info, SongInfo(Octet(data, at), data, at + used, Minus(Len(data), at + used))>>

DispatchStatus(data) ==
    CASE Octet(data, 2) = ST.TUNE ->
            TuneAndTell(Octet(data, 4), <<Deserialize("CHANNEL", data, 4)>>)
      [] Octet(data, 2) = ST.SIGNAL  -> <<Tell(Deserialize("SIGNAL", data, 3))>>
      [] Octet(data, 2) = ST.ANTENNA -> <<Tell(Deserialize("ANTENNA", data, 3))>>
      [] OTHER -> <<>>

DispatchAsync(data) ==
    CASE Octet(data, 1) = SCP_ASYNC.RESET -> <<Tell(Deserialize("RESET", data, 2))>>
      [] Octet(data, 1) = SCP_ASYNC.SONGINFO ->
            <<Tell(SongInfo(Octet(data, 2), data, 3, Minus(Len(data), 3)))>>
      [] Octet(data, 1) = SCP_ASYNC.SONGID -> <<Tell(Deserialize("SONGID", data, 3))>>
      [] Octet(data, 1) = SCP_ASYNC.TIME   -> <<Tell(Deserialize("TIME", data, 2))>>
      [] Octet(data, 1) = SCP_ASYNC.STATUS -> DispatchStatus(data)
      [] Octet(data, 1) = SCP_ASYNC.SIGNAL -> <<Tell(Deserialize("RSSI", data, 2))>>
      [] OTHER -> <<>>

Result(data) == Octet(data, 2) * 256 + Octet(data, 3)

\* The answer to GET name
GetAnswer(name, data) ==
    CASE name = "CHANNEL" ->
            TuneAndTell(Octet(data, 4), <<Deserialize("CHANNEL", data, 4)>>)
      [] name = "CHANNELINFO" ->
            [k \in 1 .. 2 |-> Tell(ChannelAndSong(data, 4)[k])]
      [] name = "SONGINFO" ->
            <<Tell(SongInfo(Octet(data, 4), data, 5, Minus(Len(data), 5)))>>
      [] name = "CHANNELMAP" ->
            IF Len(data) >= 4 + SCP_CHANNEL_BITMAP_SIZE
              THEN <<Tell(Deserialize("CHANNELMAP", data, 4))>> ELSE <<>>
      [] OTHER -> <<Tell(Deserialize(name, data, 4))>>

DispatchGetResponse(data) ==
    LET names == {n \in DOMAIN SCP_GET : SCP_GET[n] = Octet(data, 1)}
    IN  <<Tell(Event("GET", <<<<Result(data)>>>>))>> \o
        IF Result(data) = 0 /\ names # {} THEN GetAnswer(CHOOSE n \in names : TRUE, data)
                                          ELSE <<>>

DispatchSetResponse(data) ==
    <<Tell(Event("SET", <<<<Result(data)>>>>))>> \o
    IF Result(data) = 0 /\ Octet(data, 1) = SCP_SET.CHANNEL /\ Len(data) > 4
      THEN TuneAndTell(Octet(data, 4), ChannelAndSong(data, 4))
      ELSE <<>>

Dispatch(data) ==
    CASE Octet(data, 0) = MSG_SET_RESP -> DispatchSetResponse(data)
      [] Octet(data, 0) = MSG_GET_RESP -> DispatchGetResponse(data)
      [] Octet(data, 0) = MSG_ASYNC    -> DispatchAsync(data)
      [] OTHER -> <<>>
=============================================================================
