---------------------------- MODULE MessageProofs ---------------------------
(***************************************************************************)
(* What the radio says and what CSirCon::Dispatch makes of it, for every   *)
(* message that the radio may send: the encodings of the events, the       *)
(* handlers that take them apart, the frames around them, and, of each     *)
(* message, what Dispatch tells CSirServer.                                *)
(***************************************************************************)
EXTENDS EventPath, SequenceLemmas, FiniteSetTheorems

-----------------------------------------------------------------------------
(* A message, taken apart.                                                 *)

\* The octets of s are in data, from this offset on.
Holds(data, at, s) ==
    at + Len(s) <= Len(data) /\ \A k \in 1 .. Len(s) : data[at + k] = s[k]

\* A message holds itself.
LEMMA HoldsAll ==
    ASSUME NEW data \in Seq(Octets)
    PROVE  Holds(data, 0, data)
<1>1. Len(data) \in Nat
  OBVIOUS
<1> QED
  BY <1>1 DEF Holds

\* Two parts, one behind the other
LEMMA HoldsParts ==
    ASSUME NEW data, NEW at \in Nat, NEW s \in Seq(Octets), NEW t \in Seq(Octets),
           Len(data) \in Nat, Holds(data, at, s \o t)
    PROVE  Holds(data, at, s) /\ Holds(data, at + Len(s), t)
<1>1. PICK u : u = s \o t
  OBVIOUS
<1>2. PICK m \in Nat, n \in Nat : m = Len(s) /\ n = Len(t)
  OBVIOUS
<1>3. /\ Len(u) = m + n
      /\ \A j \in 1 .. m + n : u[j] = IF j <= m THEN s[j] ELSE t[j - m]
  BY <1>1, <1>2, ConcatFacts
<1>4. at + (m + n) <= Len(data) /\ \A k \in 1 .. m + n : data[at + k] = u[k]
  BY <1>1, <1>3 DEF Holds
<1>5. at + m <= Len(data) /\ (at + m) + n <= Len(data)
  BY <1>4
<1>6. ASSUME NEW k \in 1 .. m PROVE data[at + k] = s[k]
  <2>1. k \in 1 .. m + n /\ k <= m
    OBVIOUS
  <2> QED
    BY <1>3, <1>4, <2>1
<1>7. ASSUME NEW k \in 1 .. n PROVE data[(at + m) + k] = t[k]
  <2>1. m + k \in 1 .. m + n /\ ~ (m + k <= m) /\ (m + k) - m = k /\ at + (m + k) = (at + m) + k
    OBVIOUS
  <2>2. PICK j \in 1 .. m + n : j = m + k
    BY <2>1
  <2>3. u[j] = t[k] /\ data[at + j] = u[j] /\ at + j = (at + m) + k
    BY <1>3, <1>4, <2>1, <2>2
  <2> QED
    BY <2>3
<1> QED
  BY <1>2, <1>5, <1>6, <1>7 DEF Holds

\* An octet of a part is that octet of the message.
LEMMA HoldsOctet ==
    ASSUME NEW data, NEW at \in Nat, NEW s, Len(s) \in Nat, NEW k \in 1 .. Len(s),
           Len(data) \in Nat, Holds(data, at, s)
    PROVE  Octet(data, at + (k - 1)) = s[k]
<1>1. at + (k - 1) < Len(data) /\ (at + (k - 1)) + 1 = at + k
  BY DEF Holds
<1>2. data[at + k] = s[k]
  BY DEF Holds
<1> QED
  BY <1>1, <1>2 DEF Octet

\* A string with its length in front
LEMMA PascalTyped ==
    ASSUME NEW str \in Strings
    PROVE  /\ str \in Seq(Octets) /\ Len(str) \in Nat /\ Len(str) <= 255
           /\ Pascal(str) \in Seq(Octets) /\ Len(Pascal(str)) = Len(str) + 1
           /\ Pascal(str)[1] = Len(str)
           /\ \A k \in 1 .. Len(str) : Pascal(str)[1 + k] = str[k]
<1>1. str \in Seq(Octets) /\ Len(str) \in Nat /\ Len(str) <= 255
  BY DEF Strings
<1>2. PICK s : s = <<Len(str)>>
  OBVIOUS
<1>3. s \in Seq(Octets) /\ Len(s) = 1 /\ s[1] = Len(str)
  <2>1. PICK n \in Octets : n = Len(str)
    <3>1. \A n \in Nat : n <= 255 => n \in Octets
      BY DEF Octets
    <3> QED
      BY <1>1, <3>1
  <2>2. <<n>> \in Seq(Octets) /\ Len(<<n>>) = 1 /\ <<n>>[1] = n
    OBVIOUS
  <2> QED
    BY <1>2, <2>1, <2>2
<1>4. PICK p : p = s \o str
  OBVIOUS
<1>5. /\ p \in Seq(Octets) /\ Len(p) = Len(s) + Len(str)
      /\ \A j \in 1 .. Len(s) + Len(str) : p[j] = IF j <= Len(s) THEN s[j] ELSE str[j - Len(s)]
  BY <1>1, <1>3, <1>4, ConcatFacts, SMTT(20), ZenonT(40)
<1>6. Len(p) = Len(str) + 1 /\ p[1] = Len(str)
  BY <1>1, <1>3, <1>5
<1>7. ASSUME NEW k \in 1 .. Len(str) PROVE p[1 + k] = str[k]
  <2>1. PICK j : j = 1 + k
    OBVIOUS
  <2>2. j \in 1 .. Len(s) + Len(str) /\ ~ (j <= Len(s)) /\ j - Len(s) = k
    BY <1>1, <1>3, <2>1
  <2> QED
    BY <1>5, <2>1, <2>2
<1> QED
  BY <1>1, <1>2, <1>4, <1>5, <1>6, <1>7 DEF Pascal

\* CopyPascalString reads such a string, and steps over it.
LEMMA HoldsPascal ==
    ASSUME NEW data, NEW at \in Nat, NEW str \in Strings,
           Len(data) \in Nat, Holds(data, at, Pascal(str))
    PROVE  CopyPascalString(data, at) = [str |-> str, used |-> Len(str) + 1]
<1>1. PICK p : p = Pascal(str)
  OBVIOUS
<1>2. /\ str \in Seq(Octets) /\ Len(str) \in Nat
      /\ Len(p) = Len(str) + 1 /\ p[1] = Len(str)
      /\ \A k \in 1 .. Len(str) : p[1 + k] = str[k]
  BY <1>1, PascalTyped
<1>3. \A k \in 1 .. Len(str) + 1 : Octet(data, at + (k - 1)) = p[k]
  BY <1>1, <1>2, HoldsOctet
<1>4. Octet(data, at) = Len(str)
  <2>1. 1 \in 1 .. Len(str) + 1 /\ at + (1 - 1) = at
    BY <1>2
  <2> QED
    BY <1>2, <1>3, <2>1
<1>5. ASSUME NEW k \in 1 .. Len(str) PROVE Octet(data, at + k) = str[k]
  <2>1. PICK j : j = 1 + k
    OBVIOUS
  <2>2. j \in 1 .. Len(str) + 1 /\ j - 1 = k
    BY <1>2, <2>1
  <2> QED
    BY <1>2, <1>3, <2>1, <2>2
<1>6. [k \in 1 .. Len(str) |-> Octet(data, at + k)] = str
  BY <1>2, <1>5
<1> QED
  BY <1>4, <1>6 DEF CopyPascalString

\* Any number of parts, where g has the first k of them
LEMMA HoldsEach ==
    ASSUME NEW data, NEW at \in Nat, Len(data) \in Nat,
           NEW n \in Nat, NEW ss, NEW g \in [0 .. n -> Seq(Octets)],
           \A k \in 1 .. n : ss[k] \in Seq(Octets) /\ g[k] = g[k - 1] \o ss[k],
           Holds(data, at, g[n])
    PROVE  \A k \in 1 .. n : Holds(data, at + Len(g[k - 1]), ss[k])
<1> DEFINE T == {i \in Nat : i <= n => Holds(data, at, g[n - i])}
<1>1. ASSUME NEW k \in 1 .. n, Holds(data, at, g[k])
      PROVE  Holds(data, at, g[k - 1]) /\ Holds(data, at + Len(g[k - 1]), ss[k])
  <2>1. g[k - 1] \in Seq(Octets) /\ ss[k] \in Seq(Octets) /\ g[k] = g[k - 1] \o ss[k]
    <3>1. k - 1 \in 0 .. n
      OBVIOUS
    <3> QED
      BY <3>1
  <2> QED
    BY <1>1, <2>1, HoldsParts
<1>2. 0 \in T
  <2>1. n - 0 = n
    OBVIOUS
  <2> QED
    BY <2>1
<1>3. ASSUME NEW i \in Nat, i \in T PROVE i + 1 \in T
  <2>1. SUFFICES ASSUME i + 1 <= n PROVE Holds(data, at, g[n - (i + 1)])
    OBVIOUS
  <2>2. n - i \in 1 .. n /\ (n - i) - 1 = n - (i + 1) /\ Holds(data, at, g[n - i])
    BY <1>3, <2>1
  <2>3. PICK k \in 1 .. n : k = n - i
    BY <2>2
  <2> QED
    BY <1>1, <2>2, <2>3
<1>4. ASSUME NEW k \in 1 .. n PROVE Holds(data, at, g[k])
  <2>1. PICK i \in Nat : i = n - k
    OBVIOUS
  <2>2. i \in T
    <3> HIDE DEF T
    <3> QED
      BY <1>2, <1>3, NatSetInduction
  <2>3. i <= n /\ n - i = k
    BY <2>1
  <2> QED
    BY <2>2, <2>3
<1> QED
  BY <1>1, <1>4

\* An octet of a message, or what lies behind its end
LEMMA OctetTyped ==
    ASSUME NEW data \in Seq(Octets), NEW i \in Nat
    PROVE  Octet(data, i) \in Octets
<1>1. CASE i < Len(data)
  <2>1. i + 1 \in 1 .. Len(data)
    BY <1>1
  <2> QED
    BY <1>1, <2>1 DEF Octet
<1>2. CASE ~ (i < Len(data))
  BY <1>2, DispatchAssumption DEF Octet, Octets
<1> QED
  BY <1>1, <1>2

\* CopyPascalString returns octets, whatever the message is.
LEMMA CopyTyped ==
    ASSUME NEW data \in Seq(Octets), NEW at \in Nat
    PROVE  CopyPascalString(data, at).str \in Seq(Octets) /\ CopyPascalString(data, at).used \in Nat
<1>1. PICK n \in Nat : n = Octet(data, at)
  BY OctetTyped DEF Octets
<1>2. \A k \in 1 .. n : Octet(data, at + k) \in Octets
  BY OctetTyped
<1>3. PICK s : s = [k \in 1 .. n |-> Octet(data, at + k)]
  OBVIOUS
<1>4. s \in Seq(Octets)
  BY <1>2, <1>3
<1>5. CopyPascalString(data, at) = [str |-> s, used |-> n + 1]
  BY <1>1, <1>3 DEF CopyPascalString
<1> QED
  BY <1>4, <1>5

\* The tags of a song, and what the loop of SCESongInfo::deserialize has
KnownTags == {SIT[t] : t \in DOMAIN SIT}

\* The five tags that come with a string differ from each other and from
\* ERASE.
LEMMA TagsAre ==
    /\ KnownTags = {1, 2, 3, 6, 134, 136, 224} /\ SIT.ERASE = 224
    /\ SongTags = <<134, 136, 2, 1, 6>> /\ Len(SongTags) = 5
    /\ \A k \in 1 .. 5 : SongTags[k] \in KnownTags \ {224} /\ SongTags[k] \in Octets
    /\ \A k, j \in 1 .. 5 : SongTags[k] = SongTags[j] => k = j
<1>1. KnownTags = {1, 2, 3, 6, 134, 136, 224} /\ SIT.ERASE = 224
  BY DEF KnownTags, SIT
<1>2. SongTags = <<134, 136, 2, 1, 6>> /\ Len(SongTags) = 5
  BY DEF SongTags, SIT
<1> QED
  BY <1>1, <1>2 DEF Octets

NoSong == [tag \in KnownTags |-> <<>>]

SongState == [used : Nat, str : [KnownTags -> Seq(Octets)]]

\* What the loop of SCESongInfo::deserialize does with one tag
SongStep(data, at, len, prev) ==
    LET tag == Octet(data, at + prev.used)
        s   == CopyPascalString(data, at + prev.used + 1)
    IN  IF prev.used >= len THEN prev
        ELSE IF tag = SIT.ERASE THEN [prev EXCEPT !.used = @ + 1]
        ELSE [used |-> prev.used + 1 + s.used,
              str  |-> [t \in DOMAIN prev.str |-> IF t = tag THEN s.str ELSE prev.str[t]]]

\* One turn of the loop
LEMMA SongStepTyped ==
    ASSUME NEW data \in Seq(Octets), NEW at \in Nat, NEW len \in Nat, NEW prev \in SongState
    PROVE  SongStep(data, at, len, prev) \in SongState
<1>1. PICK used \in Nat : used = prev.used
  BY DEF SongState
<1>2. PICK str \in [KnownTags -> Seq(Octets)] : str = prev.str
  BY DEF SongState
<1>3. prev = [used |-> used, str |-> str]
  BY <1>1, <1>2 DEF SongState
<1>4. PICK tag : tag = Octet(data, at + used)
  OBVIOUS
<1>5. PICK s : s = CopyPascalString(data, at + used + 1)
  OBVIOUS
<1>6. s.str \in Seq(Octets) /\ s.used \in Nat
  <2>1. at + used + 1 \in Nat
    OBVIOUS
  <2> QED
    BY <1>5, <2>1, CopyTyped
<1>7. [t \in KnownTags |-> IF t = tag THEN s.str ELSE str[t]] \in [KnownTags -> Seq(Octets)]
  BY <1>6
<1>8. SongStep(data, at, len, prev) =
         IF used >= len THEN prev
         ELSE IF tag = SIT.ERASE THEN [used |-> used + 1, str |-> str]
         ELSE [used |-> used + 1 + s.used,
               str |-> [t \in KnownTags |-> IF t = tag THEN s.str ELSE str[t]]]
  BY <1>3, <1>4, <1>5 DEF SongStep
<1> QED
  BY <1>6, <1>7, <1>8 DEF SongState

\* The loop is as many turns as the first octet says.
LEMMA SongChain ==
    ASSUME NEW data \in Seq(Octets), NEW at \in Nat, NEW len \in Nat, len >= 1
    PROVE  \E g \in [0 .. Octet(data, at) -> SongState] :
              /\ g[0] = [used |-> 1, str |-> NoSong]
              /\ \A i \in 1 .. Octet(data, at) : g[i] = SongStep(data, at, len, g[i - 1])
              /\ SongFields(data, at, len) = g[Octet(data, at)]
<1>1. PICK n \in Nat : n = Octet(data, at)
  BY OctetTyped DEF Octets
<1>2. PICK first : first = [used |-> 1, str |-> NoSong]
  OBVIOUS
<1>3. first \in SongState
  <2>1. NoSong \in [KnownTags -> Seq(Octets)]
    BY DEF NoSong
  <2> QED
    BY <1>2, <2>1 DEF SongState
<1>4. PICK step : step = [p \in SongState \X (1 .. n) |-> SongStep(data, at, len, p[1])]
  OBVIOUS
<1>5. step \in [SongState \X (1 .. n) -> SongState]
  BY <1>4, SongStepTyped
<1>6. \A s \in SongState, i \in 1 .. n : step[<<s, i>>] = SongStep(data, at, len, s)
  BY <1>4
<1>7. PICK h : Chain(h, SongState, n, first, step)
  BY <1>3, <1>5, ChainExists
<1>8. /\ h \in [0 .. n -> SongState] /\ h[0] = first
      /\ \A i \in 1 .. n : h[i] = SongStep(data, at, len, h[i - 1])
  <2>1. \A i \in 1 .. n : i - 1 \in 0 .. n
    OBVIOUS
  <2> QED
    BY <1>6, <1>7, <2>1 DEF Chain
<1> DEFINE eq(f) ==
      f = [i \in 0 .. Octet(data, at) |->
             IF i = 0 THEN [used |-> 1, str |-> NoSong]
             ELSE LET prev == f[i - 1]
                      tag  == Octet(data, at + prev.used)
                      s    == CopyPascalString(data, at + prev.used + 1)
                  IN  IF prev.used >= len THEN prev
                      ELSE IF tag = SIT.ERASE THEN [prev EXCEPT !.used = @ + 1]
                      ELSE [used |-> prev.used + 1 + s.used,
                            str  |-> [t \in DOMAIN prev.str |->
                                         IF t = tag THEN s.str ELSE prev.str[t]]]]
      after == CHOOSE f : eq(f)
<1>9. SongFields(data, at, len) = after[Octet(data, at)]
  BY DEF SongFields, NoSong, KnownTags
<1>10. \A f : eq(f) <=> f = [i \in 0 .. n |-> IF i = 0 THEN first ELSE SongStep(data, at, len, f[i - 1])]
  BY <1>1, <1>2 DEF SongStep
<1> HIDE DEF eq
<1>11. h = [i \in 0 .. n |-> IF i = 0 THEN first ELSE SongStep(data, at, len, h[i - 1])]
  BY <1>8
<1>12. eq(after)
  BY <1>10, <1>11
<1> HIDE DEF after
<1>13. after = [i \in 0 .. n |-> IF i = 0 THEN first ELSE SongStep(data, at, len, after[i - 1])]
  BY <1>10, <1>12
<1> DEFINE T == {i \in Nat : i <= n => after[i] = h[i]}
<1>14. 0 \in T
  BY <1>8, <1>13
<1>15. ASSUME NEW i \in Nat, i \in T PROVE i + 1 \in T
  <2>1. SUFFICES ASSUME i + 1 <= n PROVE after[i + 1] = h[i + 1]
    OBVIOUS
  <2>2. i + 1 \in 1 .. n /\ i + 1 # 0 /\ (i + 1) - 1 = i /\ after[i] = h[i]
    BY <1>15, <2>1
  <2> QED
    BY <1>8, <1>13, <2>2
<1>16. n \in T
  <2> HIDE DEF T
  <2> QED
    BY <1>14, <1>15, NatSetInduction
<1>17. after[n] = h[n]
  <2>1. n <= n
    OBVIOUS
  <2> QED
    BY <1>16, <2>1
<1> QED
  BY <1>1, <1>2, <1>8, <1>9, <1>17

\* A tagged string; an empty one is not sent.
LEMMA TaggedTyped ==
    ASSUME NEW tag \in Octets, NEW str \in Strings
    PROVE  /\ Tagged(tag, str) \in Seq(Octets)
           /\ Len(Tagged(tag, str)) = IF str = <<>> THEN 0 ELSE Len(str) + 2
           /\ str # <<>> => Tagged(tag, str) = <<tag>> \o Pascal(str)
<1>1. CASE str = <<>>
  BY <1>1 DEF Tagged
<1>2. CASE str # <<>>
  <2>1. <<tag>> \in Seq(Octets) /\ Len(<<tag>>) = 1
    OBVIOUS
  <2>2. Pascal(str) \in Seq(Octets) /\ Len(Pascal(str)) = Len(str) + 1 /\ Len(str) \in Nat
    BY PascalTyped
  <2>3. <<tag>> \o Pascal(str) \in Seq(Octets) /\ Len(<<tag>> \o Pascal(str)) = 1 + (Len(str) + 1)
    <3>1. PICK p : p = Pascal(str)
      OBVIOUS
    <3>2. p \in Seq(Octets) /\ Len(p) = Len(str) + 1
      BY <2>2, <3>1
    <3>3. <<tag>> \o p \in Seq(Octets) /\ Len(<<tag>> \o p) = Len(<<tag>>) + Len(p)
      BY <2>1, <3>2, ConcatFacts
    <3> QED
      BY <2>1, <3>1, <3>2, <3>3
  <2>4. Tagged(tag, str) = <<tag>> \o Pascal(str)
    BY <1>2 DEF Tagged
  <2> QED
    BY <1>2, <2>2, <2>3, <2>4
<1> QED
  BY <1>1, <1>2

\* How many of the five strings are sent
Given5(f) == Given(f[1]) + Given(f[2]) + Given(f[3]) + Given(f[4]) + Given(f[5])

\* The five strings of a song, one behind the other
LEMMA EncodeSongParts ==
    ASSUME NEW f \in [1 .. 5 -> Strings]
    PROVE  \E g \in [0 .. 5 -> Seq(Octets)] :
              /\ g[0] = <<>>
              /\ \A k \in 1 .. 5 : /\ Tagged(SongTags[k], f[k]) \in Seq(Octets)
                                   /\ g[k] = g[k - 1] \o Tagged(SongTags[k], f[k])
              /\ EncodeSong(f) = (<<2 + Given5(f), 224, 99>> \o Pascal(<<0>>)) \o g[5]
<1>1. PICK ss : ss = [k \in 1 .. 5 |-> Tagged(SongTags[k], f[k])]
  OBVIOUS
<1>2. ASSUME NEW k \in 1 .. 5 PROVE Tagged(SongTags[k], f[k]) \in Seq(Octets)
  <2>1. SongTags[k] \in Octets /\ f[k] \in Strings
    BY TagsAre
  <2> QED
    BY <2>1, TaggedTyped
<1>3. ss \in Seq(Seq(Octets)) /\ Len(ss) = 5 /\ \A k \in 1 .. 5 : ss[k] = Tagged(SongTags[k], f[k])
  BY <1>1, <1>2
<1>4. PICK g \in [0 .. 5 -> Seq(Octets)] : Flattens(g, ss) /\ FlattenSeq(ss) = g[5]
  BY <1>3, FlattenChain, SMTT(20), ZenonT(40)
<1>5. EncodeSong(f) = (<<2 + Given5(f), 224, 99>> \o Pascal(<<0>>)) \o FlattenSeq(ss)
  <2>1. /\ Given(f[1]) \in Int /\ Given(f[2]) \in Int /\ Given(f[3]) \in Int
        /\ Given(f[4]) \in Int /\ Given(f[5]) \in Int
    BY DEF Given
  <2>2. Given5(f) = Given(f[1]) + Given(f[2]) + Given(f[3]) + Given(f[4]) + Given(f[5])
    BY ONLY Zenon DEF Given5
  <2>3. PICK u, v, w, x, y : /\ u = Given(f[1]) /\ v = Given(f[2]) /\ w = Given(f[3])
                             /\ x = Given(f[4]) /\ y = Given(f[5])
    OBVIOUS
  <2>4. u \in Int /\ v \in Int /\ w \in Int /\ x \in Int /\ y \in Int
    BY ONLY <2>1, <2>3
  <2>5. 2 + u + v + w + x + y = 2 + (u + v + w + x + y)
    BY ONLY <2>4
  <2>6. 2 + Given(f[1]) + Given(f[2]) + Given(f[3]) + Given(f[4]) + Given(f[5]) = 2 + Given5(f)
    BY ONLY <2>2, <2>3, <2>5
  <2> QED
    BY <1>1, <2>6, TagsAre, SMTT(20), ZenonT(40) DEF EncodeSong
<1>6. g[0] = <<>> /\ \A k \in 1 .. 5 : g[k] = g[k - 1] \o Tagged(SongTags[k], f[k])
  BY <1>3, <1>4 DEF Flattens
<1>7. EncodeSong(f) = (<<2 + Given5(f), 224, 99>> \o Pascal(<<0>>)) \o g[5]
  BY <1>4, <1>5
<1> QED
  BY <1>2, <1>6, <1>7

\* In front of the tagged strings: their number, and two tags of no account
LEMMA SongHead ==
    ASSUME NEW n \in Octets
    PROVE  /\ <<n, 224, 99>> \in Seq(Octets) /\ Len(<<n, 224, 99>>) = 3
           /\ <<0>> \in Strings /\ Len(<<0>>) = 1
           /\ Pascal(<<0>>) \in Seq(Octets) /\ Len(Pascal(<<0>>)) = 2
           /\ <<n, 224, 99>> \o Pascal(<<0>>) \in Seq(Octets)
           /\ Len(<<n, 224, 99>> \o Pascal(<<0>>)) = 5
<1>1. 224 \in Octets /\ 99 \in Octets /\ 0 \in Octets
  BY DEF Octets
<1>2. PICK s : s = <<n, 224, 99>>
  OBVIOUS
<1>3. s \in Seq(Octets) /\ Len(s) = 3
  BY <1>1, <1>2
<1>4. <<0>> \in Seq(Octets) /\ Len(<<0>>) = 1
  BY <1>1
<1>5. <<0>> \in Strings
  BY <1>4 DEF Strings
<1>6. PICK p : p = Pascal(<<0>>)
  OBVIOUS
<1>7. p \in Seq(Octets) /\ Len(p) = 2
  <2>1. PICK z : z = <<0>>
    OBVIOUS
  <2>2. z \in Strings /\ Len(z) = 1 /\ p = Pascal(z)
    BY <1>4, <1>5, <1>6, <2>1
  <2>3. p \in Seq(Octets) /\ Len(p) = Len(z) + 1
    BY <2>2, PascalTyped
  <2> QED
    BY <2>2, <2>3
<1>8. s \o p \in Seq(Octets) /\ Len(s \o p) = 3 + 2
  <2>1. s \o p \in Seq(Octets) /\ Len(s \o p) = Len(s) + Len(p)
    BY <1>3, <1>7, ConcatFacts
  <2> QED
    BY <1>3, <1>7, <2>1
<1> QED
  BY <1>2, <1>3, <1>4, <1>5, <1>6, <1>7, <1>8

\* The number of tags fits in an octet, and counts every string sent.
LEMMA SongCounts ==
    ASSUME NEW f
    PROVE  \E n \in Octets, c \in [0 .. 5 -> Nat] :
              /\ n = 2 + Given5(f) /\ c[0] = 2 /\ c[5] = n
              /\ \A j \in 1 .. 5 : c[j] = c[j - 1] + Given(f[j])
              /\ \A j \in 0 .. 5 : c[j] <= n
<1>1. PICK x : x = [j \in 1 .. 5 |-> Given(f[j])]
  OBVIOUS
<1>2. \A j \in 1 .. 5 : x[j] = Given(f[j]) /\ x[j] \in 0 .. 1
  BY <1>1 DEF Given
<1>3. PICK y1 \in 0 .. 1, y2 \in 0 .. 1, y3 \in 0 .. 1, y4 \in 0 .. 1, y5 \in 0 .. 1 :
        y1 = x[1] /\ y2 = x[2] /\ y3 = x[3] /\ y4 = x[4] /\ y5 = x[5]
  BY <1>2
<1>4. PICK c : c = [j \in 0 .. 5 |->
          IF j = 0 THEN 2 ELSE IF j = 1 THEN 2 + y1 ELSE IF j = 2 THEN 2 + y1 + y2
          ELSE IF j = 3 THEN 2 + y1 + y2 + y3 ELSE IF j = 4 THEN 2 + y1 + y2 + y3 + y4
          ELSE 2 + y1 + y2 + y3 + y4 + y5]
  OBVIOUS
<1>5. /\ c[0] = 2 /\ c[1] = 2 + y1 /\ c[2] = 2 + y1 + y2 /\ c[3] = 2 + y1 + y2 + y3
      /\ c[4] = 2 + y1 + y2 + y3 + y4 /\ c[5] = 2 + y1 + y2 + y3 + y4 + y5
  BY <1>4
<1>6. 2 + Given5(f) = c[5]
  <2>1. Given5(f) = y1 + y2 + y3 + y4 + y5
    BY <1>2, <1>3 DEF Given5
  <2> QED
    BY <1>5, <2>1
<1>7. c[5] \in Octets
  BY <1>5 DEF Octets
<1>8. \A j \in 0 .. 5 : j = 0 \/ j = 1 \/ j = 2 \/ j = 3 \/ j = 4 \/ j = 5
  OBVIOUS
<1>9. \A j \in 0 .. 5 : c[j] \in Nat /\ c[j] <= c[5]
  BY <1>5, <1>8
<1>10. c \in [0 .. 5 -> Nat]
  BY <1>4, <1>9
<1>11. ASSUME NEW j \in 1 .. 5 PROVE c[j] = c[j - 1] + Given(f[j])
  <2>1. 1 - 1 = 0 /\ 2 - 1 = 1 /\ 3 - 1 = 2 /\ 4 - 1 = 3 /\ 5 - 1 = 4
    OBVIOUS
  <2>2. j = 1 \/ j = 2 \/ j = 3 \/ j = 4 \/ j = 5
    OBVIOUS
  <2>3. x[j] = Given(f[j])
    BY <1>2
  <2>4. c[j] = c[j - 1] + x[j]
    BY <1>3, <1>5, <2>1, <2>2
  <2> QED
    BY <2>3, <2>4
<1> QED
  BY <1>5, <1>6, <1>7, <1>9, <1>10, <1>11

-----------------------------------------------------------------------------
(* Song information: where its parts lie, and what                         *)
(* SCESongInfo::deserialize, one tag after the other, has of them.         *)

\* The octets of a string with its tag
Size(str) == IF str = <<>> THEN 0 ELSE Len(str) + 2

\* The five strings of a song
Songs == [1 .. 5 -> Strings]

\* A song in data: how long the strings are that come before each of the five
SongLens(f, L) ==
    /\ L \in [0 .. 5 -> Nat] /\ L[0] = 0
    /\ \A k \in 1 .. 5 : L[k] = L[k - 1] + Size(f[k])

\* The count, the two tags of no account, and each string that is not empty
SongLaid(data, at, f, L) ==
    /\ Octet(data, at) = 2 + Given5(f)
    /\ Octet(data, at + 1) = 224 /\ Octet(data, at + 2) = 99
    /\ CopyPascalString(data, at + 3).used = 2
    /\ \A k \in 1 .. 5 : f[k] # <<>> =>
          /\ Octet(data, at + 5 + L[k - 1]) = SongTags[k]
          /\ CopyPascalString(data, at + 5 + L[k - 1] + 1) = [str |-> f[k], used |-> Len(f[k]) + 1]

\* A string is of at most 255 octets.
LEMMA SizeTyped == ASSUME NEW str \in Strings PROVE Size(str) \in 0 .. 257
<1>1. Len(str) \in Nat /\ Len(str) <= 255
  BY DEF Strings
<1>2. \A n \in Nat : n <= 255 => n + 2 \in 0 .. 257
  OBVIOUS
<1>3. Len(str) + 2 \in 0 .. 257
  BY ONLY <1>1, <1>2, Zenon
<1>6. 0 \in 0 .. 257
  OBVIOUS
<1>4. CASE str = <<>>
  BY ONLY <1>6, <1>4, Zenon DEF Size
<1>5. CASE str # <<>>
  BY ONLY <1>3, <1>5, Zenon DEF Size
<1> QED
  BY <1>4, <1>5

\* The octets of a string with its tag are those of Size.
LEMMA TaggedSize ==
    ASSUME NEW f \in Songs, NEW k \in 1 .. 5
    PROVE  /\ Tagged(SongTags[k], f[k]) \in Seq(Octets)
           /\ Len(Tagged(SongTags[k], f[k])) = Size(f[k])
           /\ f[k] # <<>> => Tagged(SongTags[k], f[k]) = <<SongTags[k]>> \o Pascal(f[k])
<1>1. SongTags[k] \in Octets /\ f[k] \in Strings
  BY TagsAre DEF Songs
<1> QED
  BY <1>1, TaggedTyped DEF Size

\* The parts of a song, one behind the other
SongParts(f, g) ==
    /\ g \in [0 .. 5 -> Seq(Octets)] /\ g[0] = <<>>
    /\ \A k \in 1 .. 5 : /\ Tagged(SongTags[k], f[k]) \in Seq(Octets)
                         /\ g[k] = g[k - 1] \o Tagged(SongTags[k], f[k])

\* The lengths of the parts, which stay below 4096
LEMMA SongPartLens ==
    ASSUME NEW f \in Songs, NEW g, SongParts(f, g)
    PROVE  \E L \in [0 .. 5 -> Nat] :
              SongLens(f, L) /\ (\A k \in 0 .. 5 : L[k] = Len(g[k])) /\ L[5] <= 1285
<1>1. PICK L : L = [k \in 0 .. 5 |-> Len(g[k])]
  OBVIOUS
<1>2. L \in [0 .. 5 -> Nat] /\ \A k \in 0 .. 5 : L[k] = Len(g[k])
  <2>1. g \in [0 .. 5 -> Seq(Octets)]
    BY DEF SongParts
  <2>2. \A k \in 0 .. 5 : Len(g[k]) \in Nat
    BY ONLY <2>1
  <2> QED
    BY ONLY <1>1, <2>2
<1>3. L[0] = 0
  <2>1. g[0] = <<>> /\ Len(<<>>) = 0 /\ 0 \in 0 .. 5
    BY DEF SongParts
  <2> QED
    BY ONLY <1>2, <2>1
<1>4. ASSUME NEW k \in 1 .. 5 PROVE L[k] = L[k - 1] + Size(f[k]) /\ Size(f[k]) \in 0 .. 257
  <2>1. PICK t : t = Tagged(SongTags[k], f[k])
    OBVIOUS
  <2>2. t \in Seq(Octets) /\ Len(t) = Size(f[k])
    BY <2>1, TaggedSize
  <2>3. k - 1 \in 0 .. 5 /\ k \in 0 .. 5
    OBVIOUS
  <2>4. PICK a : a = g[k - 1]
    OBVIOUS
  <2>5. g[k] = a \o t
    BY <2>1, <2>4 DEF SongParts
  <2>6. a \in Seq(Octets)
    BY <2>3, <2>4 DEF SongParts
  <2>7. Len(a \o t) = Len(a) + Len(t)
    BY ONLY <2>2, <2>6, ConcatFacts
  <2>8. f[k] \in Strings
    BY DEF Songs
  <2>9. Size(f[k]) \in 0 .. 257
    BY <2>8, SizeTyped
  <2> QED
    BY ONLY <1>2, <2>2, <2>3, <2>4, <2>5, <2>7, <2>9
<1>5. L[5] <= 1285
  <2>1. /\ L[1] = L[1 - 1] + Size(f[1]) /\ Size(f[1]) \in 0 .. 257
        /\ L[2] = L[2 - 1] + Size(f[2]) /\ Size(f[2]) \in 0 .. 257
        /\ L[3] = L[3 - 1] + Size(f[3]) /\ Size(f[3]) \in 0 .. 257
        /\ L[4] = L[4 - 1] + Size(f[4]) /\ Size(f[4]) \in 0 .. 257
        /\ L[5] = L[5 - 1] + Size(f[5]) /\ Size(f[5]) \in 0 .. 257
    BY ONLY <1>4
  <2>2. /\ L[0] \in Nat /\ L[1] \in Nat /\ L[2] \in Nat /\ L[3] \in Nat /\ L[4] \in Nat
        /\ 1 - 1 = 0 /\ 2 - 1 = 1 /\ 3 - 1 = 2 /\ 4 - 1 = 3 /\ 5 - 1 = 4
    BY ONLY <1>2
  <2>3. PICK x1, x2, x3, x4, x5 :
          /\ x1 = Size(f[1]) /\ x2 = Size(f[2]) /\ x3 = Size(f[3]) /\ x4 = Size(f[4])
          /\ x5 = Size(f[5])
    OBVIOUS
  <2>4. /\ x1 \in 0 .. 257 /\ x2 \in 0 .. 257 /\ x3 \in 0 .. 257 /\ x4 \in 0 .. 257
        /\ x5 \in 0 .. 257
    BY ONLY <2>1, <2>3
  <2>5. /\ L[1] = 0 + x1 /\ L[2] = L[1] + x2 /\ L[3] = L[2] + x3 /\ L[4] = L[3] + x4
        /\ L[5] = L[4] + x5
    BY ONLY <1>3, <2>1, <2>2, <2>3
  <2> QED
    BY ONLY <2>4, <2>5
<1>6. SongLens(f, L)
  BY ONLY <1>2, <1>3, <1>4 DEF SongLens
<1> QED
  BY ONLY <1>2, <1>5, <1>6, SMTT(20), ZenonT(40)

\* A song, whole: its parts, their lengths, and what is in front of them
SongWhole(f, g, h, L) ==
    /\ SongParts(f, g) /\ L \in [0 .. 5 -> Nat] /\ SongLens(f, L) /\ L[5] <= 1285
    /\ \A k \in 0 .. 5 : L[k] = Len(g[k])
    /\ 2 + Given5(f) \in Octets
    /\ h = <<2 + Given5(f), 224, 99>> \o Pascal(<<0>>)
    /\ h \in Seq(Octets) /\ Len(h) = 5
    /\ EncodeSong(f) = h \o g[5]
    /\ EncodeSong(f) \in Seq(Octets) /\ Len(EncodeSong(f)) = 5 + L[5]

\* Every song is made so.
LEMMA SongSplit ==
    ASSUME NEW f \in Songs
    PROVE  \E g, h, L : SongWhole(f, g, h, L)
<1>1. \E g : SongParts(f, g) /\ EncodeSong(f) = (<<2 + Given5(f), 224, 99>> \o Pascal(<<0>>)) \o g[5]
  <2>1. f \in [1 .. 5 -> Strings]
    BY DEF Songs
  <2>2. \E g \in [0 .. 5 -> Seq(Octets)] :
              /\ g[0] = <<>>
              /\ \A k \in 1 .. 5 : /\ Tagged(SongTags[k], f[k]) \in Seq(Octets)
                                   /\ g[k] = g[k - 1] \o Tagged(SongTags[k], f[k])
              /\ EncodeSong(f) = (<<2 + Given5(f), 224, 99>> \o Pascal(<<0>>)) \o g[5]
    BY <2>1, EncodeSongParts
  <2> QED
    BY ONLY <2>2, Zenon DEF SongParts
<1>2. PICK g : SongParts(f, g) /\ EncodeSong(f) = (<<2 + Given5(f), 224, 99>> \o Pascal(<<0>>)) \o g[5]
  BY <1>1
<1>3. PICK L \in [0 .. 5 -> Nat] :
          SongLens(f, L) /\ (\A k \in 0 .. 5 : L[k] = Len(g[k])) /\ L[5] <= 1285
  BY <1>2, SongPartLens
<1>4. PICK n \in Octets : n = 2 + Given5(f)
  BY SongCounts
<1>5. PICK h : h = <<n, 224, 99>> \o Pascal(<<0>>)
  OBVIOUS
<1>6. h \in Seq(Octets) /\ Len(h) = 5
  BY <1>5, SongHead
<1>7. PICK t : t = g[5]
  OBVIOUS
<1>8. EncodeSong(f) = h \o t
  BY <1>2, <1>4, <1>5, <1>7
<1>9. t \in Seq(Octets)
  BY <1>2, <1>7 DEF SongParts
<1>10. h \o t \in Seq(Octets) /\ Len(h \o t) = Len(h) + Len(t)
  BY ONLY <1>6, <1>9, ConcatFacts
<1>11. EncodeSong(f) \in Seq(Octets) /\ Len(EncodeSong(f)) = 5 + L[5]
  BY ONLY <1>3, <1>6, <1>7, <1>8, <1>10, SMTT(20), ZenonT(40)
<1>12. h = <<2 + Given5(f), 224, 99>> \o Pascal(<<0>>) /\ EncodeSong(f) = h \o g[5] /\ 2 + Given5(f) \in Octets
  BY <1>4, <1>5, <1>7, <1>8
<1>13. L \in [0 .. 5 -> Nat]
  OBVIOUS
<1>14. SongWhole(f, g, h, L)
  BY ONLY <1>2, <1>3, <1>6, <1>11, <1>12, <1>13, SMTT(20), ZenonT(40) DEF SongWhole
<1> QED
  BY <1>14

\* The parts of a song in data
LEMMA SongHolds ==
    ASSUME NEW data, NEW at \in Nat, Len(data) \in Nat, NEW f, NEW g, NEW h, NEW L,
           SongWhole(f, g, h, L), Holds(data, at, EncodeSong(f))
    PROVE  /\ Holds(data, at, <<2 + Given5(f), 224, 99>>)
           /\ Holds(data, at + 3, Pascal(<<0>>))
           /\ \A k \in 1 .. 5 : Holds(data, at + 5 + L[k - 1], Tagged(SongTags[k], f[k]))
<1>1. /\ h \in Seq(Octets) /\ Len(h) = 5 /\ EncodeSong(f) = h \o g[5]
      /\ 2 + Given5(f) \in Octets /\ h = <<2 + Given5(f), 224, 99>> \o Pascal(<<0>>)
  BY DEF SongWhole
<1>2. SongParts(f, g)
  BY DEF SongWhole
<1>3. PICK t : t = g[5]
  OBVIOUS
<1>4. t \in Seq(Octets)
  BY <1>2, <1>3 DEF SongParts
<1>5. Holds(data, at, h \o t)
  BY <1>1, <1>3
<1>6. Holds(data, at, h) /\ Holds(data, at + Len(h), t)
  <2>1. h \in Seq(Octets)
    BY <1>1
  <2> QED
    BY ONLY at \in Nat, Len(data) \in Nat, <1>4, <1>5, <2>1, HoldsParts
<1>7. PICK n : n = 2 + Given5(f)
  OBVIOUS
<1>8. PICK a, b : a = <<n, 224, 99>> /\ b = Pascal(<<0>>)
  OBVIOUS
<1>9. a \in Seq(Octets) /\ Len(a) = 3 /\ b \in Seq(Octets) /\ h = a \o b
  BY <1>1, <1>7, <1>8, SongHead
<1>10. Holds(data, at, a) /\ Holds(data, at + Len(a), b)
  BY ONLY at \in Nat, Len(data) \in Nat, <1>6, <1>9, HoldsParts
<1>11. PICK ss : ss = [k \in 1 .. 5 |-> Tagged(SongTags[k], f[k])]
  OBVIOUS
<1>12. /\ g \in [0 .. 5 -> Seq(Octets)]
       /\ \A k \in 1 .. 5 : ss[k] \in Seq(Octets) /\ g[k] = g[k - 1] \o ss[k]
  BY <1>2, <1>11 DEF SongParts
<1>13. at + 5 \in Nat /\ 5 \in Nat /\ Holds(data, at + 5, g[5])
  BY <1>1, <1>3, <1>6
<1>14. \A k \in 1 .. 5 : Holds(data, (at + 5) + Len(g[k - 1]), ss[k])
  BY ONLY Len(data) \in Nat, <1>12, <1>13, HoldsEach
<1>15. ASSUME NEW k \in 1 .. 5 PROVE Holds(data, at + 5 + L[k - 1], Tagged(SongTags[k], f[k]))
  <2>1. k - 1 \in 0 .. 5
    OBVIOUS
  <2>2. L[k - 1] = Len(g[k - 1])
    BY <2>1, SMTT(20), ZenonT(40) DEF SongWhole
  <2>3. ss[k] = Tagged(SongTags[k], f[k])
    BY <1>11
  <2> QED
    BY <1>14, <2>2, <2>3
<1> QED
  BY <1>7, <1>8, <1>9, <1>10, <1>15

\* A tagged string in data: its tag, then its text
LEMMA HoldsTagged ==
    ASSUME NEW data, NEW at \in Nat, Len(data) \in Nat, NEW f \in Songs, NEW k \in 1 .. 5,
           f[k] # <<>>, Holds(data, at, Tagged(SongTags[k], f[k]))
    PROVE  /\ Octet(data, at) = SongTags[k]
           /\ CopyPascalString(data, at + 1) = [str |-> f[k], used |-> Len(f[k]) + 1]
<1>1. PICK tag, str : tag = SongTags[k] /\ str = f[k]
  OBVIOUS
<1>2. tag \in Octets /\ str \in Strings
  BY <1>1, TagsAre DEF Songs
<1>3. PICK a, b : a = <<tag>> /\ b = Pascal(str)
  OBVIOUS
<1>4. a \in Seq(Octets) /\ Len(a) = 1 /\ a[1] = tag
  BY <1>2, <1>3
<1>5. b \in Seq(Octets)
  BY <1>2, <1>3, PascalTyped
<1>6. Holds(data, at, a \o b)
  BY <1>1, <1>3, TaggedSize
<1>7. Holds(data, at, a) /\ Holds(data, at + Len(a), b)
  BY ONLY at \in Nat, Len(data) \in Nat, <1>4, <1>5, <1>6, HoldsParts
<1>8. Octet(data, at + (1 - 1)) = a[1]
  <2>1. Len(a) \in Nat /\ 1 \in 1 .. Len(a)
    BY ONLY <1>4
  <2> QED
    BY ONLY at \in Nat, Len(data) \in Nat, <1>7, <2>1, HoldsOctet
<1>9. Octet(data, at) = tag
  <2>1. at + (1 - 1) = at
    OBVIOUS
  <2> QED
    BY <1>4, <1>8, <2>1
<1>10. Holds(data, at + 1, Pascal(str)) /\ at + 1 \in Nat
  BY <1>3, <1>4, <1>7
<1>11. CopyPascalString(data, at + 1) = [str |-> str, used |-> Len(str) + 1]
  BY ONLY Len(data) \in Nat, <1>2, <1>10, HoldsPascal
<1> QED
  BY <1>1, <1>9, <1>11

\* Three octets in a message
LEMMA HoldsTriple ==
    ASSUME NEW data, NEW at \in Nat, Len(data) \in Nat, NEW x, NEW y, NEW z,
           Holds(data, at, <<x, y, z>>)
    PROVE  Octet(data, at) = x /\ Octet(data, at + 1) = y /\ Octet(data, at + 2) = z
<1>1. PICK a : a = <<x, y, z>>
  OBVIOUS
<1>2. Len(a) = 3 /\ a[1] = x /\ a[2] = y /\ a[3] = z
  BY <1>1
<1>3. Len(a) \in Nat /\ 1 \in 1 .. Len(a) /\ 2 \in 1 .. Len(a) /\ 3 \in 1 .. Len(a)
  BY ONLY <1>2
<1>4. Holds(data, at, a)
  BY <1>1
<1>5. \A k \in 1 .. Len(a) : Octet(data, at + (k - 1)) = a[k]
  BY ONLY at \in Nat, Len(data) \in Nat, <1>3, <1>4, HoldsOctet
<1>6. at + (1 - 1) = at /\ at + (2 - 1) = at + 1 /\ at + (3 - 1) = at + 2
  OBVIOUS
<1> QED
  BY <1>2, <1>3, <1>5, <1>6

\* A song in a message lies as SongLaid says.
LEMMA SongLayout ==
    ASSUME NEW data, NEW at \in Nat, Len(data) \in Nat, NEW f \in Songs, NEW g, NEW h, NEW L,
           SongWhole(f, g, h, L), Holds(data, at, EncodeSong(f))
    PROVE  SongLaid(data, at, f, L)
<1>1. /\ Holds(data, at, <<2 + Given5(f), 224, 99>>)
      /\ Holds(data, at + 3, Pascal(<<0>>))
      /\ \A k \in 1 .. 5 : Holds(data, at + 5 + L[k - 1], Tagged(SongTags[k], f[k]))
  BY SongHolds
<1>2. Octet(data, at) = 2 + Given5(f) /\ Octet(data, at + 1) = 224 /\ Octet(data, at + 2) = 99
  BY <1>1, HoldsTriple
<1>3. CopyPascalString(data, at + 3).used = 2
  <2>1. PICK z : z = <<0>>
    OBVIOUS
  <2>2. 0 \in Octets
    BY DEF Octets
  <2>3. z \in Strings /\ Len(z) = 1
    BY <2>1, <2>2, SongHead
  <2>4. at + 3 \in Nat /\ Holds(data, at + 3, Pascal(z))
    BY <1>1, <2>1
  <2>5. CopyPascalString(data, at + 3) = [str |-> z, used |-> Len(z) + 1]
    BY ONLY Len(data) \in Nat, <2>3, <2>4, HoldsPascal
  <2> QED
    BY <2>3, <2>5
<1>4. ASSUME NEW k \in 1 .. 5, f[k] # <<>>
      PROVE  /\ Octet(data, at + 5 + L[k - 1]) = SongTags[k]
             /\ CopyPascalString(data, at + 5 + L[k - 1] + 1) = [str |-> f[k], used |-> Len(f[k]) + 1]
  <2>1. at + 5 + L[k - 1] \in Nat
    <3>1. L \in [0 .. 5 -> Nat] /\ k - 1 \in 0 .. 5
      BY DEF SongWhole
    <3>2. L[k - 1] \in Nat
      BY ONLY <3>1
    <3> QED
      BY ONLY <3>2, at \in Nat
  <2>2. PICK p : p = at + 5 + L[k - 1]
    OBVIOUS
  <2>3. p \in Nat /\ Holds(data, p, Tagged(SongTags[k], f[k]))
    BY <1>1, <2>1, <2>2
  <2>4. Octet(data, p) = SongTags[k] /\ CopyPascalString(data, p + 1) = [str |-> f[k], used |-> Len(f[k]) + 1]
    BY ONLY Len(data) \in Nat, f \in Songs, k \in 1 .. 5, <1>4, <2>3, HoldsTagged, SMTT(20), ZenonT(40)
  <2> QED
    BY <2>2, <2>4
<1> QED
  BY <1>2, <1>3, <1>4 DEF SongLaid

\* The loop is behind the first j strings.
SongAt(p, f, L, j) ==
    /\ p.used = 5 + L[j] /\ p.str \in [KnownTags -> Seq(Octets)]
    /\ p = [used |-> p.used, str |-> p.str]
    /\ \A k \in 1 .. 5 : p.str[SongTags[k]] = IF k <= j THEN f[k] ELSE <<>>

\* The loop steps over a tag without a string.
LEMMA StepSkips ==
    ASSUME NEW data, NEW at, NEW len, NEW used, NEW str,
           ~ (used >= len), Octet(data, at + used) = 224
    PROVE  SongStep(data, at, len, [used |-> used, str |-> str]) = [used |-> used + 1, str |-> str]
BY TagsAre DEF SongStep

\* It keeps the string of any other tag, if it knows the tag.
LEMMA StepReads ==
    ASSUME NEW data, NEW at, NEW len, NEW used, NEW str, NEW tag, NEW s,
           ~ (used >= len), Octet(data, at + used) = tag, tag # 224,
           s = CopyPascalString(data, at + used + 1)
    PROVE  SongStep(data, at, len, [used |-> used, str |-> str]) =
              [used |-> used + 1 + s.used,
               str  |-> [t \in DOMAIN str |-> IF t = tag THEN s.str ELSE str[t]]]
BY TagsAre DEF SongStep

\* The sums of the loop, behind a string: it is not at the end, and goes on
\* behind the next.
LEMMA SumOrder ==
    ASSUME NEW a \in Nat, NEW x \in Nat, NEW y \in Nat, NEW z \in Nat, NEW w \in Nat,
           NEW used, NEW len, used = 5 + x, len = 5 + z, x < z, y = x + w + 2
    PROVE  /\ ~ (used >= len) /\ a + used = a + 5 + x /\ a + used + 1 = a + 5 + x + 1
           /\ used + 1 + (w + 1) = 5 + y
OBVIOUS

\* The tag without a string, and the one that is not known
LEMMA SongFirst ==
    ASSUME NEW data, NEW at \in Nat, NEW len \in Nat, len >= 5, NEW f, NEW L, L[0] = 0,
           SongLaid(data, at, f, L)
    PROVE  LET p == SongStep(data, at, len, [used |-> 1, str |-> NoSong])
           IN  SongAt(SongStep(data, at, len, p), f, L, 0)
<1>1. SongStep(data, at, len, [used |-> 1, str |-> NoSong]) = [used |-> 2, str |-> NoSong]
  <2>1. Octet(data, at + 1) = 224
    BY DEF SongLaid
  <2>2. ~ (1 >= len) /\ 1 + 1 = 2
    OBVIOUS
  <2>3. SongStep(data, at, len, [used |-> 1, str |-> NoSong]) = [used |-> 1 + 1, str |-> NoSong]
    BY ONLY <2>1, <2>2, StepSkips
  <2> QED
    BY <2>2, <2>3
<1>2. SongStep(data, at, len, [used |-> 2, str |-> NoSong]) = [used |-> 5, str |-> NoSong]
  <2>1. Octet(data, at + 2) = 99 /\ CopyPascalString(data, at + 3).used = 2
    BY DEF SongLaid
  <2>2. PICK s : s = CopyPascalString(data, at + 3)
    OBVIOUS
  <2>3. ~ (2 >= len) /\ at + 2 + 1 = at + 3 /\ 2 + 1 + 2 = 5 /\ 99 # 224
    OBVIOUS
  <2>4. s = CopyPascalString(data, at + 2 + 1)
    BY <2>2, <2>3
  <2>5. \A str : [t \in KnownTags |-> IF t = 99 THEN str ELSE NoSong[t]] = NoSong
    BY TagsAre DEF NoSong
  <2>6. DOMAIN NoSong = KnownTags
    BY DEF NoSong
  <2>7. SongStep(data, at, len, [used |-> 2, str |-> NoSong]) =
          [used |-> 2 + 1 + s.used,
           str |-> [t \in DOMAIN NoSong |-> IF t = 99 THEN s.str ELSE NoSong[t]]]
    BY ONLY <2>1, <2>3, <2>4, StepReads
  <2>8. [t \in DOMAIN NoSong |-> IF t = 99 THEN s.str ELSE NoSong[t]] = NoSong
    BY ONLY <2>5, <2>6
  <2>9. 2 + 1 + s.used = 5
    BY <2>1, <2>2, <2>3
  <2> QED
    BY ONLY <2>7, <2>8, <2>9
<1>3. SongAt([used |-> 5, str |-> NoSong], f, L, 0)
  <2>1. NoSong \in [KnownTags -> Seq(Octets)]
    BY DEF NoSong
  <2>2. ASSUME NEW k \in 1 .. 5 PROVE NoSong[SongTags[k]] = <<>> /\ ~ (k <= 0)
    BY TagsAre DEF NoSong
  <2>3. 5 = 5 + L[0]
    OBVIOUS
  <2> QED
    BY <2>1, <2>2, <2>3 DEF SongAt
<1> QED
  BY <1>1, <1>2, <1>3

\* A string that is sent takes its octets and two more.
LEMMA LensGrow ==
    ASSUME NEW f \in Songs, NEW L, SongLens(f, L), NEW j \in 1 .. 5, f[j] # <<>>
    PROVE  /\ L[j - 1] < L[5] /\ L[j] = L[j - 1] + Len(f[j]) + 2
           /\ Len(f[j]) \in Nat /\ L[j - 1] \in Nat /\ L[j] \in Nat /\ L[5] \in Nat
<1>1. \A k \in 1 .. 5 : L[k] = L[k - 1] + Size(f[k])
  BY DEF SongLens
<1>2. \A k \in 1 .. 5 : Size(f[k]) \in 0 .. 257
  BY SizeTyped DEF Songs
<1>3. Size(f[j]) = Len(f[j]) + 2 /\ Len(f[j]) \in Nat
  BY DEF Size, Songs, Strings
<1>4. L \in [0 .. 5 -> Nat]
  BY DEF SongLens
<1>5. /\ L[0] \in Nat /\ L[1] \in Nat /\ L[2] \in Nat /\ L[3] \in Nat /\ L[4] \in Nat /\ L[5] \in Nat
      /\ 1 - 1 = 0 /\ 2 - 1 = 1 /\ 3 - 1 = 2 /\ 4 - 1 = 3 /\ 5 - 1 = 4
  BY ONLY <1>4
<1>6. L[0] <= L[1] /\ L[1] <= L[2] /\ L[2] <= L[3] /\ L[3] <= L[4] /\ L[4] <= L[5]
  <2>1. /\ L[1] = L[1 - 1] + Size(f[1]) /\ Size(f[1]) \in 0 .. 257
        /\ L[2] = L[2 - 1] + Size(f[2]) /\ Size(f[2]) \in 0 .. 257
        /\ L[3] = L[3 - 1] + Size(f[3]) /\ Size(f[3]) \in 0 .. 257
        /\ L[4] = L[4 - 1] + Size(f[4]) /\ Size(f[4]) \in 0 .. 257
        /\ L[5] = L[5 - 1] + Size(f[5]) /\ Size(f[5]) \in 0 .. 257
    BY ONLY <1>1, <1>2
  <2> QED
    BY ONLY <1>5, <2>1
<1>7. L[j - 1] \in Nat /\ L[j] \in Nat
  <2>1. j - 1 \in 0 .. 5 /\ j \in 0 .. 5
    OBVIOUS
  <2> QED
    BY ONLY <1>4, <2>1
<1>8. L[j] = L[j - 1] + (Len(f[j]) + 2)
  BY ONLY <1>1, <1>3, j \in 1 .. 5
<1>9. L[j] <= L[5]
  <2>1. j = 1 \/ j = 2 \/ j = 3 \/ j = 4 \/ j = 5
    OBVIOUS
  <2>2. L[5] <= L[5] /\ L[4] <= L[5] /\ L[3] <= L[5] /\ L[2] <= L[5] /\ L[1] <= L[5]
    BY ONLY <1>5, <1>6
  <2> QED
    BY ONLY <2>1, <2>2
<1>10. PICK x, y, z, w : x = L[j - 1] /\ y = L[j] /\ z = L[5] /\ w = Len(f[j])
  OBVIOUS
<1>11. x \in Nat /\ w \in Nat /\ z \in Nat /\ y = x + (w + 2) /\ y <= z
  BY ONLY <1>3, <1>5, <1>7, <1>8, <1>9, <1>10
<1>12. x < z /\ y = x + w + 2
  BY ONLY <1>11
<1> QED
  BY ONLY <1>3, <1>5, <1>7, <1>10, <1>12

\* From one string that is sent to the next
LEMMA SongNext ==
    ASSUME NEW data, NEW at \in Nat, NEW f \in Songs, NEW L, SongLens(f, L),
           NEW j \in 1 .. 5, f[j] # <<>>, NEW len, len = 5 + L[5],
           SongLaid(data, at, f, L), NEW p, SongAt(p, f, L, j - 1)
    PROVE  SongAt(SongStep(data, at, len, p), f, L, j)
<1>1. /\ L[j - 1] < L[5] /\ L[j] = L[j - 1] + Len(f[j]) + 2
      /\ Len(f[j]) \in Nat /\ L[j - 1] \in Nat /\ L[j] \in Nat /\ L[5] \in Nat
  BY LensGrow
<1>2. PICK used, str : used = p.used /\ str = p.str
  OBVIOUS
<1>3. used = 5 + L[j - 1] /\ p = [used |-> used, str |-> str] /\ str \in [KnownTags -> Seq(Octets)]
  BY <1>2 DEF SongAt
<1>4. /\ ~ (used >= len) /\ at + used = at + 5 + L[j - 1] /\ at + used + 1 = at + 5 + L[j - 1] + 1
      /\ used + 1 + (Len(f[j]) + 1) = 5 + L[j]
  <2>1. used = 5 + L[j - 1]
    BY <1>3
  <2>2. PICK x, y, z, w : x = L[j - 1] /\ y = L[j] /\ z = L[5] /\ w = Len(f[j])
    OBVIOUS
  <2>3. /\ x \in Nat /\ y \in Nat /\ z \in Nat /\ w \in Nat
        /\ used = 5 + x /\ len = 5 + z /\ x < z /\ y = x + w + 2
    BY <1>1, <2>1, <2>2
  <2>4. /\ ~ (used >= len) /\ at + used = at + 5 + x /\ at + used + 1 = at + 5 + x + 1
        /\ used + 1 + (w + 1) = 5 + y
    BY ONLY at \in Nat, <2>3, SumOrder
  <2> QED
    BY ONLY <2>2, <2>4, Zenon
<1>5. /\ Octet(data, at + 5 + L[j - 1]) = SongTags[j]
      /\ CopyPascalString(data, at + 5 + L[j - 1] + 1) = [str |-> f[j], used |-> Len(f[j]) + 1]
  BY DEF SongLaid
<1>6. PICK tag, s : tag = SongTags[j] /\ s = CopyPascalString(data, at + used + 1)
  OBVIOUS
<1>7. Octet(data, at + used) = tag /\ s.used = Len(f[j]) + 1 /\ s.str = f[j]
  BY ONLY <1>4, <1>5, <1>6
<1>8. tag # 224
  BY <1>6, TagsAre
<1>9. PICK r : r = [t \in KnownTags |-> IF t = tag THEN f[j] ELSE str[t]]
  OBVIOUS
<1>10. SongStep(data, at, len, p) = [used |-> 5 + L[j], str |-> r]
  <2>1. ~ (used >= len) /\ s = CopyPascalString(data, at + used + 1) /\ Octet(data, at + used) = tag
    BY <1>4, <1>6, <1>7
  <2>2. SongStep(data, at, len, [used |-> used, str |-> str]) =
             [used |-> used + 1 + s.used,
              str |-> [t \in DOMAIN str |-> IF t = tag THEN s.str ELSE str[t]]]
    BY ONLY <1>8, <2>1, StepReads
  <2>3. DOMAIN str = KnownTags
    BY ONLY <1>3
  <2>4. [t \in DOMAIN str |-> IF t = tag THEN s.str ELSE str[t]] = r
    BY ONLY <1>7, <1>9, <2>3, Zenon
  <2> QED
    BY ONLY <1>3, <1>4, <1>7, <2>2, <2>4, Zenon
<1>12. r \in [KnownTags -> Seq(Octets)]
  <2>1. f[j] \in Seq(Octets)
    BY DEF Songs, Strings
  <2> QED
    BY ONLY <1>3, <1>9, <2>1
<1>13. ASSUME NEW k \in 1 .. 5 PROVE r[SongTags[k]] = IF k <= j THEN f[k] ELSE <<>>
  <2>1. SongTags[k] \in KnownTags
    BY TagsAre
  <2>2. r[SongTags[k]] = IF SongTags[k] = SongTags[j] THEN f[j] ELSE str[SongTags[k]]
    BY ONLY <1>6, <1>9, <2>1
  <2>3. SongTags[k] = SongTags[j] <=> k = j
    <3>1. \A m, i \in 1 .. 5 : SongTags[m] = SongTags[i] => m = i
      BY TagsAre
    <3> QED
      BY ONLY j \in 1 .. 5, k \in 1 .. 5, <3>1, Zenon
  <2>4. str[SongTags[k]] = IF k <= j - 1 THEN f[k] ELSE <<>>
    BY <1>2 DEF SongAt
  <2>5. CASE k = j
    <3>1. k <= j
      BY <2>5
    <3> QED
      BY ONLY <2>2, <2>3, <2>5, <3>1
  <2>6. CASE k # j
    <3>1. k <= j <=> k <= j - 1
      BY <2>6
    <3> QED
      BY ONLY <2>2, <2>3, <2>4, <2>6, <3>1
  <2> QED
    BY <2>5, <2>6
<1> QED
  BY ONLY <1>10, <1>12, <1>13 DEF SongAt

\* SCESongInfo::deserialize has the five strings of the song in the message.
LEMMA SongDecoded ==
    ASSUME NEW data, data \in Seq(Octets), NEW at \in Nat, NEW f \in Songs,
           Holds(data, at, EncodeSong(f))
    PROVE  \A k \in 1 .. 5 :
              SongFields(data, at, Len(EncodeSong(f))).str[SongTags[k]] = f[k]
<1>1. Len(data) \in Nat
  OBVIOUS
<1>2. PICK g, h, L : SongWhole(f, g, h, L)
  BY SongSplit
<1>3. SongLaid(data, at, f, L)
  BY <1>1, <1>2, SongLayout
<1>4. PICK len : len = Len(EncodeSong(f))
  OBVIOUS
<1>5. len = 5 + L[5] /\ SongLens(f, L) /\ L[0] = 0 /\ L[5] \in Nat
  <2>1. L \in [0 .. 5 -> Nat] /\ SongLens(f, L) /\ Len(EncodeSong(f)) = 5 + L[5]
    BY <1>2, SMTT(20), ZenonT(40) DEF SongWhole
  <2>2. L[5] \in Nat
    BY ONLY <2>1
  <2>3. L[0] = 0
    BY ONLY <2>1 DEF SongLens
  <2> QED
    BY <1>4, <2>1, <2>2, <2>3
<1>6. len \in Nat /\ len >= 5 /\ len >= 1
  BY ONLY <1>5
<1>7. PICK n \in Octets, c \in [0 .. 5 -> Nat] :
              /\ n = 2 + Given5(f) /\ c[0] = 2 /\ c[5] = n
              /\ \A j \in 1 .. 5 : c[j] = c[j - 1] + Given(f[j])
              /\ \A j \in 0 .. 5 : c[j] <= n
  BY SongCounts
<1>8. Octet(data, at) = n
  BY <1>3, <1>7 DEF SongLaid
<1>9. \E s \in [0 .. n -> SongState] :
              /\ s[0] = [used |-> 1, str |-> NoSong]
              /\ \A i \in 1 .. n : s[i] = SongStep(data, at, len, s[i - 1])
              /\ SongFields(data, at, len) = s[n]
  BY ONLY data \in Seq(Octets), at \in Nat, <1>6, <1>8, SongChain
<1>10. PICK s :
              /\ s[0] = [used |-> 1, str |-> NoSong]
              /\ \A i \in 1 .. n : s[i] = SongStep(data, at, len, s[i - 1])
              /\ SongFields(data, at, len) = s[n]
  BY ONLY <1>9, Zenon
<1>11. n \in Nat
  BY DEF Octets
<1>12. \A j \in 0 .. 5 : c[j] \in Nat
  OBVIOUS
<1>13. SongAt(s[c[0]], f, L, 0)
  <2>1. c[0] = 2 /\ c[0] <= n
    <3>1. 0 \in 0 .. 5
      OBVIOUS
    <3> QED
      BY ONLY <1>7, <3>1
  <2>2. 1 \in 1 .. n /\ 2 \in 1 .. n /\ 1 - 1 = 0 /\ 2 - 1 = 1
    BY ONLY <1>11, <2>1
  <2>3. s[1] = SongStep(data, at, len, s[0]) /\ s[2] = SongStep(data, at, len, s[1])
    BY ONLY <1>10, <2>2
  <2>4. LET p == SongStep(data, at, len, [used |-> 1, str |-> NoSong])
        IN  SongAt(SongStep(data, at, len, p), f, L, 0)
    BY ONLY at \in Nat, <1>3, <1>5, <1>6, SongFirst
  <2> QED
    BY ONLY <1>10, <2>1, <2>3, <2>4, Zenon
<1>14. ASSUME NEW j \in 1 .. 5, SongAt(s[c[j - 1]], f, L, j - 1) PROVE SongAt(s[c[j]], f, L, j)
  <2>1. j - 1 \in 0 .. 5 /\ j \in 0 .. 5
    OBVIOUS
  <2>2. c[j] = c[j - 1] + Given(f[j]) /\ c[j] <= n
    BY ONLY <1>7, <2>1, j \in 1 .. 5
  <2>3. CASE f[j] = <<>>
    <3>1. Given(f[j]) = 0
      BY <2>3 DEF Given
    <3>2. c[j] = c[j - 1]
      BY ONLY <1>12, <2>1, <2>2, <3>1
    <3>3. L[j] = L[j - 1]
      <4>1. L[j] = L[j - 1] + Size(f[j]) /\ L \in [0 .. 5 -> Nat]
        BY ONLY <1>5, j \in 1 .. 5 DEF SongLens
      <4>2. Size(f[j]) = 0
        BY <2>3 DEF Size
      <4>3. L[j - 1] \in Nat
        BY ONLY <2>1, <4>1
      <4> QED
        BY ONLY <4>1, <4>2, <4>3
    <3>4. PICK p : p = s[c[j - 1]]
      OBVIOUS
    <3>5. SongAt(p, f, L, j - 1)
      BY <1>14, <3>4
    <3>6. ASSUME NEW k \in 1 .. 5 PROVE p.str[SongTags[k]] = IF k <= j THEN f[k] ELSE <<>>
      <4>1. p.str[SongTags[k]] = IF k <= j - 1 THEN f[k] ELSE <<>>
        BY ONLY <3>5, k \in 1 .. 5 DEF SongAt
      <4>2. k <= j <=> k <= j - 1 \/ k = j
        OBVIOUS
      <4>3. k = j => f[k] = <<>>
        BY <2>3
      <4> QED
        BY ONLY <4>1, <4>2, <4>3
    <3>7. SongAt(p, f, L, j)
      BY ONLY <3>3, <3>5, <3>6 DEF SongAt
    <3> QED
      BY ONLY <3>2, <3>4, <3>7, Zenon
  <2>4. CASE f[j] # <<>>
    <3>1. Given(f[j]) = 1
      BY <2>4 DEF Given
    <3>2. c[j] \in 1 .. n /\ c[j] - 1 = c[j - 1]
      <4>1. c[j - 1] \in Nat /\ c[j] = c[j - 1] + 1
        BY ONLY <1>12, <2>1, <2>2, <3>1
      <4>2. PICK x, y : x = c[j - 1] /\ y = c[j]
        OBVIOUS
      <4>3. x \in Nat /\ y = x + 1 /\ y <= n
        BY <2>2, <4>1, <4>2
      <4>4. y \in 1 .. n /\ y - 1 = x
        BY ONLY <1>11, <4>3
      <4> QED
        BY <4>2, <4>4
    <3>3. s[c[j]] = SongStep(data, at, len, s[c[j] - 1])
      BY ONLY <1>10, <3>2
    <3>4. PICK p : p = s[c[j - 1]]
      OBVIOUS
    <3>5. SongAt(p, f, L, j - 1)
      BY <1>14, <3>4
    <3>6. SongAt(SongStep(data, at, len, p), f, L, j)
      <4>1. len = 5 + L[5] /\ SongLens(f, L)
        BY <1>5
      <4> QED
        BY ONLY at \in Nat, f \in Songs, j \in 1 .. 5, <1>3, <2>4, <3>5, <4>1, SongNext
    <3> QED
      BY ONLY <3>2, <3>3, <3>4, <3>6, Zenon
  <2> QED
    BY <2>3, <2>4
<1>15. SongAt(s[c[5]], f, L, 5)
  <2>1. 1 - 1 = 0 /\ 2 - 1 = 1 /\ 3 - 1 = 2 /\ 4 - 1 = 3 /\ 5 - 1 = 4
    OBVIOUS
  <2>2. 1 \in 1 .. 5 /\ 2 \in 1 .. 5 /\ 3 \in 1 .. 5 /\ 4 \in 1 .. 5 /\ 5 \in 1 .. 5
    OBVIOUS
  <2>3. SongAt(s[c[1]], f, L, 1)
    BY ONLY <1>13, <1>14, <2>1, <2>2
  <2>4. SongAt(s[c[2]], f, L, 2)
    BY ONLY <1>14, <2>1, <2>2, <2>3
  <2>5. SongAt(s[c[3]], f, L, 3)
    BY ONLY <1>14, <2>1, <2>2, <2>4
  <2>6. SongAt(s[c[4]], f, L, 4)
    BY ONLY <1>14, <2>1, <2>2, <2>5
  <2> QED
    BY ONLY <1>14, <2>1, <2>2, <2>6
<1>16. SongAt(SongFields(data, at, len), f, L, 5)
  <2>1. c[5] = n /\ SongFields(data, at, len) = s[n]
    BY <1>7, <1>10
  <2> QED
    BY ONLY <1>15, <2>1, Zenon
<1>17. ASSUME NEW k \in 1 .. 5 PROVE SongFields(data, at, len).str[SongTags[k]] = f[k]
  <2>1. k <= 5
    OBVIOUS
  <2> QED
    BY ONLY <1>16, <2>1, k \in 1 .. 5 DEF SongAt
<1> QED
  BY <1>4, <1>17

-----------------------------------------------------------------------------
(* Channel information, with a song in it.                                 *)

\* The event has the channel and the five strings.
LEMMA SongTold ==
    ASSUME NEW data, data \in Seq(Octets), NEW at \in Nat, NEW f \in Songs, NEW ch,
           Holds(data, at, EncodeSong(f))
    PROVE  SongInfo(ch, data, at, Len(EncodeSong(f))) =
              Event("SONGINFO", <<<<ch>>, f[1], f[2], f[3], f[4], f[5]>>)
<1>1. PICK s : s = SongFields(data, at, Len(EncodeSong(f))).str
  OBVIOUS
<1>2. \A k \in 1 .. 5 : s[SongTags[k]] = f[k]
  BY <1>1, SongDecoded
<1>3. /\ SongTags[1] = SIT.SONGID /\ SongTags[2] = SIT.ARTISTID /\ SongTags[3] = SIT.TITLE
      /\ SongTags[4] = SIT.ARTIST /\ SongTags[5] = SIT.COMPOSER
  BY DEF SongTags
<1>4. /\ s[SIT.SONGID] = f[1] /\ s[SIT.ARTISTID] = f[2] /\ s[SIT.TITLE] = f[3]
      /\ s[SIT.ARTIST] = f[4] /\ s[SIT.COMPOSER] = f[5]
  <2>1. 1 \in 1 .. 5 /\ 2 \in 1 .. 5 /\ 3 \in 1 .. 5 /\ 4 \in 1 .. 5 /\ 5 \in 1 .. 5
    OBVIOUS
  <2> QED
    BY ONLY <1>2, <1>3, <2>1, Zenon
<1> QED
  BY ONLY <1>1, <1>4, Zenon DEF SongInfo

\* Two parts in a message, with their types
LEMMA HoldsTwo ==
    ASSUME NEW data, NEW at \in Nat, Len(data) \in Nat, NEW s, NEW t,
           s \in Seq(Octets), t \in Seq(Octets), Holds(data, at, s \o t)
    PROVE  /\ Holds(data, at, s) /\ Holds(data, at + Len(s), t) /\ s \o t \in Seq(Octets)
           /\ Len(s \o t) = Len(s) + Len(t)
<1>1. Holds(data, at, s) /\ Holds(data, at + Len(s), t)
  BY HoldsParts
<1>2. s \o t \in Seq(Octets) /\ Len(s \o t) = Len(s) + Len(t)
  BY ONLY s \in Seq(Octets), t \in Seq(Octets), ConcatFacts
<1> QED
  BY <1>1, <1>2

\* Two sequences of octets in one
LEMMA JoinTwo ==
    ASSUME NEW s, NEW t, s \in Seq(Octets), t \in Seq(Octets)
    PROVE  s \o t \in Seq(Octets) /\ Len(s \o t) = Len(s) + Len(t) /\ Len(s) \in Nat /\ Len(t) \in Nat
BY ConcatFacts

\* Channel information, of a record of its parts: the channel, the category,
\* what is not used, the names short and long, those of the genre, and the
\* song
JoinChannel(c) ==
    c.a \o c.b \o c.z \o Pascal(c.s) \o Pascal(c.l) \o Pascal(c.sg) \o Pascal(c.lg) \o c.e

ChannelParts(c) ==
    /\ c.a \in [1 .. 1 -> Octets] /\ c.b \in [1 .. 1 -> Octets] /\ c.z = <<0, 0, 0>>
    /\ c.s \in Strings /\ c.l \in Strings /\ c.sg \in Strings /\ c.lg \in Strings
    /\ c.e \in Seq(Octets)

\* A string of one octet
LEMMA OneOctet ==
    ASSUME NEW a, a \in [1 .. 1 -> Octets]
    PROVE  a \in Seq(Octets) /\ Len(a) = 1 /\ a[1] \in Octets /\ a = <<a[1]>>
<1>1. a[1] \in Octets
  OBVIOUS
<1>3. a = <<a[1]>>
  OBVIOUS
<1>4. \A x \in Octets : <<x>> \in Seq(Octets) /\ Len(<<x>>) = 1
  OBVIOUS
<1>2. a \in Seq(Octets) /\ Len(a) = 1
  BY ONLY <1>1, <1>3, <1>4, Zenon
<1> QED
  BY <1>1, <1>2, <1>3

\* The three octets that are not used
LEMMA Zeros == <<0, 0, 0>> \in Seq(Octets) /\ Len(<<0, 0, 0>>) = 3
BY DEF Octets

\* Where the parts of channel information lie
LEMMA ChannelHolds ==
    ASSUME NEW data, NEW at \in Nat, Len(data) \in Nat, NEW c, ChannelParts(c),
           Holds(data, at, JoinChannel(c))
    PROVE  LET n1 == Len(c.s) + 1
               n2 == Len(c.l) + 1
               n3 == Len(c.sg) + 1
               n4 == Len(c.lg) + 1
           IN  /\ Holds(data, at, c.a) /\ Holds(data, at + 1, c.b)
               /\ Holds(data, at + 5, Pascal(c.s))
               /\ Holds(data, at + 5 + n1, Pascal(c.l))
               /\ Holds(data, at + 5 + n1 + n2, Pascal(c.sg))
               /\ Holds(data, at + 5 + n1 + n2 + n3, Pascal(c.lg))
               /\ Holds(data, at + 5 + n1 + n2 + n3 + n4, c.e)
<1>1. c.a \in Seq(Octets) /\ Len(c.a) = 1 /\ c.b \in Seq(Octets) /\ Len(c.b) = 1
  BY OneOctet DEF ChannelParts
<1>2. c.z \in Seq(Octets) /\ Len(c.z) = 3
  BY Zeros DEF ChannelParts
<1>3. PICK p1, p2, p3, p4 :
        p1 = Pascal(c.s) /\ p2 = Pascal(c.l) /\ p3 = Pascal(c.sg) /\ p4 = Pascal(c.lg)
  OBVIOUS
<1>4. PICK n1, n2, n3, n4 :
        n1 = Len(c.s) + 1 /\ n2 = Len(c.l) + 1 /\ n3 = Len(c.sg) + 1 /\ n4 = Len(c.lg) + 1
  OBVIOUS
<1>5. /\ p1 \in Seq(Octets) /\ Len(p1) = n1 /\ n1 \in Nat
      /\ p2 \in Seq(Octets) /\ Len(p2) = n2 /\ n2 \in Nat
      /\ p3 \in Seq(Octets) /\ Len(p3) = n3 /\ n3 \in Nat
      /\ p4 \in Seq(Octets) /\ Len(p4) = n4 /\ n4 \in Nat
  <2>1. c.s \in Strings /\ c.l \in Strings /\ c.sg \in Strings /\ c.lg \in Strings
    BY DEF ChannelParts
  <2>2. \A str \in Strings : /\ Pascal(str) \in Seq(Octets) /\ Len(Pascal(str)) = Len(str) + 1
                             /\ Len(str) + 1 \in Nat
    BY PascalTyped
  <2> QED
    BY ONLY <1>3, <1>4, <2>1, <2>2
<1>6. c.e \in Seq(Octets)
  BY DEF ChannelParts
<1>7. PICK t2 : t2 = c.a \o c.b
  OBVIOUS
<1>8. t2 \in Seq(Octets) /\ Len(t2) = Len(c.a) + Len(c.b)
  BY ONLY <1>1, <1>7, JoinTwo
<1>9. PICK t3 : t3 = t2 \o c.z
  OBVIOUS
<1>10. t3 \in Seq(Octets) /\ Len(t3) = Len(t2) + Len(c.z)
  BY ONLY <1>2, <1>8, <1>9, JoinTwo
<1>11. PICK t4 : t4 = t3 \o p1
  OBVIOUS
<1>12. t4 \in Seq(Octets) /\ Len(t4) = Len(t3) + Len(p1)
  BY ONLY <1>5, <1>10, <1>11, JoinTwo
<1>13. PICK t5 : t5 = t4 \o p2
  OBVIOUS
<1>14. t5 \in Seq(Octets) /\ Len(t5) = Len(t4) + Len(p2)
  BY ONLY <1>5, <1>12, <1>13, JoinTwo
<1>15. PICK t6 : t6 = t5 \o p3
  OBVIOUS
<1>16. t6 \in Seq(Octets) /\ Len(t6) = Len(t5) + Len(p3)
  BY ONLY <1>5, <1>14, <1>15, JoinTwo
<1>17. PICK t7 : t7 = t6 \o p4
  OBVIOUS
<1>18. t7 \in Seq(Octets) /\ Len(t7) = Len(t6) + Len(p4)
  BY ONLY <1>5, <1>16, <1>17, JoinTwo
<1>19. Holds(data, at, t7 \o c.e)
  BY ONLY <1>3, <1>7, <1>9, <1>11, <1>13, <1>15, <1>17, Holds(data, at, JoinChannel(c)), Zenon
     DEF JoinChannel
<1>20. Holds(data, at, t7) /\ Holds(data, at + Len(t7), c.e)
  BY ONLY Len(data) \in Nat, <1>6, <1>18, <1>19, HoldsTwo
<1>21. Holds(data, at, t6) /\ Holds(data, at + Len(t6), p4)
  BY ONLY Len(data) \in Nat, <1>5, <1>16, <1>17, <1>20, HoldsTwo
<1>22. Holds(data, at, t5) /\ Holds(data, at + Len(t5), p3)
  BY ONLY Len(data) \in Nat, <1>5, <1>14, <1>15, <1>21, HoldsTwo
<1>23. Holds(data, at, t4) /\ Holds(data, at + Len(t4), p2)
  BY ONLY Len(data) \in Nat, <1>5, <1>12, <1>13, <1>22, HoldsTwo
<1>24. Holds(data, at, t3) /\ Holds(data, at + Len(t3), p1)
  BY ONLY Len(data) \in Nat, <1>5, <1>10, <1>11, <1>23, HoldsTwo
<1>25. Holds(data, at, t2)
  BY ONLY Len(data) \in Nat, <1>2, <1>8, <1>9, <1>24, HoldsTwo
<1>26. Holds(data, at, c.a) /\ Holds(data, at + Len(c.a), c.b)
  BY ONLY Len(data) \in Nat, <1>1, <1>7, <1>25, HoldsTwo
<1>27. /\ at + Len(c.a) = at + 1 /\ at + Len(t3) = at + 5 /\ at + Len(t4) = at + 5 + n1
       /\ at + Len(t5) = at + 5 + n1 + n2 /\ at + Len(t6) = at + 5 + n1 + n2 + n3
       /\ at + Len(t7) = at + 5 + n1 + n2 + n3 + n4
  <2>1. /\ Len(t3) = 5 /\ Len(t4) = 5 + n1 /\ Len(t5) = 5 + n1 + n2 /\ Len(t6) = 5 + n1 + n2 + n3
        /\ Len(t7) = 5 + n1 + n2 + n3 + n4
    BY ONLY <1>1, <1>2, <1>5, <1>8, <1>10, <1>12, <1>14, <1>16, <1>18
  <2>2. n1 \in Nat /\ n2 \in Nat /\ n3 \in Nat /\ n4 \in Nat
    BY <1>5
  <2> QED
    BY ONLY <1>1, <2>1, <2>2, at \in Nat
<1> QED
  BY ONLY <1>3, <1>4, <1>20, <1>21, <1>22, <1>23, <1>24, <1>26, <1>27, Zenon

\* One octet in a message
LEMMA HoldsOne ==
    ASSUME NEW data, NEW at \in Nat, Len(data) \in Nat, NEW a, a \in [1 .. 1 -> Octets],
           Holds(data, at, a)
    PROVE  Octet(data, at) = a[1]
<1>1. Len(a) = 1
  BY OneOctet
<1>2. Len(a) \in Nat /\ 1 \in 1 .. Len(a)
  BY ONLY <1>1
<1>3. Octet(data, at + (1 - 1)) = a[1]
  BY ONLY at \in Nat, Len(data) \in Nat, Holds(data, at, a), <1>2, HoldsOctet
<1>4. at + (1 - 1) = at
  OBVIOUS
<1> QED
  BY <1>3, <1>4

\* What is behind the channel information
ChannelUsed(c) == 5 + (Len(c.s) + 1) + (Len(c.l) + 1) + (Len(c.sg) + 1) + (Len(c.lg) + 1)

\* The handlers read the channel, the category and the four names, and know
\* where the song begins.
LEMMA ChannelDecoded ==
    ASSUME NEW data, NEW at \in Nat, Len(data) \in Nat, NEW c, ChannelParts(c),
           Holds(data, at, JoinChannel(c))
    PROVE  /\ Octet(data, at) = c.a[1] /\ Octet(data, at + 1) = c.b[1]
           /\ ChannelStrings(data, at) = [used |-> ChannelUsed(c), str |-> <<c.l, c.s, c.lg, c.sg>>]
           /\ ChannelUsed(c) \in Nat /\ ChannelUsed(c) <= 1029
           /\ Holds(data, at + ChannelUsed(c), c.e)
<1>1. /\ c.s \in Strings /\ c.l \in Strings /\ c.sg \in Strings /\ c.lg \in Strings
      /\ c.a \in [1 .. 1 -> Octets] /\ c.b \in [1 .. 1 -> Octets]
  BY DEF ChannelParts
<1>2. PICK n1, n2, n3, n4 :
        n1 = Len(c.s) + 1 /\ n2 = Len(c.l) + 1 /\ n3 = Len(c.sg) + 1 /\ n4 = Len(c.lg) + 1
  OBVIOUS
<1>3. n1 \in 1 .. 256 /\ n2 \in 1 .. 256 /\ n3 \in 1 .. 256 /\ n4 \in 1 .. 256
  <2>1. \A str \in Strings : Len(str) \in Nat /\ Len(str) <= 255
    BY DEF Strings
  <2>2. \A n \in Nat : n <= 255 => n + 1 \in 1 .. 256
    OBVIOUS
  <2> QED
    BY ONLY <1>1, <1>2, <2>1, <2>2, ZenonT(40)
<1>4. /\ Holds(data, at, c.a) /\ Holds(data, at + 1, c.b)
      /\ Holds(data, at + 5, Pascal(c.s))
      /\ Holds(data, at + 5 + n1, Pascal(c.l))
      /\ Holds(data, at + 5 + n1 + n2, Pascal(c.sg))
      /\ Holds(data, at + 5 + n1 + n2 + n3, Pascal(c.lg))
      /\ Holds(data, at + 5 + n1 + n2 + n3 + n4, c.e)
  <2>1. LET m1 == Len(c.s) + 1
            m2 == Len(c.l) + 1
            m3 == Len(c.sg) + 1
            m4 == Len(c.lg) + 1
        IN  /\ Holds(data, at, c.a) /\ Holds(data, at + 1, c.b)
            /\ Holds(data, at + 5, Pascal(c.s))
            /\ Holds(data, at + 5 + m1, Pascal(c.l))
            /\ Holds(data, at + 5 + m1 + m2, Pascal(c.sg))
            /\ Holds(data, at + 5 + m1 + m2 + m3, Pascal(c.lg))
            /\ Holds(data, at + 5 + m1 + m2 + m3 + m4, c.e)
    BY ChannelHolds
  <2> QED
    BY ONLY <1>2, <2>1, Zenon
<1>5. /\ at + 1 \in Nat /\ at + 5 \in Nat /\ at + 5 + n1 \in Nat /\ at + 5 + n1 + n2 \in Nat
      /\ at + 5 + n1 + n2 + n3 \in Nat
  BY ONLY at \in Nat, <1>3
<1>6. Octet(data, at) = c.a[1]
  BY ONLY at \in Nat, Len(data) \in Nat, <1>1, <1>4, HoldsOne
<1>7. Octet(data, at + 1) = c.b[1]
  BY ONLY Len(data) \in Nat, <1>1, <1>4, <1>5, HoldsOne
<1>8. CopyPascalString(data, at + 5) = [str |-> c.s, used |-> n1]
  BY ONLY Len(data) \in Nat, <1>1, <1>2, <1>4, <1>5, HoldsPascal
<1>9. CopyPascalString(data, at + 5 + n1) = [str |-> c.l, used |-> n2]
  BY ONLY Len(data) \in Nat, <1>1, <1>2, <1>4, <1>5, HoldsPascal
<1>10. CopyPascalString(data, at + 5 + n1 + n2) = [str |-> c.sg, used |-> n3]
  BY ONLY Len(data) \in Nat, <1>1, <1>2, <1>4, <1>5, HoldsPascal
<1>11. CopyPascalString(data, at + 5 + n1 + n2 + n3) = [str |-> c.lg, used |-> n4]
  BY ONLY Len(data) \in Nat, <1>1, <1>2, <1>4, <1>5, HoldsPascal
<1>12. ChannelStrings(data, at) =
          [used |-> 5 + n1 + n2 + n3 + n4, str |-> <<c.l, c.s, c.lg, c.sg>>]
  BY ONLY <1>8, <1>9, <1>10, <1>11 DEF ChannelStrings
<1>13. PICK u : u = ChannelUsed(c)
  OBVIOUS
<1>14. u = 5 + n1 + n2 + n3 + n4
  BY ONLY <1>2, <1>13 DEF ChannelUsed
<1>15. u \in Nat /\ u <= 1029 /\ at + u = at + 5 + n1 + n2 + n3 + n4
  BY ONLY at \in Nat, <1>3, <1>14
<1>16. Holds(data, at + u, c.e)
  BY ONLY <1>4, <1>15, Zenon
<1> QED
  BY ONLY <1>6, <1>7, <1>12, <1>13, <1>14, <1>15, <1>16, ZenonT(40)

\* The length of channel information
LEMMA ChannelLength ==
    ASSUME NEW c, ChannelParts(c)
    PROVE  JoinChannel(c) \in Seq(Octets) /\ Len(JoinChannel(c)) = ChannelUsed(c) + Len(c.e)
<1>1. c.a \in Seq(Octets) /\ Len(c.a) = 1 /\ c.b \in Seq(Octets) /\ Len(c.b) = 1
  BY OneOctet DEF ChannelParts
<1>2. c.z \in Seq(Octets) /\ Len(c.z) = 3
  BY Zeros DEF ChannelParts
<1>3. PICK p1, p2, p3, p4 :
        p1 = Pascal(c.s) /\ p2 = Pascal(c.l) /\ p3 = Pascal(c.sg) /\ p4 = Pascal(c.lg)
  OBVIOUS
<1>4. /\ p1 \in Seq(Octets) /\ Len(p1) = Len(c.s) + 1 /\ p2 \in Seq(Octets) /\ Len(p2) = Len(c.l) + 1
      /\ p3 \in Seq(Octets) /\ Len(p3) = Len(c.sg) + 1 /\ p4 \in Seq(Octets) /\ Len(p4) = Len(c.lg) + 1
  <2>1. c.s \in Strings /\ c.l \in Strings /\ c.sg \in Strings /\ c.lg \in Strings
    BY DEF ChannelParts
  <2>2. \A str \in Strings : Pascal(str) \in Seq(Octets) /\ Len(Pascal(str)) = Len(str) + 1
    BY PascalTyped
  <2> QED
    BY ONLY <1>3, <2>1, <2>2
<1>5. c.e \in Seq(Octets)
  BY DEF ChannelParts
<1>6. PICK t2, t3, t4, t5, t6, t7 :
         /\ t2 = c.a \o c.b /\ t3 = t2 \o c.z /\ t4 = t3 \o p1 /\ t5 = t4 \o p2
         /\ t6 = t5 \o p3 /\ t7 = t6 \o p4
  OBVIOUS
<1>7. t2 \in Seq(Octets) /\ Len(t2) = Len(c.a) + Len(c.b)
  BY ONLY <1>1, <1>6, JoinTwo
<1>8. t3 \in Seq(Octets) /\ Len(t3) = Len(t2) + Len(c.z)
  BY ONLY <1>2, <1>6, <1>7, JoinTwo
<1>9. t4 \in Seq(Octets) /\ Len(t4) = Len(t3) + Len(p1)
  BY ONLY <1>4, <1>6, <1>8, JoinTwo
<1>10. t5 \in Seq(Octets) /\ Len(t5) = Len(t4) + Len(p2)
  BY ONLY <1>4, <1>6, <1>9, JoinTwo
<1>11. t6 \in Seq(Octets) /\ Len(t6) = Len(t5) + Len(p3)
  BY ONLY <1>4, <1>6, <1>10, JoinTwo
<1>12. t7 \in Seq(Octets) /\ Len(t7) = Len(t6) + Len(p4)
  BY ONLY <1>4, <1>6, <1>11, JoinTwo
<1>13. t7 \o c.e \in Seq(Octets) /\ Len(t7 \o c.e) = Len(t7) + Len(c.e)
  BY ONLY <1>5, <1>12, JoinTwo
<1>14. JoinChannel(c) = t7 \o c.e
  BY ONLY <1>3, <1>6, Zenon DEF JoinChannel
<1>15. Len(t7) = ChannelUsed(c)
  <2>1. Len(t3) = 5
    BY ONLY <1>1, <1>2, <1>7, <1>8
  <2> QED
    BY ONLY <1>4, <1>9, <1>10, <1>11, <1>12, <2>1, Zenon DEF ChannelUsed
<1> QED
  BY ONLY <1>13, <1>14, <1>15, Zenon

\* The length of the song, which the handler takes from that of the message:
\* a subtraction in 16 bits that does not wrap
LEMMA MinusIs ==
    ASSUME NEW m \in Nat, NEW n \in Nat, m + n <= 4096
    PROVE  Minus(m + n, m) = n
<1>1. LenSpace \in Nat /\ LenSpace > 4096
  BY DispatchAssumption
<1>2. (m + n) - m = n /\ n < LenSpace
  BY ONLY <1>1, m \in Nat, n \in Nat, m + n <= 4096
<1>3. n % LenSpace = n
  BY ONLY <1>1, <1>2, n \in Nat
<1> QED
  BY ONLY <1>2, <1>3, Zenon DEF Minus

\* The fields of channel information, and of the song in it
ChannelOf(f) ==
    [a |-> f[1], b |-> f[2], z |-> <<0, 0, 0>>, s |-> f[4], l |-> f[3], sg |-> f[6], lg |-> f[5],
     e |-> EncodeSong(SubSeq(f, 7, 11))]

\* A song has at most 1290 octets.
LEMMA SongLength ==
    ASSUME NEW f \in Songs
    PROVE  EncodeSong(f) \in Seq(Octets) /\ Len(EncodeSong(f)) \in Nat /\ Len(EncodeSong(f)) <= 1290
<1>1. PICK g, h, L : SongWhole(f, g, h, L)
  BY SongSplit
<1>2. /\ L \in [0 .. 5 -> Nat] /\ L[5] <= 1285 /\ EncodeSong(f) \in Seq(Octets)
      /\ Len(EncodeSong(f)) = 5 + L[5]
  BY ONLY <1>1, SMTT(20), ZenonT(40) DEF SongWhole
<1>3. L[5] \in Nat
  BY ONLY <1>2
<1>4. PICK n : n = L[5]
  OBVIOUS
<1>5. n \in Nat /\ n <= 1285
  BY ONLY <1>2, <1>3, <1>4
<1>6. PICK e : e = EncodeSong(f)
  OBVIOUS
<1>7. e \in Seq(Octets) /\ Len(e) = 5 + n
  BY ONLY <1>2, <1>4, <1>6
<1>8. Len(e) \in Nat /\ Len(e) <= 1290
  BY ONLY <1>5, <1>7
<1> QED
  BY ONLY <1>6, <1>7, <1>8

\* The branch of Encode for channel information
LEMMA EncodeChannelInfo == ASSUME NEW f PROVE Encode("CHANNELINFO", f) = EncodeChannel(f)
BY DEF Encode

\* A function on 1 .. n is a sequence.
LEMMA TupleSeq ==
    ASSUME NEW S, NEW n \in Nat, NEW f, f \in [1 .. n -> S]
    PROVE  f \in Seq(S) /\ Len(f) = n
OBVIOUS

\* Sequences of six elements
LEMMA TwoAndFour ==
    ASSUME NEW S, NEW x1 \in S, NEW x2 \in S, NEW x3 \in S, NEW x4 \in S, NEW x5 \in S, NEW x6 \in S
    PROVE  <<x1, x2>> \o <<x3, x4, x5, x6>> = <<x1, x2, x3, x4, x5, x6>>
<1>1. PICK a, b, u : a = <<x1, x2>> /\ b = <<x3, x4, x5, x6>> /\ u = <<x1, x2, x3, x4, x5, x6>>
  OBVIOUS
<1>2. a \in Seq(S) /\ Len(a) = 2 /\ a[1] = x1 /\ a[2] = x2
  BY <1>1
<1>3. b \in Seq(S) /\ Len(b) = 4 /\ b[1] = x3 /\ b[2] = x4 /\ b[3] = x5 /\ b[4] = x6
  BY <1>1
<1>4. /\ u \in Seq(S) /\ Len(u) = 6 /\ u[1] = x1 /\ u[2] = x2 /\ u[3] = x3 /\ u[4] = x4
      /\ u[5] = x5 /\ u[6] = x6
  BY <1>1
<1>5. PICK t : t = a \o b
  OBVIOUS
<1>6. /\ t \in Seq(S) /\ Len(t) = Len(a) + Len(b)
      /\ \A j \in 1 .. Len(a) + Len(b) : t[j] = IF j <= Len(a) THEN a[j] ELSE b[j - Len(a)]
  BY <1>2, <1>3, <1>5, ConcatFacts
<1>7. ASSUME NEW j \in 1 .. 6 PROVE t[j] = u[j]
  <2>1. Len(a) + Len(b) = 6 /\ Len(a) = 2
    BY <1>2, <1>3
  <2>2. t[j] = IF j <= 2 THEN a[j] ELSE b[j - 2]
    BY ONLY <1>6, <2>1, j \in 1 .. 6
  <2>3. j = 1 \/ j = 2 \/ j = 3 \/ j = 4 \/ j = 5 \/ j = 6
    OBVIOUS
  <2> QED
    BY ONLY <1>2, <1>3, <1>4, <2>2, <2>3
<1>8. Len(t) = 6 /\ Len(u) = 6
  BY <1>2, <1>3, <1>4, <1>6
<1> QED
  BY <1>1, <1>4, <1>5, <1>6, <1>7, <1>8, SeqEqual

LEMMA OneAndFive ==
    ASSUME NEW S, NEW x \in S, NEW g, g \in [1 .. 5 -> S]
    PROVE  <<x>> \o g = <<x, g[1], g[2], g[3], g[4], g[5]>>
<1>1. PICK a, u : a = <<x>> /\ u = <<x, g[1], g[2], g[3], g[4], g[5]>>
  OBVIOUS
<1>2. a \in Seq(S) /\ Len(a) = 1 /\ a[1] = x
  BY <1>1
<1>3. g \in Seq(S) /\ Len(g) = 5
  <2>1. 5 \in Nat
    OBVIOUS
  <2> QED
    BY <2>1, TupleSeq, SMTT(20), ZenonT(40)
<1>4. /\ u \in Seq(S) /\ Len(u) = 6 /\ u[1] = x /\ u[2] = g[1] /\ u[3] = g[2] /\ u[4] = g[3]
      /\ u[5] = g[4] /\ u[6] = g[5]
  BY <1>1
<1>5. PICK t : t = a \o g
  OBVIOUS
<1>6. /\ t \in Seq(S) /\ Len(t) = Len(a) + Len(g)
      /\ \A j \in 1 .. Len(a) + Len(g) : t[j] = IF j <= Len(a) THEN a[j] ELSE g[j - Len(a)]
  BY <1>2, <1>3, <1>5, ConcatFacts
<1>7. ASSUME NEW j \in 1 .. 6 PROVE t[j] = u[j]
  <2>1. Len(a) + Len(g) = 6 /\ Len(a) = 1
    BY <1>2, <1>3
  <2>2. t[j] = IF j <= 1 THEN a[j] ELSE g[j - 1]
    BY ONLY <1>6, <2>1, j \in 1 .. 6
  <2>3. j = 1 \/ j = 2 \/ j = 3 \/ j = 4 \/ j = 5 \/ j = 6
    OBVIOUS
  <2> QED
    BY ONLY <1>2, <1>4, <2>2, <2>3
<1>8. Len(t) = 6 /\ Len(u) = 6
  BY <1>2, <1>3, <1>4, <1>6
<1> QED
  BY <1>1, <1>4, <1>5, <1>6, <1>7, <1>8, SeqEqual

\* The first six of eleven
LEMMA FirstMembers ==
    ASSUME NEW S, NEW f, f \in Seq(S), Len(f) = 11
    PROVE  f[1] \in S /\ f[2] \in S /\ f[3] \in S /\ f[4] \in S /\ f[5] \in S /\ f[6] \in S
<1>1. \A k \in 1 .. Len(f) : f[k] \in S
  BY ONLY f \in Seq(S)
<1>2. 1 \in 1 .. 11 /\ 2 \in 1 .. 11 /\ 3 \in 1 .. 11 /\ 4 \in 1 .. 11 /\ 5 \in 1 .. 11 /\ 6 \in 1 .. 11
  OBVIOUS
<1> QED
  BY ONLY Len(f) = 11, <1>1, <1>2, Zenon

LEMMA FirstSix ==
    ASSUME NEW S, NEW f, f \in Seq(S), Len(f) = 11
    PROVE  SubSeq(f, 1, 6) = <<f[1], f[2], f[3], f[4], f[5], f[6]>>
<1>1. PICK t, u : t = SubSeq(f, 1, 6) /\ u = <<f[1], f[2], f[3], f[4], f[5], f[6]>>
  OBVIOUS
<1>2. t \in Seq(S) /\ Len(t) = 6 /\ \A k \in 1 .. 6 : t[k] = f[k]
  <2>1. 6 \in 0 .. Len(f)
    OBVIOUS
  <2> QED
    BY <1>1, <2>1, PrefixFacts
<1>3. f[1] \in S /\ f[2] \in S /\ f[3] \in S /\ f[4] \in S /\ f[5] \in S /\ f[6] \in S
  BY ONLY f \in Seq(S), Len(f) = 11, FirstMembers
<1>4. /\ u \in Seq(S) /\ Len(u) = 6 /\ u[1] = f[1] /\ u[2] = f[2] /\ u[3] = f[3] /\ u[4] = f[4]
      /\ u[5] = f[5] /\ u[6] = f[6]
  BY ONLY <1>1, <1>3
<1>5. ASSUME NEW j \in 1 .. 6 PROVE t[j] = u[j]
  <2>3. j = 1 \/ j = 2 \/ j = 3 \/ j = 4 \/ j = 5 \/ j = 6
    OBVIOUS
  <2>4. t[j] = f[j]
    BY <1>2
  <2> QED
    BY ONLY <1>4, <2>3, <2>4
<1> QED
  BY <1>1, <1>2, <1>4, <1>5, SeqEqual

\* The fields of channel information, one by one
LEMMA ChannelFields ==
    Fields("CHANNELINFO") = {f \in [1 .. 11 -> Strings] : \A k \in 1 .. 2 : f[k] \in [1 .. 1 -> Octets]}
BY DEF Fields

LEMMA ChannelShape ==
    ASSUME NEW f, f \in Fields("CHANNELINFO")
    PROVE  /\ f \in Seq(Strings) /\ Len(f) = 11
           /\ f[1] \in [1 .. 1 -> Octets] /\ f[2] \in [1 .. 1 -> Octets]
           /\ f[3] \in Strings /\ f[4] \in Strings /\ f[5] \in Strings /\ f[6] \in Strings
<1>1. f \in [1 .. 11 -> Strings] /\ \A k \in 1 .. 2 : f[k] \in [1 .. 1 -> Octets]
  BY ChannelFields
<1>2. f \in Seq(Strings) /\ Len(f) = 11
  <2>1. f \in [1 .. 11 -> Strings]
    BY <1>1
  <2>2. 11 \in Nat
    OBVIOUS
  <2> QED
    BY ONLY <2>1, <2>2, TupleSeq, SMTT(20), ZenonT(40)
<1>3. /\ 1 \in 1 .. 2 /\ 2 \in 1 .. 2
      /\ 3 \in 1 .. 11 /\ 4 \in 1 .. 11 /\ 5 \in 1 .. 11 /\ 6 \in 1 .. 11
  OBVIOUS
<1> QED
  BY ONLY <1>1, <1>2, <1>3

\* The last five are a song.
LEMMA ChannelSong ==
    ASSUME NEW f, f \in Fields("CHANNELINFO")
    PROVE  /\ SubSeq(f, 7, 11) \in Songs
           /\ \A k \in 1 .. 5 : SubSeq(f, 7, 11)[k] = f[6 + k]
<1>1. f \in Seq(Strings) /\ Len(f) = 11
  BY ChannelShape
<1>2. PICK g : g = SubSeq(f, 6 + 1, Len(f))
  OBVIOUS
<1>3. 6 \in 0 .. Len(f) /\ Len(f) - 6 = 5 /\ 6 + 1 = 7
  BY ONLY <1>1
<1>4. g \in Seq(Strings) /\ Len(g) = Len(f) - 6 /\ \A k \in 1 .. Len(f) - 6 : g[k] = f[6 + k]
  BY ONLY <1>1, <1>2, <1>3, SuffixFacts
<1>5. g = SubSeq(f, 7, 11)
  BY ONLY <1>1, <1>2, <1>3
<1>6. g \in [1 .. 5 -> Strings]
  <2>1. g \in [1 .. Len(g) -> Strings] /\ Len(g) = 5
    BY ONLY <1>3, <1>4
  <2> QED
    BY ONLY <2>1
<1> QED
  BY ONLY <1>3, <1>4, <1>5, <1>6 DEF Songs

\* The radio encodes channel information out of these parts.
LEMMA ChannelEncoded ==
    ASSUME NEW f, f \in Fields("CHANNELINFO")
    PROVE  ChannelParts(ChannelOf(f)) /\ Encode("CHANNELINFO", f) = JoinChannel(ChannelOf(f))
<1>1. SubSeq(f, 7, 11) \in Songs
  BY ChannelSong
<1>2. EncodeSong(SubSeq(f, 7, 11)) \in Seq(Octets)
  BY ONLY <1>1, SongLength
<1>3. ChannelParts(ChannelOf(f))
  BY ONLY <1>2, ChannelShape, f \in Fields("CHANNELINFO") DEF ChannelParts, ChannelOf
<1>4. Encode("CHANNELINFO", f) =
            f[1] \o f[2] \o <<0, 0, 0>> \o Pascal(f[4]) \o Pascal(f[3]) \o Pascal(f[6])
            \o Pascal(f[5]) \o EncodeSong(SubSeq(f, 7, 11))
  BY ONLY EncodeChannelInfo, Zenon DEF EncodeChannel
<1>5. PICK c : c = ChannelOf(f)
  OBVIOUS
<1>6. /\ c.a = f[1] /\ c.b = f[2] /\ c.z = <<0, 0, 0>> /\ c.l = f[3] /\ c.s = f[4] /\ c.lg = f[5]
      /\ c.sg = f[6] /\ c.e = EncodeSong(SubSeq(f, 7, 11))
  BY ONLY <1>5 DEF ChannelOf
<1>7. Encode("CHANNELINFO", f) = JoinChannel(c)
  BY ONLY <1>4, <1>6, Zenon DEF JoinChannel
<1> QED
  BY <1>3, <1>5, <1>7

\* It stands for two events: of the channel, and of the song.
LEMMA ChannelMeaning ==
    ASSUME NEW f, f \in Fields("CHANNELINFO")
    PROVE  LET g == SubSeq(f, 7, 11)
           IN  Meaning("CHANNELINFO", f) =
                  <<Event("CHANNELINFO", <<f[1], f[2], f[3], f[4], f[5], f[6]>>),
                    Event("SONGINFO", <<f[1], g[1], g[2], g[3], g[4], g[5]>>)>>
<1>1. PICK g : g = SubSeq(f, 7, 11)
  OBVIOUS
<1>2. g \in [1 .. 5 -> Strings]
  BY <1>1, ChannelSong DEF Songs
<1>3. f \in Seq(Strings) /\ Len(f) = 11
  BY ChannelShape
<1>4. SubSeq(f, 1, 6) = <<f[1], f[2], f[3], f[4], f[5], f[6]>>
  BY ONLY <1>3, FirstSix
<1>5. <<f[1]>> \o g = <<f[1], g[1], g[2], g[3], g[4], g[5]>>
  <2>1. f[1] \in Strings
    BY ONLY <1>3
  <2> QED
    BY ONLY <1>2, <2>1, OneAndFive
<1> QED
  BY ONLY <1>1, <1>4, <1>5 DEF Meaning

\* OnChannelInfo makes these two events of it.
LEMMA ChannelTold ==
    ASSUME NEW data, data \in Seq(Octets), NEW at, at \in 0 .. 10, NEW f, f \in Fields("CHANNELINFO"),
           Holds(data, at, Encode("CHANNELINFO", f)), Len(data) = at + Len(Encode("CHANNELINFO", f))
    PROVE  /\ Octet(data, at) = f[1][1] /\ ChannelAndSong(data, at) = Meaning("CHANNELINFO", f)
           /\ f[1] = <<f[1][1]>> /\ f[1][1] \in Octets
<1>1. PICK c : c = ChannelOf(f)
  OBVIOUS
<1>2. ChannelParts(c) /\ Encode("CHANNELINFO", f) = JoinChannel(c)
  BY <1>1, ChannelEncoded
<1>3. Holds(data, at, JoinChannel(c)) /\ Len(data) \in Nat /\ at \in Nat
  BY <1>2
<1>4. PICK u : u = ChannelUsed(c)
  OBVIOUS
<1>5. /\ Octet(data, at) = c.a[1] /\ Octet(data, at + 1) = c.b[1]
      /\ ChannelStrings(data, at) = [used |-> u, str |-> <<c.l, c.s, c.lg, c.sg>>]
      /\ u \in Nat /\ u <= 1029 /\ Holds(data, at + u, c.e)
  BY ONLY <1>2, <1>3, <1>4, ChannelDecoded
<1>6. PICK g : g = SubSeq(f, 7, 11)
  OBVIOUS
<1>7. g \in Songs
  BY <1>6, ChannelSong
<1>8. /\ c.a = f[1] /\ c.b = f[2] /\ c.l = f[3] /\ c.s = f[4] /\ c.lg = f[5] /\ c.sg = f[6]
      /\ c.e = EncodeSong(g)
  BY <1>1, <1>6 DEF ChannelOf
<1>9. /\ f[1] = <<f[1][1]>> /\ f[2] = <<f[2][1]>> /\ f[1][1] \in Octets
  <2>1. f[1] \in [1 .. 1 -> Octets] /\ f[2] \in [1 .. 1 -> Octets]
    BY ChannelShape
  <2> QED
    BY ONLY <2>1, OneOctet
<1>10. ChannelInfo(data, at) = Event("CHANNELINFO", <<f[1], f[2], f[3], f[4], f[5], f[6]>>)
  <2>1. ChannelStrings(data, at).str = <<f[3], f[4], f[5], f[6]>>
    BY ONLY <1>5, <1>8
  <2>2. <<Octet(data, at)>> = f[1] /\ <<Octet(data, at + 1)>> = f[2]
    BY ONLY <1>5, <1>8, <1>9
  <2>3. PICK x1, x2, x3, x4, x5, x6 : x1 = f[1] /\ x2 = f[2] /\ x3 = f[3] /\ x4 = f[4] /\ x5 = f[5] /\ x6 = f[6]
    OBVIOUS
  <2>4. <<x1, x2>> \o <<x3, x4, x5, x6>> = <<x1, x2, x3, x4, x5, x6>>
    <3>1. f \in Seq(Strings) /\ Len(f) = 11
      BY ChannelShape
    <3>3. /\ f[1] \in Strings /\ f[2] \in Strings /\ f[3] \in Strings /\ f[4] \in Strings
          /\ f[5] \in Strings /\ f[6] \in Strings
      BY ONLY <3>1, FirstMembers
    <3>2. /\ x1 \in Strings /\ x2 \in Strings /\ x3 \in Strings /\ x4 \in Strings
          /\ x5 \in Strings /\ x6 \in Strings
      BY ONLY <2>3, <3>3
    <3> QED
      BY ONLY <3>2, TwoAndFour
  <2> QED
    BY ONLY <2>1, <2>2, <2>3, <2>4, Zenon DEF ChannelInfo
<1>11. PICK n : n = Len(EncodeSong(g))
  OBVIOUS
<1>12. n \in Nat /\ n <= 1290
  BY ONLY <1>7, <1>11, SongLength
<1>13. Len(data) = (at + u) + n
  <2>1. Holds(data, at + u, c.e)
    BY <1>5
  <2>2. Len(Encode("CHANNELINFO", f)) = u + n
    <3>1. Len(JoinChannel(c)) = ChannelUsed(c) + Len(c.e)
      BY ONLY <1>2, ChannelLength
    <3> QED
      BY ONLY <1>2, <1>4, <1>8, <1>11, <3>1, Zenon
  <2> QED
    BY <1>3, <1>5, <1>12, <2>2
<1>14. Minus(Len(data), at + u) = n
  <2>1. at + u \in Nat /\ (at + u) + n <= 4096
    BY ONLY <1>5, <1>12, at \in 0 .. 10
  <2> QED
    BY ONLY <1>12, <1>13, <2>1, MinusIs
<1>15. SongInfo(c.a[1], data, at + u, n) =
          Event("SONGINFO", <<<<c.a[1]>>, g[1], g[2], g[3], g[4], g[5]>>)
  <2>1. Holds(data, at + u, EncodeSong(g)) /\ at + u \in Nat
    BY ONLY <1>3, <1>5, <1>8
  <2> QED
    BY ONLY data \in Seq(Octets), <1>7, <1>11, <2>1, SongTold
<1>16. ChannelAndSong(data, at) =
          <<Event("CHANNELINFO", <<f[1], f[2], f[3], f[4], f[5], f[6]>>),
            Event("SONGINFO", <<f[1], g[1], g[2], g[3], g[4], g[5]>>)>>
  <2>1. ChannelStrings(data, at).used = u
    BY ONLY <1>5
  <2>2. <<c.a[1]>> = f[1]
    BY ONLY <1>8, <1>9
  <2> QED
    BY ONLY <1>5, <1>10, <1>14, <1>15, <2>1, <2>2, ZenonT(40) DEF ChannelAndSong
<1>17. ChannelAndSong(data, at) = Meaning("CHANNELINFO", f)
  BY ONLY <1>6, <1>16, f \in Fields("CHANNELINFO"), ChannelMeaning, Zenon
<1> QED
  BY ONLY <1>5, <1>8, <1>9, <1>17

-----------------------------------------------------------------------------
(* Events of numbers, of one string, and of nothing; a time zone is a      *)
(* signed word, the year of a time a word.                                 *)

\* A signed octet comes back as it was.
LEMMA SignedOctet ==
    ASSUME NEW x \in -128 .. 127
    PROVE  x % 256 \in Octets /\ Signed(x % 256, 256) = x
<1>1. x % 256 = IF x < 0 THEN x + 256 ELSE x
  OBVIOUS
<1>2. 256 \div 2 = 128
  OBVIOUS
<1> QED
  BY <1>1, <1>2 DEF Signed, Octets

\* The two octets of a word
LEMMA WordHigh == ASSUME NEW x \in Int, x >= 0, x <= 65535 PROVE x \div 256 \in Octets
BY DEF Octets

LEMMA WordLow == ASSUME NEW x \in Int PROVE x % 256 \in Octets
BY DEF Octets

LEMMA WordSum == ASSUME NEW x \in Int, x >= 0 PROVE (x \div 256) * 256 + (x % 256) = x
OBVIOUS

\* A signed word, modulo 2^16
LEMMA WordBelow == ASSUME NEW x \in Int, x >= -32768, x < 0 PROVE x % 65536 = x + 65536
OBVIOUS

LEMMA WordAbove == ASSUME NEW x \in Int, ~ (x < 0), x <= 32767 PROVE x % 65536 = x
OBVIOUS

LEMMA WordIsMod == ASSUME NEW x \in Int PROVE (x + 65536) % 256 = x % 256
OBVIOUS

\* Signed takes the word back.
LEMMA WordSign ==
    ASSUME NEW x \in Int, NEW y \in Int, x < 0 => y = x + 65536, ~ (x < 0) => y = x, x >= -32768, x <= 32767
    PROVE  Signed(y, 65536) = x /\ y >= 0 /\ y <= 65535
BY DEF Signed

\* The values of a signed word
ShortMin == -32768

ShortMax == 32767

Shorts == ShortMin .. ShortMax

LEMMA ShortTyped == ShortMin \in Int /\ ShortMax \in Int
BY DEF ShortMin, ShortMax

\* Intervals, where the bounds are not to be computed with
LEMMA RangeIs == ASSUME NEW a \in Int, NEW b \in Int, NEW x, x \in a .. b PROVE x \in Int /\ a <= x /\ x <= b
OBVIOUS

LEMMA ShortIs == ASSUME NEW x, x \in Shorts PROVE x \in Int /\ x >= -32768 /\ x <= 32767
<1>1. x \in Int /\ ShortMin <= x /\ x <= ShortMax
  BY ShortTyped, RangeIs DEF Shorts
<1>2. ASSUME NEW y \in Int, ShortMin <= y, y <= ShortMax PROVE y >= -32768 /\ y <= 32767
  BY ONLY <1>2 DEF ShortMin, ShortMax
<1> QED
  BY ONLY <1>1, <1>2

\* A signed word, in two octets, comes back as it was.
LEMMA SignedWord ==
    ASSUME NEW x, x \in Shorts
    PROVE  /\ (x % 65536) \div 256 \in Octets /\ x % 256 \in Octets
           /\ Signed(((x % 65536) \div 256) * 256 + (x % 256), 65536) = x
<1>1. PICK y : y = x % 65536
  OBVIOUS
<1>2. x \in Int /\ x >= -32768 /\ x <= 32767
  BY ONLY x \in Shorts, ShortIs
<1>3. x < 0 => y = x + 65536
  BY ONLY <1>1, <1>2, WordBelow
<1>4. ~ (x < 0) => y = x
  BY ONLY <1>1, <1>2, WordAbove
<1>5. y \in Int
  BY ONLY <1>2, <1>3, <1>4
<1>6. Signed(y, 65536) = x /\ y >= 0 /\ y <= 65535
  BY ONLY <1>2, <1>3, <1>4, <1>5, WordSign
<1>7. (x + 65536) % 256 = x % 256
  BY ONLY <1>2, WordIsMod
<1>8. y % 256 = x % 256
  BY ONLY <1>3, <1>4, <1>7
<1>9. y \div 256 \in Octets
  BY ONLY <1>5, <1>6, WordHigh
<1>10. y % 256 \in Octets
  BY ONLY <1>5, WordLow
<1>11. (y \div 256) * 256 + (y % 256) = y
  BY ONLY <1>5, <1>6, WordSum
<1>12. PICK h : h = y \div 256
  OBVIOUS
<1>13. PICK l : l = y % 256
  OBVIOUS
<1>14. h \in Octets /\ l \in Octets /\ h * 256 + l = y
  BY ONLY <1>9, <1>10, <1>11, <1>12, <1>13
<1>15. (x % 65536) \div 256 = h
  BY ONLY <1>1, <1>12
<1>16. x % 256 = l
  BY ONLY <1>8, <1>13
<1>17. Signed(h * 256 + l, 65536) = x
  BY ONLY <1>6, <1>14
<1> QED
  BY ONLY <1>14, <1>15, <1>16, <1>17

\* The types of the events of one number, of three, and of none
LEMMA NumberFields ==
    /\ \A type \in {"MUTE", "POWER", "CHANNEL", "SIGNAL", "ANTENNA"} : Fields(type) = Numbers(1)
    /\ \A type \in {"STATUS", "RSSI"} : Fields(type) = Numbers(3)
    /\ \A type \in {"CHANNELMAP", "RESET"} : Fields(type) = {<<>>}
<1>1. Fields("MUTE") = Numbers(1)
  BY DEF Fields
<1>2. Fields("POWER") = Numbers(1)
  BY DEF Fields
<1>3. Fields("CHANNEL") = Numbers(1)
  BY DEF Fields
<1>4. Fields("SIGNAL") = Numbers(1)
  BY DEF Fields
<1>5. Fields("ANTENNA") = Numbers(1)
  BY DEF Fields
<1>6. Fields("STATUS") = Numbers(3)
  BY DEF Fields
<1>7. Fields("RSSI") = Numbers(3)
  BY DEF Fields
<1>8. Fields("CHANNELMAP") = {<<>>}
  BY DEF Fields
<1>9. Fields("RESET") = {<<>>}
  BY DEF Fields
<1>10. ASSUME NEW type, type \in {"MUTE", "POWER", "CHANNEL", "SIGNAL", "ANTENNA"} PROVE Fields(type) = Numbers(1)
  BY ONLY <1>10, <1>1, <1>2, <1>3, <1>4, <1>5
<1>11. ASSUME NEW type, type \in {"STATUS", "RSSI"} PROVE Fields(type) = Numbers(3)
  BY ONLY <1>11, <1>6, <1>7
<1>12. ASSUME NEW type, type \in {"CHANNELMAP", "RESET"} PROVE Fields(type) = {<<>>}
  BY ONLY <1>12, <1>8, <1>9
<1> QED
  BY <1>10, <1>11, <1>12

\* Numbers of one octet each, in a message
LEMMA NumbersTold ==
    ASSUME NEW data, NEW at \in Nat, Len(data) \in Nat, NEW n \in Nat,
           NEW f, f \in Numbers(n), Holds(data, at, FlattenSeq(f))
    PROVE  \A k \in 1 .. n : Octet(data, at + (k - 1)) = f[k][1] /\ f[k] = <<f[k][1]>>
<1>0. f \in [1 .. n -> [1 .. 1 -> Octets]]
  BY DEF Numbers
<1>1. PICK t : t = FlattenSeq(f)
  OBVIOUS
<1>2. t \in Seq(Octets) /\ Len(t) = n /\ \A k \in 1 .. n : t[k] = f[k][1]
  BY ONLY <1>0, <1>1, n \in Nat, FlattenOnes, SMTT(20), ZenonT(40)
<1>3. ASSUME NEW k \in 1 .. n PROVE Octet(data, at + (k - 1)) = f[k][1] /\ f[k] = <<f[k][1]>>
  <2>1. f[k] \in [1 .. 1 -> Octets]
    BY ONLY <1>0, k \in 1 .. n
  <2>2. f[k] = <<f[k][1]>>
    BY ONLY <2>1, OneOctet
  <2>3. Len(t) \in Nat /\ k \in 1 .. Len(t) /\ Holds(data, at, t)
    BY <1>1, <1>2
  <2>4. Octet(data, at + (k - 1)) = t[k]
    BY ONLY at \in Nat, Len(data) \in Nat, <2>3, HoldsOctet
  <2> QED
    BY <1>2, <2>2, <2>4
<1> QED
  BY <1>3

\* Message with these octets at this offset
At(data, at, s) == data \in Seq(Octets) /\ at \in Nat /\ Holds(data, at, s)

LEMMA AtLen == ASSUME NEW data, NEW at, NEW s, At(data, at, s)
               PROVE  data \in Seq(Octets) /\ Len(data) \in Nat /\ at \in Nat /\ Holds(data, at, s)
BY DEF At

\* An event of one number
LEMMA OneTold ==
    ASSUME NEW data, NEW at, NEW type, type \in {"MUTE", "POWER", "CHANNEL", "SIGNAL", "ANTENNA"},
           NEW f, f \in Fields(type), At(data, at, Encode(type, f))
    PROVE  Deserialize(type, data, at) = Event(type, f) /\ Octet(data, at) = f[1][1] /\ f[1][1] \in Octets
<1>0. f \in Numbers(1)
  BY NumberFields
<1>1. f \in [1 .. 1 -> [1 .. 1 -> Octets]]
  BY ONLY <1>0 DEF Numbers
<1>2. Encode(type, f) = FlattenSeq(f)
  BY DEF Encode
<1>3. Len(data) \in Nat /\ at \in Nat /\ Holds(data, at, FlattenSeq(f))
  BY ONLY <1>2, AtLen, At(data, at, Encode(type, f))
<1>4. \A k \in 1 .. 1 : Octet(data, at + (k - 1)) = f[k][1] /\ f[k] = <<f[k][1]>>
  <2>1. PICK n : n = 1
    OBVIOUS
  <2>2. n \in Nat
    BY ONLY <2>1
  <2>3. f \in Numbers(n)
    BY ONLY <1>0, <2>1
  <2>4. \A k \in 1 .. n : Octet(data, at + (k - 1)) = f[k][1] /\ f[k] = <<f[k][1]>>
    BY ONLY <1>3, <2>2, <2>3, NumbersTold
  <2> QED
    BY ONLY <2>1, <2>4
<1>5. 1 \in 1 .. 1 /\ at + (1 - 1) = at /\ at + 0 = at
  BY <1>3
<1>6. <<Octet(data, at + 0)>> = f[1] /\ Octet(data, at) = f[1][1]
  BY ONLY <1>4, <1>5
<1>7. f = <<f[1]>>
  BY ONLY <1>1
<1>8. Deserialize(type, data, at) = Event(type, <<<<Octet(data, at + 0)>>>>)
  BY DEF Deserialize
<1>9. f[1][1] \in Octets
  BY ONLY <1>1
<1> QED
  BY ONLY <1>6, <1>7, <1>8, <1>9

\* An event of three
LEMMA ThreeTold ==
    ASSUME NEW data, NEW at, NEW type, type \in {"STATUS", "RSSI"},
           NEW f, f \in Fields(type), At(data, at, Encode(type, f))
    PROVE  Deserialize(type, data, at) = Event(type, f)
<1>0. f \in Numbers(3)
  BY NumberFields
<1>1. f \in [1 .. 3 -> [1 .. 1 -> Octets]]
  BY ONLY <1>0 DEF Numbers
<1>2. Encode(type, f) = FlattenSeq(f)
  BY DEF Encode
<1>3. Len(data) \in Nat /\ at \in Nat /\ Holds(data, at, FlattenSeq(f))
  BY ONLY <1>2, AtLen, At(data, at, Encode(type, f))
<1>4. \A k \in 1 .. 3 : Octet(data, at + (k - 1)) = f[k][1] /\ f[k] = <<f[k][1]>>
  <2>1. PICK n : n = 3
    OBVIOUS
  <2>2. n \in Nat
    BY ONLY <2>1
  <2>3. f \in Numbers(n)
    BY ONLY <1>0, <2>1
  <2>4. \A k \in 1 .. n : Octet(data, at + (k - 1)) = f[k][1] /\ f[k] = <<f[k][1]>>
    BY ONLY <1>3, <2>2, <2>3, NumbersTold
  <2> QED
    BY ONLY <2>1, <2>4
<1>5. 1 \in 1 .. 3 /\ 2 \in 1 .. 3 /\ 3 \in 1 .. 3 /\ 1 - 1 = 0 /\ 2 - 1 = 1 /\ 3 - 1 = 2
  OBVIOUS
<1>6. <<Octet(data, at + 0)>> = f[1] /\ <<Octet(data, at + 1)>> = f[2] /\ <<Octet(data, at + 2)>> = f[3]
  BY ONLY <1>4, <1>5
<1>7. f = <<f[1], f[2], f[3]>>
  BY ONLY <1>1
<1>8. Deserialize(type, data, at) =
          Event(type, <<<<Octet(data, at + 0)>>, <<Octet(data, at + 1)>>, <<Octet(data, at + 2)>>>>)
  BY DEF Deserialize
<1> QED
  BY ONLY <1>6, <1>7, <1>8

\* The gain is a signed octet.
LEMMA GainTold ==
    ASSUME NEW data, NEW at, NEW f, f \in Fields("GAIN"), At(data, at, Encode("GAIN", f))
    PROVE  Deserialize("GAIN", data, at) = Event("GAIN", f)
<1>1. f \in [1 .. 1 -> [1 .. 1 -> -128 .. 127]]
  BY DEF Fields
<1>2. PICK x : x = f[1][1]
  OBVIOUS
<1>3. f = <<f[1]>> /\ f[1] \in [1 .. 1 -> -128 .. 127]
  BY ONLY <1>1
<1>4. f[1] = <<x>> /\ x \in -128 .. 127
  BY ONLY <1>2, <1>3
<1>5. Encode("GAIN", f) = <<x % 256>>
  BY <1>2 DEF Encode
<1>6. x % 256 \in Octets /\ Signed(x % 256, 256) = x
  BY ONLY <1>4, SignedOctet
<1>7. PICK y : y = x % 256
  OBVIOUS
<1>8. <<y>> \in [1 .. 1 -> Octets] /\ <<y>>[1] = y
  BY ONLY <1>6, <1>7
<1>9. Octet(data, at) = y
  <2>1. Len(data) \in Nat /\ at \in Nat /\ Holds(data, at, <<y>>)
    BY <1>5, <1>7, AtLen
  <2>2. Octet(data, at) = <<y>>[1]
    BY ONLY <1>8, <2>1, HoldsOne
  <2> QED
    BY ONLY <1>8, <2>2
<1>10. at + 0 = at
  BY AtLen
<1>11. Deserialize("GAIN", data, at) = Event("GAIN", <<<<Signed(Octet(data, at + 0), 256)>>>>)
  BY DEF Deserialize
<1> QED
  BY ONLY <1>3, <1>4, <1>6, <1>7, <1>9, <1>10, <1>11

\* An event of one string
LEMMA StringTold ==
    ASSUME NEW data, NEW at, NEW type, type \in {"SID", "SONGID"},
           NEW f, f \in Fields(type), At(data, at, Encode(type, f))
    PROVE  Deserialize(type, data, at) = Event(type, f)
<1>1. f \in [1 .. 1 -> Strings]
  BY DEF Fields
<1>2. f = <<f[1]>> /\ f[1] \in Strings
  BY ONLY <1>1
<1>3. Encode(type, f) = Pascal(f[1])
  BY DEF Encode
<1>4. Len(data) \in Nat /\ at \in Nat /\ Holds(data, at, Pascal(f[1]))
  BY ONLY <1>3, AtLen, At(data, at, Encode(type, f))
<1>5. CopyPascalString(data, at) = [str |-> f[1], used |-> Len(f[1]) + 1]
  BY ONLY <1>2, <1>4, HoldsPascal
<1>6. CopyPascalString(data, at).str = f[1]
  BY ONLY <1>5
<1>7. Deserialize(type, data, at) = Event(type, <<CopyPascalString(data, at).str>>)
  BY DEF Deserialize
<1> QED
  BY ONLY <1>2, <1>6, <1>7

\* An event without a field
LEMMA EmptyTold ==
    ASSUME NEW data, NEW at, NEW type, type \in {"CHANNELMAP", "RESET"}, NEW f, f \in Fields(type)
    PROVE  Deserialize(type, data, at) = Event(type, f)
<1>1. f = <<>>
  BY NumberFields
<1>2. Deserialize(type, data, at) = Event(type, <<>>)
  BY DEF Deserialize
<1> QED
  BY ONLY <1>1, <1>2

\* A time zone: a signed word, and whether there is daylight saving
LEMMA ZoneFields == Fields("TZINFO") = [1 .. 1 -> Shorts] \X [1 .. 1 -> Octets]
BY DEF Fields, Shorts, ShortMin, ShortMax

\* Pairs, and sequences of one
LEMMA PairOf == ASSUME NEW S, NEW T, NEW f, f \in S \X T PROVE f[1] \in S /\ f[2] \in T /\ f = <<f[1], f[2]>>
OBVIOUS

LEMMA OneOf == ASSUME NEW S, NEW g, g \in [1 .. 1 -> S] PROVE g = <<g[1]>> /\ g[1] \in S
OBVIOUS

\* A time zone
LEMMA ZoneTold ==
    ASSUME NEW data, NEW at, NEW f, f \in Fields("TZINFO"), At(data, at, Encode("TZINFO", f))
    PROVE  Deserialize("TZINFO", data, at) = Event("TZINFO", f)
<1>1. f \in [1 .. 1 -> Shorts] \X [1 .. 1 -> Octets]
  BY ONLY ZoneFields, f \in Fields("TZINFO")
<1>2. f = <<f[1], f[2]>> /\ f[1] \in [1 .. 1 -> Shorts] /\ f[2] \in [1 .. 1 -> Octets]
  BY ONLY <1>1, PairOf
<1>3. PICK x : x = f[1][1]
  OBVIOUS
<1>4. PICK d : d = f[2][1]
  OBVIOUS
<1>5. f[1] = <<x>> /\ x \in Shorts
  BY ONLY <1>2, <1>3, OneOf
<1>6. f[2] = <<d>> /\ d \in Octets
  BY ONLY <1>2, <1>4, OneOf
<1>8. PICK h : h = (x % 65536) \div 256
  OBVIOUS
<1>9. PICK l : l = x % 256
  OBVIOUS
<1>10. h \in Octets /\ l \in Octets /\ Signed(h * 256 + l, 65536) = x
  BY ONLY <1>5, <1>8, <1>9, SignedWord
<1>11. Encode("TZINFO", f) = <<h, l, d>>
  <2>1. Encode("TZINFO", f) = <<(f[1][1] % 65536) \div 256, f[1][1] % 256, f[2][1]>>
    BY ONLY DEF Encode
  <2> QED
    BY ONLY <2>1, <1>3, <1>4, <1>8, <1>9
<1>12. Octet(data, at) = h /\ Octet(data, at + 1) = l /\ Octet(data, at + 2) = d
  <2>1. Len(data) \in Nat /\ at \in Nat /\ Holds(data, at, <<h, l, d>>)
    BY ONLY <1>11, AtLen, At(data, at, Encode("TZINFO", f))
  <2> QED
    BY ONLY <2>1, HoldsTriple
<1>13. at + 0 = at
  BY ONLY AtLen, At(data, at, Encode("TZINFO", f))
<1>14. Deserialize("TZINFO", data, at) =
          Event("TZINFO", <<<<Signed(Octet(data, at + 0) * 256 + Octet(data, at + 1), 65536)>>,
                            <<Octet(data, at + 2)>>>>)
  BY ONLY DEF Deserialize
<1>15. Deserialize("TZINFO", data, at) = Event("TZINFO", <<<<Signed(h * 256 + l, 65536)>>, <<d>>>>)
  BY ONLY <1>12, <1>13, <1>14
<1>16. Deserialize("TZINFO", data, at) = Event("TZINFO", <<<<x>>, <<d>>>>)
  BY ONLY <1>10, <1>15
<1>17. f = <<<<x>>, <<d>>>>
  BY ONLY <1>2, <1>5, <1>6
<1> QED
  BY ONLY <1>16, <1>17

\* The values of a word
WordMax == 65535

Words == 0 .. WordMax

\* A word, as the provers use it
LEMMA WordIs == ASSUME NEW x, x \in Words PROVE x \in Int /\ x >= 0 /\ x <= 65535
<1>1. WordMax \in Int
  BY DEF WordMax
<1>2. x \in Int /\ 0 <= x /\ x <= WordMax
  BY ONLY <1>1, x \in Words, RangeIs DEF Words
<1>3. ASSUME NEW y \in Int, 0 <= y, y <= WordMax PROVE y >= 0 /\ y <= 65535
  BY ONLY <1>3 DEF WordMax
<1> QED
  BY ONLY <1>2, <1>3

\* A time: the year in two octets, and seven more
LEMMA TimeFields ==
    Fields("TIME") = {f \in [1 .. 8 -> [1 .. 1 -> Words]] : \A k \in 2 .. 8 : f[k][1] \in Octets}
BY DEF Fields, Words, WordMax

\* The first field, and the others
LEMMA FirstAndRest ==
    ASSUME NEW S, NEW n \in Nat, NEW m \in Nat, m = n + 1, NEW f, f \in [1 .. m -> S]
    PROVE  /\ f = <<f[1]>> \o Tail(f) /\ Tail(f) \in [1 .. n -> S] /\ f[1] \in S
           /\ \A k \in 1 .. n : Tail(f)[k] = f[k + 1]
<1>1. f \in Seq(S) /\ Len(f) = n + 1 /\ f[1] \in S
  <2>1. f \in Seq(S) /\ Len(f) = m
    BY ONLY f \in [1 .. m -> S], m \in Nat, TupleSeq
  <2>2. 1 \in 1 .. m
    BY ONLY m = n + 1, n \in Nat, m \in Nat
  <2> QED
    BY ONLY <2>1, <2>2, m = n + 1, f \in [1 .. m -> S]
<1>2. PICK t : t = Tail(f)
  OBVIOUS
<1>3. f # <<>>
  BY ONLY <1>1, n \in Nat
<1>4. t \in Seq(S) /\ Len(t) = n /\ \A k \in 1 .. n : t[k] = f[k + 1]
  BY ONLY <1>1, <1>2, <1>3, n \in Nat
<1>5. t \in [1 .. n -> S]
  BY ONLY <1>4
<1>6. PICK a : a = <<f[1]>>
  OBVIOUS
<1>7. a \in Seq(S) /\ Len(a) = 1 /\ a[1] = f[1]
  BY ONLY <1>1, <1>6
<1>8. PICK u : u = a \o t
  OBVIOUS
<1>9. u \in Seq(S) /\ Len(u) = 1 + n /\ \A j \in 1 .. 1 + n : u[j] = IF j <= 1 THEN a[j] ELSE t[j - 1]
  <2>1. a \o t \in Seq(S) /\ Len(a \o t) = Len(a) + Len(t)
        /\ \A j \in 1 .. Len(a) + Len(t) : (a \o t)[j] = IF j <= Len(a) THEN a[j] ELSE t[j - Len(a)]
    <3>1. a \in Seq(S)
      BY ONLY <1>7
    <3>2. t \in Seq(S)
      BY ONLY <1>4
    <3> QED
      BY ONLY <3>1, <3>2, ConcatFacts, Zenon
  <2> QED
    BY ONLY <2>1, <1>4, <1>7, <1>8
<1>10. \A j \in 1 .. n + 1 : u[j] = f[j]
  <2> TAKE j \in 1 .. n + 1
  <2>1. CASE j = 1
    BY ONLY <2>1, <1>7, <1>9, n \in Nat
  <2>2. CASE j # 1
    <3>1. j - 1 \in 1 .. n /\ ~ (j <= 1) /\ (j - 1) + 1 = j /\ j \in 1 .. 1 + n
      BY ONLY <2>2, n \in Nat, j \in 1 .. n + 1
    <3> QED
      BY ONLY <3>1, <1>4, <1>9
  <2> QED
    BY <2>1, <2>2
<1>11. u = f
  <2>1. Len(u) = n + 1
    BY ONLY <1>9, n \in Nat
  <2> QED
    BY ONLY <2>1, <1>1, <1>9, <1>10
<1> QED
  BY ONLY <1>1, <1>2, <1>4, <1>5, <1>6, <1>8, <1>11

\* Two octets at the beginning
LEMMA TwoOctets ==
    ASSUME NEW data, NEW at \in Nat, Len(data) \in Nat, NEW h \in Octets, NEW l \in Octets, NEW t,
           t \in Seq(Octets), Holds(data, at, <<h, l>> \o t)
    PROVE  Octet(data, at) = h /\ Octet(data, at + 1) = l /\ Holds(data, at + 2, t)
<1>1. PICK a : a = <<h, l>>
  OBVIOUS
<1>2. a \in Seq(Octets) /\ Len(a) = 2 /\ a[1] = h /\ a[2] = l /\ 1 \in 1 .. Len(a) /\ 2 \in 1 .. Len(a)
  BY ONLY <1>1, h \in Octets, l \in Octets
<1>3. Holds(data, at, a \o t)
  BY <1>1
<1>4. Holds(data, at, a) /\ Holds(data, at + Len(a), t)
  BY ONLY <1>2, <1>3, at \in Nat, Len(data) \in Nat, t \in Seq(Octets), HoldsTwo
<1>5. Octet(data, at + (1 - 1)) = a[1]
  BY ONLY <1>2, <1>4, at \in Nat, Len(data) \in Nat, HoldsOctet
<1>6. Octet(data, at + (2 - 1)) = a[2]
  <2>1. PICK k : k = 2
    OBVIOUS
  <2>2. k \in 1 .. Len(a) /\ Len(a) \in Nat
    BY ONLY <2>1, <1>2
  <2>3. Octet(data, at + (k - 1)) = a[k]
    BY ONLY <2>2, <1>4, at \in Nat, Len(data) \in Nat, HoldsOctet
  <2> QED
    BY ONLY <2>1, <2>3
<1>7. at + (1 - 1) = at /\ at + (2 - 1) = at + 1
  OBVIOUS
<1> QED
  BY ONLY <1>2, <1>4, <1>5, <1>6, <1>7

\* A time in its parts
TimeParts(f, h, l, t) ==
    /\ h \in Octets /\ l \in Octets /\ t \in Numbers(7) /\ FlattenSeq(t) \in Seq(Octets)
    /\ f = <<<<h * 256 + l>>>> \o t
    /\ Encode("TIME", f) = <<h, l>> \o FlattenSeq(t)

\* Every time is made so.
LEMMA TimeShape ==
    ASSUME NEW f, f \in Fields("TIME")
    PROVE  \E h, l, t : TimeParts(f, h, l, t)
<1> PICK t : t = Tail(f)
  OBVIOUS
<1> PICK S : S = [1 .. 1 -> Words]
  OBVIOUS
<1>1. f \in [1 .. 8 -> S] /\ \A k \in 2 .. 8 : f[k][1] \in Octets
  BY ONLY TimeFields, f \in Fields("TIME"), S = [1 .. 1 -> Words]
<1>2. f = <<f[1]>> \o t /\ t \in [1 .. 7 -> S] /\ f[1] \in S /\ \A k \in 1 .. 7 : t[k] = f[k + 1]
  <2>1. PICK n : n = 7
    OBVIOUS
  <2>2. PICK m : m = 8
    OBVIOUS
  <2>3. f \in [1 .. m -> S]
    BY ONLY <1>1, <2>2
  <2>4. f = <<f[1]>> \o t /\ t \in [1 .. n -> S] /\ f[1] \in S /\ \A k \in 1 .. n : t[k] = f[k + 1]
    <3>1. n \in Nat /\ m \in Nat /\ m = n + 1
      BY ONLY <2>1, <2>2
    <3>2. /\ f = <<f[1]>> \o Tail(f) /\ Tail(f) \in [1 .. n -> S] /\ f[1] \in S
          /\ \A k \in 1 .. n : Tail(f)[k] = f[k + 1]
      BY ONLY <3>1, <2>3, FirstAndRest
    <3> QED
      BY ONLY <3>2, t = Tail(f), Zenon
  <2> QED
    BY ONLY <2>1, <2>4
<1>3. t \in Numbers(7)
  <2>1. ASSUME NEW k \in 1 .. 7 PROVE t[k] \in [1 .. 1 -> Octets]
    <3>1. k + 1 \in 2 .. 8 /\ t[k] = f[k + 1] /\ t[k] \in S
      BY ONLY <1>2, k \in 1 .. 7
    <3>2. t[k][1] \in Octets
      BY ONLY <3>1, <1>1
    <3> QED
      BY ONLY <3>1, <3>2, S = [1 .. 1 -> Words]
  <2>2. t \in [1 .. 7 -> [1 .. 1 -> Octets]]
    BY ONLY <1>2, <2>1
  <2> QED
    BY ONLY <2>2 DEF Numbers
<1>4. PICK x : x = f[1][1]
  OBVIOUS
<1>5. f[1] = <<x>> /\ x \in Words
  BY ONLY <1>2, <1>4, OneOf, S = [1 .. 1 -> Words]
<1>6. PICK h : h = x \div 256
  OBVIOUS
<1>7. PICK l : l = x % 256
  OBVIOUS
<1>8. h \in Octets /\ l \in Octets /\ h * 256 + l = x
  <2>1. x \in Int /\ x >= 0 /\ x <= 65535
    BY ONLY <1>5, WordIs
  <2>2. h \in Octets
    BY ONLY <2>1, <1>6, WordHigh
  <2>3. l \in Octets
    BY ONLY <2>1, <1>7, WordLow
  <2>4. h * 256 + l = x
    BY ONLY <2>1, <1>6, <1>7, WordSum
  <2> QED
    BY ONLY <2>2, <2>3, <2>4
<1>9. PICK u : u = FlattenSeq(t)
  OBVIOUS
<1>10. u \in Seq(Octets)
  <2>1. PICK n : n = 7
    OBVIOUS
  <2>2. t \in [1 .. n -> [1 .. 1 -> Octets]] /\ n \in Nat
    BY ONLY <1>3, <2>1 DEF Numbers
  <2> QED
    BY ONLY <2>2, <1>9, FlattenOnes
<1>11. Encode("TIME", f) = <<h, l>> \o u
  <2>1. Encode("TIME", f) = <<f[1][1] \div 256, f[1][1] % 256>> \o FlattenSeq(Tail(f))
    BY ONLY DEF Encode
  <2> QED
    BY ONLY <2>1, <1>4, <1>6, <1>7, <1>9, t = Tail(f)
<1>12. f = <<<<h * 256 + l>>>> \o t
  BY ONLY <1>2, <1>5, <1>8
<1>13. FlattenSeq(t) \in Seq(Octets) /\ Encode("TIME", f) = <<h, l>> \o FlattenSeq(t)
  BY ONLY <1>9, <1>10, <1>11
<1>14. TimeParts(f, h, l, t)
  BY ONLY <1>3, <1>8, <1>12, <1>13 DEF TimeParts
<1> QED
  BY ONLY <1>14

\* A time
LEMMA TimeTold ==
    ASSUME NEW data, NEW at, NEW f, f \in Fields("TIME"), At(data, at, Encode("TIME", f))
    PROVE  Deserialize("TIME", data, at) = Event("TIME", f)
<1>1. PICK h, l, t : TimeParts(f, h, l, t)
  BY TimeShape
<1>2. PICK u : u = FlattenSeq(t)
  OBVIOUS
<1>3. /\ h \in Octets /\ l \in Octets /\ t \in Numbers(7) /\ u \in Seq(Octets)
      /\ f = <<<<h * 256 + l>>>> \o t /\ Encode("TIME", f) = <<h, l>> \o u
  BY ONLY <1>1, <1>2 DEF TimeParts
<1>12. Len(data) \in Nat /\ at \in Nat /\ Holds(data, at, <<h, l>> \o u)
  BY ONLY <1>3, AtLen, At(data, at, Encode("TIME", f)), SMTT(20), ZenonT(40)
<1>13. Octet(data, at) = h /\ Octet(data, at + 1) = l /\ Holds(data, at + 2, u)
  BY ONLY <1>3, <1>12, TwoOctets
<1>14. \A k \in 1 .. 7 : Octet(data, (at + 2) + (k - 1)) = t[k][1] /\ t[k] = <<t[k][1]>>
  <2>1. PICK n : n = 7
    OBVIOUS
  <2>2. n \in Nat
    BY ONLY <2>1
  <2>3. t \in Numbers(n)
    BY ONLY <1>3, <2>1
  <2>4. PICK a : a = at + 2
    OBVIOUS
  <2>5. a \in Nat /\ Holds(data, a, FlattenSeq(t))
    BY ONLY <1>2, <1>12, <1>13, <2>4
  <2>6. \A k \in 1 .. n : Octet(data, a + (k - 1)) = t[k][1] /\ t[k] = <<t[k][1]>>
    BY ONLY <1>12, <2>2, <2>3, <2>5, NumbersTold
  <2> QED
    BY ONLY <2>1, <2>4, <2>6
<1>15. [k \in 1 .. 7 |-> <<Octet(data, at + (k + 1))>>] = t
  <2>1. ASSUME NEW k \in 1 .. 7 PROVE <<Octet(data, at + (k + 1))>> = t[k]
    <3>1. (at + 2) + (k - 1) = at + (k + 1)
      BY ONLY <1>12, k \in 1 .. 7
    <3> QED
      BY ONLY <3>1, <1>14, k \in 1 .. 7
  <2>2. t \in [1 .. 7 -> [1 .. 1 -> Octets]]
    BY ONLY <1>3 DEF Numbers
  <2> QED
    BY ONLY <2>1, <2>2
<1>16. at + 0 = at
  BY ONLY <1>12
<1>17. Deserialize("TIME", data, at) =
          Event("TIME", <<<<Octet(data, at + 0) * 256 + Octet(data, at + 1)>>>> \o
                        [k \in 1 .. 7 |-> <<Octet(data, at + (k + 1))>>])
  BY ONLY DEF Deserialize
<1>18. Deserialize("TIME", data, at) = Event("TIME", <<<<h * 256 + l>>>> \o t)
  BY ONLY <1>13, <1>15, <1>16, <1>17
<1> QED
  BY ONLY <1>3, <1>18

-----------------------------------------------------------------------------
(* A song, as the radio says it by itself and as it answers.               *)

\* The fields of song information
LEMMA SongInfoFields == Fields("SONGINFO") = {f \in [1 .. 6 -> Strings] : f[1] \in [1 .. 1 -> Octets]}
BY DEF Fields

\* A channel and a song, in their parts
SongShaped(f) ==
    /\ f[1] \in [1 .. 1 -> Octets] /\ Tail(f) \in Songs
    /\ f = <<f[1], Tail(f)[1], Tail(f)[2], Tail(f)[3], Tail(f)[4], Tail(f)[5]>>
    /\ EncodeSong(Tail(f)) \in Seq(Octets) /\ Len(EncodeSong(Tail(f))) \in Nat
    /\ Len(EncodeSong(Tail(f))) <= 1290

\* Song information is made so.
LEMMA SongShape ==
    ASSUME NEW f, f \in Fields("SONGINFO")
    PROVE  SongShaped(f)
<1>1. f \in [1 .. 6 -> Strings] /\ f[1] \in [1 .. 1 -> Octets]
  BY ONLY f \in Fields("SONGINFO"), SongInfoFields
<1>2. f = <<f[1]>> \o Tail(f) /\ Tail(f) \in [1 .. 5 -> Strings] /\ f[1] \in Strings
  <2>1. PICK n : n = 5
    OBVIOUS
  <2>2. PICK m : m = 6
    OBVIOUS
  <2>3. n \in Nat /\ m \in Nat /\ m = n + 1
    BY ONLY <2>1, <2>2
  <2>4. f \in [1 .. m -> Strings]
    BY ONLY <1>1, <2>2
  <2>5. f = <<f[1]>> \o Tail(f) /\ Tail(f) \in [1 .. n -> Strings] /\ f[1] \in Strings
    BY ONLY <2>3, <2>4, FirstAndRest
  <2> QED
    BY ONLY <2>1, <2>5
<1>3. PICK g : g = Tail(f)
  OBVIOUS
<1>4. g \in [1 .. 5 -> Strings] /\ f[1] \in Strings /\ f = <<f[1]>> \o g
  BY ONLY <1>2, <1>3
<1>5. <<f[1]>> \o g = <<f[1], g[1], g[2], g[3], g[4], g[5]>>
  BY ONLY <1>4, OneAndFive
<1>6. Tail(f) \in Songs
  BY ONLY <1>2 DEF Songs
<1>7. EncodeSong(Tail(f)) \in Seq(Octets) /\ Len(EncodeSong(Tail(f))) \in Nat
      /\ Len(EncodeSong(Tail(f))) <= 1290
  BY ONLY <1>6, SongLength
<1>8. f = <<f[1], Tail(f)[1], Tail(f)[2], Tail(f)[3], Tail(f)[4], Tail(f)[5]>>
  BY ONLY <1>3, <1>4, <1>5
<1> QED
  BY ONLY <1>1, <1>6, <1>7, <1>8, SMTT(20), ZenonT(40) DEF SongShaped

\* The branch of Encode for song information
LEMMA EncodeSongInfo == ASSUME NEW f PROVE Encode("SONGINFO", f) = f[1] \o EncodeSong(Tail(f))
BY DEF Encode

\* The handlers of a song read its channel and what is behind it.
LEMMA SongReported ==
    ASSUME NEW data, NEW at, at \in 0 .. 10, NEW f, f \in Fields("SONGINFO"),
           At(data, at, Encode("SONGINFO", f)), Len(data) = at + Len(Encode("SONGINFO", f))
    PROVE  SongInfo(Octet(data, at), data, at + 1, Minus(Len(data), at + 1)) = Event("SONGINFO", f)
<1>1. data \in Seq(Octets) /\ Len(data) \in Nat /\ at \in Nat /\ Holds(data, at, Encode("SONGINFO", f))
  BY ONLY AtLen, At(data, at, Encode("SONGINFO", f))
<1>2. PICK g : g = Tail(f)
  OBVIOUS
<1>3. PICK e : e = EncodeSong(g)
  OBVIOUS
<1>4. PICK a : a = f[1]
  OBVIOUS
<1>5. /\ a \in [1 .. 1 -> Octets] /\ g \in Songs
      /\ f = <<a, g[1], g[2], g[3], g[4], g[5]>>
      /\ e \in Seq(Octets) /\ Len(e) \in Nat /\ Len(e) <= 1290
  <2>1. SongShaped(f)
    BY ONLY f \in Fields("SONGINFO"), SongShape
  <2> QED
    BY ONLY <2>1, <1>2, <1>3, <1>4, SMTT(20), ZenonT(40) DEF SongShaped
<1>6. a \in Seq(Octets) /\ Len(a) = 1 /\ a[1] \in Octets /\ a = <<a[1]>>
  BY ONLY <1>5, OneOctet
<1>7. Encode("SONGINFO", f) = a \o e
  BY ONLY <1>2, <1>3, <1>4, EncodeSongInfo
<1>8. Holds(data, at, a) /\ Holds(data, at + Len(a), e) /\ Len(a \o e) = Len(a) + Len(e)
  <2>1. Holds(data, at, a \o e)
    BY ONLY <1>1, <1>7
  <2>2. at \in Nat /\ Len(data) \in Nat /\ a \in Seq(Octets) /\ e \in Seq(Octets)
    BY ONLY <1>1, <1>5, <1>6
  <2> QED
    BY ONLY <2>1, <2>2, HoldsTwo
<1>9. PICK m : m = at + 1
  OBVIOUS
<1>10. m \in Nat /\ m <= 11 /\ Holds(data, m, EncodeSong(g))
  BY ONLY <1>1, <1>3, <1>6, <1>8, <1>9, at \in 0 .. 10
<1>11. Len(data) = m + Len(e)
  <2>1. Len(data) = at + (1 + Len(e))
    BY ONLY <1>6, <1>7, <1>8, Len(data) = at + Len(Encode("SONGINFO", f))
  <2> QED
    BY ONLY <2>1, <1>1, <1>5, <1>9
<1>12. Minus(Len(data), m) = Len(e)
  <2>1. m + Len(e) <= 4096
    BY ONLY <1>5, <1>10
  <2>2. m \in Nat /\ Len(e) \in Nat
    BY ONLY <1>5, <1>10
  <2>3. Minus(m + Len(e), m) = Len(e)
    BY ONLY <2>1, <2>2, MinusIs
  <2> QED
    BY ONLY <2>3, <1>11
<1>13. Octet(data, at) = a[1]
  BY ONLY <1>1, <1>5, <1>8, HoldsOne
<1>14. SongInfo(a[1], data, m, Len(e)) = Event("SONGINFO", <<<<a[1]>>, g[1], g[2], g[3], g[4], g[5]>>)
  BY ONLY <1>1, <1>3, <1>5, <1>10, SongTold
<1> QED
  BY ONLY <1>5, <1>6, <1>9, <1>12, <1>13, <1>14, SMTT(20), ZenonT(40)

-----------------------------------------------------------------------------
(* What the radio sends are octets.                                        *)

\* Numbers, one octet each
LEMMA NumbersTyped ==
    ASSUME NEW n \in Nat, NEW f, f \in Numbers(n)
    PROVE  FlattenSeq(f) \in Seq(Octets)
<1>1. f \in [1 .. n -> [1 .. 1 -> Octets]]
  BY DEF Numbers
<1> QED
  BY ONLY <1>1, n \in Nat, FlattenOnes

LEMMA OneTyped ==
    ASSUME NEW type, type \in {"MUTE", "POWER", "CHANNEL", "SIGNAL", "ANTENNA"}, NEW f, f \in Fields(type)
    PROVE  Encode(type, f) \in Seq(Octets)
<1>1. f \in Numbers(1)
  BY NumberFields
<1>2. Encode(type, f) = FlattenSeq(f)
  BY DEF Encode
<1>3. PICK n : n = 1
  OBVIOUS
<1>4. FlattenSeq(f) \in Seq(Octets)
  <2>1. n \in Nat /\ f \in Numbers(n)
    BY ONLY <1>1, <1>3
  <2> QED
    BY ONLY <2>1, NumbersTyped
<1> QED
  BY ONLY <1>2, <1>4

LEMMA ThreeTyped ==
    ASSUME NEW type, type \in {"STATUS", "RSSI"}, NEW f, f \in Fields(type)
    PROVE  Encode(type, f) \in Seq(Octets)
<1>1. f \in Numbers(3)
  BY NumberFields
<1>2. Encode(type, f) = FlattenSeq(f)
  BY DEF Encode
<1>3. PICK n : n = 3
  OBVIOUS
<1>4. FlattenSeq(f) \in Seq(Octets)
  <2>1. n \in Nat /\ f \in Numbers(n)
    BY ONLY <1>1, <1>3
  <2> QED
    BY ONLY <2>1, NumbersTyped
<1> QED
  BY ONLY <1>2, <1>4

LEMMA GainTyped ==
    ASSUME NEW f, f \in Fields("GAIN")
    PROVE  Encode("GAIN", f) \in Seq(Octets)
<1>1. f \in [1 .. 1 -> [1 .. 1 -> -128 .. 127]]
  BY DEF Fields
<1>2. PICK x : x = f[1][1]
  OBVIOUS
<1>3. x \in -128 .. 127
  BY ONLY <1>1, <1>2
<1>4. x % 256 \in Octets
  BY ONLY <1>3, SignedOctet
<1>5. Encode("GAIN", f) = <<x % 256>>
  BY <1>2 DEF Encode
<1>6. PICK y : y = x % 256
  OBVIOUS
<1>7. <<y>> \in Seq(Octets)
  BY ONLY <1>4, <1>6
<1> QED
  BY ONLY <1>5, <1>6, <1>7

LEMMA ZoneTyped ==
    ASSUME NEW f, f \in Fields("TZINFO")
    PROVE  Encode("TZINFO", f) \in Seq(Octets)
<1>1. f \in [1 .. 1 -> Shorts] \X [1 .. 1 -> Octets]
  BY ONLY ZoneFields, f \in Fields("TZINFO")
<1>2. f = <<f[1], f[2]>> /\ f[1] \in [1 .. 1 -> Shorts] /\ f[2] \in [1 .. 1 -> Octets]
  BY ONLY <1>1, PairOf
<1>3. PICK x : x = f[1][1]
  OBVIOUS
<1>4. PICK d : d = f[2][1]
  OBVIOUS
<1>5. x \in Shorts
  BY ONLY <1>2, <1>3, OneOf
<1>6. d \in Octets
  BY ONLY <1>2, <1>4, OneOf
<1>7. PICK h : h = (x % 65536) \div 256
  OBVIOUS
<1>8. PICK l : l = x % 256
  OBVIOUS
<1>9. h \in Octets /\ l \in Octets
  BY ONLY <1>5, <1>7, <1>8, SignedWord
<1>10. Encode("TZINFO", f) = <<h, l, d>>
  <2>1. Encode("TZINFO", f) = <<(f[1][1] % 65536) \div 256, f[1][1] % 256, f[2][1]>>
    BY ONLY DEF Encode
  <2> QED
    BY ONLY <2>1, <1>3, <1>4, <1>7, <1>8
<1>11. <<h, l, d>> \in Seq(Octets)
  BY ONLY <1>6, <1>9
<1> QED
  BY ONLY <1>10, <1>11

LEMMA StringTyped ==
    ASSUME NEW type, type \in {"SID", "SONGID"}, NEW f, f \in Fields(type)
    PROVE  Encode(type, f) \in Seq(Octets)
<1>1. f \in [1 .. 1 -> Strings]
  BY DEF Fields
<1>2. f[1] \in Strings
  BY ONLY <1>1
<1>3. Encode(type, f) = Pascal(f[1])
  BY DEF Encode
<1>4. Pascal(f[1]) \in Seq(Octets)
  BY ONLY <1>2, PascalTyped
<1> QED
  BY ONLY <1>3, <1>4

LEMMA SongTyped ==
    ASSUME NEW f, f \in Fields("SONGINFO")
    PROVE  Encode("SONGINFO", f) \in Seq(Octets)
<1>1. SongShaped(f)
  BY ONLY f \in Fields("SONGINFO"), SongShape
<1>2. f[1] \in [1 .. 1 -> Octets] /\ EncodeSong(Tail(f)) \in Seq(Octets)
  BY ONLY <1>1 DEF SongShaped
<1>3. f[1] \in Seq(Octets)
  BY ONLY <1>2, OneOctet
<1>4. Encode("SONGINFO", f) = f[1] \o EncodeSong(Tail(f))
  BY ONLY EncodeSongInfo
<1>5. f[1] \o EncodeSong(Tail(f)) \in Seq(Octets)
  BY ONLY <1>2, <1>3, JoinTwo
<1> QED
  BY ONLY <1>4, <1>5

LEMMA ChannelTyped ==
    ASSUME NEW f, f \in Fields("CHANNELINFO")
    PROVE  Encode("CHANNELINFO", f) \in Seq(Octets)
<1>1. ChannelParts(ChannelOf(f)) /\ Encode("CHANNELINFO", f) = JoinChannel(ChannelOf(f))
  BY ONLY f \in Fields("CHANNELINFO"), ChannelEncoded
<1>2. JoinChannel(ChannelOf(f)) \in Seq(Octets)
  BY ONLY <1>1, ChannelLength
<1> QED
  BY ONLY <1>1, <1>2

LEMMA MapTyped ==
    ASSUME NEW f
    PROVE  Encode("CHANNELMAP", f) \in Seq(Octets) /\ Len(Encode("CHANNELMAP", f)) = SCP_CHANNEL_BITMAP_SIZE
<1>1. Encode("CHANNELMAP", f) = [k \in 1 .. SCP_CHANNEL_BITMAP_SIZE |-> 0]
  BY DEF Encode
<1>2. SCP_CHANNEL_BITMAP_SIZE \in Nat
  BY DispatchAssumption
<1>3. 0 \in Octets
  BY DEF Octets
<1>4. [k \in 1 .. SCP_CHANNEL_BITMAP_SIZE |-> 0] \in [1 .. SCP_CHANNEL_BITMAP_SIZE -> Octets]
  BY ONLY <1>3
<1>5. PICK u : u = [k \in 1 .. SCP_CHANNEL_BITMAP_SIZE |-> 0]
  OBVIOUS
<1>6. u \in Seq(Octets) /\ Len(u) = SCP_CHANNEL_BITMAP_SIZE
  BY ONLY <1>2, <1>4, <1>5, TupleSeq
<1> QED
  BY ONLY <1>1, <1>5, <1>6

LEMMA ResetTyped ==
    ASSUME NEW f, f \in Fields("RESET")
    PROVE  Encode("RESET", f) \in Seq(Octets)
<1>1. f = <<>>
  BY NumberFields
<1>2. Encode("RESET", f) = FlattenSeq(<<>>)
  BY <1>1 DEF Encode
<1>3. <<>> \in Seq(Seq(Octets)) /\ <<>> \in Seq(Octets)
  OBVIOUS
<1>4. FlattenSeq(<<>>) \in Seq(Octets)
  BY ONLY <1>3, FlattenAppend
<1> QED
  BY ONLY <1>2, <1>4

LEMMA TimeTyped ==
    ASSUME NEW f, f \in Fields("TIME")
    PROVE  Encode("TIME", f) \in Seq(Octets)
<1>1. PICK h, l, t : TimeParts(f, h, l, t)
  BY TimeShape
<1>2. <<h, l>> \in Seq(Octets)
  BY ONLY <1>1 DEF TimeParts
<1>3. FlattenSeq(t) \in Seq(Octets) /\ Encode("TIME", f) = <<h, l>> \o FlattenSeq(t)
  BY ONLY <1>1 DEF TimeParts
<1>4. <<h, l>> \o FlattenSeq(t) \in Seq(Octets)
  BY ONLY <1>2, <1>3, JoinTwo
<1> QED
  BY ONLY <1>3, <1>4

-----------------------------------------------------------------------------
(* The frame of a message, and every event in one.                         *)

\* A message in two parts, and the octets of the first
LEMMA Framing ==
    ASSUME NEW hdr, NEW e, hdr \in Seq(Octets), e \in Seq(Octets)
    PROVE  /\ At(hdr \o e, Len(hdr), e) /\ Len(hdr \o e) = Len(hdr) + Len(e) /\ Len(hdr) \in Nat
           /\ \A k \in 1 .. Len(hdr) : Octet(hdr \o e, k - 1) = hdr[k]
<1>1. PICK data : data = hdr \o e
  OBVIOUS
<1>2. data \in Seq(Octets) /\ Len(data) = Len(hdr) + Len(e) /\ Len(hdr) \in Nat /\ Len(e) \in Nat
  BY ONLY <1>1, hdr \in Seq(Octets), e \in Seq(Octets), JoinTwo
<1>3. Len(data) \in Nat
  BY ONLY <1>2
<1>4. Holds(data, 0, hdr \o e)
  BY ONLY <1>1, <1>2, HoldsAll
<1>5. Holds(data, 0, hdr) /\ Holds(data, 0 + Len(hdr), e)
  <2>1. 0 \in Nat
    OBVIOUS
  <2> QED
    BY ONLY <2>1, <1>3, <1>4, hdr \in Seq(Octets), e \in Seq(Octets), HoldsTwo
<1>6. 0 + Len(hdr) = Len(hdr)
  BY ONLY <1>2
<1>7. At(data, Len(hdr), e)
  BY ONLY <1>2, <1>5, <1>6 DEF At
<1>8. ASSUME NEW k \in 1 .. Len(hdr) PROVE Octet(data, k - 1) = hdr[k]
  <2>1. PICK z : z = 0
    OBVIOUS
  <2>2. z \in Nat /\ Holds(data, z, hdr) /\ Len(hdr) \in Nat
    BY ONLY <2>1, <1>2, <1>5
  <2>3. Octet(data, z + (k - 1)) = hdr[k]
    BY ONLY <2>2, <1>3, k \in 1 .. Len(hdr), HoldsOctet
  <2>4. z + (k - 1) = k - 1
    BY ONLY <2>1, <1>2, k \in 1 .. Len(hdr)
  <2> QED
    BY ONLY <2>3, <2>4
<1> QED
  BY ONLY <1>1, <1>2, <1>7, <1>8

\* A message: its kind, what comes before the event, and the event
Framed(data, b, h, e) ==
    /\ b \in Octets /\ h \in Seq(Octets) /\ e \in Seq(Octets) /\ data = <<b>> \o h \o e

\* What the handlers find in it
LEMMA FramedFacts ==
    ASSUME NEW data, NEW b, NEW h, NEW e, Framed(data, b, h, e)
    PROVE  /\ At(data, Len(h) + 1, e) /\ Len(data) = (Len(h) + 1) + Len(e)
           /\ Len(h) \in Nat /\ Len(data) \in Nat /\ data[1] = b
           /\ Octet(data, 0) = b /\ \A k \in 1 .. Len(h) : Octet(data, k) = h[k]
<1>1. b \in Octets /\ h \in Seq(Octets) /\ e \in Seq(Octets) /\ data = <<b>> \o h \o e
  BY DEF Framed
<1>2. PICK a : a = <<b>>
  OBVIOUS
<1>3. a \in Seq(Octets) /\ Len(a) = 1 /\ a[1] = b
  BY ONLY <1>1, <1>2
<1>4. PICK hdr : hdr = a \o h
  OBVIOUS
<1>5. hdr \in Seq(Octets) /\ Len(hdr) = Len(a) + Len(h) /\ Len(h) \in Nat
  BY ONLY <1>1, <1>3, <1>4, JoinTwo
<1>6. \A j \in 1 .. Len(a) + Len(h) : hdr[j] = IF j <= Len(a) THEN a[j] ELSE h[j - Len(a)]
  <2>1. \A j \in 1 .. Len(a) + Len(h) : (a \o h)[j] = IF j <= Len(a) THEN a[j] ELSE h[j - Len(a)]
    BY ONLY <1>1, <1>3, ConcatFacts
  <2> QED
    BY ONLY <2>1, <1>4
<1>7. Len(hdr) = Len(h) + 1
  BY ONLY <1>3, <1>5
<1>8. data = hdr \o e
  BY ONLY <1>1, <1>2, <1>4
<1>9. At(data, Len(hdr), e) /\ Len(data) = Len(hdr) + Len(e) /\ Len(hdr) \in Nat
      /\ \A k \in 1 .. Len(hdr) : Octet(data, k - 1) = hdr[k]
  <2>1. At(hdr \o e, Len(hdr), e) /\ Len(hdr \o e) = Len(hdr) + Len(e) /\ Len(hdr) \in Nat
      /\ \A k \in 1 .. Len(hdr) : Octet(hdr \o e, k - 1) = hdr[k]
    BY ONLY <1>1, <1>5, Framing
  <2> QED
    BY ONLY <2>1, <1>8
<1>10. hdr[1] = b /\ \A k \in 1 .. Len(h) : hdr[k + 1] = h[k]
  BY ONLY <1>3, <1>5, <1>6
<1>11. Octet(data, 0) = b
  <2>1. 1 \in 1 .. Len(hdr)
    BY ONLY <1>5, <1>7
  <2>2. Octet(data, 1 - 1) = hdr[1]
    BY ONLY <2>1, <1>9
  <2> QED
    BY ONLY <2>2, <1>10
<1>12. ASSUME NEW k \in 1 .. Len(h) PROVE Octet(data, k) = h[k]
  <2>1. k + 1 \in 1 .. Len(hdr) /\ (k + 1) - 1 = k
    BY ONLY <1>5, <1>7, k \in 1 .. Len(h)
  <2>2. Octet(data, (k + 1) - 1) = hdr[k + 1]
    BY ONLY <2>1, <1>9
  <2> QED
    BY ONLY <2>1, <2>2, <1>10, k \in 1 .. Len(h)
<1>13. Len(data) \in Nat
  BY ONLY <1>9, AtLen
<1>14. data[1] = b
  <2>1. Len(e) \in Nat
    BY ONLY <1>1
  <2>2. 0 < Len(data) /\ 0 + 1 = 1
    BY ONLY <2>1, <1>5, <1>7, <1>9
  <2> QED
    BY ONLY <2>2, <1>11 DEF Octet
<1> QED
  BY ONLY <1>5, <1>7, <1>9, <1>11, <1>12, <1>13, <1>14

\* The events that say one thing
SimpleTypes == (AsyncTypes \cup DOMAIN SCP_GET) \ {"SONGINFO", "CHANNELINFO"}

\* Every type of event, by its layout
LEMMA SimpleAre ==
    /\ SimpleTypes = {"MUTE", "POWER", "CHANNEL", "SIGNAL", "ANTENNA"} \cup {"STATUS", "RSSI"}
                     \cup {"CHANNELMAP", "RESET"} \cup {"SID", "SONGID"} \cup {"GAIN", "TZINFO", "TIME"}
    /\ DOMAIN SCP_GET = {"GAIN", "MUTE", "POWER", "CHANNELINFO", "CHANNEL", "SONGINFO", "CHANNELMAP",
                         "SID", "TZINFO", "TIME", "STATUS", "RSSI"}
<1>1. DOMAIN SCP_GET = {"GAIN", "MUTE", "POWER", "CHANNELINFO", "CHANNEL", "SONGINFO", "CHANNELMAP",
                         "SID", "TZINFO", "TIME", "STATUS", "RSSI"}
  BY DEF SCP_GET
<1> QED
  BY <1>1 DEF SimpleTypes, AsyncTypes

\* Each of them is deserialized to what was encoded.
LEMMA SimpleTold ==
    ASSUME NEW data, NEW at, NEW type, type \in SimpleTypes, NEW f, f \in Fields(type),
           At(data, at, Encode(type, f))
    PROVE  Deserialize(type, data, at) = Event(type, f)
<1>1. CASE type \in {"MUTE", "POWER", "CHANNEL", "SIGNAL", "ANTENNA"}
  BY ONLY <1>1, f \in Fields(type), At(data, at, Encode(type, f)), OneTold
<1>2. CASE type \in {"STATUS", "RSSI"}
  BY ONLY <1>2, f \in Fields(type), At(data, at, Encode(type, f)), ThreeTold
<1>3. CASE type \in {"CHANNELMAP", "RESET"}
  BY ONLY <1>3, f \in Fields(type), EmptyTold
<1>4. CASE type \in {"SID", "SONGID"}
  BY ONLY <1>4, f \in Fields(type), At(data, at, Encode(type, f)), StringTold
<1>5. CASE type = "GAIN"
  BY ONLY <1>5, f \in Fields(type), At(data, at, Encode(type, f)), GainTold
<1>6. CASE type = "TZINFO"
  BY ONLY <1>6, f \in Fields(type), At(data, at, Encode(type, f)), ZoneTold
<1>7. CASE type = "TIME"
  BY ONLY <1>7, f \in Fields(type), At(data, at, Encode(type, f)), TimeTold
<1> QED
  BY ONLY <1>1, <1>2, <1>3, <1>4, <1>5, <1>6, <1>7, type \in SimpleTypes, SimpleAre

\* Whatever the radio encodes are octets.
LEMMA EncodeTyped ==
    ASSUME NEW type, type \in AsyncTypes \cup DOMAIN SCP_GET, NEW f, f \in Fields(type)
    PROVE  Encode(type, f) \in Seq(Octets)
<1>1. CASE type \in {"MUTE", "POWER", "CHANNEL", "SIGNAL", "ANTENNA"}
  BY ONLY <1>1, f \in Fields(type), OneTyped
<1>2. CASE type \in {"STATUS", "RSSI"}
  BY ONLY <1>2, f \in Fields(type), ThreeTyped
<1>3. CASE type = "CHANNELMAP"
  BY ONLY <1>3, MapTyped
<1>4. CASE type = "RESET"
  BY ONLY <1>4, f \in Fields(type), ResetTyped
<1>5. CASE type \in {"SID", "SONGID"}
  BY ONLY <1>5, f \in Fields(type), StringTyped
<1>6. CASE type = "GAIN"
  BY ONLY <1>6, f \in Fields(type), GainTyped
<1>7. CASE type = "TZINFO"
  BY ONLY <1>7, f \in Fields(type), ZoneTyped
<1>8. CASE type = "TIME"
  BY ONLY <1>8, f \in Fields(type), TimeTyped
<1>9. CASE type = "SONGINFO"
  BY ONLY <1>9, f \in Fields(type), SongTyped
<1>10. CASE type = "CHANNELINFO"
  BY ONLY <1>10, f \in Fields(type), ChannelTyped
<1>11. type \in SimpleTypes \cup {"SONGINFO", "CHANNELINFO"}
  BY ONLY type \in AsyncTypes \cup DOMAIN SCP_GET DEF SimpleTypes
<1> QED
  BY ONLY <1>1, <1>2, <1>3, <1>4, <1>5, <1>6, <1>7, <1>8, <1>9, <1>10, <1>11, SimpleAre

-----------------------------------------------------------------------------
(* What the radio says by itself.                                          *)

\* What comes before each event that the radio sends by itself
LEMMA AsyncHeaders ==
    /\ AsyncHeader("RESET") = <<0>> /\ AsyncHeader("SONGINFO") = <<1>> /\ AsyncHeader("SONGID") = <<2, 0>>
    /\ AsyncHeader("TIME") = <<3>> /\ AsyncHeader("CHANNEL") = <<4, 0, 0>>
    /\ AsyncHeader("SIGNAL") = <<4, 1>> /\ AsyncHeader("ANTENNA") = <<4, 2>> /\ AsyncHeader("RSSI") = <<5>>
BY DEF AsyncHeader, SCP_ASYNC, ST

\* The numbers of scp.h that Dispatch compares
LEMMA Codes ==
    /\ SCP_ASYNC.RESET = 0 /\ SCP_ASYNC.SONGINFO = 1 /\ SCP_ASYNC.SONGID = 2 /\ SCP_ASYNC.TIME = 3
    /\ SCP_ASYNC.STATUS = 4 /\ SCP_ASYNC.SIGNAL = 5 /\ ST.TUNE = 0 /\ ST.SIGNAL = 1 /\ ST.ANTENNA = 2
    /\ SCP_SET.CHANNEL = 10
BY DEF SCP_ASYNC, ST, SCP_SET

\* Dispatch goes by the kind of the message.
LEMMA DispatchesAsync == ASSUME NEW d, Octet(d, 0) = 128 PROVE Dispatch(d) = DispatchAsync(d)
BY DEF Dispatch, MSG_SET_RESP, MSG_GET_RESP, MSG_ASYNC

LEMMA DispatchesGet == ASSUME NEW d, Octet(d, 0) = 96 PROVE Dispatch(d) = DispatchGetResponse(d)
BY DEF Dispatch, MSG_SET_RESP, MSG_GET_RESP, MSG_ASYNC

LEMMA DispatchesSet == ASSUME NEW d, Octet(d, 0) = 32 PROVE Dispatch(d) = DispatchSetResponse(d)
BY DEF Dispatch, MSG_SET_RESP, MSG_GET_RESP, MSG_ASYNC

\* DispatchAsync goes by its second octet.
LEMMA AsyncCases ==
    ASSUME NEW d
    PROVE  /\ Octet(d, 1) = 0 => DispatchAsync(d) = <<Tell(Deserialize("RESET", d, 2))>>
           /\ Octet(d, 1) = 1 => DispatchAsync(d) = <<Tell(SongInfo(Octet(d, 2), d, 3, Minus(Len(d), 3)))>>
           /\ Octet(d, 1) = 2 => DispatchAsync(d) = <<Tell(Deserialize("SONGID", d, 3))>>
           /\ Octet(d, 1) = 3 => DispatchAsync(d) = <<Tell(Deserialize("TIME", d, 2))>>
           /\ Octet(d, 1) = 5 => DispatchAsync(d) = <<Tell(Deserialize("RSSI", d, 2))>>
           /\ Octet(d, 1) = 4 /\ Octet(d, 2) = 0 =>
                DispatchAsync(d) = TuneAndTell(Octet(d, 4), <<Deserialize("CHANNEL", d, 4)>>)
           /\ Octet(d, 1) = 4 /\ Octet(d, 2) = 1 => DispatchAsync(d) = <<Tell(Deserialize("SIGNAL", d, 3))>>
           /\ Octet(d, 1) = 4 /\ Octet(d, 2) = 2 => DispatchAsync(d) = <<Tell(Deserialize("ANTENNA", d, 3))>>
BY ONLY Codes DEF DispatchAsync, DispatchStatus

\* The radio sends an event by itself in such a frame.
LEMMA AsyncFramed ==
    ASSUME NEW r, r.type \in AsyncTypes, r.fields \in Fields(r.type)
    PROVE  Framed(Async(r).data, 128, AsyncHeader(r.type), Encode(r.type, r.fields))
<1>1. 128 \in Octets
  BY DEF Octets
<1>2. AsyncHeader(r.type) \in Seq(Octets)
  <2>1. <<0>> \in Seq(Octets) /\ <<1>> \in Seq(Octets) /\ <<2, 0>> \in Seq(Octets) /\ <<3>> \in Seq(Octets)
    BY ONLY DEF Octets
  <2>2. <<4, 0, 0>> \in Seq(Octets) /\ <<4, 1>> \in Seq(Octets) /\ <<4, 2>> \in Seq(Octets)
    BY ONLY DEF Octets
  <2>3. <<5>> \in Seq(Octets)
    BY ONLY DEF Octets
  <2> QED
    BY ONLY <2>1, <2>2, <2>3, r.type \in AsyncTypes, AsyncHeaders DEF AsyncTypes
<1>3. Encode(r.type, r.fields) \in Seq(Octets)
  BY EncodeTyped
<1>4. Async(r).data = <<128>> \o AsyncHeader(r.type) \o Encode(r.type, r.fields)
  BY ONLY DEF Async, MSG_ASYNC
<1> QED
  BY ONLY <1>1, <1>2, <1>3, <1>4 DEF Framed

\* What the radio says by itself comes to
Program(type, f) ==
    IF type = "CHANNEL" THEN TuneAndTell(f[1][1], <<Event(type, f)>>) ELSE <<Tell(Event(type, f))>>

\* Dispatch tells it.
LEMMA AsyncTold ==
    ASSUME NEW d, NEW type, type \in AsyncTypes, NEW f, f \in Fields(type),
           Framed(d, 128, AsyncHeader(type), Encode(type, f))
    PROVE  Dispatch(d) = Program(type, f)
<1>1. /\ At(d, Len(AsyncHeader(type)) + 1, Encode(type, f))
      /\ Len(d) = (Len(AsyncHeader(type)) + 1) + Len(Encode(type, f))
      /\ Octet(d, 0) = 128 /\ \A k \in 1 .. Len(AsyncHeader(type)) : Octet(d, k) = AsyncHeader(type)[k]
  BY ONLY Framed(d, 128, AsyncHeader(type), Encode(type, f)), FramedFacts
<1>2. Dispatch(d) = DispatchAsync(d)
  BY ONLY <1>1, DispatchesAsync
<1>3. CASE type = "RESET"
  <2>1. AsyncHeader(type) = <<0>>
    BY ONLY <1>3, AsyncHeaders
  <2>2. Octet(d, 1) = 0 /\ At(d, 2, Encode("RESET", f))
    BY ONLY <1>1, <1>3, <2>1, SMTT(20), ZenonT(40)
  <2>3. Deserialize("RESET", d, 2) = Event("RESET", f)
    BY ONLY <2>2, <1>3, f \in Fields(type), EmptyTold
  <2>4. DispatchAsync(d) = <<Tell(Deserialize("RESET", d, 2))>>
    BY ONLY <2>2, AsyncCases
  <2> QED
    BY ONLY <1>2, <1>3, <2>3, <2>4 DEF Program
<1>4. CASE type = "SONGID"
  <2>1. AsyncHeader(type) = <<2, 0>>
    BY ONLY <1>4, AsyncHeaders
  <2>2. Octet(d, 1) = 2 /\ Octet(d, 2) = 0 /\ At(d, 3, Encode("SONGID", f))
    <3>1. PICK h : h = AsyncHeader(type)
      OBVIOUS
    <3>2. Len(h) = 2 /\ 1 \in 1 .. Len(h) /\ h[1] = 2 /\ 2 \in 1 .. Len(h) /\ h[2] = 0
      BY ONLY <2>1, <3>1
    <3>3. At(d, Len(h) + 1, Encode("SONGID", f)) /\ \A k \in 1 .. Len(h) : Octet(d, k) = h[k]
      BY ONLY <1>1, <1>4, <3>1
    <3>4. Len(h) + 1 = 3
      BY ONLY <3>2
    <3>5. Octet(d, 1) = h[1]
      BY ONLY <3>2, <3>3
    <3>6. Octet(d, 2) = h[2]
      BY ONLY <3>2, <3>3
    <3> QED
      BY ONLY <3>2, <3>3, <3>4, <3>5, <3>6
  <2>3. Deserialize("SONGID", d, 3) = Event("SONGID", f)
    BY ONLY <2>2, <1>4, f \in Fields(type), StringTold
  <2>4. DispatchAsync(d) = <<Tell(Deserialize("SONGID", d, 3))>>
    BY ONLY <2>2, AsyncCases
  <2> QED
    BY ONLY <1>2, <1>4, <2>3, <2>4 DEF Program
<1>5. CASE type = "TIME"
  <2>1. AsyncHeader(type) = <<3>>
    BY ONLY <1>5, AsyncHeaders
  <2>2. Octet(d, 1) = 3 /\ At(d, 2, Encode("TIME", f))
    BY ONLY <1>1, <1>5, <2>1
  <2>3. Deserialize("TIME", d, 2) = Event("TIME", f)
    BY ONLY <2>2, <1>5, f \in Fields(type), TimeTold
  <2>4. DispatchAsync(d) = <<Tell(Deserialize("TIME", d, 2))>>
    BY ONLY <2>2, AsyncCases
  <2> QED
    BY ONLY <1>2, <1>5, <2>3, <2>4 DEF Program
<1>6. CASE type = "RSSI"
  <2>1. AsyncHeader(type) = <<5>>
    BY ONLY <1>6, AsyncHeaders
  <2>2. Octet(d, 1) = 5 /\ At(d, 2, Encode("RSSI", f))
    BY ONLY <1>1, <1>6, <2>1
  <2>3. Deserialize("RSSI", d, 2) = Event("RSSI", f)
    BY ONLY <2>2, <1>6, f \in Fields(type), ThreeTold
  <2>4. DispatchAsync(d) = <<Tell(Deserialize("RSSI", d, 2))>>
    BY ONLY <2>2, AsyncCases
  <2> QED
    BY ONLY <1>2, <1>6, <2>3, <2>4 DEF Program
<1>7. CASE type = "SIGNAL"
  <2>1. AsyncHeader(type) = <<4, 1>>
    BY ONLY <1>7, AsyncHeaders
  <2>2. Octet(d, 1) = 4 /\ Octet(d, 2) = 1 /\ At(d, 3, Encode("SIGNAL", f))
    BY ONLY <1>1, <1>7, <2>1, SMTT(20), ZenonT(40)
  <2>3. Deserialize("SIGNAL", d, 3) = Event("SIGNAL", f)
    BY ONLY <2>2, <1>7, f \in Fields(type), OneTold
  <2>4. DispatchAsync(d) = <<Tell(Deserialize("SIGNAL", d, 3))>>
    BY ONLY <2>2, AsyncCases
  <2> QED
    BY ONLY <1>2, <1>7, <2>3, <2>4 DEF Program
<1>8. CASE type = "ANTENNA"
  <2>1. AsyncHeader(type) = <<4, 2>>
    BY ONLY <1>8, AsyncHeaders
  <2>2. Octet(d, 1) = 4 /\ Octet(d, 2) = 2 /\ At(d, 3, Encode("ANTENNA", f))
    BY ONLY <1>1, <1>8, <2>1, SMTT(20), ZenonT(40)
  <2>3. Deserialize("ANTENNA", d, 3) = Event("ANTENNA", f)
    BY ONLY <2>2, <1>8, f \in Fields(type), OneTold
  <2>4. DispatchAsync(d) = <<Tell(Deserialize("ANTENNA", d, 3))>>
    BY ONLY <2>2, AsyncCases
  <2> QED
    BY ONLY <1>2, <1>8, <2>3, <2>4 DEF Program
<1>9. CASE type = "CHANNEL"
  <2>1. AsyncHeader(type) = <<4, 0, 0>>
    BY ONLY <1>9, AsyncHeaders
  <2>2. Octet(d, 1) = 4 /\ Octet(d, 2) = 0 /\ At(d, 4, Encode("CHANNEL", f))
    <3>1. PICK h : h = AsyncHeader(type)
      OBVIOUS
    <3>2. Len(h) = 3 /\ 1 \in 1 .. Len(h) /\ h[1] = 4 /\ 2 \in 1 .. Len(h) /\ h[2] = 0
      BY ONLY <2>1, <3>1
    <3>3. At(d, Len(h) + 1, Encode("CHANNEL", f)) /\ \A k \in 1 .. Len(h) : Octet(d, k) = h[k]
      BY ONLY <1>1, <1>9, <3>1
    <3>4. Len(h) + 1 = 4
      BY ONLY <3>2
    <3>5. Octet(d, 1) = h[1]
      BY ONLY <3>2, <3>3
    <3>6. Octet(d, 2) = h[2]
      BY ONLY <3>2, <3>3
    <3> QED
      BY ONLY <3>2, <3>3, <3>4, <3>5, <3>6
  <2>3. Deserialize("CHANNEL", d, 4) = Event("CHANNEL", f) /\ Octet(d, 4) = f[1][1]
    BY ONLY <2>2, <1>9, f \in Fields(type), OneTold
  <2>4. DispatchAsync(d) = TuneAndTell(Octet(d, 4), <<Deserialize("CHANNEL", d, 4)>>)
    BY ONLY <2>2, AsyncCases
  <2> QED
    BY ONLY <1>2, <1>9, <2>3, <2>4 DEF Program
<1>10. CASE type = "SONGINFO"
  <2>1. AsyncHeader(type) = <<1>>
    BY ONLY <1>10, AsyncHeaders
  <2>2. Octet(d, 1) = 1 /\ At(d, 2, Encode("SONGINFO", f)) /\ Len(d) = 2 + Len(Encode("SONGINFO", f))
    BY ONLY <1>1, <1>10, <2>1
  <2>3. PICK at : at = 2
    OBVIOUS
  <2>4. at \in 0 .. 10 /\ At(d, at, Encode("SONGINFO", f)) /\ Len(d) = at + Len(Encode("SONGINFO", f))
    BY ONLY <2>2, <2>3
  <2>5. SongInfo(Octet(d, at), d, at + 1, Minus(Len(d), at + 1)) = Event("SONGINFO", f)
    BY ONLY <2>4, <1>10, f \in Fields(type), SongReported
  <2>6. at + 1 = 3
    BY ONLY <2>3
  <2>7. DispatchAsync(d) = <<Tell(SongInfo(Octet(d, 2), d, 3, Minus(Len(d), 3)))>>
    BY ONLY <2>2, AsyncCases
  <2>8. SongInfo(Octet(d, 2), d, 3, Minus(Len(d), 3)) = Event("SONGINFO", f)
    BY ONLY <2>3, <2>5, <2>6
  <2> QED
    BY ONLY <1>2, <1>10, <2>7, <2>8 DEF Program
<1> QED
  BY ONLY <1>3, <1>4, <1>5, <1>6, <1>7, <1>8, <1>9, <1>10, type \in AsyncTypes DEF AsyncTypes

-----------------------------------------------------------------------------
(* What it answers to a GET.                                               *)

\* An answer: its kind, what was asked for, the result, and the event
Answered(d, a, b, c, e) ==
    /\ a \in Octets /\ b \in Octets /\ c \in Octets /\ e \in Seq(Octets)
    /\ d = <<a, b, 0, c>> \o e

\* What the handlers find in an answer
LEMMA AnswerFacts ==
    ASSUME NEW d, NEW a, NEW b, NEW c, NEW e, Answered(d, a, b, c, e)
    PROVE  /\ At(d, 4, e) /\ Len(d) = 4 + Len(e) /\ d[1] = a /\ Len(e) \in Nat
           /\ Octet(d, 0) = a /\ Octet(d, 1) = b /\ Octet(d, 2) = 0 /\ Octet(d, 3) = c
<1>0. a \in Octets /\ b \in Octets /\ c \in Octets /\ e \in Seq(Octets) /\ d = <<a, b, 0, c>> \o e
  BY DEF Answered
<1>1. PICK h : h = <<a, b, 0, c>>
  OBVIOUS
<1>2. /\ h \in Seq(Octets) /\ Len(h) = 4 /\ h[1] = a /\ h[2] = b /\ h[3] = 0 /\ h[4] = c
      /\ 1 \in 1 .. Len(h) /\ 2 \in 1 .. Len(h) /\ 3 \in 1 .. Len(h) /\ 4 \in 1 .. Len(h)
  <2>1. 0 \in Octets
    BY DEF Octets
  <2> QED
    BY ONLY <2>1, <1>0, <1>1
<1>3. /\ At(d, Len(h), e) /\ Len(d) = Len(h) + Len(e)
      /\ \A k \in 1 .. Len(h) : Octet(d, k - 1) = h[k]
  <2>1. h \in Seq(Octets)
    BY ONLY <1>2
  <2>2. /\ At(h \o e, Len(h), e) /\ Len(h \o e) = Len(h) + Len(e)
        /\ \A k \in 1 .. Len(h) : Octet(h \o e, k - 1) = h[k]
    BY ONLY <2>1, <1>0, Framing
  <2> QED
    BY ONLY <2>2, <1>0, <1>1
<1>4. At(d, 4, e) /\ Len(d) = 4 + Len(e)
  BY ONLY <1>2, <1>3
<1>5. Octet(d, 0) = a
  <2>1. Octet(d, 1 - 1) = h[1]
    BY ONLY <1>2, <1>3
  <2> QED
    BY ONLY <2>1, <1>2
<1>6. Octet(d, 1) = b
  <2>1. Octet(d, 2 - 1) = h[2]
    BY ONLY <1>2, <1>3
  <2> QED
    BY ONLY <2>1, <1>2
<1>7. Octet(d, 2) = 0
  <2>1. Octet(d, 3 - 1) = h[3]
    BY ONLY <1>2, <1>3
  <2> QED
    BY ONLY <2>1, <1>2
<1>8. Octet(d, 3) = c
  <2>1. Octet(d, 4 - 1) = h[4]
    BY ONLY <1>2, <1>3
  <2> QED
    BY ONLY <2>1, <1>2
<1>9. d[1] = a
  <2>1. Len(e) \in Nat
    BY ONLY <1>0
  <2>2. 0 < Len(d) /\ 0 + 1 = 1
    BY ONLY <2>1, <1>4
  <2> QED
    BY ONLY <2>2, <1>5 DEF Octet
<1>10. Len(e) \in Nat
  BY ONLY <1>0
<1> QED
  BY ONLY <1>4, <1>5, <1>6, <1>7, <1>8, <1>9, <1>10

\* The names that a GET may have differ in their codes.
LEMMA GetCodes ==
    /\ \A n \in DOMAIN SCP_GET : SCP_GET[n] \in Octets
    /\ \A n, m \in DOMAIN SCP_GET : SCP_GET[n] = SCP_GET[m] => n = m
BY SimpleAre DEF SCP_GET, Octets

\* DispatchGetResponse goes by the code.
LEMMA GetCases ==
    ASSUME NEW d
    PROVE  /\ GetAnswer("CHANNEL", d) = TuneAndTell(Octet(d, 4), <<Deserialize("CHANNEL", d, 4)>>)
           /\ GetAnswer("CHANNELINFO", d) = [k \in 1 .. 2 |-> Tell(ChannelAndSong(d, 4)[k])]
           /\ GetAnswer("SONGINFO", d) = <<Tell(SongInfo(Octet(d, 4), d, 5, Minus(Len(d), 5)))>>
           /\ Len(d) >= 4 + SCP_CHANNEL_BITMAP_SIZE =>
                GetAnswer("CHANNELMAP", d) = <<Tell(Deserialize("CHANNELMAP", d, 4))>>
           /\ \A n \in SimpleTypes \ {"CHANNEL", "CHANNELMAP"} : GetAnswer(n, d) = <<Tell(Deserialize(n, d, 4))>>
BY ONLY SimpleAre DEF GetAnswer

\* It tells the result, then, where there is one, the answer.
LEMMA GetResult ==
    ASSUME NEW d, NEW name, name \in DOMAIN SCP_GET, NEW c, c \in {0, 1},
           Octet(d, 0) = 96, Octet(d, 1) = SCP_GET[name], Octet(d, 2) = 0, Octet(d, 3) = c
    PROVE  Dispatch(d) = <<Tell(Event("GET", <<<<c>>>>))>> \o (IF c = 0 THEN GetAnswer(name, d) ELSE <<>>)
<1>1. Result(d) = c
  BY ONLY c \in {0, 1}, Octet(d, 2) = 0, Octet(d, 3) = c DEF Result
<1>2. {n \in DOMAIN SCP_GET : SCP_GET[n] = Octet(d, 1)} = {name}
  BY ONLY name \in DOMAIN SCP_GET, Octet(d, 1) = SCP_GET[name], GetCodes
<1>3. (CHOOSE n \in {name} : TRUE) = name
  OBVIOUS
<1>4. Dispatch(d) = DispatchGetResponse(d)
  BY ONLY Octet(d, 0) = 96, DispatchesGet
<1>5. {name} # {}
  OBVIOUS
<1>6. DispatchGetResponse(d) =
        <<Tell(Event("GET", <<<<Result(d)>>>>))>> \o
        (IF Result(d) = 0 /\ {n \in DOMAIN SCP_GET : SCP_GET[n] = Octet(d, 1)} # {}
           THEN GetAnswer(CHOOSE n \in {n \in DOMAIN SCP_GET : SCP_GET[n] = Octet(d, 1)} : TRUE, d) ELSE <<>>)
  BY ONLY DEF DispatchGetResponse
<1>7. DispatchGetResponse(d) =
        <<Tell(Event("GET", <<<<Result(d)>>>>))>> \o
        (IF Result(d) = 0 /\ {name} # {} THEN GetAnswer(CHOOSE n \in {name} : TRUE, d) ELSE <<>>)
  BY ONLY <1>2, <1>6, Zenon
<1> QED
  BY ONLY <1>1, <1>3, <1>4, <1>5, <1>7

\* What an answer comes to
GetProgram(name, f) ==
    IF name = "CHANNELINFO" THEN [k \in 1 .. 2 |-> Tell(Meaning("CHANNELINFO", f)[k])] ELSE Program(name, f)

\* The answer to a GET, told behind its result
LEMMA GetTold ==
    ASSUME NEW d, NEW name, name \in DOMAIN SCP_GET, NEW f, f \in Fields(name),
           d = <<96, SCP_GET[name], 0, 0>> \o Encode(name, f)
    PROVE  Dispatch(d) = <<Tell(Event("GET", <<<<0>>>>))>> \o GetProgram(name, f)
<1>1. 96 \in Octets /\ 0 \in Octets /\ SCP_GET[name] \in Octets /\ Encode(name, f) \in Seq(Octets)
  <2>1. 96 \in Octets /\ 0 \in Octets
    BY DEF Octets
  <2>2. Encode(name, f) \in Seq(Octets)
    BY EncodeTyped
  <2> QED
    BY ONLY <2>1, <2>2, name \in DOMAIN SCP_GET, GetCodes
<1>2. PICK e : e = Encode(name, f)
  OBVIOUS
<1>3. /\ At(d, 4, e) /\ Len(d) = 4 + Len(e) /\ Len(e) \in Nat
      /\ Octet(d, 0) = 96 /\ Octet(d, 1) = SCP_GET[name] /\ Octet(d, 2) = 0 /\ Octet(d, 3) = 0
  <2>1. PICK a, b, c : a = 96 /\ b = SCP_GET[name] /\ c = 0
    OBVIOUS
  <2>2. Answered(d, a, b, c, e)
    BY ONLY <2>1, <1>1, <1>2, d = <<96, SCP_GET[name], 0, 0>> \o Encode(name, f) DEF Answered
  <2>3. /\ At(d, 4, e) /\ Len(d) = 4 + Len(e) /\ Len(e) \in Nat
        /\ Octet(d, 0) = a /\ Octet(d, 1) = b /\ Octet(d, 2) = 0 /\ Octet(d, 3) = c
    BY ONLY <2>2, AnswerFacts
  <2> QED
    BY ONLY <2>1, <2>3
<1>4. Dispatch(d) = <<Tell(Event("GET", <<<<0>>>>))>> \o GetAnswer(name, d)
  <2>1. PICK c : c = 0
    OBVIOUS
  <2>2. c \in {0, 1} /\ Octet(d, 3) = c
    BY ONLY <2>1, <1>3
  <2>3. Dispatch(d) = <<Tell(Event("GET", <<<<c>>>>))>> \o (IF c = 0 THEN GetAnswer(name, d) ELSE <<>>)
    BY ONLY <2>2, <1>3, name \in DOMAIN SCP_GET, GetResult
  <2> QED
    BY ONLY <2>1, <2>3
<1>5. At(d, 4, Encode(name, f)) /\ Len(d) = 4 + Len(Encode(name, f))
  BY ONLY <1>2, <1>3
<1>6. CASE name = "CHANNEL"
  <2>1. Deserialize("CHANNEL", d, 4) = Event("CHANNEL", f) /\ Octet(d, 4) = f[1][1]
    BY ONLY <1>5, <1>6, f \in Fields(name), OneTold
  <2> QED
    BY ONLY <1>4, <1>6, <2>1, GetCases DEF GetProgram, Program
<1>7. CASE name = "CHANNELINFO"
  <2>1. PICK at : at = 4
    OBVIOUS
  <2>2. at \in 0 .. 10 /\ At(d, at, Encode("CHANNELINFO", f)) /\ Len(d) = at + Len(Encode("CHANNELINFO", f))
    BY ONLY <2>1, <1>5, <1>7
  <2>3. d \in Seq(Octets) /\ Holds(d, at, Encode("CHANNELINFO", f))
    BY ONLY <2>2, AtLen
  <2>4. ChannelAndSong(d, at) = Meaning("CHANNELINFO", f)
    BY ONLY <2>2, <2>3, <1>7, f \in Fields(name), ChannelTold
  <2>5. GetAnswer("CHANNELINFO", d) = [k \in 1 .. 2 |-> Tell(Meaning("CHANNELINFO", f)[k])]
    BY ONLY <2>1, <2>4, GetCases
  <2> QED
    BY ONLY <1>4, <1>7, <2>5 DEF GetProgram
<1>8. CASE name = "SONGINFO"
  <2>1. PICK at : at = 4
    OBVIOUS
  <2>2. at \in 0 .. 10 /\ At(d, at, Encode("SONGINFO", f)) /\ Len(d) = at + Len(Encode("SONGINFO", f))
    BY ONLY <2>1, <1>5, <1>8
  <2>3. SongInfo(Octet(d, at), d, at + 1, Minus(Len(d), at + 1)) = Event("SONGINFO", f)
    BY ONLY <2>2, <1>8, f \in Fields(name), SongReported
  <2>4. at + 1 = 5
    BY ONLY <2>1
  <2>5. SongInfo(Octet(d, 4), d, 5, Minus(Len(d), 5)) = Event("SONGINFO", f)
    BY ONLY <2>1, <2>3, <2>4
  <2> QED
    BY ONLY <1>4, <1>8, <2>5, GetCases DEF GetProgram, Program
<1>9. CASE name = "CHANNELMAP"
  <2>1. Len(Encode("CHANNELMAP", f)) = SCP_CHANNEL_BITMAP_SIZE
    BY ONLY MapTyped
  <2>2. Len(d) >= 4 + SCP_CHANNEL_BITMAP_SIZE
    <3>1. Len(d) = 4 + SCP_CHANNEL_BITMAP_SIZE
      BY ONLY <1>5, <1>9, <2>1
    <3>2. SCP_CHANNEL_BITMAP_SIZE \in Nat
      BY DispatchAssumption
    <3> QED
      BY ONLY <3>1, <3>2
  <2>3. Deserialize("CHANNELMAP", d, 4) = Event("CHANNELMAP", f)
    BY ONLY <1>9, f \in Fields(name), EmptyTold
  <2> QED
    BY ONLY <1>4, <1>9, <2>2, <2>3, GetCases DEF GetProgram, Program
<1>10. CASE name \in SimpleTypes \ {"CHANNEL", "CHANNELMAP"}
  <2>1. Deserialize(name, d, 4) = Event(name, f)
    BY ONLY <1>5, <1>10, f \in Fields(name), SimpleTold
  <2>2. GetAnswer(name, d) = <<Tell(Deserialize(name, d, 4))>>
    BY ONLY <1>10, GetCases
  <2>3. name # "CHANNEL" /\ name # "CHANNELINFO"
    BY ONLY <1>10, SimpleAre
  <2> QED
    BY ONLY <1>4, <2>1, <2>2, <2>3 DEF GetProgram, Program
<1> QED
  BY ONLY <1>6, <1>7, <1>8, <1>9, <1>10, name \in DOMAIN SCP_GET, SimpleAre

-----------------------------------------------------------------------------
(* What Dispatch does, step by step, and what CSirServer is notified of.   *)

\* A step of Dispatch that notifies an event
LEMMA TellIs == ASSUME NEW e PROVE Tell(e).do = "notify" /\ Tell(e).event = e
BY DEF Tell

\* Steps that notify these events, and what any steps notify
Tells(evs) == [k \in DOMAIN evs |-> Tell(evs[k])]

Heard(steps) == [k \in DOMAIN steps |-> IF steps[k].do = "notify" THEN <<steps[k].event>> ELSE <<>>]

\* Steps that notify events notify these events.
LEMMA TellsFacts ==
    ASSUME NEW E, NEW evs, evs \in Seq(E)
    PROVE  /\ Tells(evs) \in Seq({Tell(e) : e \in E}) /\ Len(Tells(evs)) = Len(evs)
           /\ \A k \in 1 .. Len(evs) : Tells(evs)[k] = Tell(evs[k])
           /\ Notified(Tells(evs)) = evs
<1>1. PICK n \in Nat : n = Len(evs) /\ DOMAIN evs = 1 .. n /\ \A k \in 1 .. n : evs[k] \in E
  BY ONLY evs \in Seq(E)
<1>2. PICK p : p = Tells(evs)
  OBVIOUS
<1>3. p = [k \in 1 .. n |-> Tell(evs[k])]
  BY ONLY <1>1, <1>2 DEF Tells
<1>4. PICK T : T = {Tell(e) : e \in E}
  OBVIOUS
<1>5. \A k \in 1 .. n : Tell(evs[k]) \in T
  BY ONLY <1>1, <1>4
<1>6. p \in [1 .. n -> T]
  BY ONLY <1>3, <1>5
<1>7. p \in Seq(T) /\ Len(p) = n
  BY ONLY <1>6, n \in Nat, TupleSeq
<1>8. \A k \in 1 .. n : p[k] = Tell(evs[k])
  BY ONLY <1>3
<1>9. PICK h : h = Heard(p)
  OBVIOUS
<1>10. h = [k \in 1 .. n |-> <<evs[k]>>]
  <2>1. DOMAIN p = 1 .. n
    BY ONLY <1>3
  <2>2. ASSUME NEW k \in 1 .. n
        PROVE  (IF p[k].do = "notify" THEN <<p[k].event>> ELSE <<>>) = <<evs[k]>>
    <3>1. p[k] = Tell(evs[k])
      BY ONLY <1>8, k \in 1 .. n
    <3>2. p[k].do = "notify" /\ p[k].event = evs[k]
      BY ONLY <3>1, TellIs
    <3> QED
      BY ONLY <3>2
  <2>3. h = [k \in 1 .. n |-> IF p[k].do = "notify" THEN <<p[k].event>> ELSE <<>>]
    BY ONLY <2>1, <1>9 DEF Heard
  <2> QED
    BY ONLY <2>2, <2>3
<1>11. h \in [1 .. n -> [1 .. 1 -> E]] /\ \A k \in 1 .. n : h[k][1] = evs[k]
  <2>1. ASSUME NEW e \in E PROVE <<e>> \in [1 .. 1 -> E] /\ <<e>>[1] = e
    OBVIOUS
  <2> QED
    BY ONLY <2>1, <1>1, <1>10
<1>12. FlattenSeq(h) \in Seq(E) /\ Len(FlattenSeq(h)) = n /\ \A k \in 1 .. n : FlattenSeq(h)[k] = h[k][1]
  BY ONLY <1>11, n \in Nat, FlattenOnes, SMTT(20), ZenonT(40)
<1>13. FlattenSeq(h) = evs
  <2>1. PICK z : z = FlattenSeq(h)
    OBVIOUS
  <2>2. z \in Seq(E) /\ Len(z) = n /\ \A k \in 1 .. n : z[k] = evs[k]
    BY ONLY <2>1, <1>11, <1>12
  <2>3. z = evs
    BY ONLY <2>2, <1>1, evs \in Seq(E)
  <2> QED
    BY ONLY <2>1, <2>3
<1>14. Notified(p) = FlattenSeq(h)
  BY ONLY <1>9 DEF Notified, Heard
<1> QED
  BY ONLY <1>1, <1>2, <1>4, <1>7, <1>8, <1>13, <1>14

\* The first of them, and the others
LEMMA TellsHead ==
    ASSUME NEW E, NEW evs, evs \in Seq(E), evs # <<>>
    PROVE  /\ Tells(evs) # <<>> /\ Head(Tells(evs)) = Tell(evs[1]) /\ Tail(Tells(evs)) = Tells(Tail(evs))
           /\ Tail(evs) \in Seq(E) /\ Len(Tells(evs)) = Len(evs)
<1>1. PICK p : p = Tells(evs)
  OBVIOUS
<1>2. PICK T : T = {Tell(e) : e \in E}
  OBVIOUS
<1>3. p \in Seq(T) /\ Len(p) = Len(evs) /\ \A k \in 1 .. Len(evs) : p[k] = Tell(evs[k])
  BY ONLY <1>1, <1>2, evs \in Seq(E), TellsFacts
<1>4. PICK t : t = Tail(evs)
  OBVIOUS
<1>5. t \in Seq(E) /\ Len(t) = Len(evs) - 1 /\ Len(evs) \in Nat /\ Len(evs) >= 1
      /\ \A k \in 1 .. Len(evs) - 1 : t[k] = evs[k + 1]
  BY ONLY <1>4, evs \in Seq(E), evs # <<>>
<1>6. p # <<>> /\ Head(p) = Tell(evs[1])
  BY ONLY <1>3, <1>5
<1>7. PICK q : q = Tells(t)
  OBVIOUS
<1>8. q \in Seq(T) /\ Len(q) = Len(t) /\ \A k \in 1 .. Len(t) : q[k] = Tell(t[k])
  <2>1. t \in Seq(E)
    BY ONLY <1>5
  <2> QED
    BY ONLY <2>1, <1>2, <1>7, TellsFacts
<1>9. PICK r : r = Tail(p)
  OBVIOUS
<1>10. r \in Seq(T) /\ Len(r) = Len(evs) - 1 /\ \A k \in 1 .. Len(evs) - 1 : r[k] = p[k + 1]
  BY ONLY <1>3, <1>5, <1>6, <1>9
<1>11. \A k \in 1 .. Len(evs) - 1 : r[k] = q[k]
  <2> TAKE k \in 1 .. Len(evs) - 1
  <2>1. k + 1 \in 1 .. Len(evs) /\ k \in 1 .. Len(t)
    BY ONLY <1>5, k \in 1 .. Len(evs) - 1
  <2>2. r[k] = Tell(evs[k + 1])
    BY ONLY <2>1, <1>3, <1>10, k \in 1 .. Len(evs) - 1
  <2>3. q[k] = Tell(evs[k + 1])
    BY ONLY <2>1, <1>5, <1>8, k \in 1 .. Len(evs) - 1
  <2> QED
    BY ONLY <2>2, <2>3
<1>12. r = q
  BY ONLY <1>5, <1>8, <1>10, <1>11
<1> QED
  BY ONLY <1>1, <1>3, <1>4, <1>5, <1>6, <1>7, <1>9, <1>12

\* One more step in front
LEMMA HeardCons ==
    ASSUME NEW S, NEW t, t \in Seq(S), NEW x, NEW E, Notified(t) \in Seq(E), \A k \in 1 .. Len(t) : Heard(t)[k] \in Seq(E),
           x.do = "notify" => x.event \in E
    PROVE  Notified(<<x>> \o t) = (IF x.do = "notify" THEN <<x.event>> ELSE <<>>) \o Notified(t)
<1>1. PICK u : u = <<x>> \o t
  OBVIOUS
<1>2. PICK y : y = IF x.do = "notify" THEN <<x.event>> ELSE <<>>
  OBVIOUS
<1>3. y \in Seq(E)
  BY ONLY <1>2, x.do = "notify" => x.event \in E
<1>4. PICK h : h = Heard(u)
  OBVIOUS
<1>5. PICK g : g = Heard(t)
  OBVIOUS
<1>6. /\ Len(t) \in Nat /\ DOMAIN t = 1 .. Len(t) /\ DOMAIN u = 1 .. Len(t) + 1
      /\ u[1] = x /\ \A k \in 1 .. Len(t) : u[k + 1] = t[k]
  BY ONLY <1>1, t \in Seq(S), ConsAt
<1>7. g \in Seq(Seq(E)) /\ Len(g) = Len(t)
  <2>1. g = [k \in 1 .. Len(t) |-> g[k]]
    BY ONLY <1>5, <1>6 DEF Heard
  <2>2. \A k \in 1 .. Len(t) : g[k] \in Seq(E)
    BY ONLY <1>5, \A k \in 1 .. Len(t) : Heard(t)[k] \in Seq(E)
  <2>3. g \in [1 .. Len(t) -> Seq(E)]
    BY ONLY <2>1, <2>2
  <2> QED
    BY ONLY <2>3, <1>6, TupleSeq
<1>8. h = <<y>> \o g
  <2>1. PICK v : v = <<y>> \o g
    OBVIOUS
  <2>2. \E R : v \in Seq(R)
    BY ONLY <2>1, <1>7, ConsFacts
  <2>3. PICK R : v \in Seq(R)
    BY ONLY <2>2
  <2>4. DOMAIN v = 1 .. Len(t) + 1 /\ v[1] = y /\ \A k \in 1 .. Len(t) : v[k + 1] = g[k]
    <3>1. /\ DOMAIN v = 1 .. Len(g) + 1 /\ v[1] = y /\ \A k \in 1 .. Len(g) : v[k + 1] = g[k]
      BY ONLY <2>1, <1>7, ConsAt
    <3> QED
      BY ONLY <3>1, <1>7
  <2>5. v = [k \in 1 .. Len(t) + 1 |-> v[k]]
    BY ONLY <2>3, <2>4
  <2>6. h = [k \in 1 .. Len(t) + 1 |-> IF u[k].do = "notify" THEN <<u[k].event>> ELSE <<>>]
    BY ONLY <1>4, <1>6 DEF Heard
  <2>7. g = [k \in 1 .. Len(t) |-> IF t[k].do = "notify" THEN <<t[k].event>> ELSE <<>>]
    BY ONLY <1>5, <1>6 DEF Heard
  <2>8. ASSUME NEW k \in 1 .. Len(t) + 1
        PROVE  v[k] = IF u[k].do = "notify" THEN <<u[k].event>> ELSE <<>>
    <3>1. CASE k = 1
      BY ONLY <3>1, <1>2, <1>6, <2>4
    <3>2. CASE k # 1
      <4>1. k - 1 \in 1 .. Len(t) /\ (k - 1) + 1 = k
        BY ONLY <3>2, <1>6, k \in 1 .. Len(t) + 1
      <4>2. v[k] = g[k - 1] /\ u[k] = t[k - 1]
        BY ONLY <4>1, <1>6, <2>4
      <4>3. g[k - 1] = IF t[k - 1].do = "notify" THEN <<t[k - 1].event>> ELSE <<>>
        BY ONLY <4>1, <2>7
      <4> QED
        BY ONLY <4>2, <4>3
    <3> QED
      BY ONLY <3>1, <3>2
  <2> QED
    BY ONLY <2>1, <2>5, <2>6, <2>8
<1>9. h \in Seq(Seq(E)) /\ h # <<>> /\ Head(h) = y /\ Tail(h) = g
  <2>1. Head(h) = y /\ Tail(h) = g /\ h # <<>>
    BY ONLY <1>7, <1>8, ConsFacts
  <2>2. <<y>> \in Seq(Seq(E))
    BY ONLY <1>3
  <2>3. h \in Seq(Seq(E))
    <3>1. g \in Seq(Seq(E))
      BY ONLY <1>7
    <3>2. <<y>> \o g \in Seq(Seq(E))
      BY ONLY <2>2, <3>1, ConcatFacts, Zenon
    <3> QED
      BY ONLY <3>2, <1>8
  <2> QED
    BY ONLY <2>1, <2>3
<1>10. FlattenSeq(h) = y \o FlattenSeq(g)
  <2>1. FlattenSeq(h) = Head(h) \o FlattenSeq(Tail(h))
    BY ONLY <1>9, FlattenHead
  <2> QED
    BY ONLY <2>1, <1>9
<1>11. Notified(u) = FlattenSeq(h)
  BY ONLY <1>4 DEF Notified, Heard
<1>12. Notified(t) = FlattenSeq(g)
  BY ONLY <1>5 DEF Notified, Heard
<1> QED
  BY ONLY <1>1, <1>2, <1>10, <1>11, <1>12

\* What Dispatch may do, with these events
Steps(E) == {Tell(e) : e \in E} \cup {Tune(c) : c \in Octets}

\* A step that stores a channel
LEMMA TuneIs == ASSUME NEW c PROVE Tune(c).do = "tune" /\ Tune(c).channel = c
BY DEF Tune

\* What one step notifies is an event or nothing,
LEMMA StepHeard ==
    ASSUME NEW E, NEW x, x \in Steps(E)
    PROVE  /\ x.do \in {"tune", "notify"} /\ (x.do = "notify" => x.event \in E)
           /\ (IF x.do = "notify" THEN <<x.event>> ELSE <<>>) \in Seq(E)
<1>1. CASE x \in {Tell(e) : e \in E}
  <2>1. PICK e \in E : x = Tell(e)
    BY ONLY <1>1
  <2>2. x.do = "notify" /\ x.event = e
    BY ONLY <2>1, TellIs
  <2> QED
    BY ONLY <2>2, e \in E
<1>2. CASE x \in {Tune(c) : c \in Octets}
  <2>1. PICK c \in Octets : x = Tune(c)
    BY ONLY <1>2
  <2>2. x.do = "tune"
    BY ONLY <2>1, TuneIs
  <2> QED
    BY ONLY <2>2
<1> QED
  BY ONLY <1>1, <1>2, x \in Steps(E) DEF Steps

\* and what steps notify are events.
LEMMA StepsHeard ==
    ASSUME NEW E, NEW t, t \in Seq(Steps(E))
    PROVE  (\A k \in 1 .. Len(t) : Heard(t)[k] \in Seq(E)) /\ Notified(t) \in Seq(E)
<1>1. PICK n \in Nat : n = Len(t) /\ DOMAIN t = 1 .. n /\ \A k \in 1 .. n : t[k] \in Steps(E)
  BY ONLY t \in Seq(Steps(E))
<1>2. PICK h : h = Heard(t)
  OBVIOUS
<1>3. h = [k \in 1 .. n |-> IF t[k].do = "notify" THEN <<t[k].event>> ELSE <<>>]
  BY ONLY <1>1, <1>2 DEF Heard
<1>4. ASSUME NEW k \in 1 .. n PROVE (IF t[k].do = "notify" THEN <<t[k].event>> ELSE <<>>) \in Seq(E)
  BY ONLY <1>1, k \in 1 .. n, StepHeard
<1>5. h \in [1 .. n -> Seq(E)]
  BY ONLY <1>3, <1>4
<1>6. h \in Seq(Seq(E))
  BY ONLY <1>5, n \in Nat, TupleSeq
<1>7. <<>> \in Seq(E)
  OBVIOUS
<1>8. FlattenSeq(h) \in Seq(E)
  BY ONLY <1>6, <1>7, FlattenAppend
<1>9. Notified(t) = FlattenSeq(h)
  BY ONLY <1>2 DEF Notified, Heard
<1> QED
  BY ONLY <1>1, <1>2, <1>5, <1>8, <1>9

\* A step that notifies, in front of others
LEMMA NotifiedTell ==
    ASSUME NEW E, NEW t, t \in Seq(Steps(E)), NEW e, e \in E
    PROVE  Notified(<<Tell(e)>> \o t) = <<e>> \o Notified(t) /\ <<Tell(e)>> \o t \in Seq(Steps(E))
<1>1. (\A k \in 1 .. Len(t) : Heard(t)[k] \in Seq(E)) /\ Notified(t) \in Seq(E)
  BY ONLY t \in Seq(Steps(E)), StepsHeard
<1>2. PICK x : x = Tell(e)
  OBVIOUS
<1>3. x.do = "notify" /\ x.event = e /\ x \in Steps(E)
  BY ONLY <1>2, e \in E, TellIs DEF Steps
<1>4. Notified(<<x>> \o t) = (IF x.do = "notify" THEN <<x.event>> ELSE <<>>) \o Notified(t)
  <2>1. x.do = "notify" => x.event \in E
    BY ONLY <1>3, e \in E
  <2> QED
    BY ONLY <2>1, <1>1, t \in Seq(Steps(E)), HeardCons
<1>5. <<x>> \o t \in Seq(Steps(E))
  <2>1. <<x>> \in Seq(Steps(E))
    BY ONLY <1>3
  <2> QED
    BY ONLY <2>1, t \in Seq(Steps(E)), ConcatFacts, Zenon
<1>6. Notified(<<x>> \o t) = <<e>> \o Notified(t)
  BY ONLY <1>3, <1>4
<1> QED
  BY ONLY <1>2, <1>5, <1>6

\* A step that does not
LEMMA NotifiedTune ==
    ASSUME NEW E, NEW t, t \in Seq(Steps(E)), NEW c, c \in Octets
    PROVE  Notified(<<Tune(c)>> \o t) = Notified(t) /\ <<Tune(c)>> \o t \in Seq(Steps(E))
<1>1. (\A k \in 1 .. Len(t) : Heard(t)[k] \in Seq(E)) /\ Notified(t) \in Seq(E)
  BY ONLY t \in Seq(Steps(E)), StepsHeard
<1>2. PICK x : x = Tune(c)
  OBVIOUS
<1>3. x.do # "notify" /\ x \in Steps(E)
  BY ONLY <1>2, c \in Octets, TuneIs DEF Steps
<1>4. Notified(<<x>> \o t) = (IF x.do = "notify" THEN <<x.event>> ELSE <<>>) \o Notified(t)
  <2>1. x.do = "notify" => x.event \in E
    BY ONLY <1>3
  <2> QED
    BY ONLY <2>1, <1>1, t \in Seq(Steps(E)), HeardCons
<1>5. <<x>> \o t \in Seq(Steps(E))
  <2>1. <<x>> \in Seq(Steps(E))
    BY ONLY <1>3
  <2> QED
    BY ONLY <2>1, t \in Seq(Steps(E)), ConcatFacts, Zenon
<1>6. Notified(<<x>> \o t) = <<>> \o Notified(t)
  BY ONLY <1>3, <1>4
<1>7. <<>> \o Notified(t) = Notified(t)
  BY ONLY <1>1
<1> QED
  BY ONLY <1>2, <1>5, <1>6, <1>7

\* Events, notified one after the other
LEMMA TellsAreSteps ==
    ASSUME NEW E, NEW evs, evs \in Seq(E)
    PROVE  Tells(evs) \in Seq(Steps(E)) /\ Notified(Tells(evs)) = evs
<1>1. PICK T : T = {Tell(e) : e \in E}
  OBVIOUS
<1>2. Tells(evs) \in Seq(T) /\ Notified(Tells(evs)) = evs
  BY ONLY <1>1, evs \in Seq(E), TellsFacts
<1>3. T \subseteq Steps(E)
  BY ONLY <1>1 DEF Steps
<1>4. ASSUME NEW s, s \in Seq(T) PROVE s \in Seq(Steps(E))
  BY ONLY <1>3, <1>4
<1> QED
  BY ONLY <1>2, <1>4

\* Events, behind the storing of a channel
LEMMA TuneAndTellFacts ==
    ASSUME NEW E, NEW evs, evs \in Seq(E), NEW c, c \in Octets
    PROVE  /\ TuneAndTell(c, evs) = <<Tune(c)>> \o Tells(evs)
           /\ TuneAndTell(c, evs) \in Seq(Steps(E)) /\ Notified(TuneAndTell(c, evs)) = evs
           /\ TuneAndTell(c, evs) # <<>> /\ Head(TuneAndTell(c, evs)) = Tune(c)
           /\ Tail(TuneAndTell(c, evs)) = Tells(evs)
<1>1. PICK p : p = TuneAndTell(c, evs)
  OBVIOUS
<1>2. PICK t : t = Tells(evs)
  OBVIOUS
<1>3. p = <<Tune(c)>> \o t
  BY ONLY <1>1, <1>2 DEF TuneAndTell, Tells
<1>4. t \in Seq(Steps(E)) /\ Notified(t) = evs
  BY ONLY <1>2, evs \in Seq(E), TellsAreSteps
<1>5. p \in Seq(Steps(E)) /\ Notified(p) = evs
  <2>1. Notified(<<Tune(c)>> \o t) = Notified(t) /\ <<Tune(c)>> \o t \in Seq(Steps(E))
    BY ONLY <1>4, c \in Octets, NotifiedTune
  <2> QED
    BY ONLY <2>1, <1>3, <1>4
<1>6. Head(p) = Tune(c) /\ Tail(p) = t /\ p # <<>>
  BY ONLY <1>3, <1>4, ConsFacts
<1> QED
  BY ONLY <1>1, <1>2, <1>3, <1>5, <1>6

-----------------------------------------------------------------------------
(* The shapes of what Dispatch does: it tells events that are of no        *)
(* channel; or it stores a channel and then tells of that channel first;   *)
(* or it does so behind the result of a request.                           *)

\* The clients are not told of another channel.
Quiet(e, k) == e.type # "CHANNEL" /\ ~ (e.type = "CHANNELINFO" /\ k = MSG_SET_RESP)

AllQuiet(evs, k) == \A j \in 1 .. Len(evs) : Quiet(evs[j], k)

\* They are, by the first event.
Announces(evs, k, c) ==
    /\ evs # <<>> /\ ~ Quiet(evs[1], k) /\ evs[1].fields[1] = <<c>>
    /\ \A j \in 2 .. Len(evs) : Quiet(evs[j], k)

\* What Dispatch does for these events, in a message of kind k
Silent(p, evs, k) == p = Tells(evs) /\ AllQuiet(evs, k)

Tuning(p, evs, k, c) == p = TuneAndTell(c, evs) /\ Announces(evs, k, c)

Answering(E, p, evs, k, c) ==
    \E e \in E, rest \in Seq(E) :
        evs = <<e>> \o rest /\ Quiet(e, k) /\ p = <<Tell(e)>> \o TuneAndTell(c, rest) /\ Announces(rest, k, c)

Shaped(p, evs, k) ==
    \E E : /\ evs \in Seq(E)
           /\ \/ Silent(p, evs, k)
              \/ \E c \in Octets : Tuning(p, evs, k, c) \/ Answering(E, p, evs, k, c)

\* Of every shape, what is notified are the events.
LEMMA ShapedNotified ==
    ASSUME NEW p, NEW evs, NEW k, Shaped(p, evs, k)
    PROVE  Notified(p) = evs /\ \E E : p \in Seq(Steps(E))
<1>1. PICK E : /\ evs \in Seq(E)
               /\ \/ Silent(p, evs, k)
                  \/ \E c \in Octets : Tuning(p, evs, k, c) \/ Answering(E, p, evs, k, c)
  BY DEF Shaped
<1>2. CASE Silent(p, evs, k)
  <2>1. p = Tells(evs)
    BY ONLY <1>2 DEF Silent
  <2>2. p \in Seq(Steps(E)) /\ Notified(p) = evs
    BY ONLY <1>1, <2>1, TellsAreSteps
  <2> QED
    BY ONLY <2>2
<1>3. ASSUME NEW c \in Octets, Tuning(p, evs, k, c) PROVE p \in Seq(Steps(E)) /\ Notified(p) = evs
  <2>1. p = TuneAndTell(c, evs)
    BY ONLY <1>3 DEF Tuning
  <2> QED
    BY ONLY <1>1, <2>1, c \in Octets, TuneAndTellFacts
<1>4. ASSUME NEW c \in Octets, Answering(E, p, evs, k, c) PROVE p \in Seq(Steps(E)) /\ Notified(p) = evs
  <2>1. PICK e \in E, rest \in Seq(E) : evs = <<e>> \o rest /\ p = <<Tell(e)>> \o TuneAndTell(c, rest)
    BY ONLY <1>4 DEF Answering
  <2>2. PICK t : t = TuneAndTell(c, rest)
    OBVIOUS
  <2>3. t \in Seq(Steps(E)) /\ Notified(t) = rest
    BY ONLY <2>2, c \in Octets, rest \in Seq(E), TuneAndTellFacts
  <2>4. Notified(<<Tell(e)>> \o t) = <<e>> \o Notified(t) /\ <<Tell(e)>> \o t \in Seq(Steps(E))
    BY ONLY <2>3, e \in E, NotifiedTell
  <2> QED
    BY ONLY <2>1, <2>2, <2>3, <2>4
<1> QED
  BY ONLY <1>1, <1>2, <1>3, <1>4

\* One more event in front
LEMMA TellsCons ==
    ASSUME NEW E, NEW rest, rest \in Seq(E), NEW e, e \in E
    PROVE  <<Tell(e)>> \o Tells(rest) = Tells(<<e>> \o rest) /\ <<e>> \o rest \in Seq(E)
<1>1. PICK evs : evs = <<e>> \o rest
  OBVIOUS
<1>2. evs \in Seq(E)
  <2>1. <<e>> \in Seq(E)
    BY ONLY e \in E
  <2> QED
    BY ONLY <1>1, <2>1, rest \in Seq(E), ConcatFacts, Zenon
<1>3. PICK t : t = Tells(rest)
  OBVIOUS
<1>4. PICK T : T = {Tell(x) : x \in E}
  OBVIOUS
<1>5. t \in Seq(T) /\ Len(t) = Len(rest) /\ \A k \in 1 .. Len(rest) : t[k] = Tell(rest[k])
  BY ONLY <1>3, <1>4, rest \in Seq(E), TellsFacts
<1>6. PICK u : u = <<Tell(e)>> \o t
  OBVIOUS
<1>7. /\ Len(t) \in Nat /\ DOMAIN u = 1 .. Len(t) + 1 /\ u[1] = Tell(e)
      /\ \A k \in 1 .. Len(t) : u[k + 1] = t[k]
  BY ONLY <1>5, <1>6, ConsAt
<1>8. /\ DOMAIN evs = 1 .. Len(rest) + 1 /\ evs[1] = e
      /\ \A k \in 1 .. Len(rest) : evs[k + 1] = rest[k]
  BY ONLY <1>1, rest \in Seq(E), ConsAt
<1>9. PICK w : w = Tells(evs)
  OBVIOUS
<1>10. w = [k \in 1 .. Len(rest) + 1 |-> Tell(evs[k])]
  BY ONLY <1>8, <1>9 DEF Tells
<1>11. \E R : u \in Seq(R)
  BY ONLY <1>5, <1>6, ConsFacts
<1>12. u = [k \in 1 .. Len(rest) + 1 |-> u[k]]
  BY ONLY <1>5, <1>7, <1>11
<1>13. ASSUME NEW k \in 1 .. Len(rest) + 1 PROVE u[k] = Tell(evs[k])
  <2>1. CASE k = 1
    BY ONLY <2>1, <1>7, <1>8
  <2>2. CASE k # 1
    <3>1. k - 1 \in 1 .. Len(rest) /\ (k - 1) + 1 = k /\ k - 1 \in 1 .. Len(t)
      BY ONLY <2>2, <1>5, <1>7, k \in 1 .. Len(rest) + 1
    <3>2. u[k] = t[k - 1] /\ evs[k] = rest[k - 1]
      BY ONLY <3>1, <1>7, <1>8
    <3> QED
      BY ONLY <3>1, <3>2, <1>5
  <2> QED
    BY ONLY <2>1, <2>2
<1>14. u = w
  BY ONLY <1>10, <1>12, <1>13
<1> QED
  BY ONLY <1>1, <1>2, <1>3, <1>6, <1>9, <1>14

LEMMA OneTell == ASSUME NEW e PROVE <<Tell(e)>> = Tells(<<e>>) /\ <<e>> \in Seq({e}) /\ Len(<<e>>) = 1 /\ <<e>>[1] = e
BY DEF Tells

\* The parts of an event
LEMMA EventIs == ASSUME NEW type, NEW f PROVE Event(type, f).type = type /\ Event(type, f).fields = f
BY DEF Event

\* What Dispatch does with what the radio says by itself has one of the
\* shapes.
LEMMA AsyncShaped ==
    ASSUME NEW r, r.type \in AsyncTypes, r.fields \in Fields(r.type)
    PROVE  Shaped(Dispatch(Async(r).data), Async(r).events, Async(r).data[1])
<1>1. PICK d : d = Async(r).data
  OBVIOUS
<1>2. PICK type : type = r.type
  OBVIOUS
<1>3. PICK f : f = r.fields
  OBVIOUS
<1>4. Framed(d, 128, AsyncHeader(type), Encode(type, f)) /\ type \in AsyncTypes /\ f \in Fields(type)
  BY ONLY <1>1, <1>2, <1>3, r.type \in AsyncTypes, r.fields \in Fields(r.type), AsyncFramed
<1>5. Dispatch(d) = Program(type, f)
  BY ONLY <1>4, AsyncTold
<1>6. d[1] = 128
  BY ONLY <1>4, FramedFacts
<1>7. PICK e : e = Event(type, f)
  OBVIOUS
<1>8. Async(r).events = <<e>>
  <2>1. Async(r).events = Meaning(type, f)
    BY ONLY <1>2, <1>3 DEF Async
  <2>2. type # "CHANNELINFO"
    BY ONLY <1>4 DEF AsyncTypes
  <2> QED
    BY ONLY <1>7, <2>1, <2>2 DEF Meaning
<1>9. e.type = type /\ e.fields = f /\ <<e>> \in Seq({e}) /\ Len(<<e>>) = 1 /\ <<e>>[1] = e
  BY ONLY <1>7, EventIs, OneTell
<1>10. CASE type = "CHANNEL"
  <2>1. PICK c : c = f[1][1]
    OBVIOUS
  <2>2. c \in Octets /\ f[1] = <<c>>
    <3>1. f \in Numbers(1)
      BY ONLY <1>4, <1>10, NumberFields
    <3>2. f[1] \in [1 .. 1 -> Octets]
      BY ONLY <3>1 DEF Numbers
    <3> QED
      BY ONLY <2>1, <3>2, OneOctet
  <2>3. Dispatch(d) = TuneAndTell(c, <<e>>)
    BY ONLY <1>5, <1>7, <1>10, <2>1 DEF Program
  <2>4. Announces(<<e>>, 128, c)
    BY ONLY <1>9, <1>10, <2>2 DEF Announces, Quiet
  <2> QED
    BY ONLY <1>1, <1>6, <1>8, <1>9, <2>2, <2>3, <2>4 DEF Shaped, Tuning
<1>11. CASE type # "CHANNEL"
  <2>1. Dispatch(d) = Tells(<<e>>)
    BY ONLY <1>5, <1>7, <1>11, OneTell DEF Program
  <2>2. AllQuiet(<<e>>, 128)
    <3>1. type # "CHANNELINFO"
      BY ONLY <1>4 DEF AsyncTypes
    <3> QED
      BY ONLY <3>1, <1>9, <1>11 DEF AllQuiet, Quiet
  <2> QED
    BY ONLY <1>1, <1>6, <1>8, <1>9, <2>1, <2>2 DEF Shaped, Silent
<1> QED
  BY ONLY <1>10, <1>11

\* So has a result alone,
LEMMA RefusedShaped ==
    ASSUME NEW p, NEW evs, NEW e, NEW k, e.type \in {"GET", "SET"}, p = <<Tell(e)>> \o <<>>, evs = <<e>> \o <<>>
    PROVE  Shaped(p, evs, k)
<1>1. <<>> \in Seq({e}) /\ e \in {e}
  OBVIOUS
<1>2. Tells(<<>>) = <<>>
  BY DEF Tells
<1>3. p = Tells(evs) /\ evs \in Seq({e})
  BY ONLY <1>1, <1>2, p = <<Tell(e)>> \o <<>>, evs = <<e>> \o <<>>, TellsCons
<1>4. Len(evs) = 1 /\ evs[1] = e
  <2>1. evs = <<e>>
    BY ONLY evs = <<e>> \o <<>>
  <2> QED
    BY ONLY <2>1
<1>5. AllQuiet(evs, k)
  BY ONLY <1>4, e.type \in {"GET", "SET"} DEF AllQuiet, Quiet
<1> QED
  BY ONLY <1>3, <1>5 DEF Shaped, Silent

\* and where there is channel information,
LEMMA ChannelEvents ==
    ASSUME NEW f, f \in Fields("CHANNELINFO")
    PROVE  \E a, b, c : /\ Meaning("CHANNELINFO", f) = <<a, b>> /\ a.type = "CHANNELINFO" /\ b.type = "SONGINFO"
                        /\ a.fields[1] = <<c>> /\ c \in Octets /\ c = f[1][1]
<1>1. PICK a : a = Event("CHANNELINFO", SubSeq(f, 1, 6))
  OBVIOUS
<1>2. PICK b : b = Event("SONGINFO", <<f[1]>> \o SubSeq(f, 7, 11))
  OBVIOUS
<1>3. Meaning("CHANNELINFO", f) = <<a, b>>
  BY ONLY <1>1, <1>2 DEF Meaning
<1>4. a.type = "CHANNELINFO" /\ b.type = "SONGINFO" /\ a.fields = SubSeq(f, 1, 6)
  BY ONLY <1>1, <1>2, EventIs
<1>5. f \in Seq(Strings) /\ Len(f) = 11 /\ f[1] \in [1 .. 1 -> Octets]
  BY ChannelShape
<1>6. SubSeq(f, 1, 6) = <<f[1], f[2], f[3], f[4], f[5], f[6]>>
  BY ONLY <1>5, FirstSix
<1>7. a.fields[1] = f[1]
  BY ONLY <1>4, <1>6
<1>8. f[1][1] \in Octets /\ f[1] = <<f[1][1]>>
  BY ONLY <1>5, OneOctet
<1>9. PICK c : c = f[1][1]
  OBVIOUS
<1> QED
  BY ONLY <1>3, <1>4, <1>7, <1>8, <1>9

\* the answer to a GET, behind its result,
LEMMA GetShaped ==
    ASSUME NEW p, NEW evs, NEW name, name \in DOMAIN SCP_GET, NEW f, f \in Fields(name),
           NEW e, e.type = "GET", p = <<Tell(e)>> \o GetProgram(name, f), evs = <<e>> \o Meaning(name, f)
    PROVE  Shaped(p, evs, 96)
<1>1. CASE name = "CHANNELINFO"
  <2>1. PICK a, b, c : /\ Meaning("CHANNELINFO", f) = <<a, b>> /\ a.type = "CHANNELINFO"
                       /\ b.type = "SONGINFO"
    BY ONLY <1>1, f \in Fields(name), ChannelEvents
  <2>2. PICK E : E = {e, a, b}
    OBVIOUS
  <2>3. <<a, b>> \in Seq(E) /\ e \in E
    BY ONLY <2>2
  <2>4. GetProgram(name, f) = Tells(<<a, b>>)
    <3>1. GetProgram(name, f) = [k \in 1 .. 2 |-> Tell(<<a, b>>[k])]
      BY ONLY <1>1, <2>1 DEF GetProgram
    <3>2. DOMAIN <<a, b>> = 1 .. 2
      OBVIOUS
    <3> QED
      BY ONLY <3>1, <3>2 DEF Tells
  <2>5. p = Tells(<<e>> \o <<a, b>>) /\ <<e>> \o <<a, b>> \in Seq(E)
    <3>1. <<Tell(e)>> \o Tells(<<a, b>>) = Tells(<<e>> \o <<a, b>>) /\ <<e>> \o <<a, b>> \in Seq(E)
      BY ONLY <2>3, TellsCons
    <3> QED
      BY ONLY <3>1, <2>4, p = <<Tell(e)>> \o GetProgram(name, f)
  <2>6. evs = <<e>> \o <<a, b>>
    BY ONLY <1>1, <2>1, evs = <<e>> \o Meaning(name, f)
  <2>7. AllQuiet(evs, 96)
    <3>1. PICK t : t = <<a, b>>
      OBVIOUS
    <3>2. t \in Seq(E) /\ Len(t) = 2 /\ t[1] = a /\ t[2] = b
      BY ONLY <3>1, <2>3
    <3>3. evs = <<e>> \o t
      BY ONLY <3>1, <2>6
    <3>4. /\ DOMAIN evs = 1 .. Len(t) + 1 /\ evs[1] = e /\ \A j \in 1 .. Len(t) : evs[j + 1] = t[j]
      BY ONLY <3>2, <3>3, ConsAt
    <3>5. evs \in Seq(E) /\ Len(evs) = 3
      BY ONLY <2>5, <2>6, <3>2, <3>4
    <3>6. evs[1 + 1] = t[1]
      BY ONLY <3>2, <3>4
    <3>7. evs[2 + 1] = t[2]
      BY ONLY <3>2, <3>4
    <3>8. evs[1] = e /\ evs[2] = a /\ evs[3] = b
      BY ONLY <3>2, <3>4, <3>6, <3>7
    <3>9. Quiet(e, 96) /\ Quiet(a, 96) /\ Quiet(b, 96)
      BY ONLY <2>1, e.type = "GET" DEF Quiet, MSG_SET_RESP
    <3>10. ASSUME NEW j \in 1 .. 3 PROVE Quiet(evs[j], 96)
      BY ONLY <3>8, <3>9, j \in 1 .. 3
    <3> QED
      BY ONLY <3>5, <3>10 DEF AllQuiet
  <2> QED
    BY ONLY <2>5, <2>6, <2>7 DEF Shaped, Silent
<1>2. CASE name # "CHANNELINFO"
  <2>1. PICK a : a = Event(name, f)
    OBVIOUS
  <2>2. evs = <<e>> \o <<a>> /\ GetProgram(name, f) = Program(name, f)
    BY ONLY <1>2, <2>1, evs = <<e>> \o Meaning(name, f) DEF Meaning, GetProgram
  <2>3. PICK E : E = {e, a}
    OBVIOUS
  <2>4. <<a>> \in Seq(E) /\ e \in E /\ a \in E /\ Len(<<a>>) = 1 /\ <<a>>[1] = a
    BY ONLY <2>3
  <2>5. a.type = name /\ a.fields = f
    BY ONLY <2>1, EventIs
  <2>6. <<e>> \o <<a>> \in Seq(E) /\ <<Tell(e)>> \o Tells(<<a>>) = Tells(<<e>> \o <<a>>)
    BY ONLY <2>4, TellsCons
  <2>7. CASE name = "CHANNEL"
    <3>1. PICK c : c = f[1][1]
      OBVIOUS
    <3>2. c \in Octets /\ f[1] = <<c>>
      <4>1. f \in Numbers(1)
        BY ONLY <2>7, f \in Fields(name), NumberFields
      <4>2. f[1] \in [1 .. 1 -> Octets]
        BY ONLY <4>1 DEF Numbers
      <4> QED
        BY ONLY <3>1, <4>2, OneOctet
    <3>3. p = <<Tell(e)>> \o TuneAndTell(c, <<a>>)
      BY ONLY <2>1, <2>2, <2>7, <3>1, p = <<Tell(e)>> \o GetProgram(name, f) DEF Program
    <3>4. Announces(<<a>>, 96, c)
      BY ONLY <2>4, <2>5, <2>7, <3>2 DEF Announces, Quiet
    <3>5. Quiet(e, 96)
      BY ONLY e.type = "GET" DEF Quiet
    <3>6. Answering(E, p, evs, 96, c)
      BY ONLY <2>2, <2>4, <3>3, <3>4, <3>5 DEF Answering
    <3> QED
      BY ONLY <2>2, <2>6, <3>2, <3>6 DEF Shaped
  <2>8. CASE name # "CHANNEL"
    <3>1. p = Tells(evs)
      BY ONLY <2>1, <2>2, <2>6, <2>8, OneTell, p = <<Tell(e)>> \o GetProgram(name, f) DEF Program
    <3>2. AllQuiet(evs, 96)
      <4>1. PICK t : t = <<a>>
        OBVIOUS
      <4>2. t \in Seq(E) /\ Len(t) = 1 /\ t[1] = a
        BY ONLY <4>1, <2>4
      <4>3. evs = <<e>> \o t
        BY ONLY <4>1, <2>2
      <4>4. /\ DOMAIN evs = 1 .. Len(t) + 1 /\ evs[1] = e /\ \A j \in 1 .. Len(t) : evs[j + 1] = t[j]
        BY ONLY <4>2, <4>3, ConsAt
      <4>5. evs \in Seq(E) /\ Len(evs) = 2
        BY ONLY <2>2, <2>6, <4>2, <4>4
      <4>6. evs[1 + 1] = t[1]
        BY ONLY <4>2, <4>4
      <4>7. evs[1] = e /\ evs[2] = a
        BY ONLY <4>2, <4>4, <4>6
      <4>8. Quiet(e, 96) /\ Quiet(a, 96)
        BY ONLY <1>2, <2>5, <2>8, e.type = "GET" DEF Quiet
      <4>9. ASSUME NEW j \in 1 .. 2 PROVE Quiet(evs[j], 96)
        BY ONLY <4>7, <4>8, j \in 1 .. 2
      <4> QED
        BY ONLY <4>5, <4>9 DEF AllQuiet
    <3> QED
      BY ONLY <2>2, <2>6, <3>1, <3>2 DEF Shaped, Silent
  <2> QED
    BY ONLY <2>7, <2>8
<1> QED
  BY ONLY <1>1, <1>2

\* and that to a SET of the channel.
LEMMA SetShaped ==
    ASSUME NEW p, NEW evs, NEW f, f \in Fields("CHANNELINFO"), NEW e, e.type = "SET",
           p = <<Tell(e)>> \o TuneAndTell(f[1][1], Meaning("CHANNELINFO", f)),
           evs = <<e>> \o Meaning("CHANNELINFO", f)
    PROVE  Shaped(p, evs, 32)
<1>1. PICK a, b, c : /\ Meaning("CHANNELINFO", f) = <<a, b>> /\ a.type = "CHANNELINFO" /\ b.type = "SONGINFO"
                     /\ a.fields[1] = <<c>> /\ c \in Octets /\ c = f[1][1]
  BY ONLY f \in Fields("CHANNELINFO"), ChannelEvents
<1>2. PICK E : E = {e, a, b}
  OBVIOUS
<1>3. PICK t : t = <<a, b>>
  OBVIOUS
<1>4. t \in Seq(E) /\ e \in E /\ Len(t) = 2 /\ t[1] = a /\ t[2] = b /\ t # <<>>
  BY ONLY <1>2, <1>3
<1>5. evs = <<e>> \o t /\ p = <<Tell(e)>> \o TuneAndTell(c, t)
  BY ONLY <1>1, <1>3, p = <<Tell(e)>> \o TuneAndTell(f[1][1], Meaning("CHANNELINFO", f)),
           evs = <<e>> \o Meaning("CHANNELINFO", f)
<1>6. Announces(t, 32, c)
  <2>1. ~ Quiet(a, 32) /\ Quiet(b, 32)
    BY ONLY <1>1 DEF Quiet, MSG_SET_RESP
  <2>2. ASSUME NEW j \in 2 .. 2 PROVE Quiet(t[j], 32)
    BY ONLY <2>1, <1>4, j \in 2 .. 2
  <2> QED
    BY ONLY <2>1, <2>2, <1>1, <1>4 DEF Announces
<1>7. Quiet(e, 32)
  BY ONLY e.type = "SET" DEF Quiet
<1>8. Answering(E, p, evs, 32, c)
  BY ONLY <1>4, <1>5, <1>6, <1>7 DEF Answering
<1>9. evs \in Seq(E)
  BY ONLY <1>4, <1>5, TellsCons
<1> QED
  BY ONLY <1>1, <1>8, <1>9 DEF Shaped

-----------------------------------------------------------------------------
(* What the radio answers to a SET.                                        *)

\* What the answer to a SET comes to
SetProgram(f) == TuneAndTell(f[1][1], Meaning("CHANNELINFO", f))

\* DispatchSetResponse tells the result, then stores the channel it was
\* answered and tells of it.
LEMMA SetResult ==
    ASSUME NEW d, NEW c, c \in {0, 1}, Octet(d, 0) = 32, Octet(d, 2) = 0, Octet(d, 3) = c
    PROVE  Dispatch(d) =
             <<Tell(Event("SET", <<<<c>>>>))>> \o
             (IF c = 0 /\ Octet(d, 1) = 10 /\ Len(d) > 4
                THEN TuneAndTell(Octet(d, 4), ChannelAndSong(d, 4)) ELSE <<>>)
<1>1. Result(d) = c
  BY ONLY c \in {0, 1}, Octet(d, 2) = 0, Octet(d, 3) = c DEF Result
<1>2. Dispatch(d) = DispatchSetResponse(d)
  BY ONLY Octet(d, 0) = 32, DispatchesSet
<1>3. DispatchSetResponse(d) =
        <<Tell(Event("SET", <<<<Result(d)>>>>))>> \o
        (IF Result(d) = 0 /\ Octet(d, 1) = 10 /\ Len(d) > 4
           THEN TuneAndTell(Octet(d, 4), ChannelAndSong(d, 4)) ELSE <<>>)
  BY ONLY Codes DEF DispatchSetResponse
<1> QED
  BY ONLY <1>1, <1>2, <1>3

\* Channel information is never empty.
LEMMA ChannelNotEmpty ==
    ASSUME NEW f, f \in Fields("CHANNELINFO")
    PROVE  Len(Encode("CHANNELINFO", f)) > 0
<1>1. PICK c : c = ChannelOf(f)
  OBVIOUS
<1>2. ChannelParts(c) /\ Encode("CHANNELINFO", f) = JoinChannel(c)
  BY ONLY <1>1, f \in Fields("CHANNELINFO"), ChannelEncoded
<1>3. JoinChannel(c) \in Seq(Octets) /\ Len(JoinChannel(c)) = ChannelUsed(c) + Len(c.e)
  BY ONLY <1>2, ChannelLength
<1>4. Len(c.e) \in Nat
  BY ONLY <1>2 DEF ChannelParts
<1>5. c.s \in Strings /\ c.l \in Strings /\ c.sg \in Strings /\ c.lg \in Strings
  BY ONLY <1>2 DEF ChannelParts
<1>6. Len(c.s) \in Nat /\ Len(c.l) \in Nat /\ Len(c.sg) \in Nat /\ Len(c.lg) \in Nat
  BY ONLY <1>5, PascalTyped
<1>7. PICK n1, n2, n3, n4, n5 : n1 = Len(c.s) /\ n2 = Len(c.l) /\ n3 = Len(c.sg) /\ n4 = Len(c.lg) /\ n5 = Len(c.e)
  OBVIOUS
<1>8. Len(JoinChannel(c)) = (5 + (n1 + 1) + (n2 + 1) + (n3 + 1) + (n4 + 1)) + n5
  BY ONLY <1>3, <1>7 DEF ChannelUsed
<1>9. n1 \in Nat /\ n2 \in Nat /\ n3 \in Nat /\ n4 \in Nat /\ n5 \in Nat
  BY ONLY <1>4, <1>6, <1>7
<1>10. Len(JoinChannel(c)) > 0
  BY ONLY <1>8, <1>9
<1> QED
  BY ONLY <1>2, <1>10

\* The answer to a SET of the channel, told behind its result
LEMMA SetTold ==
    ASSUME NEW d, NEW f, f \in Fields("CHANNELINFO"), d = <<32, 10, 0, 0>> \o Encode("CHANNELINFO", f)
    PROVE  Dispatch(d) = <<Tell(Event("SET", <<<<0>>>>))>> \o SetProgram(f)
<1>1. 32 \in Octets /\ 0 \in Octets /\ 10 \in Octets
  BY DEF Octets
<1>2. PICK e : e = Encode("CHANNELINFO", f)
  OBVIOUS
<1>3. e \in Seq(Octets)
  <2>1. "CHANNELINFO" \in AsyncTypes \cup DOMAIN SCP_GET
    BY ONLY SimpleAre
  <2> QED
    BY ONLY <1>2, <2>1, f \in Fields("CHANNELINFO"), EncodeTyped
<1>4. /\ At(d, 4, e) /\ Len(d) = 4 + Len(e) /\ Len(e) \in Nat
      /\ Octet(d, 0) = 32 /\ Octet(d, 1) = 10 /\ Octet(d, 2) = 0 /\ Octet(d, 3) = 0
  <2>1. PICK a, b, c : a = 32 /\ b = 10 /\ c = 0
    OBVIOUS
  <2>2. Answered(d, a, b, c, e)
    BY ONLY <2>1, <1>1, <1>2, <1>3, d = <<32, 10, 0, 0>> \o Encode("CHANNELINFO", f) DEF Answered
  <2>3. /\ At(d, 4, e) /\ Len(d) = 4 + Len(e) /\ Len(e) \in Nat
        /\ Octet(d, 0) = a /\ Octet(d, 1) = b /\ Octet(d, 2) = 0 /\ Octet(d, 3) = c
    BY ONLY <2>2, AnswerFacts
  <2> QED
    BY ONLY <2>1, <2>3
<1>5. Len(d) > 4
  <2>1. Len(e) > 0
    BY ONLY <1>2, f \in Fields("CHANNELINFO"), ChannelNotEmpty
  <2> QED
    BY ONLY <1>4, <2>1
<1>6. Dispatch(d) = <<Tell(Event("SET", <<<<0>>>>))>> \o TuneAndTell(Octet(d, 4), ChannelAndSong(d, 4))
  <2>1. PICK c : c = 0
    OBVIOUS
  <2>2. c \in {0, 1} /\ Octet(d, 3) = c
    BY ONLY <2>1, <1>4
  <2>3. Dispatch(d) =
             <<Tell(Event("SET", <<<<c>>>>))>> \o
             (IF c = 0 /\ Octet(d, 1) = 10 /\ Len(d) > 4
                THEN TuneAndTell(Octet(d, 4), ChannelAndSong(d, 4)) ELSE <<>>)
    BY ONLY <2>2, <1>4, SetResult
  <2> QED
    BY ONLY <2>1, <2>3, <1>4, <1>5
<1>7. Octet(d, 4) = f[1][1] /\ ChannelAndSong(d, 4) = Meaning("CHANNELINFO", f)
  <2>1. PICK at : at = 4
    OBVIOUS
  <2>2. at \in 0 .. 10 /\ At(d, at, Encode("CHANNELINFO", f)) /\ Len(d) = at + Len(Encode("CHANNELINFO", f))
    BY ONLY <2>1, <1>2, <1>4
  <2>3. d \in Seq(Octets) /\ Holds(d, at, Encode("CHANNELINFO", f))
    BY ONLY <2>2, AtLen
  <2>4. Octet(d, at) = f[1][1] /\ ChannelAndSong(d, at) = Meaning("CHANNELINFO", f)
    BY ONLY <2>2, <2>3, f \in Fields("CHANNELINFO"), ChannelTold
  <2> QED
    BY ONLY <2>1, <2>4
<1> QED
  BY ONLY <1>6, <1>7 DEF SetProgram

\* The channel, as a field
LEMMA OneString ==
    ASSUME NEW c, c \in Octets
    PROVE  <<c>> \in [1 .. 1 -> Octets] /\ <<c>> \in Strings /\ <<c>>[1] = c
<1>1. <<c>> \in Seq(Octets) /\ Len(<<c>>) = 1 /\ <<c>> \in [1 .. 1 -> Octets] /\ <<c>>[1] = c
  BY ONLY c \in Octets
<1> QED
  BY ONLY <1>1 DEF Strings

\* Fields, with another channel
LEMMA AboutIs ==
    ASSUME NEW n \in Nat, NEW S, NEW f, f \in [1 .. n -> S], NEW x, x \in S, n > 0
    PROVE  /\ [f EXCEPT ![1] = x] \in [1 .. n -> S] /\ [f EXCEPT ![1] = x][1] = x
           /\ \A k \in 2 .. n : [f EXCEPT ![1] = x][k] = f[k]
BY ONLY n \in Nat, f \in [1 .. n -> S], x \in S, n > 0

\* An answer about a channel is one as the radio may send it.
LEMMA AboutTyped ==
    ASSUME NEW name, name \in {"CHANNELINFO", "SONGINFO"}, NEW f, f \in Fields(name), NEW c, c \in Octets
    PROVE  AboutChannel(f, c) \in Fields(name)
<1>1. PICK x : x = <<c>>
  OBVIOUS
<1>2. x \in [1 .. 1 -> Octets] /\ x \in Strings
  BY ONLY <1>1, c \in Octets, OneString
<1>3. PICK g : g = [f EXCEPT ![1] = x]
  OBVIOUS
<1>4. AboutChannel(f, c) = g
  BY ONLY <1>1, <1>3 DEF AboutChannel
<1>5. CASE name = "CHANNELINFO"
  <2>1. f \in [1 .. 11 -> Strings] /\ \A k \in 1 .. 2 : f[k] \in [1 .. 1 -> Octets]
    BY ONLY <1>5, f \in Fields(name), ChannelFields
  <2>2. PICK n : n = 11
    OBVIOUS
  <2>3. g \in [1 .. n -> Strings] /\ g[1] = x /\ \A k \in 2 .. n : g[k] = f[k]
    <3>1. n \in Nat /\ f \in [1 .. n -> Strings] /\ n > 0
      BY ONLY <2>1, <2>2
    <3>2. /\ [f EXCEPT ![1] = x] \in [1 .. n -> Strings] /\ [f EXCEPT ![1] = x][1] = x
          /\ \A k \in 2 .. n : [f EXCEPT ![1] = x][k] = f[k]
      BY ONLY <1>2, <3>1, AboutIs
    <3> QED
      BY ONLY <1>3, <3>2
  <2>4. ASSUME NEW k \in 1 .. 2 PROVE g[k] \in [1 .. 1 -> Octets]
    <3>1. CASE k = 1
      BY ONLY <3>1, <1>2, <2>3
    <3>2. CASE k # 1
      <4>1. k \in 2 .. n
        BY ONLY <3>2, <2>2, k \in 1 .. 2
      <4> QED
        BY ONLY <4>1, <2>1, <2>3, k \in 1 .. 2
    <3> QED
      BY ONLY <3>1, <3>2
  <2>5. g \in [1 .. 11 -> Strings]
    BY ONLY <2>2, <2>3
  <2> QED
    BY ONLY <1>4, <1>5, <2>4, <2>5, ChannelFields
<1>6. CASE name = "SONGINFO"
  <2>1. f \in [1 .. 6 -> Strings]
    BY ONLY <1>6, f \in Fields(name), SongInfoFields
  <2>2. PICK n : n = 6
    OBVIOUS
  <2>3. g \in [1 .. n -> Strings] /\ g[1] = x
    <3>1. n \in Nat /\ f \in [1 .. n -> Strings] /\ n > 0
      BY ONLY <2>1, <2>2
    <3>2. [f EXCEPT ![1] = x] \in [1 .. n -> Strings] /\ [f EXCEPT ![1] = x][1] = x
      BY ONLY <1>2, <3>1, AboutIs
    <3> QED
      BY ONLY <1>3, <3>2
  <2>4. g \in [1 .. 6 -> Strings] /\ g[1] \in [1 .. 1 -> Octets]
    BY ONLY <1>2, <2>2, <2>3
  <2> QED
    BY ONLY <1>4, <1>6, <2>4, SongInfoFields
<1> QED
  BY ONLY <1>5, <1>6, name \in {"CHANNELINFO", "SONGINFO"}

-----------------------------------------------------------------------------
(* Requests, and the shape of every answer to one.                         *)

\* Requests that the radio has an answer to, as CSirCon composes them
Asks(req) ==
    /\ req[1] = 64
    /\ \E name \in DOMAIN SCP_GET :
          req[2] = SCP_GET[name] /\ (name \in {"CHANNELINFO", "SONGINFO"} => req[3] \in Octets)

Sets(req) == req[1] = 0 /\ req[2] \in Octets /\ (req[2] = 10 => req[3] \in Octets)

Asked(req) == Asks(req) \/ Sets(req)

\* The answers of the radio, with an event and without
LEMMA AnswerIs ==
    /\ \A a, c, b, t, f : t # "NONE" =>
          Answer(a, c, b, t, f) =
             [data |-> <<a, b, 0, c>> \o Encode(t, f),
              events |-> <<Event(IF a = 96 THEN "GET" ELSE "SET", <<<<c>>>>)>> \o Meaning(t, f)]
    /\ \A a, c, b, f :
          Answer(a, c, b, "NONE", f) =
             [data |-> <<a, b, 0, c>> \o <<>>,
              events |-> <<Event(IF a = 96 THEN "GET" ELSE "SET", <<<<c>>>>)>> \o <<>>]
BY ONLY DEF Answer, MSG_GET_RESP

\* An answer with an event in it, and its parts
IsAnswer(m, a, c, b, t, f) == m = Answer(a, c, b, t, f) /\ t # "NONE"

Says(m, a, c, b, t, f, kd) ==
    /\ m.data = <<a, b, 0, c>> \o Encode(t, f)
    /\ m.events = <<Event(kd, <<<<c>>>>)>> \o Meaning(t, f)

\* A GET is answered by a GET, a SET by a SET.
LEMMA AnswerParts ==
    ASSUME NEW a, NEW c, NEW b, NEW t, NEW f, NEW m, IsAnswer(m, a, c, b, t, f)
    PROVE  /\ a = 96 => Says(m, a, c, b, t, f, "GET")
           /\ a # 96 => Says(m, a, c, b, t, f, "SET")
<1>1. PICK x, y : x = <<a, b, 0, c>> \o Encode(t, f)
                  /\ y = <<Event(IF a = 96 THEN "GET" ELSE "SET", <<<<c>>>>)>> \o Meaning(t, f)
  OBVIOUS
<1>2. m = [data |-> x, events |-> y]
  BY ONLY <1>1, IsAnswer(m, a, c, b, t, f) DEF IsAnswer, Answer, MSG_GET_RESP
<1>3. m.data = x /\ m.events = y
  BY ONLY <1>2
<1> QED
  BY ONLY <1>1, <1>3 DEF Says

\* An answer without an event
LEMMA BareAnswer ==
    ASSUME NEW a, a \in Octets, NEW b, b \in Octets, NEW c, c \in Octets, NEW d, d = <<a, b, 0, c>> \o <<>>
    PROVE  /\ Octet(d, 0) = a /\ Octet(d, 1) = b /\ Octet(d, 2) = 0 /\ Octet(d, 3) = c
           /\ d[1] = a /\ Len(d) = 4
<1>1. PICK e : e = <<>>
  OBVIOUS
<1>2. e \in Seq(Octets) /\ Len(e) = 0
  BY ONLY <1>1
<1>3. Answered(d, a, b, c, e)
  BY ONLY <1>1, <1>2, a \in Octets, b \in Octets, c \in Octets, d = <<a, b, 0, c>> \o <<>> DEF Answered
<1>4. /\ Len(d) = 4 + Len(e) /\ d[1] = a
      /\ Octet(d, 0) = a /\ Octet(d, 1) = b /\ Octet(d, 2) = 0 /\ Octet(d, 3) = c
  BY ONLY <1>3, AnswerFacts
<1>5. Len(d) = 4
  BY ONLY <1>2, <1>4
<1> QED
  BY ONLY <1>4, <1>5

\* A GET that the radio refuses
LEMMA GetRefused ==
    ASSUME NEW name, name \in DOMAIN SCP_GET, NEW m, m = Answer(96, 1, SCP_GET[name], "NONE", <<>>)
    PROVE  Shaped(Dispatch(m.data), m.events, m.data[1])
<1>1. PICK d : d = m.data
  OBVIOUS
<1>2. PICK a, b, c : a = 96 /\ b = SCP_GET[name] /\ c = 1
  OBVIOUS
<1>3. a \in Octets /\ b \in Octets /\ c \in Octets
  <2>1. 96 \in Octets /\ 1 \in Octets
    BY ONLY DEF Octets
  <2> QED
    BY ONLY <2>1, <1>2, name \in DOMAIN SCP_GET, GetCodes
<1>4. PICK e : e = Event("GET", <<<<c>>>>)
  OBVIOUS
<1>5. d = <<a, b, 0, c>> \o <<>> /\ m.events = <<e>> \o <<>>
  BY ONLY <1>1, <1>2, <1>4, m = Answer(96, 1, SCP_GET[name], "NONE", <<>>), AnswerIs
<1>6. Octet(d, 0) = a /\ Octet(d, 1) = b /\ Octet(d, 2) = 0 /\ Octet(d, 3) = c
  BY ONLY <1>3, <1>5, BareAnswer
<1>7. Dispatch(d) = <<Tell(e)>> \o <<>>
  <2>1. Octet(d, 0) = 96 /\ Octet(d, 1) = SCP_GET[name] /\ c \in {0, 1} /\ c # 0
    BY ONLY <1>2, <1>6
  <2>2. Dispatch(d) = <<Tell(Event("GET", <<<<c>>>>))>> \o (IF c = 0 THEN GetAnswer(name, d) ELSE <<>>)
    BY ONLY <2>1, <1>6, name \in DOMAIN SCP_GET, GetResult, SMTT(20), ZenonT(40)
  <2> QED
    BY ONLY <1>4, <2>1, <2>2
<1>8. e.type \in {"GET", "SET"}
  BY ONLY <1>4, EventIs
<1> QED
  BY ONLY <1>1, <1>5, <1>7, <1>8, RefusedShaped

\* A SET that it refuses, or that changes no channel
LEMMA SetAnswered ==
    ASSUME NEW b, b \in Octets, NEW c, c \in {0, 1}, NEW m, m = Answer(32, c, b, "NONE", <<>>)
    PROVE  Shaped(Dispatch(m.data), m.events, m.data[1])
<1>1. PICK d : d = m.data
  OBVIOUS
<1>2. PICK a : a = 32
  OBVIOUS
<1>3. a \in Octets /\ c \in Octets
  BY ONLY <1>2, c \in {0, 1} DEF Octets
<1>4. PICK e : e = Event("SET", <<<<c>>>>)
  OBVIOUS
<1>5. d = <<a, b, 0, c>> \o <<>> /\ m.events = <<e>> \o <<>>
  BY ONLY <1>1, <1>2, <1>4, m = Answer(32, c, b, "NONE", <<>>), AnswerIs
<1>6. Octet(d, 0) = a /\ Octet(d, 1) = b /\ Octet(d, 2) = 0 /\ Octet(d, 3) = c /\ Len(d) = 4
  BY ONLY <1>3, <1>5, b \in Octets, BareAnswer
<1>7. Dispatch(d) = <<Tell(e)>> \o <<>>
  <2>1. Octet(d, 0) = 32 /\ ~ (Len(d) > 4)
    BY ONLY <1>2, <1>6
  <2>2. Dispatch(d) =
             <<Tell(Event("SET", <<<<c>>>>))>> \o
             (IF c = 0 /\ Octet(d, 1) = 10 /\ Len(d) > 4
                THEN TuneAndTell(Octet(d, 4), ChannelAndSong(d, 4)) ELSE <<>>)
    BY ONLY <2>1, <1>6, c \in {0, 1}, SetResult
  <2> QED
    BY ONLY <1>4, <2>1, <2>2
<1>8. e.type \in {"GET", "SET"}
  BY ONLY <1>4, EventIs
<1> QED
  BY ONLY <1>1, <1>5, <1>7, <1>8, RefusedShaped

\* A GET that it answers
LEMMA GetAnswered ==
    ASSUME NEW name, name \in DOMAIN SCP_GET, NEW f, f \in Fields(name),
           NEW m, m = Answer(96, 0, SCP_GET[name], name, f)
    PROVE  Shaped(Dispatch(m.data), m.events, m.data[1])
<1>1. PICK d : d = m.data
  OBVIOUS
<1>2. name # "NONE"
  BY ONLY name \in DOMAIN SCP_GET, SimpleAre
<1>3. PICK e : e = Event("GET", <<<<0>>>>)
  OBVIOUS
<1>4. d = <<96, SCP_GET[name], 0, 0>> \o Encode(name, f) /\ m.events = <<e>> \o Meaning(name, f)
  <2>1. PICK a, c, b, t : a = 96 /\ c = 0 /\ b = SCP_GET[name] /\ t = name
    OBVIOUS
  <2>2. IsAnswer(m, a, c, b, t, f)
    BY ONLY <2>1, <1>2, m = Answer(96, 0, SCP_GET[name], name, f) DEF IsAnswer
  <2>3. Says(m, a, c, b, t, f, "GET")
    BY ONLY <2>1, <2>2, AnswerParts
  <2> QED
    BY ONLY <1>1, <1>3, <2>1, <2>3 DEF Says
<1>5. Dispatch(d) = <<Tell(e)>> \o GetProgram(name, f)
  BY ONLY <1>3, <1>4, name \in DOMAIN SCP_GET, f \in Fields(name), GetTold
<1>6. e.type = "GET"
  BY ONLY <1>3, EventIs
<1>7. d[1] = 96
  <2>1. PICK a, b, c, w : a = 96 /\ b = SCP_GET[name] /\ c = 0 /\ w = Encode(name, f)
    OBVIOUS
  <2>2. a \in Octets /\ b \in Octets /\ c \in Octets /\ w \in Seq(Octets)
    <3>1. 96 \in Octets /\ 0 \in Octets
      BY ONLY DEF Octets
    <3>2. name \in AsyncTypes \cup DOMAIN SCP_GET
      BY ONLY name \in DOMAIN SCP_GET
    <3>3. w \in Seq(Octets)
      BY ONLY <2>1, <3>2, f \in Fields(name), EncodeTyped
    <3> QED
      BY ONLY <2>1, <3>1, <3>3, name \in DOMAIN SCP_GET, GetCodes
  <2>3. Answered(d, a, b, c, w)
    BY ONLY <1>4, <2>1, <2>2 DEF Answered
  <2>4. d[1] = a
    BY ONLY <2>3, AnswerFacts
  <2> QED
    BY ONLY <2>1, <2>4
<1>8. PICK p, evs : p = Dispatch(d) /\ evs = m.events
  OBVIOUS
<1>9. Shaped(p, evs, 96)
  BY ONLY <1>4, <1>5, <1>6, <1>8, name \in DOMAIN SCP_GET, f \in Fields(name), GetShaped
<1> QED
  BY ONLY <1>1, <1>7, <1>8, <1>9

\* A SET of the channel that it answers
LEMMA SetTuned ==
    ASSUME NEW f, f \in Fields("CHANNELINFO"), NEW m, m = Answer(32, 0, 10, "CHANNELINFO", f)
    PROVE  Shaped(Dispatch(m.data), m.events, m.data[1])
<1>1. PICK d : d = m.data
  OBVIOUS
<1>3. PICK e : e = Event("SET", <<<<0>>>>)
  OBVIOUS
<1>4. d = <<32, 10, 0, 0>> \o Encode("CHANNELINFO", f) /\ m.events = <<e>> \o Meaning("CHANNELINFO", f)
  <2>1. PICK a, c, b, t : a = 32 /\ c = 0 /\ b = 10 /\ t = "CHANNELINFO"
    OBVIOUS
  <2>2. IsAnswer(m, a, c, b, t, f) /\ a # 96
    BY ONLY <2>1, m = Answer(32, 0, 10, "CHANNELINFO", f) DEF IsAnswer
  <2>3. Says(m, a, c, b, t, f, "SET")
    BY ONLY <2>2, AnswerParts
  <2> QED
    BY ONLY <1>1, <1>3, <2>1, <2>3 DEF Says
<1>5. Dispatch(d) = <<Tell(e)>> \o TuneAndTell(f[1][1], Meaning("CHANNELINFO", f))
  BY ONLY <1>3, <1>4, f \in Fields("CHANNELINFO"), SetTold DEF SetProgram
<1>6. e.type = "SET"
  BY ONLY <1>3, EventIs
<1>7. d[1] = 32
  <2>1. PICK a, b, c, w : a = 32 /\ b = 10 /\ c = 0 /\ w = Encode("CHANNELINFO", f)
    OBVIOUS
  <2>2. a \in Octets /\ b \in Octets /\ c \in Octets /\ w \in Seq(Octets)
    <3>1. 32 \in Octets /\ 0 \in Octets /\ 10 \in Octets
      BY ONLY DEF Octets
    <3>2. "CHANNELINFO" \in AsyncTypes \cup DOMAIN SCP_GET
      BY ONLY SimpleAre
    <3>3. w \in Seq(Octets)
      BY ONLY <2>1, <3>2, f \in Fields("CHANNELINFO"), EncodeTyped
    <3> QED
      BY ONLY <2>1, <3>1, <3>3
  <2>3. Answered(d, a, b, c, w)
    BY ONLY <1>4, <2>1, <2>2 DEF Answered
  <2>4. d[1] = a
    BY ONLY <2>3, AnswerFacts
  <2> QED
    BY ONLY <2>1, <2>4
<1>8. PICK p, evs : p = Dispatch(d) /\ evs = m.events
  OBVIOUS
<1>9. Shaped(p, evs, 32)
  BY ONLY <1>4, <1>5, <1>6, <1>8, f \in Fields("CHANNELINFO"), SetShaped
<1> QED
  BY ONLY <1>1, <1>7, <1>8, <1>9

\* Whatever the radio answers to a request, Dispatch tells.
LEMMA AnswerShaped ==
    ASSUME NEW req, Asked(req), NEW m, m \in AnswersTo(req)
    PROVE  Shaped(Dispatch(m.data), m.events, m.data[1])
<1>1. CASE Asks(req)
  <2>1. PICK name \in DOMAIN SCP_GET :
            req[2] = SCP_GET[name] /\ (name \in {"CHANNELINFO", "SONGINFO"} => req[3] \in Octets)
    BY ONLY <1>1 DEF Asks
  <2>2. req[1] = 64
    BY ONLY <1>1 DEF Asks
  <2>3. (CHOOSE n \in DOMAIN SCP_GET : SCP_GET[n] = req[2]) = name
    BY ONLY <2>1, GetCodes
  <2>4. PICK f : f = IF name \in {"CHANNELINFO", "SONGINFO"}
                       THEN AboutChannel(Answers[name], req[3]) ELSE Answers[name]
    OBVIOUS
  <2>5. f \in Fields(name)
    <3>1. Answers[name] \in Fields(name)
      BY ONLY EventPathAssumption
    <3>2. CASE name \in {"CHANNELINFO", "SONGINFO"}
      <4>1. PICK g : g = Answers[name]
        OBVIOUS
      <4>2. g \in Fields(name) /\ req[3] \in Octets
        BY ONLY <2>1, <3>1, <3>2, <4>1
      <4>3. AboutChannel(g, req[3]) \in Fields(name)
        BY ONLY <3>2, <4>2, AboutTyped
      <4> QED
        BY ONLY <2>4, <3>2, <4>1, <4>3
    <3> QED
      BY ONLY <2>4, <3>1, <3>2
  <2>6. AnswersTo(req) =
          {Answer(96, 1, req[2], "NONE", <<>>)} \cup {Answer(96, 0, req[2], name, f)}
    <3>1. req[1] + 32 = 96 /\ req[1] # MSG_SET
      BY ONLY <2>2 DEF MSG_SET
    <3>2. AnswersTo(req) =
            {Answer(req[1] + 32, 1, req[2], "NONE", <<>>)} \cup
            (LET nm == CHOOSE n \in DOMAIN SCP_GET : SCP_GET[n] = req[2]
             IN  {Answer(MSG_GET_RESP, 0, req[2], nm,
                         IF nm \in {"CHANNELINFO", "SONGINFO"}
                           THEN AboutChannel(Answers[nm], req[3]) ELSE Answers[nm])})
      BY ONLY <3>1 DEF AnswersTo
    <3>4. PICK ch : ch = CHOOSE n \in DOMAIN SCP_GET : SCP_GET[n] = req[2]
      OBVIOUS
    <3>5. AnswersTo(req) =
            {Answer(req[1] + 32, 1, req[2], "NONE", <<>>)} \cup
            {Answer(MSG_GET_RESP, 0, req[2], ch,
                         IF ch \in {"CHANNELINFO", "SONGINFO"}
                           THEN AboutChannel(Answers[ch], req[3]) ELSE Answers[ch])}
      BY ONLY <3>2, <3>4
    <3>6. ch = name
      BY ONLY <3>4, <2>3
    <3>3. AnswersTo(req) =
            {Answer(req[1] + 32, 1, req[2], "NONE", <<>>)} \cup
            {Answer(MSG_GET_RESP, 0, req[2], name,
                         IF name \in {"CHANNELINFO", "SONGINFO"}
                           THEN AboutChannel(Answers[name], req[3]) ELSE Answers[name])}
      BY ONLY <3>5, <3>6
    <3> QED
      BY ONLY <3>1, <3>3, <2>4 DEF MSG_GET_RESP
  <2>7. CASE m = Answer(96, 1, req[2], "NONE", <<>>)
    BY ONLY <2>1, <2>7, GetRefused
  <2>8. CASE m = Answer(96, 0, req[2], name, f)
    BY ONLY <2>1, <2>5, <2>8, GetAnswered
  <2> QED
    BY ONLY <2>6, <2>7, <2>8, m \in AnswersTo(req)
<1>2. CASE Sets(req)
  <2>1. req[1] = 0 /\ req[2] \in Octets /\ (req[2] = 10 => req[3] \in Octets)
    BY ONLY <1>2 DEF Sets
  <2>2. PICK f : f = AboutChannel(Answers["CHANNELINFO"], req[3])
    OBVIOUS
  <2>3. AnswersTo(req) =
          {Answer(32, 1, req[2], "NONE", <<>>)} \cup
          ({Answer(32, 0, req[2], "NONE", <<>>)} \cup
           IF req[2] = 10 THEN {Answer(32, 0, req[2], "CHANNELINFO", f)} ELSE {})
    <3>1. req[1] + 32 = 32 /\ req[1] = MSG_SET /\ MSG_SET_RESP = 32
      BY ONLY <2>1 DEF MSG_SET, MSG_SET_RESP
    <3> QED
      BY ONLY <3>1, <2>2, Codes DEF AnswersTo
  <2>4. ASSUME req[2] = 10 PROVE f \in Fields("CHANNELINFO")
    <3>1. PICK g, name : g = Answers["CHANNELINFO"] /\ name = "CHANNELINFO"
      OBVIOUS
    <3>2. "CHANNELINFO" \in DOMAIN SCP_GET
      BY ONLY SimpleAre
    <3>3. g \in Fields(name) /\ name \in {"CHANNELINFO", "SONGINFO"} /\ req[3] \in Octets
      BY ONLY <2>1, <2>4, <3>1, <3>2, EventPathAssumption
    <3>4. AboutChannel(g, req[3]) \in Fields(name)
      BY ONLY <3>3, AboutTyped
    <3> QED
      BY ONLY <2>2, <3>1, <3>4
  <2>5. CASE m = Answer(32, 1, req[2], "NONE", <<>>)
    <3>1. PICK c : c = 1
      OBVIOUS
    <3>2. c \in {0, 1} /\ m = Answer(32, c, req[2], "NONE", <<>>)
      BY ONLY <3>1, <2>5
    <3> QED
      BY ONLY <2>1, <3>2, SetAnswered
  <2>6. CASE m = Answer(32, 0, req[2], "NONE", <<>>)
    <3>1. PICK c : c = 0
      OBVIOUS
    <3>2. c \in {0, 1} /\ m = Answer(32, c, req[2], "NONE", <<>>)
      BY ONLY <3>1, <2>6
    <3> QED
      BY ONLY <2>1, <3>2, SetAnswered
  <2>7. CASE req[2] = 10 /\ m = Answer(32, 0, req[2], "CHANNELINFO", f)
    <3>1. m = Answer(32, 0, 10, "CHANNELINFO", f)
      BY ONLY <2>7
    <3> QED
      BY ONLY <3>1, <2>4, <2>7, SetTuned
  <2> QED
    BY ONLY <2>3, <2>5, <2>6, <2>7, m \in AnswersTo(req)
<1> QED
  BY ONLY <1>1, <1>2, Asked(req) DEF Asked
=============================================================================
