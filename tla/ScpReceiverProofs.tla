-------------------------- MODULE ScpReceiverProofs --------------------------
(***************************************************************************)
(* Proofs about ScpReceiver: for every size of the staging buffer that     *)
(* holds a largest message, every byte space, every sequence of frames and *)
(* every damage on the line, the staging buffer is a queue of the bytes    *)
(* read, OnRun always has room to read, and it skips no intact frame.      *)
(*                                                                         *)
(* The checksum refuses every frame of which one octet was altered.  The   *)
(* duplicate filter passes every frame once and in order until bytes pass  *)
(* for a frame that they were not sent for, which a sum of octets cannot   *)
(* exclude; on a line that damages nothing it is proved that they do not.  *)
(***************************************************************************)
EXTENDS ScpReceiver, SequenceLemmas

StageP == INSTANCE SlideBufferProofs WITH m_size <- StageSize

-----------------------------------------------------------------------------
(* Read: the escapes of the line.                                          *)

Accs == [out : Seq(Bytes), esc : BOOLEAN]

LEMMA UnescapeTyped ==
    ASSUME NEW a \in Accs, NEW b \in Bytes
    PROVE  /\ Unescape(a, b) \in Accs
           /\ Len(Unescape(a, b).out) <= Len(a.out) + 1
<1> USE ReceiverAssumption
<1>1. \A x \in Bytes : Append(a.out, x) \in Seq(Bytes) /\ Len(Append(a.out, x)) = Len(a.out) + 1
  BY DEF Accs
<1>2. ASCII_ESC \in Bytes /\ PKT_SENTINEL \in Bytes /\ ASCII_ESC # SENTINEL_ESC
  OBVIOUS
<1>3. /\ a = [out |-> a.out, esc |-> a.esc] /\ a.out \in Seq(Bytes) /\ a.esc \in BOOLEAN
      /\ Len(a.out) \in Nat
  BY DEF Accs
<1>4. CASE b = ASCII_ESC /\ ~ a.esc
  <2>1. Unescape(a, b) = [out |-> a.out, esc |-> TRUE]
    BY <1>3, <1>4 DEF Unescape
  <2> QED
    BY <1>3, <2>1 DEF Accs
<1>5. CASE b = ASCII_ESC /\ a.esc
  <2>1. Unescape(a, b) = [out |-> Append(a.out, ASCII_ESC), esc |-> FALSE]
    BY <1>2, <1>3, <1>5 DEF Unescape
  <2> QED
    BY <1>1, <1>2, <1>3, <2>1 DEF Accs
<1>6. CASE b # ASCII_ESC /\ b = SENTINEL_ESC /\ a.esc
  <2>1. Unescape(a, b) = [out |-> Append(a.out, PKT_SENTINEL), esc |-> FALSE]
    BY <1>6 DEF Unescape
  <2> QED
    BY <1>1, <1>2, <1>3, <2>1 DEF Accs
<1>7. CASE b # ASCII_ESC /\ ~ (b = SENTINEL_ESC /\ a.esc)
  <2>1. Unescape(a, b) = [out |-> IF a.esc THEN a.out ELSE Append(a.out, b), esc |-> FALSE]
    BY <1>7 DEF Unescape
  <2> QED
    BY <1>1, <1>3, <2>1 DEF Accs
<1> QED
  BY <1>3, <1>4, <1>5, <1>6, <1>7

\* g[k] is what Read has after k bytes.
Unescapes(g, acc, s) ==
    /\ g \in [0 .. Len(s) -> Accs]
    /\ g[0] = acc
    /\ \A k \in 1 .. Len(s) : g[k] = Unescape(g[k - 1], s[k])

LEMMA UnescapeFold ==
    ASSUME NEW s \in Seq(Bytes), NEW acc \in Accs
    PROVE  \E g : Unescapes(g, acc, s) /\ FoldLeft(Unescape, acc, s) = g[Len(s)]
<1>1. PICK n \in Nat : n = Len(s) /\ DOMAIN s = 1 .. n /\ \A k \in 1 .. n : s[k] \in Bytes
  OBVIOUS
<1> DEFINE step == [p \in Accs \X (1 .. n) |-> Unescape(p[1], s[p[2]])]
           eq(it) == it = [i \in SUBSET DOMAIN s |->
                             IF i = {} THEN acc ELSE Unescape(it[i \ {Max(i)}], s[Max(i)])]
           it0 == CHOOSE it : eq(it)
<1>2. step \in [Accs \X (1 .. n) -> Accs]
  BY <1>1, UnescapeTyped
<1>3. \A a \in Accs, k \in 1 .. n : step[<<a, k>>] = Unescape(a, s[k])
  OBVIOUS
<1>4. PICK it \in [SUBSET (1 .. n) -> Accs] : Recursion(it, n, acc, step)
  <2> HIDE DEF step
  <2> QED
    BY <1>2, RecursionExists
<1>5. eq(it)
  <2> HIDE DEF step
  <2>1. ASSUME NEW i \in SUBSET DOMAIN s
        PROVE  it[i] = IF i = {} THEN acc ELSE Unescape(it[i \ {Max(i)}], s[Max(i)])
    <3>1. CASE i = {}
      BY <1>1, <1>4, <3>1 DEF Recursion
    <3>2. CASE i # {}
      <4>1. Max(i) \in 1 .. n /\ it[i \ {Max(i)}] \in Accs
            /\ it[i] = step[<<it[i \ {Max(i)}], Max(i)>>]
        BY <1>1, <1>4, <3>2 DEF Recursion
      <4> QED
        BY <1>3, <3>2, <4>1
    <3> QED
      BY <3>1, <3>2
  <2> QED
    BY <1>1, <1>4, <2>1
<1>6. it0 = [i \in SUBSET DOMAIN s |->
                IF i = {} THEN acc ELSE Unescape(it0[i \ {Max(i)}], s[Max(i)])]
  BY <1>5
<1>7. FoldLeft(Unescape, acc, s) = it0[DOMAIN s]
  BY DEF FoldLeft, MapThenFoldSet
<1> HIDE DEF it0, eq, step
<1>8. it0[{}] = acc
  BY <1>6
<1>9. ASSUME NEW i \in SUBSET (1 .. n), i # {}, it0[i \ {Max(i)}] \in Accs
      PROVE  it0[i] = step[<<it0[i \ {Max(i)}], Max(i)>>]
  <2>1. Max(i) \in 1 .. n
    BY <1>4, <1>9 DEF Recursion
  <2>2. it0[i] = Unescape(it0[i \ {Max(i)}], s[Max(i)])
    BY <1>1, <1>6, <1>9
  <2> QED
    BY <1>3, <1>9, <2>1, <2>2
<1>10. Follows(it0, Accs, n, acc, step)
  BY <1>2, <1>8, <1>9 DEF Follows
<1>11. PICK g : Chain(g, Accs, n, acc, step) /\ it0[1 .. n] = g[n]
  BY <1>10, FoldChain
<1>12. ASSUME NEW k \in 1 .. n PROVE g[k] = Unescape(g[k - 1], s[k])
  <2>1. k - 1 \in 0 .. n
    OBVIOUS
  <2>2. g[k - 1] \in Accs /\ g[k] = step[<<g[k - 1], k>>]
    BY <1>11, <2>1 DEF Chain
  <2> QED
    BY <1>3, <2>2
<1> QED
  BY <1>1, <1>7, <1>11, <1>12 DEF Chain, Unescapes

Got(acc, s) == FoldLeft(Unescape, acc, s)

\* Read delivers bytes, and no more of them than the line had.
LEMMA ReadTyped ==
    ASSUME NEW s \in Seq(Bytes), NEW acc \in Accs, acc.out = <<>>
    PROVE  /\ Got(acc, s).out \in Seq(Bytes) /\ Got(acc, s).esc \in BOOLEAN
           /\ Len(Got(acc, s).out) <= Len(s)
<1>1. Len(acc.out) = 0
  OBVIOUS
<1>2. PICK g : Unescapes(g, acc, s) /\ Got(acc, s) = g[Len(s)]
  BY UnescapeFold DEF Got
<1>3. PICK n \in Nat : n = Len(s) /\ \A k \in 1 .. n : s[k] \in Bytes
  OBVIOUS
<1> DEFINE S == {k \in Nat : k <= n => Len(g[k].out) <= k}
<1>4. 0 \in S
  BY <1>1, <1>2 DEF Unescapes
<1>5. ASSUME NEW k \in Nat, k \in S PROVE k + 1 \in S
  <2>1. SUFFICES ASSUME k + 1 <= n PROVE Len(g[k + 1].out) <= k + 1
    OBVIOUS
  <2>2. k + 1 \in 1 .. n /\ (k + 1) - 1 = k /\ k \in 0 .. n /\ k + 1 \in 0 .. n
    BY <2>1
  <2>3. g[k] \in Accs /\ g[k + 1] \in Accs /\ g[k + 1] = Unescape(g[k], s[k + 1])
    BY <1>2, <1>3, <2>2 DEF Unescapes
  <2>4. Len(g[k + 1].out) <= Len(g[k].out) + 1
    BY <1>3, <2>2, <2>3, UnescapeTyped
  <2>5. Len(g[k].out) \in Nat /\ Len(g[k + 1].out) \in Nat /\ Len(g[k].out) <= k
    BY <1>5, <2>1, <2>3 DEF Accs
  <2> QED
    BY <2>4, <2>5
<1>6. n \in S
  <2> HIDE DEF S
  <2> QED
    BY <1>4, <1>5, NatSetInduction
<1>7. g[n] \in Accs
  BY <1>2, <1>3 DEF Unescapes
<1> QED
  BY <1>1, <1>2, <1>3, <1>6, <1>7 DEF Accs

LEMMA DecodeTyped ==
    ASSUME NEW s \in Seq(Bytes), NEW e \in BOOLEAN
    PROVE  /\ Decode(s, e).out \in Seq(Bytes) /\ Decode(s, e).esc \in BOOLEAN
           /\ Len(Decode(s, e).out) \in Nat /\ Len(Decode(s, e).out) <= Len(s)
<1>1. PICK acc : acc = [out |-> <<>>, esc |-> e]
  OBVIOUS
<1>2. acc \in Accs /\ acc.out = <<>>
  BY <1>1 DEF Accs
<1>3. Decode(s, e) = Got(acc, s)
  BY <1>1 DEF Decode, Got
<1>4. Got(acc, s).out \in Seq(Bytes) /\ Got(acc, s).esc \in BOOLEAN /\ Len(Got(acc, s).out) <= Len(s)
  BY <1>2, ReadTyped
<1>5. Len(Got(acc, s).out) \in Nat
  BY <1>4
<1> QED
  BY <1>3, <1>4, <1>5

\* The bytes with which Read has its first, second, ... byte are in their order.
LEMMA CompletedInOrder ==
    ASSUME NEW s \in Seq(Bytes), NEW e \in BOOLEAN
    PROVE  /\ \A j \in 1 .. Len(Decode(s, e).out) : CompletedBy(s, e, j) \in 1 .. Len(s)
           /\ \A j, k \in 1 .. Len(Decode(s, e).out) :
                j <= k => CompletedBy(s, e, j) <= CompletedBy(s, e, k)
<1> DEFINE Had(i) == Len(Decode(SubSeq(s, 1, i), e).out)
           Enough(j) == {i \in DOMAIN s : Had(i) >= j}
           m == Len(Decode(s, e).out)
<1>1. DOMAIN s = 1 .. Len(s) /\ Len(s) \in Nat /\ m \in Nat /\ m <= Len(s)
  BY DecodeTyped
<1>2. \A i \in 1 .. Len(s) : Had(i) \in Nat
  <2> TAKE i \in 1 .. Len(s)
  <2>1. SubSeq(s, 1, i) \in Seq(Bytes)
    BY <1>1, PrefixFacts
  <2> QED
    BY <2>1, DecodeTyped
<1>3. Had(Len(s)) = m
  <2>1. SubSeq(s, 1, Len(s)) = s
    <3>1. Len(s) \in 0 .. Len(s)
      BY <1>1
    <3>2. PICK u : u = SubSeq(s, 1, Len(s))
      OBVIOUS
    <3>3. u \in Seq(Bytes) /\ Len(u) = Len(s) /\ \A k \in 1 .. Len(s) : u[k] = s[k]
      BY <3>1, <3>2, PrefixFacts
    <3>4. u = s
      BY <3>3, SeqEqual
    <3> QED
      BY <3>2, <3>4
  <2> QED
    BY <2>1
<1> HIDE DEF Had
<1>4. ASSUME NEW j \in 1 .. m
      PROVE  /\ CompletedBy(s, e, j) \in Enough(j)
             /\ \A i \in Enough(j) : CompletedBy(s, e, j) <= i
  <2>1. Enough(j) \subseteq Nat /\ Len(s) \in Enough(j)
    BY <1>1, <1>3
  <2>2. PICK x \in Enough(j) : \A i \in Enough(j) : x <= i
    BY <2>1, LeastNat
  <2>3. CompletedBy(s, e, j) = Min(Enough(j))
    BY DEF CompletedBy, Had
  <2>4. Min(Enough(j)) = CHOOSE y \in Enough(j) : \A i \in Enough(j) : y <= i
    BY DEF Min
  <2> QED
    BY <2>2, <2>3, <2>4
<1>5. ASSUME NEW j \in 1 .. m, NEW k \in 1 .. m, j <= k
      PROVE  CompletedBy(s, e, j) <= CompletedBy(s, e, k)
  <2>1. Enough(k) \subseteq Enough(j)
    BY <1>1, <1>2, <1>5
  <2> QED
    BY <1>4, <2>1
<1> QED
  BY <1>1, <1>4, <1>5

-----------------------------------------------------------------------------
(* The staging buffer, as SlideBufferProofs proves it.                     *)

LEMMA StageSizeFacts == StageSize \in Nat \ {0} /\ StageSize >= HdrLen + ByteSpace
BY ReceiverAssumption DEF HdrLen

LEMMA StageContents ==
    ASSUME NEW b \in Stage!Buffers(Bytes)
    PROVE  Stage!Contents(b) \in Seq(Bytes) /\ Len(Stage!Contents(b)) = b.len
<1>1. b \in StageP!Buffers(Bytes)
  BY DEF Stage!Buffers, StageP!Buffers
<1>2. StageP!Contents(b) \in Seq(Bytes) /\ Len(StageP!Contents(b)) = b.len
  BY <1>1, StageSizeFacts, StageP!ContentsSeq
<1> QED
  BY <1>2 DEF Stage!Contents, StageP!Contents

LEMMA StageWrite ==
    ASSUME NEW b \in Stage!Buffers(Bytes), NEW data \in Seq(Bytes),
           Len(data) <= Stage!GetWriteLen(b)
    PROVE  LET w == Stage!MarkWritten(Stage!Store(Stage!MakeRoom(b), data), Len(data))
           IN  /\ w \in Stage!Buffers(Bytes)
               /\ Stage!Contents(w) = Stage!Contents(b) \o data
<1>1. \A c : Stage!Slide(c) = StageP!Slide(c) /\ Stage!TailRoom(c) = StageP!TailRoom(c)
  BY DEF Stage!Slide, StageP!Slide, Stage!TailRoom, StageP!TailRoom
<1>2. \A c : Stage!MakeRoom(c) = StageP!MakeRoom(c)
  BY <1>1 DEF Stage!MakeRoom, StageP!MakeRoom
<1>3. \A c : Stage!GetWriteLen(c) = StageP!GetWriteLen(c)
  BY <1>1, <1>2 DEF Stage!GetWriteLen, StageP!GetWriteLen
<1>4. \A c, n : Stage!MarkWritten(c, n) = StageP!MarkWritten(c, n)
  BY <1>2 DEF Stage!MarkWritten, StageP!MarkWritten
<1>5. \A c, d : Stage!Store(c, d) = StageP!Store(c, d)
  BY DEF Stage!Store, StageP!Store
<1>6. \A c : Stage!Contents(c) = StageP!Contents(c)
  BY DEF Stage!Contents, StageP!Contents
<1>7. Stage!Buffers(Bytes) = StageP!Buffers(Bytes)
  BY DEF Stage!Buffers, StageP!Buffers
<1>8. b \in StageP!Buffers(Bytes) /\ Len(data) <= StageP!GetWriteLen(b)
  BY <1>3, <1>7
<1> DEFINE w == StageP!MarkWritten(StageP!Store(StageP!MakeRoom(b), data), Len(data))
<1>9. w \in StageP!Buffers(Bytes) /\ StageP!Contents(w) = StageP!Contents(b) \o data
  BY <1>8, StageSizeFacts, StageP!WriteContents
<1>10. w = Stage!MarkWritten(Stage!Store(Stage!MakeRoom(b), data), Len(data))
  BY <1>2, <1>4, <1>5
<1> HIDE DEF w
<1> QED
  BY <1>6, <1>7, <1>9, <1>10

LEMMA StageRead ==
    ASSUME NEW b \in Stage!Buffers(Bytes), NEW n \in 0 .. b.len
    PROVE  /\ Stage!MarkRead(b, n) \in Stage!Buffers(Bytes)
           /\ Stage!Contents(Stage!MarkRead(b, n)) = SubSeq(Stage!Contents(b), n + 1, b.len)
<1>1. \A c : Stage!Contents(c) = StageP!Contents(c)
  BY DEF Stage!Contents, StageP!Contents
<1>2. Stage!Buffers(Bytes) = StageP!Buffers(Bytes)
  BY DEF Stage!Buffers, StageP!Buffers
<1>3. Stage!MarkRead(b, n) = StageP!MarkRead(b, n)
  BY DEF Stage!MarkRead, StageP!MarkRead
<1>4. b \in StageP!Buffers(Bytes)
  BY <1>2
<1>5. /\ StageP!MarkRead(b, n) \in StageP!Buffers(Bytes)
      /\ StageP!Contents(StageP!MarkRead(b, n)) = SubSeq(StageP!Contents(b), n + 1, b.len)
  BY <1>4, StageSizeFacts, StageP!MarkReadContents
<1> QED
  BY <1>1, <1>2, <1>3, <1>5

LEMMA StageRoom ==
    ASSUME NEW b \in Stage!Buffers(Bytes)
    PROVE  Stage!GetWriteLen(b) \in Nat /\ (Stage!GetWriteLen(b) = 0 <=> b.len = StageSize)
<1>1. \A c : Stage!Slide(c) = StageP!Slide(c) /\ Stage!TailRoom(c) = StageP!TailRoom(c)
  BY DEF Stage!Slide, StageP!Slide, Stage!TailRoom, StageP!TailRoom
<1>2. \A c : Stage!MakeRoom(c) = StageP!MakeRoom(c)
  BY <1>1 DEF Stage!MakeRoom, StageP!MakeRoom
<1>3. Stage!GetWriteLen(b) = StageP!GetWriteLen(b)
  BY <1>1, <1>2 DEF Stage!GetWriteLen, StageP!GetWriteLen
<1>4. b \in StageP!Buffers(Bytes)
  BY DEF Stage!Buffers, StageP!Buffers
<1>5. StageP!GetWriteLen(b) \in Nat /\ (StageP!GetWriteLen(b) = 0 <=> b.len = StageSize)
  BY <1>4, StageSizeFacts, StageP!RoomUnlessFull
<1> QED
  BY <1>3, <1>5

-----------------------------------------------------------------------------
(* Frames on the line.                                                     *)

LEMMA BytesFacts == ByteSpace \in Nat \ {0} /\ Bytes \subseteq Nat /\ Bytes \subseteq Int
BY ReceiverAssumption DEF Bytes

LEMMA ChecksumTyped ==
    ASSUME NEW data \in Seq(Bytes)
    PROVE  ComputeChecksum(data) \in Bytes
<1>1. data \in Seq(Int)
  BY BytesFacts, SeqMonotonic
<1>2. PICK sum \in Int : ComputeChecksum(data) = (- sum) % ByteSpace
  BY <1>1, SumTyped DEF ComputeChecksum, Total
<1>3. (- sum) % ByteSpace \in 0 .. ByteSpace - 1
  BY BytesFacts
<1> QED
  BY <1>2, <1>3 DEF Bytes

\* A multiple of m that lies less than m from 0 is 0.
LEMMA SmallMultiple ==
    ASSUME NEW m \in Nat \ {0}, NEW d \in Int, - m < m * d, m * d < m
    PROVE  d = 0
<1>1. CASE d >= 1
  <2>1. m * d >= m
    BY <1>1
  <2> QED
    BY <2>1
<1>2. CASE d <= -1
  <2>1. m * d <= - m
    BY <1>2
  <2> QED
    BY <2>1
<1> QED
  BY <1>1, <1>2

LEMMA MultipleOf ==
    ASSUME NEW m \in Nat \ {0}, NEW p \in Int
    PROVE  (m * p) % m = 0
<1>1. PICK y \in Int : y = m * p
  OBVIOUS
<1>2. PICK q \in Int, r \in 0 .. m - 1 : q = y \div m /\ r = y % m
  BY <1>1
<1>3. y = m * q + r
  BY <1>2
<1>4. PICK d \in Int : d = p - q
  <2>1. p - q \in Int
    BY <1>2
  <2> QED
    BY <2>1
<1>5. r = m * d
  <2>1. m * (p - q) = m * p - m * q
    BY <1>2
  <2>2. PICK z \in Int : z = m * q
    BY <1>2
  <2> QED
    BY <1>1, <1>2, <1>3, <1>4, <2>1, <2>2
<1>6. d = 0
  BY <1>2, <1>5, SmallMultiple
<1> QED
  BY <1>1, <1>2, <1>5, <1>6

\* The remainder of - a completes a to a multiple of m.
LEMMA Complement ==
    ASSUME NEW m \in Nat \ {0}, NEW a \in Int
    PROVE  (a + ((- a) % m)) % m = 0
<1>1. PICK q \in Int, r \in 0 .. m - 1 : q = (- a) \div m /\ r = (- a) % m
  OBVIOUS
<1>2. - a = m * q + r
  BY <1>1
<1>3. m * (- q) = - (m * q)
  BY <1>1
<1>4. PICK x \in Int : x = m * q
  BY <1>1
<1>5. a + r = m * (- q)
  BY <1>1, <1>2, <1>3, <1>4
<1>6. PICK p \in Int : p = - q
  BY <1>1
<1>7. (m * p) % m = 0
  BY <1>6, MultipleOf
<1> QED
  BY <1>1, <1>5, <1>6, <1>7

LEMMA FrameFacts ==
    ASSUME NEW f \in Frames
    PROVE  /\ FrameBytes[f] \in Seq(Bytes)
           /\ Len(FrameBytes[f]) = HdrLen + Len(Payloads[f]) + 1
           /\ FrameBytes[f][1] = PKT_SENTINEL
           /\ FrameBytes[f][2] = f % SeqSpace
           /\ FrameBytes[f][3] = Len(Payloads[f])
           /\ Len(Payloads[f]) \in Bytes
           /\ ValidateChecksum(FrameBytes[f])
<1>1. PICK p : p = Payloads[f]
  OBVIOUS
<1>2. f \in Nat /\ p \in Seq(Bytes) /\ Len(p) \in Bytes /\ Len(p) \in Nat
  BY <1>1, ReceiverAssumption DEF Frames
<1>3. f % SeqSpace \in Bytes
  BY <1>2, ReceiverAssumption DEF Bytes
<1>4. PICK hdr : hdr = <<PKT_SENTINEL, f % SeqSpace, Len(p)>>
  OBVIOUS
<1>5. /\ hdr \in Seq(Bytes) /\ Len(hdr) = 3
      /\ hdr[1] = PKT_SENTINEL /\ hdr[2] = f % SeqSpace /\ hdr[3] = Len(p)
  BY <1>2, <1>3, <1>4, ReceiverAssumption
<1>6. PICK body : body = hdr \o p
  OBVIOUS
<1>7. /\ body \in Seq(Bytes) /\ Len(body) = 3 + Len(p)
      /\ \A k \in 1 .. 3 : body[k] = hdr[k]
  <2>1. /\ body \in Seq(Bytes) /\ Len(body) = Len(hdr) + Len(p)
        /\ \A j \in 1 .. Len(hdr) + Len(p) :
             body[j] = IF j <= Len(hdr) THEN hdr[j] ELSE p[j - Len(hdr)]
    BY <1>2, <1>5, <1>6, ConcatFacts
  <2> QED
    BY <1>2, <1>5, <2>1
<1>8. PICK c \in Bytes : c = ComputeChecksum(body)
  BY <1>7, ChecksumTyped
<1>9. FrameBytes[f] = Append(body, c)
  BY <1>1, <1>4, <1>6, <1>8 DEF FrameBytes
<1>10. /\ Append(body, c) \in Seq(Bytes) /\ Len(Append(body, c)) = 3 + Len(p) + 1
       /\ \A k \in 1 .. 3 : Append(body, c)[k] = body[k]
  BY <1>2, <1>7, AppendProperties
<1>11. ValidateChecksum(Append(body, c))
  <2>1. body \in Seq(Int) /\ c \in Int
    BY <1>7, <1>8, BytesFacts, SeqMonotonic
  <2>2. PICK sum \in Int : sum = Total(body)
    BY <2>1, SumTyped
  <2>3. c = (- sum) % ByteSpace
    BY <1>8, <2>2 DEF ComputeChecksum, Total
  <2>4. Total(Append(body, c)) = sum + c
    BY <2>1, <2>2, SumAppend
  <2>5. (sum + c) % ByteSpace = 0
    BY <2>2, <2>3, BytesFacts, Complement
  <2> QED
    BY <2>4, <2>5 DEF ValidateChecksum, Total
<1> QED
  BY <1>1, <1>2, <1>5, <1>7, <1>9, <1>10, <1>11 DEF HdrLen

\* What a frame is on the line: not empty, and bytes again.
LEMMA EscapeTyped ==
    ASSUME NEW data \in Seq(Bytes), data # <<>>
    PROVE  Escape(data) \in Seq(Bytes)
<1> DEFINE pieces == [k \in 1 .. Len(data) - 1 |-> EscapeByte(data[k + 1])]
<1>1. Head(data) \in Bytes /\ Len(data) \in Nat \ {0} /\ \A k \in 1 .. Len(data) : data[k] \in Bytes
  OBVIOUS
<1>2. \A b \in Bytes : EscapeByte(b) \in Seq(Bytes)
  <2>1. \A x, y \in Bytes : <<x, y>> \in Seq(Bytes) /\ <<x>> \in Seq(Bytes)
    OBVIOUS
  <2> TAKE b \in Bytes
  <2>2. CASE b = PKT_SENTINEL
    BY <2>1, <2>2, ReceiverAssumption DEF EscapeByte
  <2>3. CASE b # PKT_SENTINEL /\ b = ASCII_ESC
    BY <2>1, <2>3, ReceiverAssumption DEF EscapeByte
  <2>4. CASE b # PKT_SENTINEL /\ b # ASCII_ESC
    BY <2>1, <2>4, ReceiverAssumption DEF EscapeByte
  <2> QED
    BY <2>2, <2>3, <2>4
<1>3. pieces \in Seq(Seq(Bytes))
  <2>1. Len(data) - 1 \in Nat
    BY <1>1
  <2>2. \A k \in 1 .. Len(data) - 1 : pieces[k] \in Seq(Bytes)
    BY <1>1, <1>2
  <2> QED
    BY <2>1, <2>2
<1> HIDE DEF pieces
<1>4. FlattenSeq(pieces) \in Seq(Bytes)
  <2>1. PICK g \in [0 .. Len(pieces) -> Seq(Bytes)] : FlattenSeq(pieces) = g[Len(pieces)]
    BY <1>3, FlattenChain
  <2>2. Len(pieces) \in 0 .. Len(pieces)
    BY <1>3
  <2> QED
    BY <2>1, <2>2
<1>5. <<Head(data)>> \in Seq(Bytes)
  BY <1>1
<1> QED
  BY <1>4, <1>5, ConcatFacts DEF Escape, pieces

-----------------------------------------------------------------------------
(* The invariant.                                                          *)

\* The radio thread is in Read only for what the message at hand still lacks.
Waiting == radio = "read" /\ HasHeader => Aligned /\ MsgLen > Len(Staged)

\* Byte k of those consumed belongs to an accepted frame, or begins no message,
\* or begins one whose bytes have all arrived and that is no frame.
Passed(k) ==
    \/ \E a \in accepted : a.first <= k /\ k <= a.last
    \/ arrived[k] # PKT_SENTINEL
    \/ /\ k + HdrLen <= Len(arrived) /\ k + HdrLen + arrived[k + 2] <= Len(arrived)
       /\ ~ ValidateChecksum(SubSeq(arrived, k, k + HdrLen + arrived[k + 2]))

AllPassed == \A k \in 1 .. consumed : Passed(k)

IInv == TypeOK /\ StageIsFifo /\ Waiting /\ AllPassed

\* What is staged, in terms of what arrived.
LEMMA StagedFacts ==
    ASSUME TypeOK, StageIsFifo
    PROVE  /\ Staged \in Seq(Bytes) /\ Len(Staged) = m_stagebuf.len
           /\ Len(Staged) \in Nat /\ Len(Staged) = Len(arrived) - consumed
           /\ \A k \in 1 .. Len(Staged) : Staged[k] = arrived[consumed + k] /\ Staged[k] \in Bytes
           /\ arrived \in Seq(Bytes) /\ Len(arrived) \in Nat /\ consumed \in 0 .. Len(arrived)
<1>1. arrived \in Seq(Bytes) /\ Len(arrived) \in Nat /\ consumed \in 0 .. Len(arrived)
  BY DEF TypeOK
<1>2. Staged \in Seq(Bytes) /\ Len(Staged) = m_stagebuf.len /\ Len(Staged) \in Nat
  BY StageContents DEF TypeOK, Staged
<1>3. /\ Len(Staged) = Len(arrived) - consumed
      /\ \A k \in 1 .. Len(arrived) - consumed : Staged[k] = arrived[consumed + k]
  BY <1>1, SuffixFacts DEF StageIsFifo
<1>4. \A k \in 1 .. Len(Staged) : Staged[k] \in Bytes
  BY <1>2
<1> QED
  BY <1>1, <1>2, <1>3, <1>4

\* The message at hand, in terms of what arrived.
LEMMA MessageFacts ==
    ASSUME TypeOK, StageIsFifo, HasHeader
    PROVE  /\ MsgLen = HdrLen + arrived[consumed + 3] + 1 /\ MsgLen \in Nat
           /\ MsgLen > HdrLen /\ MsgLen <= HdrLen + ByteSpace
           /\ Staged[1] = arrived[consumed + 1] /\ consumed + HdrLen <= Len(arrived)
           /\ MsgLen <= Len(Staged) =>
                Msg = SubSeq(arrived, consumed + 1, consumed + MsgLen)
<1>1. /\ Staged \in Seq(Bytes)
      /\ Len(Staged) \in Nat /\ Len(Staged) = Len(arrived) - consumed
      /\ \A k \in 1 .. Len(Staged) : Staged[k] = arrived[consumed + k] /\ Staged[k] \in Bytes
      /\ arrived \in Seq(Bytes) /\ Len(arrived) \in Nat /\ consumed \in 0 .. Len(arrived)
  BY StagedFacts
<1>2. Len(Staged) >= 3 /\ 3 \in 1 .. Len(Staged) /\ 1 \in 1 .. Len(Staged)
  BY <1>1 DEF HasHeader, HdrLen
<1>3. /\ Staged[3] = arrived[consumed + 3] /\ Staged[3] \in Bytes
      /\ Staged[1] = arrived[consumed + 1]
  BY <1>1, <1>2
<1>4. Staged[3] \in Nat /\ Staged[3] < ByteSpace /\ ByteSpace \in Nat
  BY <1>3, BytesFacts DEF Bytes
<1>5. /\ MsgLen = HdrLen + arrived[consumed + 3] + 1 /\ MsgLen \in Nat
      /\ MsgLen > HdrLen /\ MsgLen <= HdrLen + ByteSpace
  BY <1>3, <1>4 DEF MsgLen, HdrLen
<1>6. consumed + HdrLen <= Len(arrived)
  BY <1>1, <1>2 DEF HdrLen
<1>7. ASSUME MsgLen <= Len(Staged)
      PROVE  Msg = SubSeq(arrived, consumed + 1, consumed + MsgLen)
  <2>1. PICK m \in Nat, c \in Nat : m = MsgLen /\ c = consumed /\ c + m <= Len(arrived)
    BY <1>1, <1>5, <1>7
  <2>2. /\ SubSeq(Staged, 1, m) \in Seq(Bytes) /\ Len(SubSeq(Staged, 1, m)) = m
        /\ \A k \in 1 .. m : SubSeq(Staged, 1, m)[k] = Staged[k]
    BY <1>1, <1>7, <2>1, PrefixFacts
  <2>3. PICK lo \in Int, hi \in Int : lo = c + 1 /\ hi = c + m
    BY <2>1
  <2>4. \A k \in lo .. hi : arrived[k] \in Bytes
    BY <1>1, <2>1, <2>3
  <2>5. /\ SubSeq(arrived, lo, hi) \in Seq(Bytes)
        /\ Len(SubSeq(arrived, lo, hi)) = IF lo <= hi THEN hi - lo + 1 ELSE 0
        /\ \A k \in 1 .. hi - lo + 1 : SubSeq(arrived, lo, hi)[k] = arrived[lo + k - 1]
    BY <2>4, SubSeqProperties
  <2>6. hi - lo + 1 = m /\ (~ (lo <= hi) => m = 0) /\ \A k \in 1 .. m : lo + k - 1 = c + k
    BY <2>1, <2>3
  <2>7. Len(SubSeq(arrived, lo, hi)) = m
    BY <2>5, <2>6
  <2>8. ASSUME NEW k \in 1 .. m PROVE SubSeq(Staged, 1, m)[k] = SubSeq(arrived, lo, hi)[k]
    <3>1. k \in 1 .. Len(Staged)
      BY <1>1, <1>7, <2>1
    <3>2. Staged[k] = arrived[c + k]
      BY <1>1, <2>1, <3>1
    <3> QED
      BY <2>2, <2>5, <2>6, <3>2
  <2>9. SubSeq(Staged, 1, m) = SubSeq(arrived, lo, hi)
    BY <2>2, <2>5, <2>7, <2>8, SeqEqual
  <2> QED
    BY <2>1, <2>3, <2>9 DEF Msg
<1> QED
  BY <1>3, <1>5, <1>6, <1>7

\* The bytes of the message at hand were sent for frames.
LEMMA SentForFacts ==
    ASSUME TypeOK, StageIsFifo, HasMessage
    PROVE  /\ SentFor \subseteq Frames /\ MsgLen \in Nat /\ MsgLen > HdrLen
           /\ consumed + MsgLen <= Len(arrived) /\ consumed \in Nat
           /\ Len(arrivedFrame) = Len(arrived) /\ Len(arrived) \in Nat
<1>1. MsgLen \in Nat /\ MsgLen > HdrLen /\ MsgLen <= Len(Staged)
  BY MessageFacts DEF HasMessage
<1>2. /\ Len(Staged) = Len(arrived) - consumed /\ Len(arrived) \in Nat
      /\ consumed \in 0 .. Len(arrived)
  BY StagedFacts
<1>3. consumed + MsgLen <= Len(arrived) /\ consumed \in Nat
  BY <1>1, <1>2
<1>4. arrivedFrame \in Seq(Frames) /\ Len(arrivedFrame) = Len(arrived)
  BY DEF TypeOK
<1>5. \A k \in consumed + 1 .. consumed + MsgLen : k \in 1 .. Len(arrivedFrame)
  BY ONLY <1>1, <1>2, <1>3, <1>4
<1>6. \A k \in consumed + 1 .. consumed + MsgLen : arrivedFrame[k] \in Frames
  BY ONLY <1>4, <1>5
<1> QED
  BY <1>1, <1>2, <1>3, <1>4, <1>6 DEF SentFor

\* The frame a message is taken for has its bytes, and they were sent for it.
LEMMA FrameOfFacts ==
    ASSUME TypeOK, StageIsFifo, HasMessage
    PROVE  /\ FrameOf(Msg) \in Frames \cup {NoFrame}
           /\ FrameOf(Msg) # NoFrame =>
                FrameOf(Msg) \in Frames /\ Msg = FrameBytes[FrameOf(Msg)] /\ FrameOf(Msg) \in SentFor
<1>1. SentFor \subseteq Frames
  BY SentForFacts
<1>2. CASE \E f \in SentFor : Msg = FrameBytes[f]
  <2>1. FrameOf(Msg) = CHOOSE f \in SentFor : Msg = FrameBytes[f]
    BY <1>2 DEF FrameOf
  <2> QED
    BY <1>1, <1>2, <2>1
<1>3. CASE ~ \E f \in SentFor : Msg = FrameBytes[f]
  BY <1>3 DEF FrameOf
<1> QED
  BY <1>2, <1>3

LEMMA InitIInv == Init => IInv
<1> SUFFICES ASSUME Init PROVE IInv
  OBVIOUS
<1> USE DEF Init
<1>1. m_stagebuf \in Stage!Buffers(Bytes) /\ m_stagebuf.len = 0
  <2>1. 0 \in Bytes /\ StageSize \in Nat
    BY BytesFacts, StageSizeFacts DEF Bytes
  <2> QED
    BY <2>1 DEF Stage!EmptyBuffer, Stage!Buffers
<1>2. 1 \in Frames
  BY ReceiverAssumption DEF Frames
<1>3. TypeOK
  <2>1. /\ <<>> \in Seq(Bytes) /\ <<>> \in Seq(Frames) /\ Len(<<>>) = 0
        /\ <<>> \in Seq(Frames \cup {NoFrame})
    BY EmptySeq
  <2>2. MaxSends \in Nat /\ MaxDamage \in Nat
    BY ReceiverAssumption
  <2>3. /\ 0 \in Nat /\ 0 \in 0 .. MaxSends /\ 0 \in 0 .. MaxDamage /\ 0 \in 0 .. 0
        /\ FALSE \in BOOLEAN
    BY <2>2
  <2> QED
    BY <1>1, <1>2, <2>1, <2>3 DEF TypeOK
<1>4. Staged \in Seq(Bytes) /\ Len(Staged) = 0
  BY <1>1, StageContents DEF Staged
<1>5. StageIsFifo
  BY <1>4, SubSeqEmpty DEF StageIsFifo
<1>6. Waiting
  BY <1>4 DEF Waiting, HasHeader, HdrLen
<1>7. AllPassed
  BY DEF AllPassed
<1> QED
  BY <1>3, <1>5, <1>6, <1>7 DEF IInv

\* The radio and the line touch neither the buffer nor what OnRun has done.
LEMMA Undisturbed ==
    ASSUME IInv, UNCHANGED <<m_stagebuf, radio, consumed, arrived, accepted>>
    PROVE  StageIsFifo' /\ Waiting' /\ AllPassed'
BY DEF IInv, StageIsFifo, Waiting, AllPassed, Passed, Staged, HasHeader, Aligned, MsgLen

\* Bytes that arrive change nothing about the bytes before them.
LEMMA PassedStays ==
    ASSUME arrived \in Seq(Bytes), NEW out \in Seq(Bytes), arrived' = arrived \o out,
           accepted' = accepted, NEW k \in 1 .. Len(arrived), Passed(k)
    PROVE  Passed(k)'
<1>1. PICK n \in Nat : n = Len(arrived) /\ \A j \in 1 .. n : arrived[j] \in Bytes
  OBVIOUS
<1>2. /\ arrived' \in Seq(Bytes) /\ Len(arrived') \in Nat /\ Len(arrived') >= n
      /\ \A j \in 1 .. n : arrived'[j] = arrived[j]
  BY <1>1, ConcatFacts
<1>3. CASE \E a \in accepted : a.first <= k /\ k <= a.last
  BY <1>3 DEF Passed
<1>4. CASE arrived[k] # PKT_SENTINEL
  BY <1>1, <1>2, <1>4 DEF Passed
<1>5. CASE /\ k + HdrLen <= n /\ k + HdrLen + arrived[k + 2] <= n
           /\ ~ ValidateChecksum(SubSeq(arrived, k, k + HdrLen + arrived[k + 2]))
  <2>1. k + 2 \in 1 .. n /\ k \in Nat
    BY <1>1, <1>5 DEF HdrLen
  <2>2. arrived'[k + 2] = arrived[k + 2] /\ arrived[k + 2] \in Nat
    BY <1>1, <1>2, <2>1, BytesFacts
  <2>3. PICK last \in 1 .. n : last = k + HdrLen + arrived[k + 2]
    BY <1>1, <1>5, <2>1, <2>2 DEF HdrLen
  <2>4. SubSeq(arrived \o out, k, last) = SubSeq(arrived, k, last)
    BY <1>1, <2>3, SubSeqOfConcat1
  <2>5. k + HdrLen <= Len(arrived') /\ k + HdrLen + arrived'[k + 2] <= Len(arrived')
    BY <1>2, <1>5, <2>1, <2>2 DEF HdrLen
  <2>6. ~ ValidateChecksum(SubSeq(arrived', k, k + HdrLen + arrived'[k + 2]))
    BY <1>5, <2>2, <2>3, <2>4
  <2>7. ValidateChecksum(SubSeq(arrived, k, k + HdrLen + arrived[k + 2]))'
            = ValidateChecksum(SubSeq(arrived', k, k + HdrLen + arrived'[k + 2]))
    OBVIOUS
  <2> QED
    BY <2>5, <2>6, <2>7 DEF Passed
<1> QED
  BY <1>1, <1>3, <1>4, <1>5 DEF Passed

LEMMA ReadLineStep ==
    ASSUME IInv, ReadLine
    PROVE  IInv'
<1> USE DEF IInv
<1>1. PICK n \in 1 .. Len(line) :
        LET part == SubSeq(line, 1, n)
            got == Decode(part, inESC)
            buf == Stage!MakeRoom(m_stagebuf)
        IN  /\ n <= Stage!GetWriteLen(m_stagebuf)
            /\ m_stagebuf' = Stage!MarkWritten(Stage!Store(buf, got.out), Len(got.out))
            /\ inESC' = got.esc
            /\ line' = SubSeq(line, n + 1, Len(line))
            /\ lineFrame' = SubSeq(lineFrame, n + 1, Len(line))
            /\ arrived' = arrived \o got.out
            /\ arrivedFrame' = arrivedFrame \o
                   [j \in DOMAIN got.out |-> lineFrame[CompletedBy(part, inESC, j)]]
  BY DEF ReadLine
<1>2. PICK part, got, tags :
        /\ part = SubSeq(line, 1, n) /\ got = Decode(part, inESC)
        /\ tags = [j \in DOMAIN got.out |-> lineFrame[CompletedBy(part, inESC, j)]]
  OBVIOUS
<1>3. line \in Seq(Bytes) /\ Len(line) \in Nat /\ inESC \in BOOLEAN
      /\ m_stagebuf \in Stage!Buffers(Bytes) /\ n \in 0 .. Len(line)
  BY DEF TypeOK
<1>4. part \in Seq(Bytes) /\ Len(part) = n
  BY <1>2, <1>3, PrefixFacts
<1>5. got.out \in Seq(Bytes) /\ got.esc \in BOOLEAN /\ Len(got.out) <= n /\ Len(got.out) \in Nat
  BY <1>2, <1>3, <1>4, DecodeTyped
<1>6. Stage!GetWriteLen(m_stagebuf) \in Nat
  BY <1>3, StageRoom
<1>7. Len(got.out) <= Stage!GetWriteLen(m_stagebuf)
  BY <1>1, <1>5, <1>6
<1>8. m_stagebuf' \in Stage!Buffers(Bytes) /\ Staged' = Staged \o got.out
  BY <1>1, <1>2, <1>3, <1>5, <1>7, StageWrite DEF Staged
<1>9. arrived' = arrived \o got.out /\ inESC' \in BOOLEAN /\ line' \in Seq(Bytes)
  BY <1>1, <1>2, <1>3, <1>5, SuffixFacts
<1>10. arrived \in Seq(Bytes) /\ Len(arrived) \in Nat /\ consumed \in 0 .. Len(arrived)
  BY DEF TypeOK
<1>11. arrived' \in Seq(Bytes) /\ Len(arrived') = Len(arrived) + Len(got.out)
  BY <1>5, <1>9, <1>10, ConcatFacts
<1>12. UNCHANGED <<m_last_seq, radioVars, consumed, accepted, acked, dispatched>>
       /\ radio' = "parse"
  BY DEF ReadLine
<1>13. consumed' \in 0 .. Len(arrived')
  BY <1>5, <1>10, <1>11, <1>12
<1>13a. lineFrame \in Seq(Frames) /\ Len(lineFrame) = Len(line)
  BY DEF TypeOK
<1>13b. lineFrame' \in Seq(Frames) /\ Len(lineFrame') = Len(line')
  BY <1>1, <1>3, <1>13a, SuffixFacts
<1>13c. tags \in Seq(Frames) /\ Len(tags) = Len(got.out)
  <2>1. \A j \in 1 .. Len(got.out) : CompletedBy(part, inESC, j) \in 1 .. n
    BY <1>2, <1>3, <1>4, CompletedInOrder
  <2>2. \A j \in 1 .. Len(got.out) : lineFrame[CompletedBy(part, inESC, j)] \in Frames
    BY <1>3, <1>13a, <2>1
  <2>3. DOMAIN got.out = 1 .. Len(got.out)
    BY <1>5
  <2>4. PICK m \in Nat : m = Len(got.out)
    BY <1>5
  <2>5. tags \in [1 .. m -> Frames]
    BY ONLY <1>2, <2>2, <2>3, <2>4
  <2> QED
    BY ONLY <2>4, <2>5, FunctionSeq
<1>13d. arrivedFrame' \in Seq(Frames) /\ Len(arrivedFrame') = Len(arrived')
  <2>1. arrivedFrame \in Seq(Frames) /\ Len(arrivedFrame) = Len(arrived)
    BY DEF TypeOK
  <2>2. arrivedFrame' = arrivedFrame \o tags
    BY <1>1, <1>2
  <2>3. Len(arrived') = Len(arrived) + Len(got.out)
    BY <1>11
  <2>4. arrivedFrame \o tags \in Seq(Frames) /\ Len(arrivedFrame \o tags) = Len(arrivedFrame) + Len(tags)
    BY ONLY <1>13c, <2>1, ConcatFacts
  <2> QED
    BY ONLY <1>13c, <2>1, <2>2, <2>3, <2>4
<1>14. TypeOK'
  BY <1>8, <1>9, <1>11, <1>12, <1>13, <1>13b, <1>13d DEF TypeOK, radioVars
<1>15. StageIsFifo'
  <2>1. SubSeq(arrived \o got.out, consumed + 1, Len(arrived \o got.out))
            = SubSeq(arrived, consumed + 1, Len(arrived)) \o got.out
    BY <1>5, <1>10, SuffixConcat
  <2> QED
    BY <1>8, <1>9, <1>12, <2>1 DEF StageIsFifo
<1>16. Waiting'
  BY <1>12 DEF Waiting
<1>17. AllPassed'
  <2> SUFFICES ASSUME NEW k \in 1 .. consumed PROVE Passed(k)'
    BY <1>12 DEF AllPassed
  <2>1. k \in 1 .. Len(arrived) /\ Passed(k)
    BY <1>10 DEF AllPassed
  <2> QED
    BY <1>5, <1>9, <1>10, <1>12, <2>1, PassedStays
<1> QED
  BY <1>14, <1>15, <1>16, <1>17

LEMMA NeedMoreStep ==
    ASSUME IInv, NeedMore
    PROVE  IInv'
<1> USE DEF IInv
<1>1. UNCHANGED <<m_stagebuf, inESC, m_last_seq, line, lineFrame, radioVars, consumed, history>>
      /\ radio' = "read" /\ (HasHeader => Aligned /\ MsgLen > Len(Staged))
  BY DEF NeedMore
<1>2. TypeOK'
  BY <1>1 DEF TypeOK, radioVars, history
<1>3. StageIsFifo' /\ AllPassed'
  BY <1>1 DEF StageIsFifo, AllPassed, Passed, Staged, history
<1>4. Waiting'
  BY <1>1 DEF Waiting, HasHeader, Aligned, MsgLen, Staged
<1> QED
  BY <1>2, <1>3, <1>4

\* OnRun consumes n bytes: none of them may begin a frame that is missed.
LEMMA ConsumeStep ==
    ASSUME IInv, radio = "parse", NEW n \in Nat, n <= Len(Staged), Consume(n),
           accepted \subseteq accepted', accepted' \subseteq [first : Nat, last : Nat],
           m_last_seq' \in {-1} \cup Bytes, acked' \subseteq Frames \cup {NoFrame},
           dispatched' \in Seq(Frames \cup {NoFrame}),
           \A k \in consumed + 1 .. consumed + n : Passed(k)'
    PROVE  IInv'
<1> USE DEF IInv
<1>1. /\ m_stagebuf' = Stage!MarkRead(m_stagebuf, n) /\ consumed' = consumed + n
      /\ UNCHANGED <<inESC, radio, line, lineFrame, radioVars, arrived, arrivedFrame>>
  BY DEF Consume
<1>2. /\ Staged \in Seq(Bytes) /\ Len(Staged) = m_stagebuf.len
      /\ Len(Staged) \in Nat /\ Len(Staged) = Len(arrived) - consumed
      /\ arrived \in Seq(Bytes) /\ Len(arrived) \in Nat /\ consumed \in 0 .. Len(arrived)
  BY StagedFacts
<1>3. m_stagebuf \in Stage!Buffers(Bytes) /\ n \in 0 .. m_stagebuf.len
  BY <1>2 DEF TypeOK
<1>4. /\ m_stagebuf' \in Stage!Buffers(Bytes)
      /\ Staged' = SubSeq(Staged, n + 1, m_stagebuf.len)
  BY <1>1, <1>3, StageRead DEF Staged
<1>5. consumed' \in 0 .. Len(arrived')
  BY <1>1, <1>2
<1>6. TypeOK'
  BY <1>1, <1>4, <1>5 DEF TypeOK, radioVars
<1>7. StageIsFifo'
  <2>1. n \in 0 .. Len(arrived) - consumed
    BY <1>2
  <2>2. SubSeq(SubSeq(arrived, consumed + 1, Len(arrived)), n + 1, Len(arrived) - consumed)
            = SubSeq(arrived, (consumed + n) + 1, Len(arrived))
    BY <1>2, <2>1, SuffixSuffix
  <2> QED
    BY <1>1, <1>2, <1>4, <2>2 DEF StageIsFifo
<1>8. Waiting'
  BY <1>1 DEF Waiting
<1>9. AllPassed'
  <2> SUFFICES ASSUME NEW k \in 1 .. consumed + n PROVE Passed(k)'
    BY <1>1 DEF AllPassed
  <2>1. CASE k <= consumed
    <3>1. Passed(k)
      BY <1>2, <2>1 DEF AllPassed
    <3> QED
      BY <1>1, <3>1 DEF Passed
  <2>2. CASE ~ (k <= consumed)
    BY <1>2, <2>2
  <2> QED
    BY <2>1, <2>2
<1> QED
  BY <1>6, <1>7, <1>8, <1>9

LEMMA ResyncStep ==
    ASSUME IInv, Resync
    PROVE  IInv'
<1>1. /\ radio = "parse" /\ HasHeader /\ ~ Aligned /\ Consume(1)
      /\ UNCHANGED <<m_last_seq, accepted, acked, dispatched>>
  BY DEF Resync
<1>2. Staged[1] = arrived[consumed + 1] /\ consumed \in Nat /\ 1 <= Len(Staged) /\ 1 \in Nat
  BY <1>1, MessageFacts, StagedFacts DEF IInv, HasHeader, HdrLen
<1>3. \A k \in consumed + 1 .. consumed + 1 : Passed(k)'
  BY <1>1, <1>2 DEF Passed, Aligned, Consume
<1>4. /\ m_last_seq' \in {-1} \cup Bytes /\ acked' \subseteq Frames \cup {NoFrame}
      /\ dispatched' \in Seq(Frames \cup {NoFrame}) /\ accepted' \subseteq [first : Nat, last : Nat]
  BY <1>1 DEF IInv, TypeOK
<1> QED
  BY <1>1, <1>2, <1>3, <1>4, ConsumeStep

LEMMA BadChecksumStep ==
    ASSUME IInv, BadChecksum
    PROVE  IInv'
<1>1. /\ HasMessage /\ ~ ValidateChecksum(Msg) /\ Consume(1)
      /\ UNCHANGED <<m_last_seq, accepted, acked, dispatched>>
  BY DEF BadChecksum
<1>2. radio = "parse" /\ HasHeader /\ MsgLen <= Len(Staged)
  BY <1>1 DEF HasMessage
<1>3. /\ MsgLen = HdrLen + arrived[consumed + 3] + 1 /\ MsgLen \in Nat /\ MsgLen > HdrLen
      /\ consumed + HdrLen <= Len(arrived)
      /\ Msg = SubSeq(arrived, consumed + 1, consumed + MsgLen)
  BY <1>2, MessageFacts DEF IInv
<1>4. /\ Len(Staged) \in Nat /\ Len(Staged) = Len(arrived) - consumed
      /\ Len(arrived) \in Nat /\ consumed \in 0 .. Len(arrived)
      /\ \A k \in 1 .. Len(Staged) : Staged[k] = arrived[consumed + k] /\ Staged[k] \in Bytes
  BY StagedFacts DEF IInv
<1>5. 1 \in Nat /\ 1 <= Len(Staged) /\ 3 \in 1 .. Len(Staged)
  BY <1>2, <1>4 DEF HasHeader, HdrLen
<1>6. arrived[consumed + 3] \in Nat
  BY <1>4, <1>5, BytesFacts
<1>7. PICK c \in Nat : c = consumed + 1
  BY <1>4
<1>8. c + 2 = consumed + 3 /\ c + HdrLen + arrived[c + 2] = consumed + MsgLen
  <2>1. consumed \in Nat /\ HdrLen \in Nat
    BY <1>4 DEF HdrLen
  <2>2. c + 2 = consumed + 3
    BY <1>7, <2>1
  <2>3. PICK b \in Nat : b = arrived[consumed + 3]
    BY <1>6
  <2>4. MsgLen = HdrLen + b + 1
    BY <1>3, <2>3
  <2>5. c + HdrLen + b = consumed + MsgLen
    BY <1>7, <2>1, <2>4
  <2> QED
    BY <2>2, <2>3, <2>5
<1>9. c + HdrLen <= Len(arrived) /\ c + HdrLen + arrived[c + 2] <= Len(arrived)
  <2>1. consumed + MsgLen <= Len(arrived)
    <3>1. MsgLen <= Len(arrived) - consumed
      BY <1>2, <1>4
    <3> QED
      BY <1>3, <1>4, <3>1
  <2>2. c + HdrLen <= consumed + MsgLen
    <3>1. HdrLen \in Nat
      BY DEF HdrLen
    <3> QED
      BY <1>3, <1>4, <1>7, <3>1
  <2>3. c + HdrLen \in Int /\ consumed + MsgLen \in Int
    BY <1>3, <1>4, <1>7 DEF HdrLen
  <2>4. c + HdrLen <= Len(arrived)
    BY <1>4, <2>1, <2>2, <2>3
  <2> QED
    BY <1>8, <2>1, <2>4
<1>10. ~ ValidateChecksum(SubSeq(arrived, c, c + HdrLen + arrived[c + 2]))
  BY <1>1, <1>3, <1>7, <1>8
<1>11. arrived' = arrived
  BY <1>1 DEF Consume
<1>12. ValidateChecksum(SubSeq(arrived, c, c + HdrLen + arrived[c + 2]))'
           = ValidateChecksum(SubSeq(arrived', c, c + HdrLen + arrived'[c + 2]))
  OBVIOUS
<1>13. Passed(c)'
  BY <1>9, <1>10, <1>11, <1>12 DEF Passed
<1>14. \A k \in consumed + 1 .. consumed + 1 : Passed(k)'
  BY <1>4, <1>7, <1>13
<1>15. /\ m_last_seq' \in {-1} \cup Bytes /\ acked' \subseteq Frames \cup {NoFrame}
      /\ dispatched' \in Seq(Frames \cup {NoFrame}) /\ accepted' \subseteq [first : Nat, last : Nat]
  BY <1>1 DEF IInv, TypeOK
<1> QED
  BY <1>1, <1>2, <1>5, <1>14, <1>15, ConsumeStep

LEMMA GoodMessageStep ==
    ASSUME IInv, GoodMessage,
           dispatched' = dispatched \/ dispatched' = Append(dispatched, FrameOf(Msg))
    PROVE  IInv'
<1>1. /\ radio = "parse" /\ HasHeader /\ MsgLen <= Len(Staged) /\ ValidateChecksum(Msg)
      /\ accepted' = accepted \cup {[first |-> consumed + 1, last |-> consumed + MsgLen]}
      /\ acked' = acked \cup {FrameOf(Msg)} /\ m_last_seq' = FrameSeq /\ Consume(MsgLen)
  BY DEF GoodMessage, HasMessage
<1>2. FrameOf(Msg) \in Frames \cup {NoFrame}
  BY FrameOfFacts DEF IInv, GoodMessage
<1>3. MsgLen \in Nat
  BY <1>1, MessageFacts DEF IInv
<1>4. FrameSeq \in Bytes
  BY <1>1, StagedFacts DEF IInv, HasHeader, HdrLen, FrameSeq
<1>5. /\ m_last_seq' \in {-1} \cup Bytes /\ acked' \subseteq Frames \cup {NoFrame}
      /\ dispatched' \in Seq(Frames \cup {NoFrame})
      /\ accepted \subseteq accepted'
  <2>1. acked \subseteq Frames \cup {NoFrame} /\ dispatched \in Seq(Frames \cup {NoFrame})
    BY DEF IInv, TypeOK
  <2>2. dispatched' \in Seq(Frames \cup {NoFrame})
    <3>1. Append(dispatched, FrameOf(Msg)) \in Seq(Frames \cup {NoFrame})
      BY <1>2, <2>1, AppendProperties
    <3> QED
      BY <2>1, <3>1
  <2>3. acked' \subseteq Frames \cup {NoFrame}
    BY ONLY <1>1, <1>2, <2>1
  <2> QED
    BY <1>1, <1>4, <2>2, <2>3
<1>5a. accepted' \subseteq [first : Nat, last : Nat]
  <2>1. consumed + 1 \in Nat /\ consumed + MsgLen \in Nat
    BY <1>3, StagedFacts DEF IInv
  <2> QED
    BY <1>1, <2>1 DEF IInv, TypeOK
<1>6. ASSUME NEW k \in consumed + 1 .. consumed + MsgLen PROVE Passed(k)'
  <2>1. PICK a : a = [first |-> consumed + 1, last |-> consumed + MsgLen]
    OBVIOUS
  <2>2. a \in accepted' /\ a.first <= k /\ k <= a.last
    BY <1>1, <2>1
  <2> QED
    BY <2>2 DEF Passed
<1> QED
  BY <1>1, <1>3, <1>5, <1>5a, <1>6, ConsumeStep

LEMMA PutStep ==
    ASSUME IInv, NEW bytes \in Seq(Bytes), Put(bytes), damages' \in 0 .. MaxDamage
    PROVE  IInv'
<1>1. /\ sends < MaxSends /\ sends' = sends + 1 /\ line' = line \o bytes
      /\ lineFrame' = lineFrame \o [k \in DOMAIN bytes |-> current]
      /\ UNCHANGED <<m_stagebuf, inESC, m_last_seq, radio, current, skipped, consumed, history>>
  BY DEF Put
<1>2. line' \in Seq(Bytes) /\ sends' \in 0 .. MaxSends
  BY <1>1, ConcatFacts, ReceiverAssumption DEF IInv, TypeOK
<1>2a. lineFrame' \in Seq(Frames) /\ Len(lineFrame') = Len(line')
  <2>1. PICK tags : tags = [k \in DOMAIN bytes |-> current]
    OBVIOUS
  <2>2. tags \in Seq(Frames) /\ Len(tags) = Len(bytes)
    BY <2>1, SMTT(30) DEF IInv, TypeOK
  <2>3. line \in Seq(Bytes) /\ lineFrame \in Seq(Frames) /\ Len(lineFrame) = Len(line)
    BY DEF IInv, TypeOK
  <2>4. lineFrame' = lineFrame \o tags /\ line' = line \o bytes
    BY <1>1, <2>1
  <2>5. lineFrame \o tags \in Seq(Frames) /\ Len(lineFrame \o tags) = Len(lineFrame) + Len(tags)
    BY ONLY <2>2, <2>3, ConcatFacts
  <2>6. Len(line \o bytes) = Len(line) + Len(bytes)
    BY ONLY bytes \in Seq(Bytes), <2>3, ConcatFacts
  <2> QED
    BY ONLY <2>2, <2>3, <2>4, <2>5, <2>6
<1>3. TypeOK'
  BY <1>1, <1>2, <1>2a DEF IInv, TypeOK, history
<1> QED
  BY <1>1, <1>3, Undisturbed DEF IInv, history

\* What is transmitted, damaged or not, is bytes.
LEMMA TransmissionPut ==
    ASSUME TypeOK, RadioSends \/ LineDamages
    PROVE  damages' \in 0 .. MaxDamage /\ \E bytes \in Seq(Bytes) : Put(bytes)
<1>1. PICK bytes : bytes = Escape(FrameBytes[current])
  OBVIOUS
<1>2. bytes \in Seq(Bytes)
  <2>1. current \in Frames
    BY DEF TypeOK
  <2>2. FrameBytes[current] \in Seq(Bytes) /\ Len(FrameBytes[current]) >= 1
    <3>1. Len(Payloads[current]) \in Nat
      BY <2>1, FrameFacts, BytesFacts
    <3> QED
      BY <2>1, <3>1, FrameFacts DEF HdrLen
  <2>3. FrameBytes[current] # <<>>
    BY <2>2, EmptySeq
  <2> QED
    BY <1>1, <2>2, <2>3, EscapeTyped
<1>3. damages \in 0 .. MaxDamage
  BY DEF TypeOK
<1>4. CASE RadioSends
  BY <1>1, <1>2, <1>3, <1>4 DEF RadioSends
<1>5. CASE LineDamages
  <2>1. damages' \in 0 .. MaxDamage
    BY <1>3, <1>5, ReceiverAssumption DEF LineDamages
  <2>2. PICK k \in DOMAIN bytes :
            \/ Put(RemoveAt(bytes, k))
            \/ \E b \in Bytes \ {bytes[k]} : Put([bytes EXCEPT ![k] = b])
    BY <1>1, <1>5 DEF LineDamages
  <2>3. k \in 1 .. Len(bytes)
    BY <1>2
  <2>4. RemoveAt(bytes, k) \in Seq(Bytes)
    BY <1>2, <2>3, RemoveAtFacts
  <2>5. \A b \in Bytes : [bytes EXCEPT ![k] = b] \in Seq(Bytes)
    BY <1>2, <2>3, ExceptSeq
  <2> QED
    BY <2>1, <2>2, <2>4, <2>5
<1> QED
  BY <1>4, <1>5

LEMMA RadioStep ==
    ASSUME IInv, RadioSends \/ LineDamages
    PROVE  IInv'
<1>1. damages' \in 0 .. MaxDamage /\ \E bytes \in Seq(Bytes) : Put(bytes)
  BY TransmissionPut DEF IInv
<1> QED
  BY <1>1, PutStep

LEMMA RadioGoesOnStep ==
    ASSUME IInv, RadioGoesOn
    PROVE  IInv'
<1>1. /\ current < Len(Payloads) /\ current' = current + 1
      /\ skipped' = IF current \in acked THEN 0 ELSE skipped + 1
      /\ UNCHANGED <<m_stagebuf, inESC, m_last_seq, radio, line, lineFrame, sends, damages,
                     consumed, history>>
  BY DEF RadioGoesOn
<1>2. current' \in Frames /\ skipped' \in Nat
  BY <1>1, ReceiverAssumption DEF IInv, TypeOK, Frames
<1>3. TypeOK'
  BY <1>1, <1>2 DEF IInv, TypeOK, history
<1> QED
  BY <1>1, <1>3, Undisturbed DEF IInv, history

LEMMA NextIInv == IInv /\ [Next]_vars => IInv'
<1> SUFFICES ASSUME IInv, [Next]_vars PROVE IInv'
  OBVIOUS
<1>1. CASE ReadLine
  BY <1>1, ReadLineStep
<1>2. CASE NeedMore
  BY <1>2, NeedMoreStep
<1>3. CASE Resync
  BY <1>3, ResyncStep
<1>4. CASE BadChecksum
  BY <1>4, BadChecksumStep
<1>5. CASE Dispatch
  BY <1>5, GoodMessageStep DEF Dispatch
<1>6. CASE IgnoreDuplicate
  BY <1>6, GoodMessageStep DEF IgnoreDuplicate
<1>7. CASE RadioSends \/ LineDamages
  BY <1>7, RadioStep
<1>8. CASE RadioGoesOn
  BY <1>8, RadioGoesOnStep
<1>9. CASE UNCHANGED vars
  <2>1. TypeOK'
    BY <1>9 DEF IInv, TypeOK, vars, radioVars, history
  <2> QED
    BY <1>9, <2>1, Undisturbed DEF IInv, vars, history
<1> QED
  BY <1>1, <1>2, <1>3, <1>4, <1>5, <1>6, <1>7, <1>8, <1>9 DEF Next, RadioThread

LEMMA AlwaysIInv == Spec => []IInv
BY InitIInv, NextIInv, PTL DEF Spec

-----------------------------------------------------------------------------
(* The duplicate filter.  The bytes on the line, and those that arrived,   *)
(* are in the order of the frames they were sent for; a frame is taken in  *)
(* its place in that order as long as no bytes collide; and the radio is   *)
(* never so far ahead of the last frame taken that sequence numbers wrap.  *)

Ordered(s) == \A j, k \in 1 .. Len(s) : j <= k => s[j] <= s[k]
Before(s, t) == \A j \in 1 .. Len(s), k \in 1 .. Len(t) : s[j] <= t[k]
UpTo(s, m) == \A k \in 1 .. Len(s) : s[k] <= m

LastTaken == IF dispatched = <<>> THEN 0 ELSE dispatched[Len(dispatched)]

SentInOrder ==
    /\ Ordered(arrivedFrame) /\ Ordered(lineFrame) /\ Before(arrivedFrame, lineFrame)
    /\ UpTo(arrivedFrame, current) /\ UpTo(lineFrame, current)

\* What the filter remembers is the last frame taken, one of those consumed.
Remembered ==
    /\ m_last_seq = IF dispatched = <<>> THEN -1 ELSE LastTaken % SeqSpace
    /\ dispatched # <<>> => \E k \in 1 .. consumed : arrivedFrame[k] = LastTaken

TakenInOrder == \A j, k \in DOMAIN dispatched : j < k => dispatched[j] < dispatched[k]
AllTaken == acked = ToSet(dispatched) /\ TakenInOrder

\* No frame that is still to come has the number of the last one taken.
InWindow ==
    /\ current - LastTaken <= skipped + 1
    /\ skipped < SeqSpace - 1 \/ current = 1

FInv == SentInOrder /\ Remembered /\ AllTaken /\ InWindow

LEMMA OrderedConcat ==
    ASSUME NEW s \in Seq(Nat), NEW t \in Seq(Nat), Ordered(s), Ordered(t), Before(s, t)
    PROVE  Ordered(s \o t)
<1>1. PICK m \in Nat, n \in Nat : m = Len(s) /\ n = Len(t)
  OBVIOUS
<1>u. PICK u : u = s \o t
  OBVIOUS
<1>2. /\ Len(u) = m + n
      /\ \A j \in 1 .. m + n : u[j] = IF j <= m THEN s[j] ELSE t[j - m]
  <2>1. /\ Len(s \o t) = Len(s) + Len(t)
        /\ \A j \in 1 .. Len(s) + Len(t) : (s \o t)[j] = IF j <= Len(s) THEN s[j] ELSE t[j - Len(s)]
    BY ONLY s \in Seq(Nat), t \in Seq(Nat), ConcatFacts
  <2> QED
    BY ONLY <1>1, <1>u, <2>1
<1>3. ASSUME NEW j \in 1 .. m + n, NEW k \in 1 .. m + n, j <= k PROVE u[j] <= u[k]
  <2>1. CASE k <= m
    <3>1. u[j] = s[j] /\ u[k] = s[k] /\ j \in 1 .. m /\ k \in 1 .. m
      BY <1>2, <1>3, <2>1
    <3> QED
      BY <1>1, <1>3, <3>1 DEF Ordered
  <2>2. CASE ~ (k <= m) /\ j <= m
    <3>1. u[j] = s[j] /\ u[k] = t[k - m] /\ j \in 1 .. m /\ k - m \in 1 .. n
      BY <1>2, <2>2
    <3> QED
      BY <1>1, <3>1 DEF Before
  <2>3. CASE ~ (k <= m) /\ ~ (j <= m)
    <3>1. /\ u[j] = t[j - m] /\ u[k] = t[k - m] /\ j - m \in 1 .. n /\ k - m \in 1 .. n
          /\ j - m <= k - m
      BY <1>2, <1>3, <2>3
    <3> QED
      BY <1>1, <3>1 DEF Ordered
  <2> QED
    BY <2>1, <2>2, <2>3
<1> QED
  BY ONLY <1>1, <1>u, <1>2, <1>3 DEF Ordered

LEMMA ConcatUpTo ==
    ASSUME NEW s \in Seq(Nat), NEW t \in Seq(Nat), NEW m \in Nat, UpTo(s, m), UpTo(t, m)
    PROVE  UpTo(s \o t, m)
<1>1. PICK l \in Nat, n \in Nat : l = Len(s) /\ n = Len(t)
  OBVIOUS
<1>u. PICK u : u = s \o t
  OBVIOUS
<1>2. /\ Len(u) = l + n
      /\ \A j \in 1 .. l + n : u[j] = IF j <= l THEN s[j] ELSE t[j - l]
  <2>1. /\ Len(s \o t) = Len(s) + Len(t)
        /\ \A j \in 1 .. Len(s) + Len(t) : (s \o t)[j] = IF j <= Len(s) THEN s[j] ELSE t[j - Len(s)]
    BY ONLY s \in Seq(Nat), t \in Seq(Nat), ConcatFacts
  <2> QED
    BY ONLY <1>1, <1>u, <2>1
<1>3. ASSUME NEW k \in 1 .. l + n PROVE u[k] <= m
  <2>1. CASE k <= l
    BY <1>1, <1>2, <2>1 DEF UpTo
  <2>2. CASE ~ (k <= l)
    <3>1. u[k] = t[k - l] /\ k - l \in 1 .. n
      BY <1>2, <2>2
    <3> QED
      BY <1>1, <3>1 DEF UpTo
  <2> QED
    BY <2>1, <2>2
<1> QED
  BY ONLY <1>1, <1>u, <1>2, <1>3 DEF UpTo

LEMMA ConcatBefore ==
    ASSUME NEW s \in Seq(Nat), NEW t \in Seq(Nat), NEW r \in Seq(Nat), Before(s, r), Before(t, r)
    PROVE  Before(s \o t, r)
<1>1. ASSUME NEW k \in 1 .. Len(r) PROVE UpTo(s \o t, r[k])
  <2>1. r[k] \in Nat /\ UpTo(s, r[k]) /\ UpTo(t, r[k])
    BY DEF Before, UpTo
  <2> QED
    BY <2>1, ConcatUpTo
<1> QED
  BY <1>1 DEF Before, UpTo

LEMMA BeforeConcat ==
    ASSUME NEW s \in Seq(Nat), NEW t \in Seq(Nat), NEW r \in Seq(Nat), Before(r, s), Before(r, t)
    PROVE  Before(r, s \o t)
<1>1. PICK l \in Nat, n \in Nat : l = Len(s) /\ n = Len(t)
  OBVIOUS
<1>u. PICK u : u = s \o t
  OBVIOUS
<1>2. /\ Len(u) = l + n
      /\ \A j \in 1 .. l + n : u[j] = IF j <= l THEN s[j] ELSE t[j - l]
  <2>1. /\ Len(s \o t) = Len(s) + Len(t)
        /\ \A j \in 1 .. Len(s) + Len(t) : (s \o t)[j] = IF j <= Len(s) THEN s[j] ELSE t[j - Len(s)]
    BY ONLY s \in Seq(Nat), t \in Seq(Nat), ConcatFacts
  <2> QED
    BY ONLY <1>1, <1>u, <2>1
<1>3. ASSUME NEW i \in 1 .. Len(r), NEW k \in 1 .. l + n PROVE r[i] <= u[k]
  <2>1. CASE k <= l
    BY <1>1, <1>2, <2>1 DEF Before
  <2>2. CASE ~ (k <= l)
    <3>1. u[k] = t[k - l] /\ k - l \in 1 .. n
      BY <1>2, <2>2
    <3> QED
      BY <1>1, <3>1 DEF Before
  <2> QED
    BY <2>1, <2>2
<1> QED
  BY ONLY <1>1, <1>u, <1>2, <1>3 DEF Before

\* r is picked in order, at c, from the first n elements of t, and rest follows.
Picked(r, t, c, n, rest) ==
    /\ t \in Seq(Nat) /\ Ordered(t) /\ n \in 0 .. Len(t) /\ r \in Seq(Nat)
    /\ rest = SubSeq(t, n + 1, Len(t))
    /\ \A j \in 1 .. Len(r) : c[j] \in 1 .. n /\ r[j] = t[c[j]]
    /\ \A j, k \in 1 .. Len(r) : j <= k => c[j] <= c[k]

\* What Read takes off the line, and what it leaves there.
LEMMA TakenFromFront ==
    ASSUME NEW r, NEW t, NEW c, NEW n, NEW rest, Picked(r, t, c, n, rest)
    PROVE  /\ rest \in Seq(Nat) /\ Ordered(r) /\ Ordered(rest) /\ Before(r, rest)
           /\ \A m : UpTo(t, m) => UpTo(r, m) /\ UpTo(rest, m)
           /\ \A s : Before(s, t) => Before(s, r) /\ Before(s, rest)
<1>a. t \in Seq(Nat) /\ Ordered(t) /\ n \in 0 .. Len(t) /\ r \in Seq(Nat)
      /\ rest = SubSeq(t, n + 1, Len(t))
  BY DEF Picked
<1>1. PICK l \in Nat : l = Len(t)
  BY <1>a
<1>2. /\ rest \in Seq(Nat) /\ Len(rest) = l - n
      /\ \A k \in 1 .. l - n : rest[k] = t[n + k] /\ n + k \in 1 .. l
  <2>1. /\ rest \in Seq(Nat) /\ Len(rest) = l - n
        /\ \A k \in 1 .. l - n : rest[k] = t[n + k]
    <3>1. /\ SubSeq(t, n + 1, Len(t)) \in Seq(Nat) /\ Len(SubSeq(t, n + 1, Len(t))) = Len(t) - n
          /\ \A k \in 1 .. Len(t) - n : SubSeq(t, n + 1, Len(t))[k] = t[n + k]
      BY ONLY <1>a, SuffixFacts
    <3> QED
      BY ONLY <1>1, <1>a, <3>1
  <2>2. \A k \in 1 .. l - n : n + k \in 1 .. l
    BY <1>1, <1>a
  <2> QED
    BY <2>1, <2>2
<1>3. \A j \in 1 .. Len(r) : c[j] \in 1 .. l /\ c[j] \in 1 .. n
  BY <1>1, <1>a DEF Picked
<1>4. Ordered(r)
  <2> SUFFICES ASSUME NEW j \in 1 .. Len(r), NEW k \in 1 .. Len(r), j <= k PROVE r[j] <= r[k]
    BY DEF Ordered
  <2>1. c[j] \in 1 .. l /\ c[k] \in 1 .. l /\ c[j] <= c[k]
    BY <1>3 DEF Picked
  <2> QED
    BY <1>1, <1>a, <2>1 DEF Ordered, Picked
<1>5. Ordered(rest)
  <2> SUFFICES ASSUME NEW j \in 1 .. l - n, NEW k \in 1 .. l - n, j <= k PROVE rest[j] <= rest[k]
    BY <1>2 DEF Ordered
  <2>1. n + j \in 1 .. l /\ n + k \in 1 .. l /\ n + j <= n + k
    BY <1>a, <1>2
  <2> QED
    BY <1>1, <1>a, <1>2, <2>1 DEF Ordered
<1>6. Before(r, rest)
  <2> SUFFICES ASSUME NEW j \in 1 .. Len(r), NEW k \in 1 .. l - n PROVE r[j] <= rest[k]
    BY <1>2 DEF Before
  <2>1. c[j] \in 1 .. l /\ n + k \in 1 .. l /\ c[j] <= n + k
    <3>1. PICK x : x = c[j]
      OBVIOUS
    <3>2. x \in 1 .. l /\ x \in 1 .. n
      BY ONLY <1>3, <3>1, j \in 1 .. Len(r)
    <3>3. n + k \in 1 .. l
      BY ONLY <1>2, k \in 1 .. l - n
    <3>4. n \in Nat
      BY ONLY <1>1, <1>a
    <3>5. x <= n + k
      BY ONLY <3>2, <3>4, l \in Nat, k \in 1 .. l - n
    <3> QED
      BY ONLY <3>1, <3>2, <3>3, <3>5
  <2> QED
    BY <1>1, <1>a, <1>2, <2>1 DEF Ordered, Picked
<1>7. ASSUME NEW m, UpTo(t, m) PROVE UpTo(r, m) /\ UpTo(rest, m)
  BY <1>1, <1>2, <1>3, <1>7 DEF UpTo, Picked
<1>8. ASSUME NEW s, Before(s, t) PROVE Before(s, r) /\ Before(s, rest)
  BY <1>1, <1>2, <1>3, <1>8 DEF Before, Picked
<1> QED
  BY <1>1, <1>2, <1>4, <1>5, <1>6, <1>7, <1>8

\* Two octets by which sums of the same remainder differ are the same.
LEMMA SameRemainder ==
    ASSUME NEW m \in Nat \ {0}, NEW x \in Int, NEW y \in Int, x % m = 0, y % m = 0,
           NEW u \in 0 .. m - 1, NEW v \in 0 .. m - 1, x - y = u - v
    PROVE  u = v
<1>1. PICK p \in Int, q \in Int : p = x \div m /\ q = y \div m
  OBVIOUS
<1>2. x = m * p /\ y = m * q
  BY <1>1
<1>3. PICK d \in Int : d = p - q
  BY <1>1
<1>4. m * d = u - v
  <2>1. m * (p - q) = m * p - m * q
    BY <1>1
  <2> QED
    BY <1>2, <1>3, <2>1
<1>5. d = 0
  BY <1>4, SmallMultiple
<1> QED
  BY <1>4, <1>5

\* Two frames less than a round of numbers apart have different numbers.
LEMMA SameNumber ==
    ASSUME NEW m, m \in Nat, m > 0, NEW a, a \in Nat, NEW b, b \in Nat,
           a <= b, b - a < m, a % m = b % m
    PROVE  a = b
<1>1. PICK p \in Int, q \in Int : p = a \div m /\ q = b \div m
  OBVIOUS
<1>2. PICK r \in 0 .. m - 1 : r = a % m
  OBVIOUS
<1>3. a = m * p + r
  BY ONLY <1>1, <1>2, m \in Nat, m > 0, a \in Nat
<1>4. b = m * q + r
  BY ONLY <1>1, <1>2, m \in Nat, m > 0, b \in Nat, a % m = b % m
<1>5. b - a = m * (q - p)
  <2>1. m * (q - p) = m * q - m * p
    BY ONLY <1>1, m \in Nat
  <2>2. PICK x \in Int, y \in Int : x = m * p /\ y = m * q
    BY ONLY <1>1, m \in Nat
  <2>3. a = x + r /\ b = y + r
    BY ONLY <1>3, <1>4, <2>2
  <2>4. b - a = y - x
    BY ONLY <1>2, <2>2, <2>3, m \in Nat
  <2> QED
    BY ONLY <2>1, <2>2, <2>4
<1>6. PICK d \in Int : d = q - p
  BY ONLY <1>1
<1>7. m * d >= 0 /\ m * d < m
  BY ONLY <1>5, <1>6, a <= b, b - a < m, a \in Nat, b \in Nat, m \in Nat
<1>8. d = 0
  <2>1. CASE d >= 1
    <3>1. m * d >= m
      BY ONLY <2>1, <1>6, m \in Nat, m > 0
    <3> QED
      BY ONLY <3>1, <1>7, <1>6, m \in Nat
  <2>2. CASE d <= -1
    <3>1. m * d <= -m
      BY ONLY <2>2, <1>6, m \in Nat, m > 0
    <3> QED
      BY ONLY <3>1, <1>7, <1>6, m \in Nat, m > 0
  <2> QED
    BY ONLY <2>1, <2>2, <1>6
<1> QED
  BY ONLY <1>5, <1>6, <1>8, a \in Nat, b \in Nat, m \in Nat

LEMMA FramesAreNumbers ==
    ASSUME TypeOK
    PROVE  /\ Frames \subseteq Nat \ {0} /\ current \in Nat /\ skipped \in Nat
           /\ arrivedFrame \in Seq(Nat) /\ lineFrame \in Seq(Nat) /\ dispatched \in Seq(Nat)
           /\ LastTaken \in Nat
           /\ DOMAIN dispatched = 1 .. Len(dispatched) /\ Len(dispatched) \in Nat
           /\ SeqSpace \in Nat /\ SeqSpace > 0
<1>1. Frames \subseteq Nat \ {0}
  BY ReceiverAssumption DEF Frames
<1>2. current \in Nat /\ skipped \in Nat
  BY <1>1 DEF TypeOK
<1>3. arrivedFrame \in Seq(Nat) /\ lineFrame \in Seq(Nat)
  BY <1>1, SeqMonotonic DEF TypeOK
<1>4. dispatched \in Seq(Nat)
  <2>1. Frames \cup {NoFrame} \subseteq Nat
    BY <1>1 DEF NoFrame
  <2>2. dispatched \in Seq(Frames \cup {NoFrame})
    BY DEF TypeOK
  <2> QED
    BY ONLY <2>1, <2>2, SeqMonotonic
<1>5. dispatched # <<>> => Len(dispatched) \in 1 .. Len(dispatched)
  BY ONLY <1>4
<1>7. LastTaken \in Nat
  BY ONLY <1>4, <1>5 DEF LastTaken
<1>8. DOMAIN dispatched = 1 .. Len(dispatched) /\ Len(dispatched) \in Nat
  BY ONLY <1>4
<1>9. SeqSpace \in Nat /\ SeqSpace > 0
  BY ReceiverAssumption
<1> QED
  BY ONLY <1>1, <1>2, <1>3, <1>4, <1>7, <1>8, <1>9

\* OnRun compares the number in the header, which is the message's second byte.
LEMMA NumberInMessage ==
    ASSUME TypeOK, StageIsFifo, HasMessage, NEW f \in Frames, Msg = FrameBytes[f]
    PROVE  FrameSeq = f % SeqSpace
<1>1. Staged \in Seq(Bytes) /\ MsgLen \in Nat /\ MsgLen > HdrLen /\ MsgLen <= Len(Staged)
  BY SentForFacts, StagedFacts DEF HasMessage
<1>2. MsgLen \in 0 .. Len(Staged) /\ 2 \in 1 .. MsgLen
  BY ONLY <1>1 DEF HdrLen
<1>3. Msg[2] = Staged[2]
  BY ONLY <1>1, <1>2, PrefixFacts DEF Msg
<1>4. FrameBytes[f][2] = f % SeqSpace
  BY FrameFacts
<1> QED
  BY <1>3, <1>4 DEF FrameSeq

LEMMA InitFInv == Init => FInv
<1> SUFFICES ASSUME Init PROVE FInv
  OBVIOUS
<1>1. /\ dispatched = <<>> /\ acked = {} /\ m_last_seq = -1 /\ current = 1 /\ skipped = 0
      /\ arrivedFrame = <<>> /\ lineFrame = <<>>
  BY DEF Init
<1>2. SentInOrder
  BY <1>1 DEF SentInOrder, Ordered, Before, UpTo
<1>3. Remembered
  BY <1>1 DEF Remembered
<1>4. AllTaken
  BY <1>1 DEF AllTaken, TakenInOrder, ToSet
<1>5. InWindow
  BY <1>1 DEF InWindow, LastTaken
<1> QED
  BY <1>2, <1>3, <1>4, <1>5 DEF FInv

\* What is consumed stays what it was, and the filter and the radio do nothing.
LEMMA FilterUntouched ==
    ASSUME FInv, TypeOK, UNCHANGED <<m_last_seq, current, skipped, acked, dispatched>>,
           consumed' \in Nat, consumed <= consumed',
           \A k \in 1 .. consumed : arrivedFrame'[k] = arrivedFrame[k]
    PROVE  Remembered' /\ AllTaken' /\ InWindow'
<1>1. LastTaken' = LastTaken
  BY DEF LastTaken
<1>2. consumed \in Nat
  BY DEF TypeOK
<1>3. \A k \in 1 .. consumed : k \in 1 .. consumed'
  BY <1>2
<1>4. Remembered'
  <2>1. m_last_seq' = IF dispatched' = <<>> THEN -1 ELSE LastTaken' % SeqSpace
    BY <1>1 DEF FInv, Remembered
  <2>2. ASSUME dispatched # <<>> PROVE \E k \in 1 .. consumed' : arrivedFrame'[k] = LastTaken'
    <3>1. PICK k \in 1 .. consumed : arrivedFrame[k] = LastTaken
      BY <2>2 DEF FInv, Remembered
    <3> QED
      BY <1>1, <1>3, <3>1
  <2> QED
    BY <2>1, <2>2 DEF Remembered
<1>5. AllTaken'
  BY DEF FInv, AllTaken, TakenInOrder
<1>6. InWindow'
  BY <1>1 DEF FInv, InWindow
<1> QED
  BY <1>4, <1>5, <1>6

LEMMA ReadLineKeepsFInv ==
    ASSUME IInv, FInv, ReadLine
    PROVE  FInv'
<1>1. PICK n \in 1 .. Len(line) :
        LET part == SubSeq(line, 1, n)
            got == Decode(part, inESC)
        IN  /\ lineFrame' = SubSeq(lineFrame, n + 1, Len(line))
            /\ arrivedFrame' = arrivedFrame \o
                   [j \in DOMAIN got.out |-> lineFrame[CompletedBy(part, inESC, j)]]
  BY DEF ReadLine
<1>2. PICK part, m, c, tags :
        /\ part = SubSeq(line, 1, n) /\ m = Len(Decode(part, inESC).out)
        /\ c = [j \in DOMAIN Decode(part, inESC).out |-> CompletedBy(part, inESC, j)]
        /\ tags = [j \in DOMAIN Decode(part, inESC).out |-> lineFrame[CompletedBy(part, inESC, j)]]
  OBVIOUS
<1>3. UNCHANGED <<m_last_seq, current, skipped, acked, dispatched, consumed>>
  BY DEF ReadLine, radioVars
<1>4. /\ arrivedFrame \in Seq(Nat) /\ lineFrame \in Seq(Nat) /\ current \in Nat
      /\ Len(arrivedFrame) = Len(arrived) /\ Len(lineFrame) = Len(line)
      /\ line \in Seq(Bytes) /\ inESC \in BOOLEAN /\ n \in 0 .. Len(line)
      /\ consumed \in Nat /\ consumed <= Len(arrivedFrame) /\ Len(arrivedFrame) \in Nat
  <2>1. TypeOK
    BY DEF IInv
  <2>2. arrivedFrame \in Seq(Nat) /\ lineFrame \in Seq(Nat) /\ current \in Nat
    BY ONLY <2>1, FramesAreNumbers
  <2>3. /\ Len(arrivedFrame) = Len(arrived) /\ Len(lineFrame) = Len(line)
        /\ line \in Seq(Bytes) /\ inESC \in BOOLEAN /\ consumed \in 0 .. Len(arrived)
        /\ arrived \in Seq(Bytes)
    BY ONLY <2>1 DEF TypeOK
  <2> QED
    BY ONLY <2>2, <2>3, n \in 1 .. Len(line)
<1>5. part \in Seq(Bytes) /\ Len(part) = n
  BY <1>2, <1>4, PrefixFacts
<1>6. /\ m \in Nat /\ DOMAIN Decode(part, inESC).out = 1 .. m
      /\ \A j \in 1 .. m : c[j] \in 1 .. n /\ tags[j] = lineFrame[c[j]]
      /\ \A j, k \in 1 .. m : j <= k => c[j] <= c[k]
  <2>1. m \in Nat /\ DOMAIN Decode(part, inESC).out = 1 .. m
    BY <1>2, <1>4, <1>5, DecodeTyped
  <2>2. /\ \A j \in 1 .. m : CompletedBy(part, inESC, j) \in 1 .. n
        /\ \A j, k \in 1 .. m :
             j <= k => CompletedBy(part, inESC, j) <= CompletedBy(part, inESC, k)
    BY <1>2, <1>4, <1>5, CompletedInOrder
  <2>3. \A j \in 1 .. m : c[j] = CompletedBy(part, inESC, j) /\ tags[j] = lineFrame[CompletedBy(part, inESC, j)]
    BY ONLY <1>2, <2>1
  <2> QED
    BY ONLY <2>1, <2>2, <2>3
<1>7. tags \in Seq(Nat) /\ Len(tags) = m
  <2>1. \A j \in 1 .. m : c[j] \in 1 .. Len(lineFrame)
    BY ONLY <1>4, <1>6
  <2>2. \A j \in 1 .. m : lineFrame[c[j]] \in Nat
    BY ONLY <1>4, <2>1
  <2>3. tags \in [1 .. m -> Nat]
    BY ONLY <1>2, <1>6, <2>2
  <2> QED
    BY ONLY <1>6, <2>3, FunctionSeq
<1>8. PICK rest : rest = SubSeq(lineFrame, n + 1, Len(lineFrame))
  OBVIOUS
<1>9. lineFrame' = rest /\ arrivedFrame' = arrivedFrame \o tags
  BY ONLY <1>1, <1>2, <1>4, <1>8
<1>10. /\ Ordered(arrivedFrame) /\ Ordered(lineFrame) /\ Before(arrivedFrame, lineFrame)
       /\ UpTo(arrivedFrame, current) /\ UpTo(lineFrame, current)
  BY ONLY FInv DEF FInv, SentInOrder
<1>11. /\ rest \in Seq(Nat) /\ Ordered(tags) /\ Ordered(rest) /\ Before(tags, rest)
       /\ UpTo(tags, current) /\ UpTo(rest, current)
       /\ Before(arrivedFrame, tags) /\ Before(arrivedFrame, rest)
  <2>1. n \in 0 .. Len(lineFrame)
    BY ONLY <1>4
  <2>2. Picked(tags, lineFrame, c, n, rest)
    BY ONLY <1>4, <1>6, <1>7, <1>8, <1>10, <2>1 DEF Picked
  <2> QED
    BY ONLY <1>10, <2>2, TakenFromFront
<1>12. Ordered(arrivedFrame \o tags)
  BY ONLY <1>4, <1>7, <1>10, <1>11, OrderedConcat
<1>13. Before(arrivedFrame \o tags, rest)
  BY ONLY <1>4, <1>7, <1>11, ConcatBefore
<1>14. UpTo(arrivedFrame \o tags, current)
  BY ONLY <1>4, <1>7, <1>10, <1>11, ConcatUpTo
<1>15. SentInOrder'
  BY ONLY <1>3, <1>9, <1>11, <1>12, <1>13, <1>14 DEF SentInOrder, Ordered, Before, UpTo
<1>16. \A k \in 1 .. consumed : arrivedFrame'[k] = arrivedFrame[k]
  <2>1. \A k \in 1 .. Len(arrivedFrame) : (arrivedFrame \o tags)[k] = arrivedFrame[k]
    <3>1. \A k \in 1 .. Len(arrivedFrame) + Len(tags) :
              (arrivedFrame \o tags)[k] = IF k <= Len(arrivedFrame) THEN arrivedFrame[k]
                                          ELSE tags[k - Len(arrivedFrame)]
      BY ONLY <1>4, <1>7, ConcatFacts
    <3>2. \A k \in 1 .. Len(arrivedFrame) : k \in 1 .. Len(arrivedFrame) + Len(tags)
      BY ONLY <1>4, <1>6, <1>7
    <3> QED
      BY ONLY <3>1, <3>2
  <2>2. \A k \in 1 .. consumed : k \in 1 .. Len(arrivedFrame)
    BY ONLY <1>4
  <2> QED
    BY ONLY <1>9, <2>1, <2>2
<1>17. Remembered' /\ AllTaken' /\ InWindow'
  <2>1. TypeOK /\ consumed' \in Nat /\ consumed <= consumed'
    BY <1>3, <1>4 DEF IInv
  <2> QED
    BY ONLY FInv, <1>3, <1>16, <2>1, FilterUntouched
<1> QED
  BY ONLY <1>15, <1>17 DEF FInv

\* OnRun discards a byte, or goes back to Read.
LEMMA DiscardKeepsFInv ==
    ASSUME IInv, FInv, NeedMore \/ Resync \/ BadChecksum
    PROVE  FInv'
<1>1. /\ UNCHANGED <<arrivedFrame, lineFrame, m_last_seq, current, skipped, acked, dispatched>>
      /\ consumed' = consumed \/ consumed' = consumed + 1
  BY DEF NeedMore, Resync, BadChecksum, Consume, history, radioVars
<1>2. TypeOK /\ consumed \in Nat
  BY DEF IInv, TypeOK
<1>3. SentInOrder'
  BY <1>1 DEF FInv, SentInOrder
<1>4. consumed' \in Nat /\ consumed <= consumed'
  BY ONLY <1>1, <1>2
<1>5. Remembered' /\ AllTaken' /\ InWindow'
  BY ONLY FInv, <1>1, <1>2, <1>4, FilterUntouched
<1> QED
  BY ONLY <1>3, <1>5 DEF FInv

\* Where a frame that is taken lies in the order of sending: not before the last
\* one, not after the current one, and with another number unless it is the same.
LEMMA TakenInTurn ==
    ASSUME IInv, FInv, HasMessage, NEW f, f = FrameOf(Msg), f # NoFrame
    PROVE  /\ f \in Frames /\ FrameSeq = f % SeqSpace /\ LastTaken <= f /\ f <= current
           /\ \E k \in 1 .. consumed + MsgLen : arrivedFrame[k] = f
           /\ Repeated <=> dispatched # <<>> /\ f = LastTaken
<1>1. TypeOK /\ StageIsFifo
  BY DEF IInv
<1>2. f \in Frames /\ Msg = FrameBytes[f] /\ f \in SentFor
  BY ONLY HasMessage, f = FrameOf(Msg), f # NoFrame, <1>1, FrameOfFacts
<1>3. FrameSeq = f % SeqSpace
  BY ONLY HasMessage, <1>1, <1>2, NumberInMessage
<1>4. /\ MsgLen \in Nat /\ consumed + MsgLen <= Len(arrivedFrame)
      /\ consumed \in Nat /\ Len(arrivedFrame) \in Nat
  BY <1>1, SentForFacts
<1>5. PICK k \in consumed + 1 .. consumed + MsgLen : arrivedFrame[k] = f
  BY ONLY <1>2 DEF SentFor
<1>6. k \in 1 .. Len(arrivedFrame) /\ k \in 1 .. consumed + MsgLen
  BY ONLY <1>4
<1>7. /\ Frames \subseteq Nat \ {0} /\ current \in Nat /\ skipped \in Nat /\ LastTaken \in Nat
      /\ SeqSpace \in Nat /\ SeqSpace > 0
  BY ONLY <1>1, FramesAreNumbers
<1>7a. dispatched # <<>> => LastTaken \in Frames
  <2> SUFFICES ASSUME dispatched # <<>> PROVE LastTaken \in Frames
    OBVIOUS
  <2>1. PICK i \in 1 .. consumed : arrivedFrame[i] = LastTaken
    BY DEF FInv, Remembered
  <2>2. i \in 1 .. Len(arrivedFrame) /\ arrivedFrame \in Seq(Frames)
    BY <1>1, <1>4 DEF TypeOK
  <2> QED
    BY ONLY <2>1, <2>2
<1>8. f <= current
  BY ONLY FInv, <1>5, <1>6 DEF FInv, SentInOrder, UpTo
<1>9. LastTaken <= f
  <2>1. CASE dispatched = <<>>
    BY ONLY <1>2, <1>7, <2>1 DEF LastTaken
  <2>2. CASE dispatched # <<>>
    <3>1. PICK i \in 1 .. consumed : arrivedFrame[i] = LastTaken
      BY ONLY FInv, <2>2 DEF FInv, Remembered
    <3>2. i \in 1 .. Len(arrivedFrame) /\ i <= k
      BY ONLY <1>4
    <3> QED
      BY ONLY FInv, <1>5, <1>6, <3>1, <3>2 DEF FInv, SentInOrder, Ordered
  <2> QED
    BY ONLY <2>1, <2>2
<1>10. Repeated <=> dispatched # <<>> /\ f = LastTaken
  <2>1. CASE dispatched = <<>>
    <3>1. m_last_seq = -1
      BY ONLY FInv, <2>1 DEF FInv, Remembered
    <3>2. f % SeqSpace \in Nat
      BY ONLY <1>2, <1>7
    <3> QED
      BY ONLY <1>3, <2>1, <3>1, <3>2 DEF Repeated
  <2>2. CASE dispatched # <<>>
    <3>1. m_last_seq = LastTaken % SeqSpace
      BY ONLY FInv, <2>2 DEF FInv, Remembered
    <3>2. ASSUME Repeated PROVE f = LastTaken
      <4>1. LastTaken % SeqSpace = f % SeqSpace
        BY ONLY <1>3, <3>1, <3>2 DEF Repeated
      <4>2. CASE skipped < SeqSpace - 1
        <5>1. f - LastTaken < SeqSpace
          BY ONLY FInv, <1>2, <1>7, <1>8, <4>2 DEF FInv, InWindow
        <5>2. f \in Nat
          BY ONLY <1>2, <1>7
        <5> QED
          BY ONLY <1>7, <1>9, <4>1, <5>1, <5>2, SameNumber
      <4>3. CASE current = 1
        BY ONLY <1>2, <1>7, <1>7a, <1>8, <1>9, <2>2, <4>3
      <4> QED
        BY ONLY FInv, <4>2, <4>3 DEF FInv, InWindow
    <3> QED
      BY ONLY <1>3, <2>2, <3>1, <3>2 DEF Repeated
  <2> QED
    BY ONLY <2>1, <2>2
<1> QED
  BY ONLY <1>2, <1>3, <1>5, <1>6, <1>8, <1>9, <1>10

\* A good message: the filter passes a frame later than every earlier one, or
\* stops the one that it passed last.
LEMMA GoodMessageKeepsFInv ==
    ASSUME IInv, FInv, FrameOf(Msg) # NoFrame, Dispatch \/ IgnoreDuplicate
    PROVE  FInv'
<1>1. /\ HasMessage /\ acked' = acked \cup {FrameOf(Msg)}
      /\ m_last_seq' = FrameSeq /\ consumed' = consumed + MsgLen
      /\ UNCHANGED <<arrivedFrame, lineFrame, current, skipped>>
  BY DEF Dispatch, IgnoreDuplicate, GoodMessage, Consume, radioVars
<1>2. PICK f : f = FrameOf(Msg) /\ f # NoFrame
  OBVIOUS
<1>3. /\ f \in Frames /\ FrameSeq = f % SeqSpace /\ LastTaken <= f /\ f <= current
      /\ \E k \in 1 .. consumed + MsgLen : arrivedFrame[k] = f
      /\ Repeated <=> dispatched # <<>> /\ f = LastTaken
  BY ONLY IInv, FInv, <1>1, <1>2, TakenInTurn
<1>4. /\ Frames \subseteq Nat \ {0} /\ current \in Nat /\ skipped \in Nat /\ LastTaken \in Nat
      /\ dispatched \in Seq(Nat) /\ DOMAIN dispatched = 1 .. Len(dispatched)
      /\ Len(dispatched) \in Nat
  BY ONLY IInv, FramesAreNumbers DEF IInv
<1>5. SentInOrder'
  BY ONLY FInv, <1>1 DEF FInv, SentInOrder, Ordered, Before, UpTo
<1>6. /\ acked = ToSet(dispatched) /\ current - LastTaken <= skipped + 1
      /\ (skipped < SeqSpace - 1 \/ current = 1)
      /\ \A j, k \in 1 .. Len(dispatched) : j < k => dispatched[j] < dispatched[k]
  BY ONLY FInv, <1>4 DEF FInv, AllTaken, InWindow, TakenInOrder
<1>7. CASE IgnoreDuplicate
  <2>1. dispatched' = dispatched /\ dispatched # <<>> /\ f = LastTaken
    BY ONLY <1>3, <1>7 DEF IgnoreDuplicate
  <2>2. LastTaken' = LastTaken
    BY ONLY <2>1 DEF LastTaken
  <2>3. Remembered'
    BY ONLY <1>1, <1>3, <2>1, <2>2 DEF Remembered
  <2>4. f \in ToSet(dispatched)
    <3>1. dispatched[Len(dispatched)] = f /\ Len(dispatched) \in DOMAIN dispatched
      <4>1. Len(dispatched) # 0
        BY ONLY <1>4, <2>1
      <4> QED
        BY ONLY <1>4, <2>1, <4>1 DEF LastTaken
    <3> QED
      BY ONLY <3>1 DEF ToSet
  <2>5. acked' = ToSet(dispatched')
    BY ONLY <1>1, <1>2, <1>6, <2>1, <2>4
  <2>6. AllTaken'
    BY ONLY FInv, <2>1, <2>5 DEF FInv, AllTaken, TakenInOrder
  <2>7. InWindow'
    BY ONLY <1>1, <1>6, <2>2 DEF InWindow
  <2> QED
    BY ONLY <1>5, <2>3, <2>6, <2>7 DEF FInv
<1>8. CASE Dispatch
  <2>1. PICK n \in Nat : n = Len(dispatched)
    BY ONLY <1>4
  <2>2. PICK d : d = Append(dispatched, f)
    OBVIOUS
  <2>3. dispatched' = d /\ (dispatched = <<>> \/ f # LastTaken)
    BY ONLY <1>2, <1>3, <1>8, <2>2 DEF Dispatch
  <2>4. f \in Nat /\ f # 0
    BY ONLY <1>3, <1>4
  <2>5. /\ d \in Seq(Nat) /\ Len(d) = n + 1 /\ d[n + 1] = f /\ DOMAIN d = 1 .. n + 1
        /\ \A k \in 1 .. n : d[k] = dispatched[k]
    BY ONLY <1>4, <2>1, <2>2, <2>4, AppendProperties
  <2>6. d # <<>>
    BY ONLY <2>5
  <2>7. LastTaken' = f
    BY ONLY <2>3, <2>5, <2>6 DEF LastTaken
  <2>8. Remembered'
    BY ONLY <1>1, <1>3, <2>3, <2>6, <2>7 DEF Remembered
  <2>9. \A k \in 1 .. n : dispatched[k] < f
    <3> SUFFICES ASSUME NEW k \in 1 .. n PROVE dispatched[k] < f
      OBVIOUS
    <3>1. n \in 1 .. n /\ n = Len(dispatched) /\ dispatched[k] \in Nat /\ dispatched[n] \in Nat
      BY ONLY <1>4, <2>1, k \in 1 .. n
    <3>2. dispatched[k] <= dispatched[n]
      BY ONLY <1>6, <3>1, k \in 1 .. n
    <3>3. dispatched # <<>>
      BY ONLY <1>4, <3>1
    <3>4. LastTaken = dispatched[n] /\ dispatched[n] < f
      BY ONLY <1>3, <2>3, <2>4, <3>1, <3>3 DEF LastTaken
    <3> QED
      BY ONLY <2>4, <3>1, <3>2, <3>4
  <2>10. \A j, k \in 1 .. n + 1 : j < k => d[j] < d[k]
    <3> SUFFICES ASSUME NEW j \in 1 .. n + 1, NEW k \in 1 .. n + 1, j < k PROVE d[j] < d[k]
      OBVIOUS
    <3>1. j \in 1 .. n /\ j \in 1 .. Len(dispatched)
      BY ONLY n \in Nat, j \in 1 .. n + 1, k \in 1 .. n + 1, j < k, <2>1
    <3>2. CASE k = n + 1
      BY ONLY <2>5, <2>9, <3>1, <3>2
    <3>3. CASE k \in 1 .. n
      BY ONLY <1>6, <2>1, <2>5, <3>1, <3>3, j < k
    <3> QED
      BY ONLY n \in Nat, k \in 1 .. n + 1, <3>2, <3>3
  <2>11. TakenInOrder'
    BY ONLY <2>3, <2>5, <2>10 DEF TakenInOrder
  <2>12. ToSet(d) = ToSet(dispatched) \cup {f}
    BY ONLY <1>4, <2>2, <2>4, ToSetAppend
  <2>13. AllTaken'
    BY ONLY <1>1, <1>2, <1>6, <2>3, <2>11, <2>12 DEF AllTaken
  <2>14. InWindow'
    BY ONLY <1>1, <1>3, <1>4, <1>6, <2>4, <2>7 DEF InWindow
  <2> QED
    BY ONLY <1>5, <2>8, <2>13, <2>14 DEF FInv
<1> QED
  BY ONLY <1>7, <1>8, Dispatch \/ IgnoreDuplicate

\* A transmission is behind everything sent before it.
LEMMA PutKeepsFInv ==
    ASSUME IInv, FInv, NEW bytes \in Seq(Bytes), Put(bytes)
    PROVE  FInv'
<1>1. PICK tags : tags = [k \in DOMAIN bytes |-> current]
  OBVIOUS
<1>2. /\ lineFrame' = lineFrame \o tags
      /\ UNCHANGED <<arrivedFrame, m_last_seq, current, skipped, acked, dispatched, consumed>>
  BY <1>1 DEF Put, history
<1>3. TypeOK /\ consumed \in Nat
  BY DEF IInv, TypeOK
<1>4. /\ arrivedFrame \in Seq(Nat) /\ lineFrame \in Seq(Nat) /\ current \in Nat
      /\ tags \in Seq(Nat) /\ \A k \in 1 .. Len(tags) : tags[k] = current
  <2>1. arrivedFrame \in Seq(Nat) /\ lineFrame \in Seq(Nat) /\ current \in Nat
    BY ONLY <1>3, FramesAreNumbers
  <2>2. PICK n \in Nat : DOMAIN bytes = 1 .. n
    BY bytes \in Seq(Bytes)
  <2>3. tags \in [1 .. n -> Nat] /\ \A k \in 1 .. n : tags[k] = current
    BY ONLY <1>1, <2>1, <2>2
  <2> QED
    BY ONLY <2>1, <2>3, FunctionSeq
<1>5. /\ Ordered(arrivedFrame) /\ Ordered(lineFrame) /\ Before(arrivedFrame, lineFrame)
      /\ UpTo(arrivedFrame, current) /\ UpTo(lineFrame, current)
  BY ONLY FInv DEF FInv, SentInOrder
<1>6. /\ Ordered(tags) /\ UpTo(tags, current)
      /\ Before(arrivedFrame, tags) /\ Before(lineFrame, tags)
  BY ONLY <1>4, <1>5, SMTT(30) DEF Ordered, UpTo, Before
<1>7. Ordered(lineFrame \o tags)
  BY ONLY <1>4, <1>5, <1>6, OrderedConcat
<1>8. Before(arrivedFrame, lineFrame \o tags)
  BY ONLY <1>4, <1>5, <1>6, BeforeConcat
<1>9. UpTo(lineFrame \o tags, current)
  BY ONLY <1>4, <1>5, <1>6, ConcatUpTo
<1>10. SentInOrder'
  BY ONLY <1>2, <1>5, <1>7, <1>8, <1>9 DEF SentInOrder, Ordered, Before, UpTo
<1>11. Remembered' /\ AllTaken' /\ InWindow'
  BY ONLY FInv, <1>2, <1>3, FilterUntouched
<1> QED
  BY ONLY <1>10, <1>11 DEF FInv

\* The radio goes on: the frames it gives up are counted until one is taken.
LEMMA GoesOnKeepsFInv ==
    ASSUME IInv, FInv, RadioGoesOn
    PROVE  FInv'
<1>1. /\ current' = current + 1
      /\ skipped' = IF current \in acked THEN 0 ELSE skipped + 1
      /\ skipped' < SeqSpace - 1
      /\ UNCHANGED <<arrivedFrame, lineFrame, m_last_seq, acked, dispatched, consumed>>
  BY DEF RadioGoesOn, history
<1>2. /\ Frames \subseteq Nat \ {0} /\ current \in Nat /\ skipped \in Nat /\ LastTaken \in Nat
      /\ arrivedFrame \in Seq(Nat) /\ lineFrame \in Seq(Nat) /\ dispatched \in Seq(Nat)
      /\ DOMAIN dispatched = 1 .. Len(dispatched) /\ Len(dispatched) \in Nat
  BY ONLY IInv, FramesAreNumbers DEF IInv
<1>3. SentInOrder'
  <2>1. \A s \in Seq(Nat) : UpTo(s, current) => UpTo(s, current + 1)
    BY ONLY <1>2 DEF UpTo
  <2>2. /\ Ordered(arrivedFrame) /\ Ordered(lineFrame) /\ Before(arrivedFrame, lineFrame)
        /\ UpTo(arrivedFrame, current + 1) /\ UpTo(lineFrame, current + 1)
    BY ONLY FInv, <1>2, <2>1 DEF FInv, SentInOrder
  <2> QED
    BY ONLY <1>1, <2>2 DEF SentInOrder, Ordered, Before, UpTo
<1>4. LastTaken' = LastTaken
  BY ONLY <1>1 DEF LastTaken
<1>5. Remembered' /\ AllTaken'
  BY ONLY FInv, <1>1, <1>4 DEF FInv, Remembered, AllTaken, TakenInOrder
<1>6. InWindow'
  <2>1. CASE current \in acked
    <3>1. PICK j \in 1 .. Len(dispatched) : dispatched[j] = current
      BY ONLY FInv, <1>2, <2>1 DEF FInv, AllTaken, ToSet
    <3>2. PICK n : n = Len(dispatched) /\ n \in Nat /\ n \in 1 .. n /\ j \in 1 .. n
      BY ONLY <1>2, j \in 1 .. Len(dispatched), SMTT(30)
    <3>3. dispatched # <<>> /\ LastTaken = dispatched[n]
      BY ONLY <1>2, <3>2 DEF LastTaken
    <3>4. current <= LastTaken
      <4>1. j < n => dispatched[j] < dispatched[n]
        BY ONLY FInv, <1>2, <3>2 DEF FInv, AllTaken, TakenInOrder
      <4> QED
        BY ONLY <1>2, <3>1, <3>2, <3>3, <4>1
    <3> QED
      BY ONLY <1>1, <1>2, <1>4, <2>1, <3>4 DEF InWindow
  <2>2. CASE current \notin acked
    BY ONLY FInv, <1>1, <1>2, <1>4, <2>2 DEF FInv, InWindow
  <2> QED
    BY ONLY <2>1, <2>2
<1> QED
  BY ONLY <1>3, <1>5, <1>6 DEF FInv

\* The filter until bytes collide.
CInv == ~ Collision => FInv

LEMMA NextFInv == IInv /\ FInv /\ [Next]_vars /\ ~ Collision' => FInv'
<1> SUFFICES ASSUME IInv, FInv, [Next]_vars, ~ Collision' PROVE FInv'
  OBVIOUS
<1>1. CASE ReadLine
  BY <1>1, ReadLineKeepsFInv
<1>2. CASE NeedMore \/ Resync \/ BadChecksum
  BY <1>2, DiscardKeepsFInv
<1>3. CASE Dispatch \/ IgnoreDuplicate
  <2>1. FrameOf(Msg) # NoFrame
    BY <1>3 DEF Dispatch, IgnoreDuplicate, GoodMessage, Collision
  <2> QED
    BY <1>3, <2>1, GoodMessageKeepsFInv
<1>4. CASE RadioSends \/ LineDamages
  <2>1. PICK bytes \in Seq(Bytes) : Put(bytes)
    BY <1>4, TransmissionPut DEF IInv
  <2> QED
    BY <2>1, PutKeepsFInv
<1>5. CASE RadioGoesOn
  BY <1>5, GoesOnKeepsFInv
<1>6. CASE UNCHANGED vars
  BY <1>6 DEF vars, radioVars, history, FInv, SentInOrder, Ordered, Before, UpTo,
              Remembered, AllTaken, TakenInOrder, InWindow, LastTaken
<1> QED
  BY <1>1, <1>2, <1>3, <1>4, <1>5, <1>6 DEF Next, RadioThread

\* What is acknowledged stays so.
LEMMA CollisionStays == Collision /\ [Next]_vars => Collision'
<1> SUFFICES ASSUME Collision, [Next]_vars PROVE Collision'
  OBVIOUS
<1>1. acked \subseteq acked'
  BY DEF Next, RadioThread, ReadLine, NeedMore, Resync, BadChecksum, Dispatch, IgnoreDuplicate,
         GoodMessage, Put, RadioSends, LineDamages, RadioGoesOn, history, vars
<1> QED
  BY <1>1 DEF Collision

LEMMA NextCInv == IInv /\ CInv /\ [Next]_vars => CInv'
BY CollisionStays, NextFInv DEF CInv

LEMMA AlwaysCInv == Spec => []CInv
<1>1. Init => CInv
  BY InitFInv DEF CInv
<1> QED
  BY <1>1, InitIInv, NextIInv, NextCInv, PTL DEF Spec

-----------------------------------------------------------------------------
(* Read undoes Write.                                                      *)

LEMMA ConcatAppend ==
    ASSUME NEW s \in Seq(Bytes), NEW t \in Seq(Bytes), NEW x \in Bytes
    PROVE  Append(s \o t, x) = s \o Append(t, x)
<1>1. PICK u : u = <<x>>
  OBVIOUS
<1>2. u \in Seq(Bytes)
  BY ONLY <1>1, x \in Bytes
<1>3. s \o t \in Seq(Bytes)
  BY ONLY s \in Seq(Bytes), t \in Seq(Bytes), ConcatFacts
<1>4. Append(s \o t, x) = (s \o t) \o u
  BY ONLY <1>1, <1>3, x \in Bytes, AppendIsConcat
<1>5. Append(t, x) = t \o u
  BY ONLY <1>1, t \in Seq(Bytes), x \in Bytes, AppendIsConcat
<1>6. (s \o t) \o u = s \o (t \o u)
  BY ONLY <1>2, s \in Seq(Bytes), t \in Seq(Bytes), ConcatAssociative
<1> QED
  BY ONLY <1>4, <1>5, <1>6

\* A byte of the line yields at most one byte.
LEMMA UnescapeGrows ==
    ASSUME NEW a, a \in Accs, NEW b, b \in Bytes
    PROVE  Len(a.out) <= Len(Unescape(a, b).out)
<1>1. a.out \in Seq(Bytes) /\ a.esc \in BOOLEAN /\ Len(a.out) \in Nat
      /\ a = [out |-> a.out, esc |-> a.esc]
  BY DEF Accs
<1>2. \A x \in Bytes : Len(Append(a.out, x)) = Len(a.out) + 1
  BY <1>1
<1>3. ASCII_ESC \in Bytes /\ PKT_SENTINEL \in Bytes
  BY ReceiverAssumption
<1>4. \/ Unescape(a, b).out = a.out
      \/ Unescape(a, b).out = Append(a.out, ASCII_ESC)
      \/ Unescape(a, b).out = Append(a.out, PKT_SENTINEL)
      \/ Unescape(a, b).out = Append(a.out, b)
  BY <1>1 DEF Unescape
<1> QED
  BY ONLY <1>1, <1>2, <1>3, <1>4, b \in Bytes

\* Behind p, Read has what it would have without it, and p before.
Behind(p, a) == [out |-> p \o a.out, esc |-> a.esc]

LEMMA UnescapeBehind ==
    ASSUME NEW p, p \in Seq(Bytes), NEW a, a \in Accs, NEW b, b \in Bytes
    PROVE  Unescape(Behind(p, a), b) = Behind(p, Unescape(a, b))
<1>0. SUFFICES Unescape([out |-> p \o a.out, esc |-> a.esc], b)
                   = [out |-> p \o Unescape(a, b).out, esc |-> Unescape(a, b).esc]
  BY DEF Behind
<1>1. PICK q, e : q = a.out /\ e = a.esc
  OBVIOUS
<1>2. q \in Seq(Bytes) /\ e \in BOOLEAN /\ a = [out |-> q, esc |-> e]
  BY <1>1 DEF Accs
<1>3. ASSUME NEW x, x \in Bytes PROVE Append(p \o q, x) = p \o Append(q, x)
  <2>1. q \in Seq(Bytes)
    BY <1>2
  <2>2. x \in Bytes
    BY <1>3
  <2> QED
    BY ONLY <2>1, <2>2, p \in Seq(Bytes), ConcatAppend, Zenon
<1>4. ASCII_ESC \in Bytes /\ PKT_SENTINEL \in Bytes /\ ASCII_ESC # SENTINEL_ESC
  BY ReceiverAssumption
<1>5. CASE b = ASCII_ESC /\ ~ e
  BY <1>1, <1>2, <1>5 DEF Unescape
<1>6. CASE b = ASCII_ESC /\ e
  BY <1>1, <1>2, <1>3, <1>4, <1>6 DEF Unescape
<1>7. CASE b # ASCII_ESC /\ b = SENTINEL_ESC /\ e
  BY <1>1, <1>2, <1>3, <1>4, <1>7 DEF Unescape
<1>8. CASE b # ASCII_ESC /\ ~ (b = SENTINEL_ESC /\ e)
  BY <1>1, <1>2, <1>3, <1>8 DEF Unescape
<1> QED
  BY <1>5, <1>6, <1>7, <1>8

\* Whatever has Read's state after each byte has it after the last.
LEMMA UnescapeIs ==
    ASSUME NEW s, s \in Seq(Bytes), NEW acc, acc \in Accs, NEW g, Unescapes(g, acc, s)
    PROVE  FoldLeft(Unescape, acc, s) = g[Len(s)]
<1>1. PICK h : Unescapes(h, acc, s) /\ FoldLeft(Unescape, acc, s) = h[Len(s)]
  BY UnescapeFold
<1>2. PICK n \in Nat : n = Len(s)
  BY s \in Seq(Bytes)
<1> DEFINE T == {j \in Nat : j <= n => g[j] = h[j]}
<1>3. 0 \in T
  BY <1>1 DEF Unescapes
<1>4. ASSUME NEW j \in Nat, j \in T PROVE j + 1 \in T
  <2>1. SUFFICES ASSUME j + 1 <= n PROVE g[j + 1] = h[j + 1]
    OBVIOUS
  <2>2. j + 1 \in 1 .. n /\ (j + 1) - 1 = j /\ g[j] = h[j]
    BY <1>4, <2>1
  <2> QED
    BY <1>1, <1>2, <2>2 DEF Unescapes
<1>5. n \in T
  <2> HIDE DEF T
  <2> QED
    BY <1>3, <1>4, NatSetInduction
<1> QED
  BY <1>1, <1>2, <1>5

\* k[i] is what Read has after i bytes of s, from the beginning of a call.
Decodes(k, s, e) == Unescapes(k, [out |-> <<>>, esc |-> e], s)

\* Every call of Read has its steps.
LEMMA DecodeSteps ==
    ASSUME NEW s, s \in Seq(Bytes), NEW e, e \in BOOLEAN
    PROVE  \E k : Decodes(k, s, e)
<1>1. [out |-> <<>>, esc |-> e] \in Accs
  BY DEF Accs
<1> QED
  BY <1>1, UnescapeFold DEF Decodes

LEMMA DecodeAcc ==
    ASSUME NEW s, s \in Seq(Bytes), NEW e, e \in BOOLEAN
    PROVE  Decode(s, e) \in Accs
<1>1. PICK acc : acc = [out |-> <<>>, esc |-> e]
  OBVIOUS
<1>2. acc \in Accs
  BY <1>1 DEF Accs
<1>3. PICK g : Unescapes(g, acc, s) /\ FoldLeft(Unescape, acc, s) = g[Len(s)]
  BY <1>2, UnescapeFold
<1>4. g[Len(s)] \in Accs
  <2>1. Len(s) \in 0 .. Len(s)
    BY s \in Seq(Bytes)
  <2> QED
    BY <1>3, <2>1 DEF Unescapes
<1> QED
  BY <1>1, <1>3, <1>4 DEF Decode

\* After i bytes a call of Read has what those i bytes alone would yield.
LEMMA DecodeIs ==
    ASSUME NEW s, s \in Seq(Bytes), NEW e, e \in BOOLEAN, NEW k, Decodes(k, s, e)
    PROVE  /\ Decode(s, e) = k[Len(s)]
           /\ \A i \in 0 .. Len(s) : Decode(SubSeq(s, 1, i), e) = k[i] /\ k[i] \in Accs
           /\ k[0].out = <<>>
<1>1. PICK acc : acc = [out |-> <<>>, esc |-> e]
  OBVIOUS
<1>2. acc \in Accs /\ Unescapes(k, acc, s)
  BY <1>1 DEF Accs, Decodes
<1>3. Decode(s, e) = k[Len(s)]
  BY ONLY s \in Seq(Bytes), <1>1, <1>2, UnescapeIs DEF Decode
<1>4. ASSUME NEW i, i \in 0 .. Len(s) PROVE Decode(SubSeq(s, 1, i), e) = k[i] /\ k[i] \in Accs
  <2>1. PICK u : u = SubSeq(s, 1, i)
    OBVIOUS
  <2>2. u \in Seq(Bytes) /\ Len(u) = i /\ \A j \in 1 .. i : u[j] = s[j]
    BY ONLY <2>1, s \in Seq(Bytes), i \in 0 .. Len(s), PrefixFacts
  <2>3. PICK h : h = [j \in 0 .. i |-> k[j]]
    OBVIOUS
  <2>4. \A j \in 0 .. i : j \in 0 .. Len(s) /\ k[j] \in Accs
    BY <1>2, <1>4 DEF Unescapes
  <2>5. \A j \in 1 .. i : j \in 1 .. Len(s) /\ j - 1 \in 0 .. i /\ j \in 0 .. i
    BY <1>4
  <2>6. Unescapes(h, acc, u)
    <3>1. h \in [0 .. i -> Accs]
      BY ONLY <2>3, <2>4
    <3>2. 0 \in 0 .. i /\ k[0] = acc
      BY ONLY <1>2, s \in Seq(Bytes), i \in 0 .. Len(s) DEF Unescapes
    <3>3. h[0] = acc
      BY ONLY <2>3, <3>2
    <3>4. \A j \in 1 .. i : k[j] = Unescape(k[j - 1], s[j])
      BY ONLY <1>2, <2>5 DEF Unescapes
    <3>5. \A j \in 1 .. i : h[j] = k[j] /\ h[j - 1] = k[j - 1] /\ u[j] = s[j]
      BY ONLY <2>2, <2>3, <2>5
    <3> QED
      BY ONLY <2>2, <3>1, <3>3, <3>4, <3>5 DEF Unescapes
  <2>7. FoldLeft(Unescape, acc, u) = h[i] /\ i \in 0 .. i
    BY ONLY <1>2, <2>2, <2>6, <1>4, UnescapeIs
  <2> QED
    BY <1>1, <2>1, <2>3, <2>4, <2>7 DEF Decode
<1>5. k[0].out = <<>>
  BY <1>1, <1>2 DEF Unescapes
<1> QED
  BY <1>3, <1>4, <1>5

\* Bytes come one at a time, or none.
LEMMA DecodeGrows ==
    ASSUME NEW s, s \in Seq(Bytes), NEW e, NEW k, Decodes(k, s, e)
    PROVE  /\ \A i \in 0 .. Len(s) : k[i] \in Accs /\ Len(k[i].out) \in Nat
           /\ \A i \in 1 .. Len(s) : /\ Len(k[i - 1].out) <= Len(k[i].out)
                                     /\ Len(k[i].out) <= Len(k[i - 1].out) + 1
           /\ \A i, j \in 0 .. Len(s) : i <= j => Len(k[i].out) <= Len(k[j].out)
<1>1. PICK n \in Nat : n = Len(s) /\ \A i \in 1 .. n : s[i] \in Bytes
  BY s \in Seq(Bytes)
<1>2. \A i \in 0 .. n : k[i] \in Accs
  BY <1>1 DEF Decodes, Unescapes
<1>3. \A i \in 0 .. n : Len(k[i].out) \in Nat
  BY <1>2 DEF Accs
<1>4. ASSUME NEW i \in 1 .. n
      PROVE  Len(k[i - 1].out) <= Len(k[i].out) /\ Len(k[i].out) <= Len(k[i - 1].out) + 1
  <2>1. i - 1 \in 0 .. n /\ s[i] \in Bytes
    BY <1>1
  <2>2. k[i - 1] \in Accs /\ k[i] = Unescape(k[i - 1], s[i])
    BY <1>1, <1>2, <2>1 DEF Decodes, Unescapes
  <2> QED
    BY <2>1, <2>2, UnescapeTyped, UnescapeGrows
<1>5. ASSUME NEW i \in 0 .. n PROVE \A j \in 0 .. n : i <= j => Len(k[i].out) <= Len(k[j].out)
  <2> DEFINE T == {d \in Nat : i + d <= n => Len(k[i].out) <= Len(k[i + d].out)}
  <2>1. 0 \in T
    BY <1>3
  <2>2. ASSUME NEW d \in Nat, d \in T PROVE d + 1 \in T
    <3>1. SUFFICES ASSUME i + (d + 1) <= n PROVE Len(k[i].out) <= Len(k[i + (d + 1)].out)
      OBVIOUS
    <3>2. PICK c \in 1 .. n : c = i + (d + 1) /\ c - 1 = i + d /\ c - 1 \in 0 .. n /\ c \in 0 .. n
      BY <3>1
    <3>3. Len(k[i].out) <= Len(k[c - 1].out)
      BY <2>2, <3>2
    <3>4. Len(k[c - 1].out) <= Len(k[c].out)
      BY <1>4, <3>2
    <3>a. PICK x, y, z : x = Len(k[i].out) /\ y = Len(k[c - 1].out) /\ z = Len(k[c].out)
      OBVIOUS
    <3>b. x \in Nat /\ y \in Nat /\ z \in Nat
      BY <1>3, <3>2, <3>a
    <3>5. Len(k[i].out) <= Len(k[c].out)
      BY ONLY <3>3, <3>4, <3>a, <3>b, SMTT(30)
    <3> QED
      BY ONLY <3>2, <3>5
  <2>3. Nat \subseteq T
    <3> HIDE DEF T
    <3> QED
      BY <2>1, <2>2, NatSetInduction
  <2> SUFFICES ASSUME NEW j \in 0 .. n, i <= j PROVE Len(k[i].out) <= Len(k[j].out)
    OBVIOUS
  <2>4. PICK d \in Nat : d = j - i /\ i + d = j
    BY i <= j
  <2>5. d \in T
    BY ONLY <2>3, d \in Nat
  <2>6. i + d <= n => Len(k[i].out) <= Len(k[i + d].out)
    BY ONLY <2>5 DEF T
  <2>7. j <= n
    OBVIOUS
  <2> QED
    BY ONLY <2>4, <2>6, <2>7
<1> QED
  BY <1>1, <1>2, <1>3, <1>4, <1>5

LEMMA BehindIs ==
    ASSUME NEW p, NEW a
    PROVE  Behind(p, a).out = p \o a.out /\ Behind(p, a).esc = a.esc
BY DEF Behind

LEMMA BehindTyped ==
    ASSUME NEW p, p \in Seq(Bytes), NEW a, a \in Accs
    PROVE  Behind(p, a) \in Accs
<1>1. a.out \in Seq(Bytes) /\ a.esc \in BOOLEAN
  BY DEF Accs
<1>2. a.out \in Seq(Bytes)
  BY <1>1
<1>3. p \o a.out \in Seq(Bytes)
  BY ONLY <1>2, p \in Seq(Bytes), ConcatFacts
<1> QED
  BY <1>1, <1>3 DEF Behind, Accs

\* Read's steps over s and then over t, in two calls, are those over s \o t in one.
Joined(k, n, h, m) ==
    [i \in 0 .. n + m |-> IF i <= n THEN k[i] ELSE Behind(k[n].out, h[i - n])]

\* Read may be called on two pieces or on the whole: the steps are the same.
LEMMA DecodesConcat ==
    ASSUME NEW s, s \in Seq(Bytes), NEW t, t \in Seq(Bytes), NEW e, e \in BOOLEAN,
           NEW k, Decodes(k, s, e), NEW h, Decodes(h, t, k[Len(s)].esc)
    PROVE  Decodes(Joined(k, Len(s), h, Len(t)), s \o t, e)
<1>1. PICK n \in Nat, m \in Nat : n = Len(s) /\ m = Len(t)
  BY s \in Seq(Bytes), t \in Seq(Bytes)
<1>2. PICK r : r = s \o t
  OBVIOUS
<1>3. /\ Len(r) = n + m
      /\ \A j \in 1 .. n + m : r[j] = IF j <= n THEN s[j] ELSE t[j - n]
  <2>1. /\ Len(s \o t) = Len(s) + Len(t)
        /\ \A j \in 1 .. Len(s) + Len(t) : (s \o t)[j] = IF j <= Len(s) THEN s[j] ELSE t[j - Len(s)]
    BY ONLY s \in Seq(Bytes), t \in Seq(Bytes), ConcatFacts
  <2> QED
    BY ONLY <1>1, <1>2, <2>1
<1>4. /\ \A i \in 0 .. n : k[i] \in Accs
      /\ k[0] = [out |-> <<>>, esc |-> e]
      /\ \A i \in 1 .. n : k[i] = Unescape(k[i - 1], s[i])
  BY <1>1 DEF Decodes, Unescapes
<1>5. /\ \A i \in 0 .. m : h[i] \in Accs
      /\ h[0] = [out |-> <<>>, esc |-> k[n].esc]
      /\ \A i \in 1 .. m : h[i] = Unescape(h[i - 1], t[i])
  BY <1>1 DEF Decodes, Unescapes
<1>6. PICK p : p = k[n].out
  OBVIOUS
<1>7. k[n] \in Accs /\ p \in Seq(Bytes)
  BY <1>4, <1>6 DEF Accs
<1>8. PICK g : g = Joined(k, n, h, m)
  OBVIOUS
<1>9. \A i \in 0 .. m : Behind(p, h[i]) \in Accs
  <2> TAKE i \in 0 .. m
  <2>1. h[i] \in Accs
    BY <1>5
  <2>2. p \in Seq(Bytes)
    BY <1>7
  <2> QED
    BY ONLY <2>1, <2>2, BehindTyped
<1>10. \A i \in 0 .. n : g[i] = k[i]
  BY <1>8 DEF Joined
<1>11. Behind(p, h[0]) = k[n]
  <2>1. p \o <<>> = p
    BY <1>7, ConcatEmptySeq
  <2>2. k[n] = [out |-> p, esc |-> k[n].esc]
    BY <1>6, <1>7 DEF Accs
  <2>3. h[0].out = <<>> /\ h[0].esc = k[n].esc
    BY <1>5
  <2> QED
    BY ONLY <2>1, <2>2, <2>3 DEF Behind
<1>12. \A i \in 0 .. m : g[n + i] = Behind(p, h[i])
  <2> TAKE i \in 0 .. m
  <2>1. n + i \in 0 .. n + m /\ (n + i) - n = i
    OBVIOUS
  <2>2. CASE i = 0
    <3>1. n + i = n /\ n \in 0 .. n
      BY <2>2
    <3> QED
      BY <1>10, <1>11, <2>2, <3>1
  <2>3. CASE i # 0
    <3>1. ~ (n + i <= n)
      BY <2>3
    <3> QED
      BY <1>6, <1>8, <2>1, <3>1 DEF Joined
  <2> QED
    BY <2>2, <2>3
<1>13. g \in [0 .. n + m -> Accs]
  <2>1. DOMAIN g = 0 .. n + m /\ g = [i \in 0 .. n + m |-> g[i]]
    BY <1>8 DEF Joined
  <2>2. ASSUME NEW i \in 0 .. n + m PROVE g[i] \in Accs
    <3>1. CASE i <= n
      BY <1>4, <1>10, <3>1
    <3>2. CASE ~ (i <= n)
      <4>1. i - n \in 0 .. m /\ n + (i - n) = i
        BY <3>2
      <4>2. g[n + (i - n)] = Behind(p, h[i - n]) /\ Behind(p, h[i - n]) \in Accs
        BY <1>9, <1>12, <4>1
      <4> QED
        BY <4>1, <4>2
    <3> QED
      BY <3>1, <3>2
  <2> QED
    BY <2>1, <2>2
<1>14. g[0] = [out |-> <<>>, esc |-> e]
  BY <1>4, <1>10
<1>15. ASSUME NEW j \in 1 .. n + m PROVE g[j] = Unescape(g[j - 1], r[j])
  <2>1. CASE j <= n
    <3>1. j \in 1 .. n /\ j \in 0 .. n /\ j - 1 \in 0 .. n
      BY <2>1
    <3>2. g[j] = k[j] /\ g[j - 1] = k[j - 1] /\ k[j] = Unescape(k[j - 1], s[j]) /\ r[j] = s[j]
      BY <1>3, <1>4, <1>10, <2>1, <3>1
    <3> QED
      BY ONLY <3>2
  <2>2. CASE ~ (j <= n)
    <3>1. PICK i \in 1 .. m : i = j - n
      BY <2>2
    <3>2. i \in 0 .. m /\ i - 1 \in 0 .. m /\ n + i = j /\ n + (i - 1) = j - 1
      BY <3>1
    <3>3. g[j] = Behind(p, h[i]) /\ g[j - 1] = Behind(p, h[i - 1])
      BY <1>12, <3>2
    <3>4. h[i] = Unescape(h[i - 1], t[i]) /\ r[j] = t[i]
      BY <1>3, <1>5, <2>2, <3>1
    <3>5. h[i - 1] \in Accs
      BY <1>5, <3>2
    <3>6. t[i] \in Bytes
      BY <1>1
    <3>7. p \in Seq(Bytes)
      BY <1>7
    <3>8. Unescape(Behind(p, h[i - 1]), t[i]) = Behind(p, Unescape(h[i - 1], t[i]))
      BY ONLY <3>5, <3>6, <3>7, UnescapeBehind
    <3> QED
      BY ONLY <3>3, <3>4, <3>8
  <2> QED
    BY <2>1, <2>2
<1>16. Decodes(g, r, e)
  BY ONLY <1>3, <1>13, <1>14, <1>15 DEF Decodes, Unescapes
<1> QED
  BY ONLY <1>1, <1>2, <1>8, <1>16

\* What Read has of s: u, and the escape d.
Reads(s, e, u, d) == Decode(s, e) = [out |-> u, esc |-> d]

\* A call of Read delivers bytes and leaves the escape flag.
LEMMA ReadsSome ==
    ASSUME NEW s, s \in Seq(Bytes), NEW e, e \in BOOLEAN
    PROVE  \E u \in Seq(Bytes), d \in BOOLEAN : Reads(s, e, u, d)
<1>1. Decode(s, e) \in Accs
  BY DecodeAcc
<1>2. PICK x \in Accs : x = Decode(s, e)
  BY <1>1
<1>3. PICK u \in Seq(Bytes), d \in BOOLEAN : x = [out |-> u, esc |-> d]
  BY DEF Accs
<1> QED
  BY <1>2, <1>3 DEF Reads

LEMMA ReadsIs ==
    ASSUME NEW s, NEW e, NEW u, NEW d, Reads(s, e, u, d)
    PROVE  Decode(s, e).out = u /\ Decode(s, e).esc = d
<1>1. PICK x : x = Decode(s, e)
  OBVIOUS
<1>2. x = [out |-> u, esc |-> d]
  BY <1>1 DEF Reads
<1>3. x.out = u /\ x.esc = d
  BY ONLY <1>2
<1> QED
  BY ONLY <1>1, <1>3

\* What two calls deliver of two pieces, one call delivers of the whole.
LEMMA ReadsConcat ==
    ASSUME NEW s, s \in Seq(Bytes), NEW t, t \in Seq(Bytes), NEW e, e \in BOOLEAN,
           NEW u, u \in Seq(Bytes), NEW d, d \in BOOLEAN, Reads(s, e, u, d),
           NEW v, NEW c, Reads(t, d, v, c)
    PROVE  Reads(s \o t, e, u \o v, c)
<1>1. PICK n, m, r : n = Len(s) /\ m = Len(t) /\ r = s \o t
  OBVIOUS
<1>2. n \in Nat /\ m \in Nat /\ r \in Seq(Bytes) /\ Len(r) = n + m
  <2>1. s \o t \in Seq(Bytes) /\ Len(s \o t) = Len(s) + Len(t)
    BY ONLY s \in Seq(Bytes), t \in Seq(Bytes), ConcatFacts
  <2> QED
    BY <1>1, <2>1
<1>3. PICK k : Decodes(k, s, e)
  BY DecodeSteps
<1>4. k[n] = [out |-> u, esc |-> d]
  BY <1>1, <1>3, DecodeIs DEF Reads
<1>5. PICK h : Decodes(h, t, d)
  BY DecodeSteps
<1>6. h[m] = [out |-> v, esc |-> c] /\ h[0] = [out |-> <<>>, esc |-> d]
  <2>1. Decode(t, d) = h[m]
    BY <1>1, <1>5, DecodeIs
  <2>2. h[0] = [out |-> <<>>, esc |-> d]
    BY ONLY <1>5 DEF Decodes, Unescapes
  <2>3. h[m] = [out |-> v, esc |-> c]
    BY <2>1 DEF Reads
  <2> QED
    BY ONLY <2>2, <2>3
<1>7. PICK g : g = Joined(k, n, h, m)
  OBVIOUS
<1>8. Decodes(g, r, e)
  <2>1. k[Len(s)].esc = d
    BY <1>1, <1>4
  <2>2. Decodes(h, t, k[Len(s)].esc)
    BY <1>5, <2>1
  <2>3. Decodes(Joined(k, Len(s), h, Len(t)), s \o t, e)
    BY ONLY <1>3, <2>2, s \in Seq(Bytes), t \in Seq(Bytes), e \in BOOLEAN, DecodesConcat
  <2> QED
    BY ONLY <1>1, <1>7, <2>3
<1>9. Decode(r, e) = g[n + m]
  BY <1>2, <1>8, DecodeIs
<1>10. g[n + m] = IF m = 0 THEN k[n] ELSE Behind(k[n].out, h[m])
  BY <1>2, <1>7, SMTT(30) DEF Joined
<1>11. g[n + m] = [out |-> u \o v, esc |-> c]
  <2>1. CASE m = 0
    <3>1. v = <<>> /\ c = d
      BY <1>6, <2>1
    <3>2. u \o <<>> = u
      BY ConcatEmptySeq
    <3> QED
      BY ONLY <1>4, <1>10, <2>1, <3>1, <3>2
  <2>2. CASE m # 0
    <3>1. k[n].out = u /\ h[m].out = v /\ h[m].esc = c
      BY ONLY <1>4, <1>6
    <3> QED
      BY ONLY <1>10, <2>2, <3>1 DEF Behind
  <2> QED
    BY <2>1, <2>2
<1> QED
  BY ONLY <1>1, <1>9, <1>11 DEF Reads

\* The byte with which Read has j bytes: it has fewer before.
LEMMA CompletedFacts ==
    ASSUME NEW s, s \in Seq(Bytes), NEW e, e \in BOOLEAN, NEW k, Decodes(k, s, e),
           NEW j, j \in 1 .. Len(k[Len(s)].out)
    PROVE  /\ CompletedBy(s, e, j) \in 1 .. Len(s)
           /\ j <= Len(k[CompletedBy(s, e, j)].out)
           /\ Len(k[CompletedBy(s, e, j) - 1].out) < j
<1> DEFINE Had(i) == Len(Decode(SubSeq(s, 1, i), e).out)
           Enough == {i \in DOMAIN s : Had(i) >= j}
<1>1. PICK n \in Nat : n = Len(s) /\ DOMAIN s = 1 .. n
  BY s \in Seq(Bytes)
<1>2. \A i \in 0 .. n : Had(i) = Len(k[i].out)
  BY <1>1, DecodeIs
<1>3. \A i \in 0 .. n : Len(k[i].out) \in Nat
  BY <1>1, DecodeGrows
<1>4. k[0].out = <<>> /\ Len(k[0].out) = 0
  BY DecodeIs
<1>5. j \in Nat /\ 1 <= j /\ j <= Len(k[n].out)
  <2>1. n \in 0 .. n
    OBVIOUS
  <2>2. Len(k[n].out) \in Nat
    BY <1>3, <2>1
  <2>3. j \in 1 .. Len(k[n].out)
    BY <1>1
  <2> QED
    BY ONLY <2>2, <2>3
<1>6. n >= 1
  <2>1. CASE n = 0
    BY ONLY <1>4, <1>5, <2>1
  <2> QED
    BY <2>1
<1>7. CompletedBy(s, e, j) = Min(Enough)
  BY DEF CompletedBy
<1> HIDE DEF Had
<1>8. Enough \subseteq Nat /\ n \in Enough
  <2>1. n \in 1 .. n /\ n \in 0 .. n
    BY <1>6
  <2>2. Had(n) = Len(k[n].out) /\ Had(n) \in Nat
    BY <1>2, <1>3, <2>1
  <2> QED
    BY <1>1, <1>5, <2>1, <2>2
<1>9. PICK c \in Enough : \A i \in Enough : c <= i
  BY <1>8, LeastNat
<1>10. Min(Enough) = CHOOSE y \in Enough : \A i \in Enough : y <= i
  BY DEF Min
<1>11. PICK d \in Enough : d = Min(Enough) /\ \A i \in Enough : d <= i
  BY <1>9, <1>10
<1>12. d \in 1 .. n /\ d - 1 \in 0 .. n /\ Had(d) >= j
  BY <1>1, <1>11
<1>13. Had(d) = Len(k[d].out) /\ Len(k[d].out) \in Nat /\ Len(k[d - 1].out) \in Nat
  BY <1>2, <1>3, <1>12
<1>14. Len(k[d - 1].out) < j
  <2>1. CASE d = 1
    BY <1>4, <1>5, <2>1
  <2>2. CASE d # 1
    <3>1. d - 1 \in 1 .. n /\ ~ (d <= d - 1)
      BY <1>12, <2>2
    <3>2. d - 1 \notin Enough
      BY <1>11, <3>1
    <3>3. ~ (Had(d - 1) >= j)
      BY <1>1, <3>1, <3>2
    <3>4. Had(d - 1) = Len(k[d - 1].out)
      BY <1>2, <1>12
    <3> QED
      BY ONLY <1>5, <1>13, <3>3, <3>4
  <2> QED
    BY <2>1, <2>2
<1> QED
  BY <1>1, <1>5, <1>7, <1>11, <1>12, <1>13, <1>14

\* The byte with which Read has j bytes is the step at which it gets there.
LEMMA CompletedIs ==
    ASSUME NEW s, s \in Seq(Bytes), NEW e, e \in BOOLEAN, NEW k, Decodes(k, s, e),
           NEW i, i \in 1 .. Len(s),
           NEW j, j \in Nat, 1 <= j, j <= Len(k[i].out), Len(k[i - 1].out) < j
    PROVE  CompletedBy(s, e, j) = i
<1>1. PICK n \in Nat : n = Len(s)
  BY s \in Seq(Bytes)
<1>2. /\ \A a \in 0 .. n : Len(k[a].out) \in Nat
      /\ \A a, b \in 0 .. n : a <= b => Len(k[a].out) <= Len(k[b].out)
  BY <1>1, DecodeGrows
<1>3. i \in 1 .. n /\ i \in 0 .. n /\ i - 1 \in 0 .. n /\ n \in 0 .. n /\ i <= n
  BY <1>1
<1>4. Len(k[i].out) <= Len(k[n].out) /\ Len(k[i].out) \in Nat /\ Len(k[n].out) \in Nat
  BY ONLY <1>2, <1>3
<1>5. j \in 1 .. Len(k[n].out)
  BY <1>4
<1>6. PICK c : c = CompletedBy(s, e, j)
  OBVIOUS
<1>7. c \in 1 .. n /\ j <= Len(k[c].out) /\ Len(k[c - 1].out) < j
  BY <1>1, <1>5, <1>6, CompletedFacts
<1>8. c \in 0 .. n /\ c - 1 \in 0 .. n
  BY <1>7
<1>9. ASSUME c < i PROVE FALSE
  <2>1. c <= i - 1
    BY <1>3, <1>8, <1>9
  <2>2. Len(k[c].out) <= Len(k[i - 1].out) /\ Len(k[c].out) \in Nat /\ Len(k[i - 1].out) \in Nat
    BY ONLY <1>2, <1>3, <1>8, <2>1
  <2> QED
    BY <1>7, <2>2
<1>10. ASSUME i < c PROVE FALSE
  <2>1. i <= c - 1
    BY <1>3, <1>8, <1>10
  <2>2. Len(k[i].out) <= Len(k[c - 1].out) /\ Len(k[i].out) \in Nat /\ Len(k[c - 1].out) \in Nat
    BY ONLY <1>2, <1>3, <1>8, <2>1
  <2> QED
    BY <1>7, <2>2
<1> QED
  BY <1>3, <1>6, <1>8, <1>9, <1>10

\* The frames of the bytes that Read has.
TagsOf(s, e, x) == [j \in DOMAIN Decode(s, e).out |-> x[CompletedBy(s, e, j)]]

\* Every byte delivered is of the frame of the byte that completed it.
LEMMA TagsTyped ==
    ASSUME NEW s, s \in Seq(Bytes), NEW e, e \in BOOLEAN,
           NEW x, x \in Seq(Frames), Len(x) = Len(s)
    PROVE  /\ TagsOf(s, e, x) \in Seq(Frames) /\ Len(TagsOf(s, e, x)) = Len(Decode(s, e).out)
           /\ \A j \in 1 .. Len(Decode(s, e).out) : TagsOf(s, e, x)[j] = x[CompletedBy(s, e, j)]
<1>1. PICK m \in Nat : m = Len(Decode(s, e).out) /\ DOMAIN Decode(s, e).out = 1 .. m
  BY DecodeTyped
<1>2. \A j \in 1 .. m : CompletedBy(s, e, j) \in 1 .. Len(s)
  BY <1>1, CompletedInOrder
<1>3. \A j \in 1 .. m : x[CompletedBy(s, e, j)] \in Frames
  BY <1>2
<1>4. PICK f : f = [j \in 1 .. m |-> x[CompletedBy(s, e, j)]]
  OBVIOUS
<1>5. f \in [1 .. m -> Frames] /\ \A j \in 1 .. m : f[j] = x[CompletedBy(s, e, j)]
  BY <1>3, <1>4
<1>6. f \in Seq(Frames) /\ Len(f) = m
  BY <1>5, FunctionSeq
<1> QED
  BY <1>1, <1>4, <1>5, <1>6 DEF TagsOf

Lens(g, k, n, h, m) ==
    /\ \A i \in 0 .. n : Len(g[i].out) = Len(k[i].out)
    /\ \A i \in 0 .. m : Len(g[n + i].out) = Len(k[n].out) + Len(h[i].out)

LEMMA JoinedLens ==
    ASSUME NEW s, s \in Seq(Bytes), NEW t, t \in Seq(Bytes), NEW e, e \in BOOLEAN,
           NEW k, Decodes(k, s, e), NEW h, Decodes(h, t, k[Len(s)].esc),
           NEW g, g = Joined(k, Len(s), h, Len(t))
    PROVE  Lens(g, k, Len(s), h, Len(t))
<1>1. PICK n \in Nat, m \in Nat : n = Len(s) /\ m = Len(t)
  BY s \in Seq(Bytes), t \in Seq(Bytes)
<1>2. g = Joined(k, n, h, m)
  BY <1>1
<1>3. \A i \in 0 .. n : g[i] = k[i]
  <2>1. g = [i \in 0 .. n + m |-> IF i <= n THEN k[i] ELSE Behind(k[n].out, h[i - n])]
    BY ONLY <1>2 DEF Joined
  <2>2. \A i \in 0 .. n : i \in 0 .. n + m /\ i <= n
    BY ONLY n \in Nat, m \in Nat
  <2> QED
    BY ONLY <2>1, <2>2
<1>4. k[n] \in Accs /\ k[n].out \in Seq(Bytes) /\ Len(k[n].out) \in Nat
  BY <1>1, SMTT(30) DEF Decodes, Unescapes, Accs
<1>5. \A i \in 0 .. m : h[i] \in Accs /\ h[i].out \in Seq(Bytes) /\ Len(h[i].out) \in Nat
  <2>1. \A i \in 0 .. m : h[i] \in Accs
    BY <1>1 DEF Decodes, Unescapes
  <2>2. \A a \in Accs : a.out \in Seq(Bytes) /\ Len(a.out) \in Nat
    BY DEF Accs
  <2> QED
    BY ONLY <2>1, <2>2
<1>6. h[0].out = <<>>
  BY DEF Decodes, Unescapes
<1>7. ASSUME NEW i \in 0 .. m PROVE Len(g[n + i].out) = Len(k[n].out) + Len(h[i].out)
  <2>1. CASE i = 0
    <3>1. n + i = n /\ n \in 0 .. n
      BY <2>1
    <3>2. g[n + i] = k[n]
      BY <1>3, <3>1
    <3>3. Len(h[i].out) = 0
      BY <1>6, <2>1
    <3> QED
      BY ONLY <1>4, <3>2, <3>3
  <2>2. CASE i # 0
    <3>1. ~ (n + i <= n) /\ n + i \in 0 .. n + m /\ (n + i) - n = i
      BY <2>2
    <3>2. g[n + i] = Behind(k[n].out, h[i])
      BY <1>2, <3>1 DEF Joined
    <3>3. k[n].out \in Seq(Bytes)
      BY <1>4
    <3>4. h[i].out \in Seq(Bytes)
      BY <1>5
    <3>5. PICK x, a, b : x = g[n + i] /\ a = k[n].out /\ b = h[i]
      OBVIOUS
    <3>6. x = Behind(a, b)
      BY ONLY <3>2, <3>5
    <3>7. x.out = a \o b.out
      BY ONLY <3>6, BehindIs
    <3>8. a \in Seq(Bytes)
      BY ONLY <3>3, <3>5
    <3>9. b.out \in Seq(Bytes)
      BY ONLY <3>4, <3>5
    <3>10. Len(a \o b.out) = Len(a) + Len(b.out)
      BY ONLY <3>8, <3>9, ConcatFacts
    <3> QED
      BY ONLY <3>5, <3>7, <3>10
  <2> QED
    BY <2>1, <2>2
<1> QED
  BY <1>1, <1>3, <1>7 DEF Lens

\* Nor does the cut change the frame that a byte is of.
LEMMA TagsConcat ==
    ASSUME NEW s, s \in Seq(Bytes), NEW t, t \in Seq(Bytes), NEW e, e \in BOOLEAN,
           NEW x, x \in Seq(Frames), Len(x) = Len(s),
           NEW y, y \in Seq(Frames), Len(y) = Len(t),
           NEW u, NEW d, d \in BOOLEAN, Reads(s, e, u, d)
    PROVE  TagsOf(s \o t, e, x \o y) = TagsOf(s, e, x) \o TagsOf(t, d, y)
<1>1. PICK n \in Nat, m \in Nat : n = Len(s) /\ m = Len(t)
  BY s \in Seq(Bytes), t \in Seq(Bytes)
<1>2. PICK r, z : r = s \o t /\ z = x \o y
  OBVIOUS
<1>3. r \in Seq(Bytes) /\ Len(r) = n + m
  <2>1. s \o t \in Seq(Bytes) /\ Len(s \o t) = Len(s) + Len(t)
    BY ONLY s \in Seq(Bytes), t \in Seq(Bytes), ConcatFacts
  <2> QED
    BY ONLY <1>1, <1>2, <2>1
<1>4. /\ z \in Seq(Frames) /\ Len(z) = n + m
      /\ \A j \in 1 .. n + m : z[j] = IF j <= n THEN x[j] ELSE y[j - n]
  <2>1. /\ x \o y \in Seq(Frames) /\ Len(x \o y) = Len(x) + Len(y)
        /\ \A j \in 1 .. Len(x) + Len(y) : (x \o y)[j] = IF j <= Len(x) THEN x[j] ELSE y[j - Len(x)]
    BY ONLY x \in Seq(Frames), y \in Seq(Frames), ConcatFacts
  <2> QED
    BY ONLY <1>1, <1>2, <2>1, Len(x) = Len(s), Len(y) = Len(t)
<1>5. PICK k : Decodes(k, s, e)
  BY DecodeSteps
<1>6. d = k[n].esc /\ d \in BOOLEAN /\ Decode(s, e) = k[n]
  <2>1. Decode(s, e) = k[n]
    BY <1>1, <1>5, DecodeIs
  <2>2. Decode(s, e).esc \in BOOLEAN
    BY DecodeTyped
  <2> QED
    <3>1. k[n] = [out |-> u, esc |-> d]
      BY <2>1 DEF Reads
    <3>2. k[n].esc = d
      BY ONLY <3>1
    <3> QED
      BY <2>1, <3>2
<1>7. PICK h : Decodes(h, t, d)
  BY <1>6, DecodeSteps
<1>8. Decode(t, d) = h[m]
  BY <1>1, <1>6, <1>7, DecodeIs
<1>9. PICK g : g = Joined(k, n, h, m)
  OBVIOUS
<1>10. Decodes(g, r, e)
  BY <1>1, <1>2, <1>5, <1>6, <1>7, <1>9, DecodesConcat
<1>11. /\ \A i \in 0 .. n : Len(g[i].out) = Len(k[i].out)
       /\ \A i \in 0 .. m : Len(g[n + i].out) = Len(k[n].out) + Len(h[i].out)
  <2>1. Decodes(h, t, k[Len(s)].esc)
    BY <1>1, <1>6, <1>7
  <2>2. g = Joined(k, Len(s), h, Len(t))
    BY <1>1, <1>9
  <2>3. Decodes(k, s, e)
    BY <1>5
  <2>4. Lens(g, k, Len(s), h, Len(t))
    BY ONLY <2>1, <2>2, <2>3, s \in Seq(Bytes), t \in Seq(Bytes), e \in BOOLEAN, JoinedLens
  <2> QED
    BY ONLY <1>1, <2>4 DEF Lens
<1>12. PICK a \in Nat, b \in Nat : a = Len(k[n].out) /\ b = Len(h[m].out)
  <2>1. Len(Decode(s, e).out) \in Nat /\ Len(Decode(t, d).out) \in Nat
    BY <1>6, DecodeTyped
  <2> QED
    BY <1>6, <1>8, <2>1
<1>13. Decode(r, e) = g[n + m] /\ Len(Decode(r, e).out) = a + b
  <2>1. Decode(r, e) = g[n + m]
    <3>1. r \in Seq(Bytes)
      BY <1>3
    <3>2. Decode(r, e) = g[Len(r)]
      BY ONLY <1>10, <3>1, e \in BOOLEAN, DecodeIs
    <3> QED
      BY ONLY <1>3, <3>2
  <2>2. m \in 0 .. m
    OBVIOUS
  <2> QED
    BY <1>11, <1>12, <2>1, <2>2
<1>14. PICK A, B, C, D : /\ A = TagsOf(s, e, x) /\ B = TagsOf(t, d, y)
                         /\ C = TagsOf(r, e, z) /\ D = A \o B
  OBVIOUS
<1>15. /\ A \in Seq(Frames) /\ Len(A) = a
       /\ \A j \in 1 .. a : A[j] = x[CompletedBy(s, e, j)]
  BY <1>6, <1>12, <1>14, TagsTyped
<1>16. /\ B \in Seq(Frames) /\ Len(B) = b
       /\ \A j \in 1 .. b : B[j] = y[CompletedBy(t, d, j)]
  BY <1>6, <1>8, <1>12, <1>14, TagsTyped
<1>17. /\ C \in Seq(Frames) /\ Len(C) = a + b
       /\ \A j \in 1 .. a + b : C[j] = z[CompletedBy(r, e, j)]
  <2>1. r \in Seq(Bytes)
    BY <1>3
  <2>2. z \in Seq(Frames) /\ Len(z) = Len(r)
    BY <1>3, <1>4
  <2>3. z \in Seq(Frames)
    BY <2>2
  <2>4. Len(z) = Len(r)
    BY <2>2
  <2>5. /\ TagsOf(r, e, z) \in Seq(Frames) /\ Len(TagsOf(r, e, z)) = Len(Decode(r, e).out)
        /\ \A j \in 1 .. Len(Decode(r, e).out) : TagsOf(r, e, z)[j] = z[CompletedBy(r, e, j)]
    BY ONLY <2>1, <2>3, <2>4, e \in BOOLEAN, TagsTyped
  <2>6. Len(Decode(r, e).out) = a + b /\ C = TagsOf(r, e, z)
    BY <1>13, <1>14
  <2> QED
    BY ONLY <2>5, <2>6
<1>18. /\ D \in Seq(Frames) /\ Len(D) = a + b
       /\ \A j \in 1 .. a + b : D[j] = IF j <= a THEN A[j] ELSE B[j - a]
  <2>1. A \in Seq(Frames)
    BY <1>15
  <2>2. B \in Seq(Frames)
    BY <1>16
  <2>3. /\ A \o B \in Seq(Frames) /\ Len(A \o B) = Len(A) + Len(B)
        /\ \A j \in 1 .. Len(A) + Len(B) : (A \o B)[j] = IF j <= Len(A) THEN A[j] ELSE B[j - Len(A)]
    BY ONLY <2>1, <2>2, ConcatFacts
  <2> QED
    BY ONLY <1>14, <1>15, <1>16, <2>3
<1>19. ASSUME NEW j \in 1 .. a + b, j <= a PROVE C[j] = D[j]
  <2>1. j \in 1 .. a
    BY <1>19
  <2>2. PICK c : c = CompletedBy(s, e, j)
    OBVIOUS
  <2>3. c \in 1 .. n /\ j <= Len(k[c].out) /\ Len(k[c - 1].out) < j
    BY <1>1, <1>5, <1>12, <2>1, <2>2, CompletedFacts
  <2>4. c \in 0 .. n /\ c - 1 \in 0 .. n /\ c \in 1 .. n + m
    BY <2>3
  <2>5. j <= Len(g[c].out) /\ Len(g[c - 1].out) < j /\ j \in Nat /\ 1 <= j
    BY <1>11, <2>3, <2>4, SMTT(30)
  <2>6. CompletedBy(r, e, j) = c
    <3>1. r \in Seq(Bytes)
      BY <1>3
    <3>2. c \in 1 .. Len(r)
      BY <1>3, <2>4
    <3>3. j <= Len(g[c].out)
      BY <2>5
    <3>4. Len(g[c - 1].out) < j
      BY <2>5
    <3>5. j \in Nat
      BY <2>5
    <3>6. 1 <= j
      BY <2>5
    <3> QED
      BY ONLY <1>10, <3>1, <3>2, <3>3, <3>4, <3>5, <3>6, e \in BOOLEAN, CompletedIs
  <2>7. z[c] = x[c]
    <3>1. c <= n
      BY <2>3
    <3>2. \A q \in 1 .. n + m : z[q] = IF q <= n THEN x[q] ELSE y[q - n]
      BY <1>4
    <3>3. z[c] = IF c <= n THEN x[c] ELSE y[c - n]
      BY ONLY <2>4, <3>2
    <3> QED
      BY ONLY <3>1, <3>3
  <2> QED
    BY <1>15, <1>17, <1>18, <1>19, <2>1, <2>2, <2>6, <2>7
<1>20. ASSUME NEW j \in 1 .. a + b, ~ (j <= a) PROVE C[j] = D[j]
  <2>1. PICK i \in 1 .. b : i = j - a /\ j = a + i
    BY <1>20
  <2>2. PICK c : c = CompletedBy(t, d, i)
    OBVIOUS
  <2>3. c \in 1 .. m /\ i <= Len(h[c].out) /\ Len(h[c - 1].out) < i
    BY <1>1, <1>6, <1>7, <1>12, <2>1, <2>2, CompletedFacts
  <2>4. PICK w \in 1 .. n + m : w = n + c /\ w - 1 = n + (c - 1) /\ c \in 0 .. m /\ c - 1 \in 0 .. m
    BY <2>3
  <2>5. /\ Len(g[w].out) = a + Len(h[c].out) /\ Len(g[w - 1].out) = a + Len(h[c - 1].out)
        /\ Len(h[c].out) \in Nat /\ Len(h[c - 1].out) \in Nat
    <3>1. \A q \in 0 .. m : Len(h[q].out) \in Nat
      BY <1>1, <1>7, DecodeGrows
    <3> QED
      BY <1>11, <1>12, <2>4, <3>1
  <2>6. j <= Len(g[w].out) /\ Len(g[w - 1].out) < j /\ j \in Nat /\ 1 <= j
    BY <2>1, <2>3, <2>5
  <2>7. CompletedBy(r, e, j) = w
    <3>1. r \in Seq(Bytes)
      BY <1>3
    <3>2. w \in 1 .. Len(r)
      BY <1>3
    <3>3. j <= Len(g[w].out)
      BY <2>6
    <3>4. Len(g[w - 1].out) < j
      BY <2>6
    <3>5. j \in Nat
      BY <2>6
    <3>6. 1 <= j
      BY <2>6
    <3> QED
      BY ONLY <1>10, <3>1, <3>2, <3>3, <3>4, <3>5, <3>6, e \in BOOLEAN, CompletedIs
  <2>8. z[w] = y[c]
    <3>1. ~ (w <= n) /\ w - n = c
      BY <2>3, <2>4
    <3> QED
      BY <1>4, <2>4, <3>1
  <2> QED
    BY <1>16, <1>17, <1>18, <1>20, <2>1, <2>2, <2>7, <2>8
<1>21. \A j \in 1 .. a + b : C[j] = D[j]
  BY <1>19, <1>20
<1>22. C = D
  BY <1>17, <1>18, <1>21, SeqEqual
<1> QED
  BY ONLY <1>2, <1>14, <1>22

\* Read has d of s, and no escape sequence is open.
Gives(s, d) == Reads(s, FALSE, d, FALSE)

\* One byte of a frame, as Write puts it on the line, is read as it was.
LEMMA DecodeOne ==
    ASSUME NEW b, b \in Bytes, b # ASCII_ESC
    PROVE  Gives(<<b>>, <<b>>)
<1>1. PICK acc : acc = [out |-> <<>>, esc |-> FALSE]
  OBVIOUS
<1>2. PICK res : res = [out |-> <<b>>, esc |-> FALSE]
  OBVIOUS
<1>3. PICK s : s = <<b>>
  OBVIOUS
<1>4. s \in Seq(Bytes) /\ Len(s) = 1 /\ s[1] = b
  BY <1>3
<1>5. acc \in Accs /\ res \in Accs
  BY <1>1, <1>2 DEF Accs
<1>6. Append(<<>>, b) = <<b>>
  BY AppendOne
<1>7. Unescape(acc, b) = res
  BY <1>1, <1>2, <1>6 DEF Unescape
<1>8. PICK g : g = [i \in 0 .. 1 |-> IF i = 0 THEN acc ELSE res]
  OBVIOUS
<1>9. g \in [0 .. 1 -> Accs] /\ g[0] = acc /\ g[1] = res
  BY <1>5, <1>8
<1>10. \A k \in 1 .. 1 : g[k] = Unescape(g[k - 1], s[k])
  <2>1. \A k \in 1 .. 1 : k = 1 /\ k - 1 = 0
    OBVIOUS
  <2> QED
    BY <1>4, <1>7, <1>9, <2>1
<1>11. Unescapes(g, acc, s)
  BY <1>4, <1>9, <1>10 DEF Unescapes
<1>12. FoldLeft(Unescape, acc, s) = g[Len(s)]
  BY ONLY <1>4, <1>5, <1>11, UnescapeIs
<1> QED
  BY <1>1, <1>2, <1>3, <1>4, <1>9, <1>12 DEF Decode, Reads, Gives

LEMMA DecodeTwo ==
    ASSUME NEW c, c \in Bytes, NEW b, \/ c = SENTINEL_ESC /\ b = PKT_SENTINEL
                                      \/ c = ASCII_ESC /\ b = ASCII_ESC
    PROVE  Gives(<<ASCII_ESC, c>>, <<b>>)
<1>1. PICK acc : acc = [out |-> <<>>, esc |-> FALSE]
  OBVIOUS
<1>2. PICK mid : mid = [out |-> <<>>, esc |-> TRUE]
  OBVIOUS
<1>3. PICK res : res = [out |-> <<b>>, esc |-> FALSE]
  OBVIOUS
<1>4. PICK s : s = <<ASCII_ESC, c>>
  OBVIOUS
<1>e. ASCII_ESC \in Bytes /\ PKT_SENTINEL \in Bytes /\ ASCII_ESC # SENTINEL_ESC /\ b \in Bytes
  BY ReceiverAssumption
<1>5. s \in Seq(Bytes) /\ Len(s) = 2 /\ s[1] = ASCII_ESC /\ s[2] = c
  BY <1>4, <1>e
<1>6. acc \in Accs /\ mid \in Accs /\ res \in Accs
  BY <1>1, <1>2, <1>3, <1>e DEF Accs
<1>7. Append(<<>>, b) = <<b>>
  BY AppendOne
<1>8. Unescape(acc, ASCII_ESC) = mid
  BY <1>1, <1>2 DEF Unescape
<1>9. Unescape(mid, c) = res
  <2>1. mid.esc = TRUE /\ mid.out = <<>>
    BY <1>2
  <2>2. CASE c = SENTINEL_ESC /\ b = PKT_SENTINEL
    BY <1>3, <1>7, <1>e, <2>1, <2>2 DEF Unescape
  <2>3. CASE c = ASCII_ESC /\ b = ASCII_ESC
    BY <1>3, <1>7, <1>e, <2>1, <2>3 DEF Unescape
  <2> QED
    BY <2>2, <2>3
<1>10. PICK g : g = [i \in 0 .. 2 |-> IF i = 0 THEN acc ELSE IF i = 1 THEN mid ELSE res]
  OBVIOUS
<1>11. g \in [0 .. 2 -> Accs] /\ g[0] = acc /\ g[1] = mid /\ g[2] = res
  BY <1>6, <1>10
<1>12. \A k \in 1 .. 2 : g[k] = Unescape(g[k - 1], s[k])
  <2>1. \A k \in 1 .. 2 : (k = 1 /\ k - 1 = 0) \/ (k = 2 /\ k - 1 = 1)
    OBVIOUS
  <2> QED
    BY <1>5, <1>8, <1>9, <1>11, <2>1
<1>13. Unescapes(g, acc, s)
  BY <1>5, <1>11, <1>12 DEF Unescapes
<1>14. FoldLeft(Unescape, acc, s) = g[Len(s)]
  BY ONLY <1>5, <1>6, <1>13, UnescapeIs
<1> QED
  BY <1>1, <1>3, <1>4, <1>5, <1>11, <1>14 DEF Decode, Reads, Gives

LEMMA DecodeByte ==
    ASSUME NEW b, b \in Bytes
    PROVE  EscapeByte(b) \in Seq(Bytes) /\ Gives(EscapeByte(b), <<b>>)
<1>1. \A x, y \in Bytes : <<x, y>> \in Seq(Bytes) /\ <<x>> \in Seq(Bytes)
  OBVIOUS
<1>2. ASCII_ESC \in Bytes /\ SENTINEL_ESC \in Bytes /\ PKT_SENTINEL # ASCII_ESC
  BY ReceiverAssumption
<1>3. CASE b = PKT_SENTINEL
  <2>1. EscapeByte(b) = <<ASCII_ESC, SENTINEL_ESC>>
    BY <1>2, <1>3 DEF EscapeByte
  <2> QED
    BY <1>1, <1>2, <1>3, <2>1, DecodeTwo
<1>4. CASE b = ASCII_ESC
  <2>1. EscapeByte(b) = <<ASCII_ESC, ASCII_ESC>>
    BY <1>2, <1>4 DEF EscapeByte
  <2> QED
    BY <1>1, <1>2, <1>4, <2>1, DecodeTwo
<1>5. CASE b # PKT_SENTINEL /\ b # ASCII_ESC
  <2>1. EscapeByte(b) = <<b>>
    BY <1>5 DEF EscapeByte
  <2> QED
    BY <1>1, <1>5, <2>1, DecodeOne
<1> QED
  BY <1>3, <1>4, <1>5

\* Read undoes Write, byte by byte of the frame.
LEMMA EscapeUndone ==
    ASSUME NEW data, data \in Seq(Bytes), data # <<>>, data[1] # ASCII_ESC
    PROVE  Gives(Escape(data), data)
<1>1. PICK n \in Nat : n + 1 = Len(data)
  <2>1. Len(data) \in Nat /\ Len(data) # 0
    OBVIOUS
  <2>2. Len(data) - 1 \in Nat /\ (Len(data) - 1) + 1 = Len(data)
    BY <2>1
  <2> QED
    BY <2>2
<1>2. \A k \in 1 .. n + 1 : data[k] \in Bytes
  BY <1>1
<1>3. PICK ss : ss = [k \in 1 .. Len(data) - 1 |-> EscapeByte(data[k + 1])]
  OBVIOUS
<1>4. /\ ss \in Seq(Seq(Bytes)) /\ Len(ss) = n
      /\ \A k \in 1 .. n : ss[k] = EscapeByte(data[k + 1])
  <2>1. ss = [k \in 1 .. n |-> EscapeByte(data[k + 1])]
    BY <1>1, <1>3
  <2>2. ASSUME NEW k \in 1 .. n PROVE EscapeByte(data[k + 1]) \in Seq(Bytes)
    <3>1. k + 1 \in 1 .. n + 1
      OBVIOUS
    <3>2. data[k + 1] \in Bytes
      BY <1>2, <3>1
    <3> QED
      BY ONLY <3>2, DecodeByte
  <2>3. ss \in [1 .. n -> Seq(Bytes)]
    BY <2>1, <2>2
  <2>4. n \in Nat
    OBVIOUS
  <2>5. ss \in Seq(Seq(Bytes)) /\ Len(ss) = n
    BY ONLY <2>3, <2>4, FunctionSeq
  <2> QED
    BY <2>1, <2>5
<1>5. PICK g \in [0 .. n -> Seq(Bytes)] : Flattens(g, ss) /\ FlattenSeq(ss) = g[n]
  BY <1>4, FlattenChain
<1>6. PICK h : h = <<data[1]>>
  OBVIOUS
<1>7. /\ h \in Seq(Bytes) /\ Escape(data) = h \o FlattenSeq(ss)
      /\ Gives(h, h)
  <2>1. data[1] \in Bytes
    BY <1>2
  <2>2. Escape(data) = h \o FlattenSeq(ss)
    BY <1>3, <1>6 DEF Escape
  <2> QED
    BY <1>6, <2>1, <2>2, DecodeOne
<1> DEFINE T == {j \in Nat : j <= n => Gives(h \o g[j], SubSeq(data, 1, j + 1))}
<1>8. 0 \in T
  <2>1. g[0] = <<>>
    BY <1>5 DEF Flattens
  <2>2. h \o <<>> = h
    BY <1>7, ConcatEmptySeq
  <2>3. SubSeq(data, 1, 1) = h
    <3>1. 1 \in 0 .. Len(data)
      BY <1>1
    <3>2. PICK u : u = SubSeq(data, 1, 1)
      OBVIOUS
    <3>3. u \in Seq(Bytes) /\ Len(u) = 1 /\ \A k \in 1 .. 1 : u[k] = data[k]
      BY ONLY <3>1, <3>2, data \in Seq(Bytes), PrefixFacts
    <3>4. Len(h) = 1 /\ h[1] = data[1] /\ h \in Seq(Bytes)
      BY <1>6, <1>7
    <3>5. \A k \in 1 .. 1 : u[k] = h[k]
      BY ONLY <3>3, <3>4
    <3>6. u = h
      BY ONLY <3>3, <3>4, <3>5, SeqEqual
    <3> QED
      BY ONLY <3>2, <3>6
  <2>4. Gives(h \o g[0], SubSeq(data, 1, 0 + 1))
    <3>1. PICK u, v : u = h \o g[0] /\ v = SubSeq(data, 1, 0 + 1)
      OBVIOUS
    <3>2. u = h
      BY ONLY <2>1, <2>2, <3>1
    <3>3. v = h
      <4>1. 0 + 1 = 1
        OBVIOUS
      <4> QED
        BY ONLY <2>3, <3>1, <4>1
    <3> QED
      BY ONLY <1>7, <3>1, <3>2, <3>3
  <2> QED
    BY <2>4
<1>9. ASSUME NEW j \in Nat, j \in T PROVE j + 1 \in T
  <2>1. SUFFICES ASSUME j + 1 <= n
                 PROVE  Gives(h \o g[j + 1], SubSeq(data, 1, (j + 1) + 1))
    OBVIOUS
  <2>2. j + 1 \in 1 .. n /\ (j + 1) - 1 = j /\ j \in 0 .. n /\ (j + 1) + 1 \in 1 .. n + 1
    BY <2>1
  <2>3. PICK b : b = data[(j + 1) + 1]
    OBVIOUS
  <2>4. b \in Bytes
    BY <1>2, <2>2, <2>3
  <2>5. PICK piece : piece = EscapeByte(b)
    OBVIOUS
  <2>6. piece \in Seq(Bytes) /\ Gives(piece, <<b>>)
    BY <2>4, <2>5, DecodeByte
  <2>7. g[j + 1] = g[j] \o piece /\ g[j] \in Seq(Bytes)
    <3>1. g[j + 1] = g[(j + 1) - 1] \o ss[j + 1]
      BY <1>4, <1>5, <2>2 DEF Flattens
    <3>2. ss[j + 1] = piece
      BY <1>4, <2>2, <2>3, <2>5
    <3>3. g[j] \in Seq(Bytes)
      BY <2>2
    <3> QED
      BY <2>2, <3>1, <3>2, <3>3
  <2>8. PICK u, v, w : u = h \o g[j] /\ v = SubSeq(data, 1, j + 1) /\ w = SubSeq(data, 1, (j + 1) + 1)
    OBVIOUS
  <2>9. u \in Seq(Bytes) /\ h \o g[j + 1] = u \o piece
    <3>1. h \in Seq(Bytes)
      BY <1>7
    <3>2. g[j] \in Seq(Bytes)
      BY <2>7
    <3>3. piece \in Seq(Bytes)
      BY <2>6
    <3>4. h \o g[j] \in Seq(Bytes)
      BY ONLY <3>1, <3>2, ConcatFacts
    <3>5. PICK x, z : x = h \o (g[j] \o piece) /\ z = g[j]
      OBVIOUS
    <3>6. u = h \o z /\ x = h \o (z \o piece) /\ z \in Seq(Bytes)
      BY ONLY <2>8, <3>2, <3>5
    <3>7. x = u \o piece
      BY ONLY <3>1, <3>3, <3>6, Concats, SMTT(30)
    <3> QED
      BY ONLY <2>7, <2>8, <3>4, <3>5, <3>7
  <2>10. Gives(u, v)
    BY <1>9, <2>1, <2>8
  <2>13. v \o <<b>> = w
    <3>1. j + 1 \in 0 .. Len(data) /\ (j + 1) + 1 \in 0 .. Len(data)
      BY <1>1, <2>2
    <3>2. v \in Seq(Bytes) /\ Len(v) = j + 1 /\ \A k \in 1 .. j + 1 : v[k] = data[k]
      BY ONLY <2>8, <3>1, data \in Seq(Bytes), PrefixFacts
    <3>3. w \in Seq(Bytes) /\ Len(w) = (j + 1) + 1 /\ \A k \in 1 .. (j + 1) + 1 : w[k] = data[k]
      BY ONLY <2>8, <3>1, data \in Seq(Bytes), PrefixFacts
    <3>4. PICK q : q = <<b>>
      OBVIOUS
    <3>5. q \in Seq(Bytes) /\ Len(q) = 1 /\ q[1] = b
      BY <2>4, <3>4
    <3>6. PICK r : r = v \o q
      OBVIOUS
    <3>7. /\ r \in Seq(Bytes) /\ Len(r) = Len(v) + Len(q)
          /\ \A k \in 1 .. Len(v) + Len(q) : r[k] = IF k <= Len(v) THEN v[k] ELSE q[k - Len(v)]
      BY ONLY <3>2, <3>5, <3>6, ConcatFacts
    <3>8. \A k \in 1 .. (j + 1) + 1 : r[k] = w[k]
      <4> TAKE k \in 1 .. (j + 1) + 1
      <4>1. r[k] = IF k <= j + 1 THEN v[k] ELSE q[k - (j + 1)]
        BY <3>2, <3>5, <3>7
      <4>2. CASE k <= j + 1
        BY <3>2, <3>3, <4>1, <4>2
      <4>3. CASE ~ (k <= j + 1)
        <5>1. k = (j + 1) + 1 /\ k - (j + 1) = 1
          BY <4>3
        <5> QED
          BY <2>3, <3>3, <3>5, <4>1, <4>3, <5>1
      <4> QED
        BY <4>2, <4>3
    <3>9. Len(r) = Len(w) /\ Len(w) = (j + 1) + 1
      BY <3>2, <3>3, <3>5, <3>7
    <3>10. r = w
      BY <3>3, <3>7, <3>8, <3>9, SeqEqual
    <3> QED
      BY ONLY <3>4, <3>6, <3>10
  <2>11. Gives(u \o piece, v \o <<b>>)
    <3>1. PICK q : q = <<b>>
      OBVIOUS
    <3>2. q \in Seq(Bytes)
      BY <2>4, <3>1
    <3>3. v \in Seq(Bytes)
      <4>1. j + 1 \in 0 .. Len(data)
        BY <1>1, <2>2
      <4> QED
        BY ONLY <2>8, <4>1, data \in Seq(Bytes), PrefixFacts
    <3>4. Reads(u, FALSE, v, FALSE)
      BY ONLY <2>10 DEF Gives
    <3>5. Reads(piece, FALSE, q, FALSE)
      BY ONLY <2>6, <3>1 DEF Gives
    <3>6. u \in Seq(Bytes)
      BY ONLY <2>9
    <3>7. piece \in Seq(Bytes)
      BY ONLY <2>6
    <3>8. PICK e : e = FALSE
      OBVIOUS
    <3>9. e \in BOOLEAN
      BY ONLY <3>8
    <3>10. Reads(u, e, v, e) /\ Reads(piece, e, q, e)
      BY ONLY <3>4, <3>5, <3>8
    <3>11. Reads(u \o piece, e, v \o q, e)
      BY ONLY <3>2, <3>3, <3>6, <3>7, <3>9, <3>10, ReadsConcat
    <3> QED
      BY ONLY <3>1, <3>8, <3>11 DEF Gives
  <2> QED
    BY <2>8, <2>9, <2>11, <2>13
<1>10. n \in T
  <2> HIDE DEF T
  <2> QED
    BY <1>8, <1>9, NatSetInduction
<1>11. SubSeq(data, 1, n + 1) = data
  <2>1. n + 1 \in 0 .. Len(data)
    BY <1>1
  <2>2. PICK u : u = SubSeq(data, 1, n + 1)
    OBVIOUS
  <2>3. u \in Seq(Bytes) /\ Len(u) = n + 1 /\ \A k \in 1 .. n + 1 : u[k] = data[k]
    BY ONLY <2>1, <2>2, data \in Seq(Bytes), PrefixFacts
  <2>4. u = data
    BY <1>1, <2>3, SeqEqual
  <2> QED
    BY ONLY <2>2, <2>4
<1> QED
  <2>1. Gives(h \o g[n], SubSeq(data, 1, n + 1))
    BY <1>10
  <2> QED
    BY <1>5, <1>7, <1>11, <2>1

-----------------------------------------------------------------------------
(* A line that damages nothing.                                            *)

\* The bytes that Read has delivered and will deliver of those on the line, and
\* the frames they were sent for.
Stream == arrived \o Decode(line, inESC).out
StreamFrame == arrivedFrame \o TagsOf(line, inESC, lineFrame)

\* B are the ends of the frames of which s consists; t has the frame of each byte.
Consists(s, t, B) ==
    /\ B \subseteq 0 .. Len(s) /\ Len(s) \in B
    /\ \A b \in B : b # Len(s) =>
         /\ b + Len(FrameBytes[t[b + 1]]) \in B
         /\ \A j \in 1 .. Len(FrameBytes[t[b + 1]]) :
              /\ s[b + j] = FrameBytes[t[b + 1]][j]
              /\ t[b + j] = t[b + 1]

\* Nothing but whole frames arrives, and OnRun is between two of them.
Whole ==
    /\ Decode(line, inESC).esc = FALSE
    /\ \E B : Consists(Stream, StreamFrame, B) /\ consumed \in B

\* What has arrived is the beginning of the stream.
LEMMA StreamTyped ==
    ASSUME TypeOK
    PROVE  /\ Decode(line, inESC).out \in Seq(Bytes)
           /\ TagsOf(line, inESC, lineFrame) \in Seq(Frames)
           /\ Stream \in Seq(Bytes) /\ StreamFrame \in Seq(Frames) /\ Len(StreamFrame) = Len(Stream)
           /\ Len(arrived) \in Nat /\ Len(arrived) <= Len(Stream) /\ consumed \in 0 .. Len(arrived)
           /\ \A j \in 1 .. Len(arrived) : Stream[j] = arrived[j] /\ StreamFrame[j] = arrivedFrame[j]
<1>1. /\ line \in Seq(Bytes) /\ inESC \in BOOLEAN /\ lineFrame \in Seq(Frames)
      /\ Len(lineFrame) = Len(line) /\ arrived \in Seq(Bytes) /\ arrivedFrame \in Seq(Frames)
      /\ Len(arrivedFrame) = Len(arrived) /\ consumed \in 0 .. Len(arrived)
  BY DEF TypeOK
<1>2. PICK u, v : u = Decode(line, inESC).out /\ v = TagsOf(line, inESC, lineFrame)
  OBVIOUS
<1>3. u \in Seq(Bytes) /\ v \in Seq(Frames) /\ Len(v) = Len(u)
  <2>1. line \in Seq(Bytes)
    BY <1>1
  <2>2. inESC \in BOOLEAN
    BY <1>1
  <2>3. lineFrame \in Seq(Frames)
    BY <1>1
  <2>4. Len(lineFrame) = Len(line)
    BY <1>1
  <2>5. u \in Seq(Bytes)
    BY ONLY <1>2, <2>1, <2>2, DecodeTyped
  <2>6. v \in Seq(Frames) /\ Len(v) = Len(u)
    BY ONLY <1>2, <2>1, <2>2, <2>3, <2>4, TagsTyped
  <2> QED
    BY ONLY <2>5, <2>6
<1>4. PICK S, F : S = Stream /\ F = StreamFrame
  OBVIOUS
<1>5. arrived \in Seq(Bytes)
  BY <1>1
<1>6. arrivedFrame \in Seq(Frames)
  BY <1>1
<1>7. u \in Seq(Bytes)
  BY <1>3
<1>8. v \in Seq(Frames)
  BY <1>3
<1>9. /\ S \in Seq(Bytes) /\ Len(S) = Len(arrived) + Len(u)
      /\ \A j \in 1 .. Len(arrived) + Len(u) :
           S[j] = IF j <= Len(arrived) THEN arrived[j] ELSE u[j - Len(arrived)]
  <2>1. S = arrived \o u
    BY <1>2, <1>4 DEF Stream
  <2> QED
    BY ONLY <1>5, <1>7, <2>1, ConcatFacts
<1>10. /\ F \in Seq(Frames) /\ Len(F) = Len(arrivedFrame) + Len(v)
       /\ \A j \in 1 .. Len(arrivedFrame) + Len(v) :
            F[j] = IF j <= Len(arrivedFrame) THEN arrivedFrame[j] ELSE v[j - Len(arrivedFrame)]
  <2>1. F = arrivedFrame \o v
    BY <1>2, <1>4 DEF StreamFrame
  <2> QED
    BY ONLY <1>6, <1>8, <2>1, ConcatFacts
<1>11. PICK n \in Nat, m \in Nat : n = Len(arrived) /\ m = Len(u)
  BY <1>5, <1>7
<1>12. \A j \in 1 .. n : j \in 1 .. n + m /\ j <= n
  OBVIOUS
<1>13. \A j \in 1 .. n : S[j] = arrived[j]
  BY ONLY <1>9, <1>11, <1>12
<1>14. \A j \in 1 .. n : F[j] = arrivedFrame[j]
  BY ONLY <1>1, <1>3, <1>10, <1>11, <1>12
<1>15. Len(S) = n + m /\ Len(F) = n + m /\ n <= n + m
  BY <1>1, <1>3, <1>9, <1>10, <1>11
<1> QED
  BY <1>1, <1>2, <1>3, <1>4, <1>9, <1>10, <1>11, <1>13, <1>14, <1>15

\* An idle line consists of no frames.
LEMMA InitWhole == Init => Whole
<1> SUFFICES ASSUME Init PROVE Whole
  OBVIOUS
<1>1. line = <<>> /\ inESC = FALSE /\ arrived = <<>> /\ consumed = 0
  BY DEF Init
<1>2. TypeOK
  BY InitIInv DEF IInv
<1>3. Decode(<<>>, FALSE) = [out |-> <<>>, esc |-> FALSE]
  <2>1. PICK s : s = <<>>
    OBVIOUS
  <2>2. s \in Seq(Bytes) /\ Len(s) = 0 /\ FALSE \in BOOLEAN
    BY <2>1
  <2>3. PICK k : Decodes(k, s, FALSE)
    BY ONLY <2>2, DecodeSteps
  <2>4. Decode(s, FALSE) = k[0]
    BY <2>2, <2>3, DecodeIs
  <2>5. k[0] = [out |-> <<>>, esc |-> FALSE]
    BY <2>3 DEF Decodes, Unescapes
  <2> QED
    BY ONLY <2>1, <2>4, <2>5
<1>4. Gives(<<>>, <<>>)
  BY ONLY <1>3 DEF Gives, Reads
<1>5. Decode(<<>>, FALSE).out = <<>> /\ Decode(<<>>, FALSE).esc = FALSE
  BY ONLY <1>4, ReadsIs DEF Gives
<1>6. Stream = <<>> \o <<>>
  BY ONLY <1>1, <1>5 DEF Stream
<1>7. Stream = <<>> /\ Len(Stream) = 0
  <2>1. <<>> \in Seq(Bytes)
    OBVIOUS
  <2>2. <<>> \o <<>> = <<>>
    BY <2>1, ConcatEmptySeq
  <2>3. Stream = <<>>
    BY ONLY <1>6, <2>2
  <2>4. Len(<<>>) = 0
    OBVIOUS
  <2> QED
    BY ONLY <2>3, <2>4
<1>8. Consists(Stream, StreamFrame, {0})
  BY ONLY <1>7 DEF Consists
<1> QED
  BY ONLY <1>1, <1>5, <1>8 DEF Whole

\* What is taken off the line is in the stream as before.
LEMMA WholeStays ==
    ASSUME Whole, UNCHANGED consumed, Stream' = Stream, StreamFrame' = StreamFrame,
           Decode(line, inESC).esc' = Decode(line, inESC).esc
    PROVE  Whole'
<1>1. PICK B : Consists(Stream, StreamFrame, B) /\ consumed \in B
  BY DEF Whole
<1>2. Consists(Stream, StreamFrame, B)' <=> Consists(Stream, StreamFrame, B)
  BY DEF Consists
<1>3. Decode(line, inESC).esc = FALSE
  BY DEF Whole
<1> QED
  BY <1>1, <1>2, <1>3 DEF Whole

\* A sequence is its first n elements and the rest.
LEMMA Cut ==
    ASSUME NEW S, NEW s, s \in Seq(S), NEW n, n \in 0 .. Len(s)
    PROVE  s = SubSeq(s, 1, n) \o SubSeq(s, n + 1, Len(s))
<1>1. PICK a, b, c : a = SubSeq(s, 1, n) /\ b = SubSeq(s, n + 1, Len(s)) /\ c = a \o b
  OBVIOUS
<1>2. a \in Seq(S) /\ Len(a) = n /\ \A k \in 1 .. n : a[k] = s[k]
  BY ONLY <1>1, s \in Seq(S), n \in 0 .. Len(s), PrefixFacts
<1>3. b \in Seq(S) /\ Len(b) = Len(s) - n /\ \A k \in 1 .. Len(s) - n : b[k] = s[n + k]
  BY ONLY <1>1, s \in Seq(S), n \in 0 .. Len(s), SuffixFacts
<1>4. /\ c \in Seq(S) /\ Len(c) = Len(a) + Len(b)
      /\ \A k \in 1 .. Len(a) + Len(b) : c[k] = IF k <= Len(a) THEN a[k] ELSE b[k - Len(a)]
  <2>1. a \in Seq(S)
    BY <1>2
  <2>2. b \in Seq(S)
    BY <1>3
  <2>3. /\ a \o b \in Seq(S) /\ Len(a \o b) = Len(a) + Len(b)
        /\ \A k \in 1 .. Len(a) + Len(b) : (a \o b)[k] = IF k <= Len(a) THEN a[k] ELSE b[k - Len(a)]
    BY ONLY <2>1, <2>2, ConcatFacts
  <2> QED
    BY ONLY <1>1, <2>3
<1>5. PICK m \in Nat : m = Len(s) /\ n \in Nat /\ n <= m
  BY s \in Seq(S), n \in 0 .. Len(s)
<1>6. Len(c) = m
  BY ONLY <1>2, <1>3, <1>4, <1>5, m \in Nat
<1>7. ASSUME NEW k \in 1 .. m PROVE c[k] = s[k]
  <2>1. c[k] = IF k <= n THEN a[k] ELSE b[k - n]
    <3>1. Len(a) + Len(b) = m
      BY ONLY <1>4, <1>6
    <3> QED
      BY ONLY <1>2, <1>4, <3>1, k \in 1 .. m
  <2>2. CASE k <= n
    <3>1. k \in 1 .. n
      BY <1>5, <2>2
    <3> QED
      BY ONLY <1>2, <2>1, <2>2, <3>1
  <2>3. CASE ~ (k <= n)
    <3>1. k - n \in 1 .. m - n /\ n + (k - n) = k
      BY <1>5, <2>3
    <3> QED
      BY ONLY <1>3, <1>5, <2>1, <2>3, <3>1
  <2> QED
    BY <2>2, <2>3
<1>8. c = s
  BY <1>4, <1>5, <1>6, <1>7, SeqEqual
<1> QED
  BY ONLY <1>1, <1>8

\* Read moves the cut between what has arrived and what will, in any piece.
LEMMA ReadKeepsWhole ==
    ASSUME TypeOK, Whole, ReadLine
    PROVE  Whole'
<1>1. PICK n \in 1 .. Len(line) :
        LET part == SubSeq(line, 1, n)
            got == Decode(part, inESC)
        IN  /\ inESC' = got.esc
            /\ line' = SubSeq(line, n + 1, Len(line))
            /\ lineFrame' = SubSeq(lineFrame, n + 1, Len(line))
            /\ arrived' = arrived \o got.out
            /\ arrivedFrame' = arrivedFrame \o
                   [j \in DOMAIN got.out |-> lineFrame[CompletedBy(part, inESC, j)]]
            /\ UNCHANGED consumed
  BY DEF ReadLine
<1>2. /\ line \in Seq(Bytes) /\ inESC \in BOOLEAN /\ lineFrame \in Seq(Frames)
      /\ Len(lineFrame) = Len(line) /\ arrived \in Seq(Bytes) /\ arrivedFrame \in Seq(Frames)
      /\ n \in 0 .. Len(line) /\ n \in 0 .. Len(lineFrame)
  BY DEF TypeOK
<1>3. PICK s, t, x, y, e : /\ s = SubSeq(line, 1, n) /\ t = SubSeq(line, n + 1, Len(line))
                           /\ x = SubSeq(lineFrame, 1, n)
                           /\ y = SubSeq(lineFrame, n + 1, Len(lineFrame))
                           /\ e = inESC
  OBVIOUS
<1>4. s \in Seq(Bytes) /\ Len(s) = n
  BY ONLY <1>2, <1>3, PrefixFacts
<1>5. t \in Seq(Bytes) /\ Len(t) = Len(line) - n
  BY ONLY <1>2, <1>3, SuffixFacts
<1>6. x \in Seq(Frames) /\ Len(x) = n /\ \A k \in 1 .. n : x[k] = lineFrame[k]
  BY ONLY <1>2, <1>3, PrefixFacts
<1>7. y \in Seq(Frames) /\ Len(y) = Len(lineFrame) - n
  BY ONLY <1>2, <1>3, SuffixFacts
<1>8. line = s \o t /\ lineFrame = x \o y
  BY ONLY <1>2, <1>3, Cut
<1>9. e \in BOOLEAN
  BY <1>2, <1>3
<1>10. PICK u \in Seq(Bytes), d \in BOOLEAN : Reads(s, e, u, d)
  BY ONLY <1>4, <1>9, ReadsSome
<1>20. PICK v \in Seq(Bytes), c \in BOOLEAN : Reads(t, d, v, c)
  BY ONLY <1>5, <1>10, ReadsSome
<1>21. Decode(s, e).out = u /\ Decode(s, e).esc = d
  BY ONLY <1>10, ReadsIs
<1>22. Decode(t, d).out = v /\ Decode(t, d).esc = c
  BY ONLY <1>20, ReadsIs
<1>11. PICK F, G : F = TagsOf(s, e, x) /\ G = TagsOf(t, d, y)
  OBVIOUS
<1>12. F \in Seq(Frames) /\ Len(F) = Len(u) /\ G \in Seq(Frames)
  <2>1. Len(x) = Len(s) /\ Len(y) = Len(t)
    BY ONLY <1>2, <1>4, <1>5, <1>6, <1>7
  <2>2. F \in Seq(Frames) /\ Len(F) = Len(u)
    BY ONLY <1>4, <1>6, <1>9, <1>21, <1>11, <2>1, TagsTyped
  <2>3. G \in Seq(Frames)
    BY ONLY <1>5, <1>7, <1>10, <1>11, <2>1, TagsTyped
  <2> QED
    BY <2>2, <2>3
<1>13. /\ line' = t /\ lineFrame' = y /\ inESC' = d /\ arrived' = arrived \o u
       /\ arrivedFrame' = arrivedFrame \o F /\ UNCHANGED consumed
  <2>1. [j \in DOMAIN u |-> lineFrame[CompletedBy(s, e, j)]] = F
    <3>1. PICK m \in Nat : m = Len(u) /\ DOMAIN u = 1 .. m
      BY <1>10
    <3>2. \A j \in 1 .. m : CompletedBy(s, e, j) \in 1 .. n
      BY ONLY <1>4, <1>9, <1>21, <3>1, CompletedInOrder
    <3>3. \A j \in 1 .. m : x[CompletedBy(s, e, j)] = lineFrame[CompletedBy(s, e, j)]
      BY ONLY <1>6, <3>2
    <3>4. F = [j \in 1 .. m |-> x[CompletedBy(s, e, j)]]
      BY ONLY <1>21, <1>11, <3>1 DEF TagsOf
    <3> QED
      BY ONLY <3>1, <3>3, <3>4
  <2>2. Len(line) = Len(lineFrame)
    BY ONLY <1>2
  <2> QED
    BY ONLY <1>1, <1>3, <1>21, <2>1, <2>2
<1>14. Decode(s \o t, e).out = u \o v /\ Decode(s \o t, e).esc = c
  <2>1. Reads(s \o t, e, u \o v, c)
    BY ONLY <1>4, <1>5, <1>9, <1>10, <1>20, ReadsConcat
  <2> QED
    BY ONLY <2>1, ReadsIs
<1>15. TagsOf(s \o t, e, x \o y) = F \o G
  <2>1. Len(x) = Len(s) /\ Len(y) = Len(t)
    BY ONLY <1>2, <1>4, <1>5, <1>6, <1>7
  <2>2. s \in Seq(Bytes)
    BY <1>4
  <2>3. t \in Seq(Bytes)
    BY <1>5
  <2>4. x \in Seq(Frames)
    BY <1>6
  <2>5. y \in Seq(Frames)
    BY <1>7
  <2>6. Len(x) = Len(s)
    BY <2>1
  <2>7. Len(y) = Len(t)
    BY <2>1
  <2>8. TagsOf(s \o t, e, x \o y) = TagsOf(s, e, x) \o TagsOf(t, d, y)
    BY ONLY <1>9, <1>10, <2>2, <2>3, <2>4, <2>5, <2>6, <2>7, TagsConcat
  <2> QED
    BY ONLY <1>11, <2>8
<1>16. Stream' = Stream
  <2>1. Stream = arrived \o (u \o v)
    BY ONLY <1>3, <1>8, <1>14 DEF Stream
  <2>2. Stream' = (arrived \o u) \o v
    BY ONLY <1>13, <1>22 DEF Stream
  <2>3. PICK z, w : z = arrived \o (u \o v) /\ w = arrived \o u
    OBVIOUS
  <2>4. z = w \o v
    <3>1. arrived \in Seq(Bytes)
      BY <1>2
    <3> QED
      BY ONLY <1>10, <1>20, <2>3, <3>1, Concats
  <2> QED
    BY ONLY <2>1, <2>2, <2>3, <2>4
<1>17. StreamFrame' = StreamFrame
  <2>1. StreamFrame = arrivedFrame \o (F \o G)
    BY ONLY <1>3, <1>8, <1>15 DEF StreamFrame
  <2>2. StreamFrame' = (arrivedFrame \o F) \o G
    BY ONLY <1>11, <1>13 DEF StreamFrame
  <2>3. PICK z, w : z = arrivedFrame \o (F \o G) /\ w = arrivedFrame \o F
    OBVIOUS
  <2>4. z = w \o G
    <3>1. arrivedFrame \in Seq(Frames)
      BY <1>2
    <3>2. F \in Seq(Frames)
      BY <1>12
    <3>3. G \in Seq(Frames)
      BY <1>12
    <3> QED
      BY ONLY <2>3, <3>1, <3>2, <3>3, Concats, SMTT(30)
  <2> QED
    BY ONLY <2>1, <2>2, <2>3, <2>4
<1>18. Decode(line', inESC').esc = Decode(line, inESC).esc
  BY ONLY <1>3, <1>8, <1>13, <1>14, <1>22
<1> QED
  BY ONLY Whole, <1>13, <1>16, <1>17, <1>18, WholeStays

\* A frame sent is one more at the end of the stream.
LEMMA ConsistsGrows ==
    ASSUME NEW s, s \in Seq(Bytes), NEW t, t \in Seq(Frames), Len(t) = Len(s),
           NEW B, Consists(s, t, B), NEW f, f \in Frames,
           NEW w, w \in Seq(Frames), Len(w) = Len(FrameBytes[f]), \A j \in 1 .. Len(w) : w[j] = f
    PROVE  Consists(s \o FrameBytes[f], t \o w, B \cup {Len(s) + Len(FrameBytes[f])})
<1>1. PICK z : z = FrameBytes[f]
  OBVIOUS
<1>2. z \in Seq(Bytes) /\ Len(z) \in Nat /\ Len(z) > 0
  <2>1. FrameBytes[f] \in Seq(Bytes)
    BY FrameFacts
  <2>2. Len(FrameBytes[f]) = HdrLen + Len(Payloads[f]) + 1 /\ Len(Payloads[f]) \in Bytes
    BY FrameFacts
  <2> QED
    BY <1>1, <2>1, <2>2, BytesFacts DEF HdrLen
<1>3. PICK n \in Nat, m \in Nat : n = Len(s) /\ m = Len(z) /\ m > 0
  BY <1>2, s \in Seq(Bytes)
<1>4. PICK x, y : x = s \o z /\ y = t \o w
  OBVIOUS
<1>5. Len(x) = n + m /\ \A j \in 1 .. n + m : x[j] = IF j <= n THEN s[j] ELSE z[j - n]
  <2>1. z \in Seq(Bytes)
    BY <1>2
  <2>2. /\ Len(x) = Len(s) + Len(z)
        /\ \A j \in 1 .. Len(s) + Len(z) : x[j] = IF j <= Len(s) THEN s[j] ELSE z[j - Len(s)]
    BY ONLY <1>4, <2>1, s \in Seq(Bytes), ConcatFacts
  <2> QED
    BY ONLY <1>3, <2>2
<1>6. \A j \in 1 .. n + m : y[j] = IF j <= n THEN t[j] ELSE w[j - n]
  <2>1. \A j \in 1 .. Len(t) + Len(w) : y[j] = IF j <= Len(t) THEN t[j] ELSE w[j - Len(t)]
    BY ONLY <1>4, t \in Seq(Frames), w \in Seq(Frames), ConcatFacts
  <2> QED
    BY ONLY <1>1, <1>3, <2>1, Len(t) = Len(s), Len(w) = Len(FrameBytes[f])
<1>7. PICK A : A = B \cup {n + m}
  OBVIOUS
<1>8. B \subseteq 0 .. n /\ n \in B
  BY <1>3 DEF Consists
<1>9. A \subseteq 0 .. n + m /\ n + m \in A
  BY <1>7, <1>8
<1>10. ASSUME NEW b \in A, b # n + m
       PROVE  /\ b + Len(FrameBytes[y[b + 1]]) \in A
              /\ \A j \in 1 .. Len(FrameBytes[y[b + 1]]) :
                   x[b + j] = FrameBytes[y[b + 1]][j] /\ y[b + j] = y[b + 1]
  <2>1. b \in B /\ b \in 0 .. n
    BY <1>7, <1>8, <1>10
  <2>2. CASE b = n
    <3>1. \A j \in 1 .. m : w[j] = f
      BY <1>1, <1>3
    <3>2. \A j \in 1 .. m : b + j \in 1 .. n + m /\ ~ (b + j <= n) /\ (b + j) - n = j
      BY <2>2
    <3>3. \A j \in 1 .. m : x[b + j] = z[j]
      BY ONLY <1>5, <3>2
    <3>4. \A j \in 1 .. m : y[b + j] = f
      BY ONLY <1>6, <3>1, <3>2
    <3>5. y[b + 1] = f
      BY <1>3, <3>4
    <3>6. b + m \in A
      BY <1>7, <2>2
    <3> QED
      BY ONLY <1>1, <1>3, <3>3, <3>4, <3>5, <3>6
  <2>3. CASE b # n
    <3>1. PICK g : g = t[b + 1]
      OBVIOUS
    <3>2. b + 1 \in 1 .. n
      BY <2>1, <2>3
    <3>3. g \in Frames
      BY <1>3, <3>1, <3>2, Len(t) = Len(s)
    <3>4. PICK l \in Nat : l = Len(FrameBytes[g])
      <4>1. FrameBytes[g] \in Seq(Bytes)
        BY <3>3, FrameFacts
      <4> QED
        BY <4>1
    <3>5. b + l \in B /\ \A j \in 1 .. l : s[b + j] = FrameBytes[g][j] /\ t[b + j] = g
      BY <1>3, <2>1, <2>3, <3>1, <3>4 DEF Consists
    <3>6. b + l <= n
      <4>1. b + l \in B
        BY <3>5
      <4>2. b + l \in 0 .. n
        BY ONLY <1>8, <4>1
      <4> QED
        BY ONLY <4>2, n \in Nat
    <3>7. \A j \in 1 .. l : b + j \in 1 .. n + m /\ b + j <= n
      BY <2>1, <3>6
    <3>8. \A j \in 1 .. l : x[b + j] = s[b + j] /\ y[b + j] = t[b + j]
      BY ONLY <1>5, <1>6, <3>7
    <3>9. y[b + 1] = g
      <4>1. b + 1 \in 1 .. n + m /\ b + 1 <= n
        BY <3>2
      <4> QED
        BY ONLY <1>6, <3>1, <4>1
    <3>10. b + l \in A
      BY <1>7, <3>5
    <3> QED
      BY ONLY <3>4, <3>5, <3>8, <3>9, <3>10
  <2> QED
    BY <2>2, <2>3
<1>11. Consists(x, y, A)
  BY ONLY <1>5, <1>9, <1>10 DEF Consists
<1> QED
  BY ONLY <1>1, <1>3, <1>4, <1>7, <1>11

\* RadioSends: what Write makes of a frame is, once read, the frame.
LEMMA SendKeepsWhole ==
    ASSUME TypeOK, Whole, RadioSends
    PROVE  Whole'
<1>1. PICK f, z, p, tags : /\ f = current /\ z = FrameBytes[f] /\ p = Escape(z)
                           /\ tags = [k \in DOMAIN p |-> f]
  OBVIOUS
<1>2. /\ line' = line \o p /\ lineFrame' = lineFrame \o tags
      /\ UNCHANGED <<inESC, consumed, arrived, arrivedFrame>>
  BY <1>1 DEF RadioSends, Put, history
<1>3. f \in Frames
  BY <1>1 DEF TypeOK
<1>4. z \in Seq(Bytes) /\ z # <<>> /\ z[1] # ASCII_ESC
  <2>1. FrameBytes[f] \in Seq(Bytes) /\ FrameBytes[f][1] = PKT_SENTINEL
    BY <1>3, FrameFacts
  <2>2. Len(FrameBytes[f]) = HdrLen + Len(Payloads[f]) + 1 /\ Len(Payloads[f]) \in Bytes
    BY <1>3, FrameFacts
  <2>3. Len(z) # 0
    BY <1>1, <2>2, BytesFacts DEF HdrLen
  <2> QED
    BY <1>1, <2>1, <2>3, ReceiverAssumption
<1>5. p \in Seq(Bytes)
  BY ONLY <1>1, <1>4, EscapeTyped
<1>6. PICK no : no = FALSE /\ no \in BOOLEAN
  OBVIOUS
<1>7. Reads(p, no, z, no)
  <2>1. Gives(p, z)
    BY ONLY <1>1, <1>4, EscapeUndone
  <2> QED
    BY ONLY <1>6, <2>1 DEF Gives
<1>8. /\ line \in Seq(Bytes) /\ lineFrame \in Seq(Frames) /\ Len(lineFrame) = Len(line)
      /\ arrived \in Seq(Bytes) /\ arrivedFrame \in Seq(Frames)
  BY DEF TypeOK
<1>9. PICK e : e \in BOOLEAN /\ e = inESC
  BY DEF TypeOK
<1>10. line \in Seq(Bytes)
  BY <1>8
<1>11. lineFrame \in Seq(Frames)
  BY <1>8
<1>12. Len(lineFrame) = Len(line)
  BY <1>8
<1>13. PICK u \in Seq(Bytes), d \in BOOLEAN : Reads(line, e, u, d)
  BY ONLY <1>9, <1>10, ReadsSome
<1>14. Decode(line, e).out = u /\ Decode(line, e).esc = d
  BY ONLY <1>13, ReadsIs
<1>15. d = no
  BY <1>6, <1>9, <1>14 DEF Whole
<1>16. Reads(line, e, u, no)
  BY ONLY <1>13, <1>15
<1>17. Reads(line \o p, e, u \o z, no)
  <2>1. z \in Seq(Bytes)
    BY <1>4
  <2>2. no \in BOOLEAN
    BY <1>6
  <2> QED
    BY ONLY <1>5, <1>7, <1>9, <1>10, <1>13, <1>16, <2>1, <2>2, ReadsConcat
<1>18. Decode(line \o p, e).out = u \o z /\ Decode(line \o p, e).esc = no
  BY ONLY <1>17, ReadsIs
<1>19. tags \in Seq(Frames) /\ Len(tags) = Len(p) /\ \A k \in 1 .. Len(p) : tags[k] = f
  <2>1. PICK n \in Nat : n = Len(p) /\ DOMAIN p = 1 .. n
    BY <1>5
  <2>2. tags \in [1 .. n -> Frames] /\ \A k \in 1 .. n : tags[k] = f
    BY ONLY <1>1, <1>3, <2>1
  <2>3. tags \in Seq(Frames) /\ Len(tags) = n
    BY ONLY <2>1, <2>2, FunctionSeq
  <2> QED
    BY ONLY <2>1, <2>2, <2>3
<1>20. PICK w : w = TagsOf(p, no, tags)
  OBVIOUS
<1>21. w \in Seq(Frames) /\ Len(w) = Len(z) /\ \A j \in 1 .. Len(w) : w[j] = f
  <2>1. Decode(p, no).out = z
    BY ONLY <1>7, ReadsIs
  <2>2. no \in BOOLEAN
    BY <1>6
  <2>3. tags \in Seq(Frames)
    BY <1>19
  <2>4. Len(tags) = Len(p)
    BY <1>19
  <2>5. /\ TagsOf(p, no, tags) \in Seq(Frames)
        /\ Len(TagsOf(p, no, tags)) = Len(Decode(p, no).out)
        /\ \A j \in 1 .. Len(Decode(p, no).out) :
             TagsOf(p, no, tags)[j] = tags[CompletedBy(p, no, j)]
    BY ONLY <1>5, <2>2, <2>3, <2>4, TagsTyped
  <2>6. \A j \in 1 .. Len(Decode(p, no).out) : CompletedBy(p, no, j) \in 1 .. Len(p)
    BY ONLY <1>5, <2>2, CompletedInOrder
  <2> QED
    BY ONLY <1>19, <1>20, <2>1, <2>5, <2>6
<1>22. PICK F : F = TagsOf(line, e, lineFrame)
  OBVIOUS
<1>23. F \in Seq(Frames)
  BY ONLY <1>9, <1>10, <1>11, <1>12, <1>22, TagsTyped
<1>24. TagsOf(line \o p, e, lineFrame \o tags) = F \o w
  <2>1. tags \in Seq(Frames)
    BY <1>19
  <2>2. Len(tags) = Len(p)
    BY <1>19
  <2>3. no \in BOOLEAN
    BY <1>6
  <2>4. TagsOf(line \o p, e, lineFrame \o tags) = TagsOf(line, e, lineFrame) \o TagsOf(p, no, tags)
    <3>1. PICK s, x : s = line /\ x = lineFrame
      OBVIOUS
    <3>2. s \in Seq(Bytes)
      BY ONLY <1>10, <3>1
    <3>3. x \in Seq(Frames)
      BY ONLY <1>11, <3>1
    <3>4. Len(x) = Len(s)
      BY ONLY <1>12, <3>1
    <3>5. Reads(s, e, u, no)
      BY ONLY <1>16, <3>1
    <3>7. e \in BOOLEAN
      BY ONLY <1>9
    <3>6. TagsOf(s \o p, e, x \o tags) = TagsOf(s, e, x) \o TagsOf(p, no, tags)
      BY ONLY <1>5, <2>1, <2>2, <2>3, <3>2, <3>3, <3>4, <3>5, <3>7, TagsConcat
    <3> QED
      BY ONLY <3>1, <3>6
  <2> QED
    BY ONLY <1>20, <1>22, <2>4
<1>25. PICK s, t : s = Stream /\ t = StreamFrame
  OBVIOUS
<1>26. s = arrived \o u /\ t = arrivedFrame \o F
  BY ONLY <1>9, <1>14, <1>22, <1>25 DEF Stream, StreamFrame
<1>27. Stream' = s \o z
  <2>1. Stream' = arrived \o (u \o z)
    BY ONLY <1>2, <1>9, <1>18 DEF Stream
  <2>2. PICK x : x = arrived \o (u \o z)
    OBVIOUS
  <2>3. arrived \in Seq(Bytes)
    BY <1>8
  <2>4. z \in Seq(Bytes)
    BY <1>4
  <2>5. x = s \o z
    BY ONLY <1>13, <1>26, <2>2, <2>3, <2>4, Concats, SMTT(60)
  <2> QED
    BY ONLY <2>1, <2>2, <2>5
<1>28. StreamFrame' = t \o w
  <2>1. StreamFrame' = arrivedFrame \o (F \o w)
    BY ONLY <1>2, <1>9, <1>24 DEF StreamFrame
  <2>2. PICK x : x = arrivedFrame \o (F \o w)
    OBVIOUS
  <2>3. arrivedFrame \in Seq(Frames)
    BY <1>8
  <2>4. w \in Seq(Frames)
    BY <1>21
  <2>5. x = t \o w
    BY ONLY <1>23, <1>26, <2>2, <2>3, <2>4, Concats, SMTT(60)
  <2> QED
    BY ONLY <2>1, <2>2, <2>5
<1>29. PICK B : Consists(s, t, B) /\ consumed \in B
  BY <1>25 DEF Whole
<1>30. Consists(s \o z, t \o w, B \cup {Len(s) + Len(z)})
  <2>1. s \in Seq(Bytes)
    BY <1>25, StreamTyped
  <2>2. t \in Seq(Frames)
    BY <1>25, StreamTyped
  <2>3. Len(t) = Len(s)
    BY <1>25, StreamTyped
  <2>4. Consists(s, t, B)
    BY <1>29
  <2>5. w \in Seq(Frames)
    BY <1>21
  <2>6. Len(w) = Len(FrameBytes[f])
    BY <1>1, <1>21
  <2>7. \A j \in 1 .. Len(w) : w[j] = f
    BY <1>21
  <2>8. Consists(s \o FrameBytes[f], t \o w, B \cup {Len(s) + Len(FrameBytes[f])})
    BY ONLY <1>3, <2>1, <2>2, <2>3, <2>4, <2>5, <2>6, <2>7, ConsistsGrows
  <2> QED
    BY ONLY <1>1, <2>8
<1>31. PICK A : A = B \cup {Len(s) + Len(z)} /\ consumed \in A
  BY <1>29
<1>32. Consists(Stream', StreamFrame', A)
  BY ONLY <1>27, <1>28, <1>30, <1>31
<1>33. Decode(line', inESC').esc = FALSE
  BY ONLY <1>2, <1>6, <1>9, <1>18
<1>34. Consists(Stream, StreamFrame, A)' /\ (consumed \in A)'
  <2>1. consumed' \in A
    BY <1>2, <1>31
  <2> QED
    BY ONLY <1>32, <2>1 DEF Consists
<1> QED
  BY ONLY <1>33, <1>34 DEF Whole

\* OnRun finds frame f at the front of the staging buffer, whole or not.
FrontIs(f) ==
    /\ f \in Frames /\ Aligned /\ MsgLen = Len(FrameBytes[f])
    /\ MsgLen <= Len(Staged) => Msg = FrameBytes[f] /\ f \in SentFor

\* The last is the end of the frame.
LEMMA FrontOfWhole ==
    ASSUME TypeOK, StageIsFifo, Whole, HasHeader
    PROVE  /\ \E f : FrontIs(f)
           /\ \E B : Consists(Stream, StreamFrame, B) /\ consumed + MsgLen \in B
<1>1. PICK B : Consists(Stream, StreamFrame, B) /\ consumed \in B
  BY DEF Whole
<1>2. PICK s, t : s = Stream /\ t = StreamFrame
  OBVIOUS
<1>3. PICK c \in Nat, n \in Nat : c = consumed /\ n = Len(arrived) /\ c <= n
  <2>1. Len(arrived) \in Nat /\ consumed \in 0 .. Len(arrived)
    BY StreamTyped
  <2> QED
    BY <2>1
<1>4. Len(s) \in Nat /\ n <= Len(s) /\ s \in Seq(Bytes)
  <2>1. Stream \in Seq(Bytes) /\ Len(arrived) <= Len(Stream)
    BY StreamTyped
  <2> QED
    BY <1>2, <1>3, <2>1
<1>5. \A j \in 1 .. n : s[j] = arrived[j] /\ t[j] = arrivedFrame[j]
  <2>1. \A j \in 1 .. Len(arrived) : Stream[j] = arrived[j] /\ StreamFrame[j] = arrivedFrame[j]
    BY StreamTyped
  <2> QED
    BY <1>2, <1>3, <2>1
<1>6. /\ MsgLen = HdrLen + arrived[c + 3] + 1 /\ Staged[1] = arrived[c + 1] /\ c + 3 <= n
      /\ MsgLen <= Len(Staged) => Msg = SubSeq(arrived, c + 1, c + MsgLen)
      /\ MsgLen \in Nat
  BY <1>3, MessageFacts DEF HdrLen
<1>7. Len(Staged) = n - c
  BY <1>3, StagedFacts
<1>8. PICK f : f = t[c + 1]
  OBVIOUS
<1>9. f \in Frames /\ f = arrivedFrame[c + 1]
  <2>1. c + 1 \in 1 .. n
    BY <1>6
  <2>2. arrivedFrame \in Seq(Frames) /\ Len(arrivedFrame) = n
    BY <1>3 DEF TypeOK
  <2>3. arrivedFrame[c + 1] \in Frames
    BY ONLY <2>1, <2>2
  <2> QED
    BY ONLY <1>5, <1>8, <2>1, <2>3
<1>10. PICK z : z = FrameBytes[f]
  OBVIOUS
<1>11. /\ z \in Seq(Bytes) /\ Len(z) = HdrLen + z[3] + 1 /\ z[1] = PKT_SENTINEL /\ z[3] \in Nat
  BY <1>9, <1>10, FrameFacts, BytesFacts
<1>12. PICK l \in Nat : l = Len(z) /\ l >= 4
  BY <1>11 DEF HdrLen
<1>13. c + l \in B /\ \A j \in 1 .. l : s[c + j] = z[j]
  <2>1. c # Len(s) /\ c \in B
    BY <1>1, <1>3, <1>4, <1>6
  <2>2. Consists(s, t, B)
    BY <1>1, <1>2
  <2> QED
    BY ONLY <1>8, <1>10, <1>12, <2>1, <2>2 DEF Consists
<1>14. \A j \in 1 .. l : c + j <= n => arrived[c + j] = z[j]
  <2> SUFFICES ASSUME NEW j \in 1 .. l, c + j <= n PROVE arrived[c + j] = z[j]
    OBVIOUS
  <2>1. c + j \in 1 .. n
    OBVIOUS
  <2> QED
    BY ONLY <1>5, <1>13, <2>1, j \in 1 .. l
<1>15. arrived[c + 1] = z[1] /\ arrived[c + 3] = z[3]
  <2>1. 1 \in 1 .. l /\ 3 \in 1 .. l /\ c + 1 <= n /\ c + 3 <= n
    BY <1>6, <1>12
  <2> QED
    BY ONLY <1>14, <2>1
<1>16. MsgLen = l /\ Aligned
  BY <1>6, <1>11, <1>12, <1>15 DEF Aligned
<1>17. ASSUME MsgLen <= Len(Staged) PROVE Msg = z /\ f \in SentFor
  <2>1. c + l <= n
    BY <1>7, <1>16, <1>17
  <2>2. PICK m : m = SubSeq(arrived, c + 1, c + l)
    OBVIOUS
  <2>3. \A i \in c + 1 .. c + l : arrived[i] \in Bytes
    <3>1. arrived \in Seq(Bytes) /\ Len(arrived) = n
      BY <1>3 DEF TypeOK
    <3>2. \A i \in c + 1 .. c + l : i \in 1 .. n
      BY <2>1
    <3> QED
      BY ONLY <3>1, <3>2, SMTT(30)
  <2>4. /\ m \in Seq(Bytes) /\ Len(m) = l
        /\ \A j \in 1 .. l : m[j] = arrived[c + j]
    <3>1. PICK lo \in Int, hi \in Int : lo = c + 1 /\ hi = c + l
      OBVIOUS
    <3>2. \A i \in lo .. hi : arrived[i] \in Bytes
      BY ONLY <2>3, <3>1
    <3>3. /\ SubSeq(arrived, lo, hi) \in Seq(Bytes)
          /\ Len(SubSeq(arrived, lo, hi)) = IF lo <= hi THEN hi - lo + 1 ELSE 0
          /\ \A k \in 1 .. hi - lo + 1 : SubSeq(arrived, lo, hi)[k] = arrived[lo + k - 1]
      BY ONLY <3>2, lo \in Int, hi \in Int, SubSeqProperties
    <3>4. lo <= hi /\ hi - lo + 1 = l /\ \A k \in 1 .. l : lo + k - 1 = c + k
      BY <1>12, <3>1
    <3> QED
      BY ONLY <2>2, <3>1, <3>3, <3>4
  <2>5. \A j \in 1 .. l : m[j] = z[j]
    <3> SUFFICES ASSUME NEW j \in 1 .. l PROVE m[j] = z[j]
      OBVIOUS
    <3>1. c + j <= n
      BY <2>1
    <3> QED
      BY ONLY <1>14, <2>4, <3>1, j \in 1 .. l
  <2>6. m = z
    BY ONLY <1>11, <1>12, <2>4, <2>5, SeqEqual
  <2>7. Msg = m
    BY ONLY <1>6, <1>16, <1>17, <2>2
  <2>8. c + 1 \in c + 1 .. c + MsgLen
    BY <1>12, <1>16
  <2>9. f \in SentFor
    BY ONLY <1>3, <1>9, <2>8 DEF SentFor
  <2> QED
    BY ONLY <2>6, <2>7, <2>9
<1>18. FrontIs(f)
  BY ONLY <1>9, <1>10, <1>12, <1>16, <1>17 DEF FrontIs
<1>19. consumed + MsgLen \in B
  BY ONLY <1>3, <1>13, <1>16
<1> QED
  BY ONLY <1>1, <1>18, <1>19

\* It takes the message for a frame, if it is whole.
LEMMA FrontIsTaken ==
    ASSUME TypeOK, StageIsFifo, HasMessage, NEW f, FrontIs(f)
    PROVE  FrameOf(Msg) # NoFrame
<1>1. f \in SentFor /\ Msg = FrameBytes[f]
  BY DEF FrontIs, HasMessage
<1>2. FrameOf(Msg) = CHOOSE g \in SentFor : Msg = FrameBytes[g]
  BY <1>1 DEF FrameOf
<1>3. FrameOf(Msg) \in SentFor
  BY <1>1, <1>2
<1>4. SentFor \subseteq Frames /\ NoFrame \notin Frames
  BY SentForFacts, ReceiverAssumption DEF Frames, NoFrame
<1> QED
  BY <1>3, <1>4

\* As long as the line damages nothing.
UInv == damages = 0 => Whole /\ ~ Collision

\* OnRun neither resynchronises nor refuses a message then, and no bytes collide.
LEMMA WholeIsAccepted ==
    ASSUME IInv, Whole
    PROVE  ~ Resync /\ ~ BadChecksum /\ (HasMessage => FrameOf(Msg) # NoFrame)
<1>1. TypeOK /\ StageIsFifo
  BY DEF IInv
<1>2. HasHeader => \E f : FrontIs(f)
  BY ONLY Whole, <1>1, FrontOfWhole
<1>3. ~ Resync
  BY ONLY <1>2 DEF Resync, FrontIs
<1>4. ~ BadChecksum
  <2>1. HasMessage => \E f \in Frames : Msg = FrameBytes[f]
    BY ONLY <1>2 DEF HasMessage, FrontIs
  <2>2. HasMessage => ValidateChecksum(Msg)
    BY ONLY <2>1, FrameFacts
  <2> QED
    BY ONLY <2>2 DEF BadChecksum
<1>5. ASSUME HasMessage PROVE FrameOf(Msg) # NoFrame
  <2>1. PICK f : FrontIs(f)
    BY <1>2, <1>5 DEF HasMessage
  <2> QED
    BY <1>1, <1>5, <2>1, FrontIsTaken
<1> QED
  BY ONLY <1>3, <1>4, <1>5

\* OnRun goes from one end of a frame to the next.
LEMMA GoodMessageKeepsWhole ==
    ASSUME IInv, Whole, GoodMessage
    PROVE  Whole'
<1>1. /\ HasHeader /\ consumed' = consumed + MsgLen
      /\ UNCHANGED <<inESC, line, lineFrame, arrived, arrivedFrame>>
  BY DEF GoodMessage, HasMessage, Consume
<1>2. TypeOK /\ StageIsFifo
  BY DEF IInv
<1>3. PICK B : Consists(Stream, StreamFrame, B) /\ consumed + MsgLen \in B
  BY ONLY Whole, <1>1, <1>2, FrontOfWhole
<1>4. Stream' = Stream /\ StreamFrame' = StreamFrame
  BY ONLY <1>1 DEF Stream, StreamFrame
<1>5. Decode(line, inESC).esc' = Decode(line, inESC).esc
  BY ONLY <1>1
<1>6. Consists(Stream, StreamFrame, B)' /\ (consumed \in B)'
  BY ONLY <1>1, <1>3, <1>4 DEF Consists
<1>7. Decode(line, inESC).esc = FALSE
  BY DEF Whole
<1> QED
  BY <1>5, <1>6, <1>7 DEF Whole

LEMMA UntouchedKeepsWhole ==
    ASSUME Whole, UNCHANGED <<inESC, line, lineFrame, arrived, arrivedFrame, consumed>>
    PROVE  Whole'
<1>1. Stream' = Stream /\ StreamFrame' = StreamFrame
  BY DEF Stream, StreamFrame
<1>2. Decode(line, inESC).esc' = Decode(line, inESC).esc
  OBVIOUS
<1> QED
  BY <1>1, <1>2, WholeStays

\* The undamaged line: every step keeps its frames whole.
LEMMA NextUInv == IInv /\ UInv /\ [Next]_vars => UInv'
<1> SUFFICES ASSUME IInv, UInv, [Next]_vars, damages' = 0 PROVE Whole' /\ ~ Collision'
  BY DEF UInv
<1>1. TypeOK
  BY DEF IInv
<1>2. damages \in Nat
  BY <1>1 DEF TypeOK
<1>3. ~ LineDamages
  BY <1>2 DEF LineDamages
<1>4. damages = 0
  BY <1>3 DEF Next, RadioThread, ReadLine, NeedMore, Resync, BadChecksum, Dispatch, IgnoreDuplicate,
              GoodMessage, Consume, RadioSends, RadioGoesOn, radioVars, vars
<1>5. Whole /\ ~ Collision
  BY <1>4 DEF UInv
<1>6. ~ Resync /\ ~ BadChecksum /\ (HasMessage => FrameOf(Msg) # NoFrame)
  BY <1>5, WholeIsAccepted
<1>7. ~ Collision'
  <2>1. acked' = acked \/ (HasMessage /\ acked' = acked \cup {FrameOf(Msg)})
    BY DEF Next, RadioThread, ReadLine, NeedMore, Resync, BadChecksum, Dispatch, IgnoreDuplicate,
           GoodMessage, Put, RadioSends, LineDamages, RadioGoesOn, history, vars
  <2> QED
    BY <1>5, <1>6, <2>1 DEF Collision
<1>8. CASE ReadLine
  BY <1>1, <1>5, <1>7, <1>8, ReadKeepsWhole
<1>9. CASE NeedMore \/ RadioGoesOn \/ UNCHANGED vars
  <2>1. UNCHANGED <<inESC, line, lineFrame, arrived, arrivedFrame, consumed>>
    BY <1>9 DEF NeedMore, RadioGoesOn, vars, history
  <2> QED
    BY <1>5, <1>7, <2>1, UntouchedKeepsWhole
<1>10. CASE Dispatch \/ IgnoreDuplicate
  <2>1. GoodMessage
    BY <1>10 DEF Dispatch, IgnoreDuplicate
  <2> QED
    BY <1>5, <1>7, <2>1, GoodMessageKeepsWhole
<1>11. CASE RadioSends
  BY <1>1, <1>5, <1>7, <1>11, SendKeepsWhole
<1> QED
  BY <1>3, <1>6, <1>8, <1>9, <1>10, <1>11 DEF Next, RadioThread

LEMMA AlwaysUInv == Spec => [](IInv /\ UInv)
<1>1. Init => UInv
  BY InitWhole DEF UInv, Init, Collision
<1> QED
  BY <1>1, InitIInv, NextIInv, NextUInv, PTL DEF Spec

-----------------------------------------------------------------------------
(* The theorems.                                                           *)

\* ScpReceiver's state has its types: what Read stores always fits the room
\* that GetWriteLen promised.
THEOREM TypeCorrect == Spec => []TypeOK
<1>1. IInv => TypeOK
  BY DEF IInv
<1> QED
  BY <1>1, AlwaysIInv, PTL

\* The staging buffer is a queue of the bytes that arrived, whatever damage
\* the line does, wherever the data lies and however often it slides.
THEOREM StagingIsFifo == Spec => []StageIsFifo
<1>1. IInv => StageIsFifo
  BY DEF IInv
<1> QED
  BY <1>1, AlwaysIInv, PTL

\* assert(m_stagebuf.GetWriteLen() > 0U) never fails: the message OnRun waits
\* for fits a buffer of SCP_MAX_PKT bytes, and is at its front.
THEOREM AlwaysRoomToRead == Spec => []RoomToRead
<1>1. ASSUME IInv PROVE RoomToRead
  <2> SUFFICES ASSUME radio = "read" PROVE Stage!GetWriteLen(m_stagebuf) > 0
    BY DEF RoomToRead
  <2>1. Len(Staged) = m_stagebuf.len /\ Len(Staged) \in Nat
    BY <1>1, StagedFacts DEF IInv
  <2>2. m_stagebuf.len # StageSize
    <3>1. CASE HasHeader
      <4>1. MsgLen > Len(Staged) /\ MsgLen <= HdrLen + ByteSpace /\ MsgLen \in Nat
        BY <1>1, <3>1, MessageFacts DEF IInv, Waiting
      <4> QED
        BY <2>1, <4>1, StageSizeFacts, BytesFacts DEF HdrLen
    <3>2. CASE ~ HasHeader
      BY <2>1, <3>2, StageSizeFacts, BytesFacts DEF HasHeader, HdrLen
    <3> QED
      BY <3>1, <3>2
  <2>3. m_stagebuf \in Stage!Buffers(Bytes)
    BY <1>1 DEF IInv, TypeOK
  <2> QED
    BY <2>2, <2>3, StageRoom
<1> QED
  BY <1>1, AlwaysIInv, PTL

\* OnRun's resync skips no frame that arrived intact, whatever damage precedes
\* it and in whatever pieces the line delivers it.
THEOREM ResyncSkipsNoFrame == Spec => []NoFrameSkipped
<1>1. ASSUME IInv PROVE NoFrameSkipped
  <2> SUFFICES ASSUME NEW k \in 1 .. consumed, NEW f \in Frames, NEW last,
                      last = k + Len(FrameBytes[f]) - 1, last <= consumed,
                      SubSeq(arrived, k, last) = FrameBytes[f]
               PROVE  \E a \in accepted : a.first <= last /\ a.last >= k
    BY DEF NoFrameSkipped
  <2>1. /\ arrived \in Seq(Bytes) /\ Len(arrived) \in Nat /\ consumed \in 0 .. Len(arrived)
        /\ Passed(k)
    BY <1>1 DEF IInv, TypeOK, AllPassed
  <2>2. PICK len \in Nat : len = Len(Payloads[f]) /\ Len(FrameBytes[f]) = HdrLen + len + 1
    BY FrameFacts, BytesFacts
  <2>3. last = k + HdrLen + len /\ k \in Nat /\ last \in Nat
    <3>1. k \in Nat
      BY <2>1
    <3>2. PICK n \in Nat : n = Len(FrameBytes[f]) /\ n = 4 + len
      BY <2>2 DEF HdrLen
    <3>3. last = k + n - 1
      BY <3>2
    <3> QED
      BY <3>1, <3>2, <3>3 DEF HdrLen
  <2>4. /\ last \in 1 .. Len(arrived) /\ k \in 1 .. Len(arrived) /\ k <= last
        /\ k \in Int /\ last \in Int
    BY <2>1, <2>2, <2>3 DEF HdrLen
  <2>5. \A i \in k .. last : arrived[i] \in Bytes
    BY <2>1, <2>4
  <2>6. \A i \in 1 .. last - k + 1 : SubSeq(arrived, k, last)[i] = arrived[k + i - 1]
    BY <2>4, <2>5, SubSeqProperties, SMTT(30)
  <2>7. 1 \in 1 .. last - k + 1 /\ 3 \in 1 .. last - k + 1 /\ k + 1 - 1 = k /\ k + 3 - 1 = k + 2
    BY <2>3, <2>4 DEF HdrLen
  <2>8. arrived[k] = FrameBytes[f][1] /\ arrived[k + 2] = FrameBytes[f][3]
    BY <2>3, <2>6, <2>7
  <2>9. arrived[k] = PKT_SENTINEL /\ arrived[k + 2] = len
    BY <2>2, <2>8, FrameFacts
  <2>10. ValidateChecksum(SubSeq(arrived, k, k + HdrLen + arrived[k + 2]))
    <3>1. SubSeq(arrived, k, k + HdrLen + arrived[k + 2]) = FrameBytes[f]
      BY <2>3, <2>9
    <3> QED
      BY <3>1, FrameFacts
  <2>11. PICK a \in accepted : a.first <= k /\ k <= a.last
    BY <2>1, <2>9, <2>10 DEF Passed
  <2>12. a.first \in Nat /\ a.last \in Nat
    BY <1>1 DEF IInv, TypeOK
  <2> QED
    BY <2>3, <2>4, <2>11, <2>12, SMTT(60)
<1> QED
  BY <1>1, AlwaysIInv, PTL

\* ValidateChecksum: a frame of which one octet was altered is never accepted,
\* whatever the frame, the octet and the alteration, unless it is the length.
THEOREM AlteredIsRefused == Spec => []AlteredOctetRefused
<1>1. ASSUME IInv PROVE AlteredOctetRefused
  <2> SUFFICES ASSUME HasMessage, ValidateChecksum(Msg), NEW f \in Frames,
                      OneOctetDiffers(Msg, FrameBytes[f])
               PROVE  FALSE
    BY DEF AlteredOctetRefused
  <2>1. PICK s, t : s = Msg /\ t = FrameBytes[f]
    OBVIOUS
  <2>2. s \in Seq(Bytes) /\ t \in Seq(Bytes) /\ DOMAIN t = 1 .. Len(t)
    <3>1. Staged \in Seq(Bytes) /\ MsgLen \in 0 .. Len(Staged)
      BY <1>1, SentForFacts, StagedFacts DEF IInv, HasMessage, HdrLen
    <3>2. Msg \in Seq(Bytes)
      BY ONLY <3>1, PrefixFacts DEF Msg
    <3> QED
      BY <2>1, <3>2, FrameFacts
  <2>3. PICK k \in 1 .. Len(t) : s[k] # t[k] /\ \A j \in 1 .. Len(t) : j # k => s[j] = t[j]
    BY <2>1, <2>2 DEF OneOctetDiffers
  <2>4. Len(s) = Len(t)
    BY <2>1 DEF OneOctetDiffers
  <2>5. s \in Seq(Int) /\ t \in Seq(Int)
    BY <2>2, BytesFacts, SeqMonotonic
  <2>6. Total(s) - Total(t) = s[k] - t[k]
    BY ONLY <2>3, <2>4, <2>5, k \in 1 .. Len(t), SumOneDiffers
  <2>7. PICK x \in Int, y \in Int : x = Total(s) /\ y = Total(t)
    BY <2>5, SumTyped
  <2>8. PICK u \in Bytes, v \in Bytes : u = s[k] /\ v = t[k] /\ u # v
    BY <2>2, <2>3, <2>4
  <2>9. x % ByteSpace = 0 /\ y % ByteSpace = 0
    BY <2>1, <2>7, FrameFacts DEF ValidateChecksum, Total
  <2>10. x - y = u - v
    BY <2>6, <2>7, <2>8
  <2>11. PICK m \in Nat \ {0} : m = ByteSpace
    BY BytesFacts
  <2>12. u \in 0 .. m - 1 /\ v \in 0 .. m - 1 /\ x % m = 0 /\ y % m = 0
    BY <2>9, <2>11 DEF Bytes
  <2>13. u = v
    BY ONLY <2>10, <2>12, x \in Int, y \in Int, m \in Nat \ {0}, SameRemainder
  <2> QED
    BY <2>8, <2>13
<1> QED
  BY <1>1, AlwaysIInv, PTL

\* The duplicate filter: until bytes collide, a frame is dispatched at most once
\* and in the order of sending, however often and however late the radio repeats
\* it, whatever is lost or damaged, and in whatever pieces it arrives.
THEOREM DispatchedInOrderOnce == Spec => []InOrderOnce
<1>1. CInv => InOrderOnce
  BY DEF CInv, FInv, AllTaken, TakenInOrder, InOrderOnce
<1> QED
  BY <1>1, AlwaysCInv, PTL

\* SendACK: until bytes collide, the filter never takes a new frame for a
\* duplicate, so that what the radio is told was received was dispatched.
THEOREM AcknowledgedIsDispatched == Spec => []AckedIsDispatched
<1>1. CInv => AckedIsDispatched
  BY DEF CInv, FInv, AllTaken, AckedIsDispatched
<1> QED
  BY <1>1, AlwaysCInv, PTL

\* Read undoes Write: whatever bytes a frame has behind its first, which Write does
\* not escape, it is delivered as it was, and
\* the next begins outside of an escape sequence.
THEOREM ReadUndoesWrite ==
    \A data \in Seq(Bytes) :
        data # <<>> /\ data[1] # ASCII_ESC =>
            Decode(Escape(data), FALSE) = [out |-> data, esc |-> FALSE]
BY EscapeUndone DEF Gives, Reads

\* Write, Read and OnRun: as long as the line damages nothing, OnRun neither
\* resynchronises nor refuses a message, whatever the payloads and the pieces.
THEOREM IntactAccepted == Spec => []IntactIsAccepted
<1>1. IInv /\ UInv => IntactIsAccepted
  <2> SUFFICES ASSUME IInv, UInv, damages = 0, HasHeader,
                      radio = "parse"
               PROVE  Aligned /\ (MsgLen <= Len(Staged) => ValidateChecksum(Msg) /\ FrameOf(Msg) # NoFrame)
    BY DEF IntactIsAccepted
  <2>1. TypeOK /\ StageIsFifo /\ Whole
    BY DEF IInv, UInv
  <2>2. PICK f : FrontIs(f)
    BY <2>1, FrontOfWhole
  <2> QED
    <3>1. Aligned
      BY <2>2 DEF FrontIs
    <3>2. ASSUME MsgLen <= Len(Staged) PROVE ValidateChecksum(Msg) /\ FrameOf(Msg) # NoFrame
      <4>1. HasMessage /\ f \in Frames /\ Msg = FrameBytes[f]
        BY <2>2, <3>1, <3>2 DEF HasMessage, FrontIs
      <4>2. ValidateChecksum(Msg)
        BY <4>1, FrameFacts
      <4>3. FrameOf(Msg) # NoFrame
        BY <2>1, <2>2, <4>1, FrontIsTaken
      <4> QED
        BY <4>2, <4>3
    <3> QED
      BY <3>1, <3>2
<1> QED
  BY <1>1, AlwaysUInv, PTL

\* On a line that damages nothing no bytes collide, so that the filter passes
\* every frame once and in order, and nothing is acknowledged that is not passed.
THEOREM UndamagedInOrderOnce ==
    Spec => [](damages = 0 => ~ Collision /\ TakenInOrder /\ acked \subseteq ToSet(dispatched))
<1>1. IInv /\ UInv /\ CInv =>
        (damages = 0 => ~ Collision /\ TakenInOrder /\ acked \subseteq ToSet(dispatched))
  BY DEF UInv, CInv, FInv, AllTaken
<1> QED
  BY <1>1, AlwaysUInv, AlwaysCInv, PTL
=============================================================================
