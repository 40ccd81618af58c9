--------------------------- MODULE SlideBufferProofs ---------------------------
(***************************************************************************)
(* What SOBuffer promises its callers, for every size of the memory and    *)
(* every layout of the data: reading takes from the front, writing adds at *)
(* the end, and there is room until the buffer is full.                    *)
(***************************************************************************)
EXTENDS SlideBuffer, SequenceTheorems, TLAPS

LEMMA ContentsSeq ==
    ASSUME NEW Octets, NEW b \in Buffers(Octets)
    PROVE  /\ Contents(b) \in Seq(Octets) /\ Len(Contents(b)) = b.len
           /\ \A k \in 1 .. b.len :
                Contents(b)[k] = b.mem[b.pos + k] /\ Contents(b)[k] \in Octets
<1>1. /\ b.mem \in [1 .. m_size -> Octets] /\ b.pos \in Nat /\ b.len \in Nat
      /\ b.pos + b.len <= m_size
  BY SizeAssumption DEF Buffers
<1>2. ASSUME NEW k \in 1 .. b.len PROVE b.mem[b.pos + k] \in Octets
  <2>1. b.pos + k \in 1 .. m_size
    BY <1>1, SizeAssumption
  <2>2. QED
    BY <1>1, <2>1
<1>3. Contents(b) \in [1 .. b.len -> Octets]
  BY <1>2 DEF Contents
<1>4. Contents(b) \in Seq(Octets) /\ Len(Contents(b)) = b.len
  <2>1. PICK c \in [1 .. b.len -> Octets] : c = Contents(b)
    BY <1>3
  <2>2. c \in Seq(Octets) /\ Len(c) = b.len
    BY <1>1
  <2>3. QED
    BY <2>1, <2>2
<1>5. \A k \in 1 .. b.len : Contents(b)[k] = b.mem[b.pos + k]
  BY DEF Contents
<1>6. QED
  BY <1>2, <1>4, <1>5

\* The memmove of GetWriteLen: the data may slide over itself, and is kept.
LEMMA SlideKeeps ==
    ASSUME NEW Octets, NEW b \in Buffers(Octets)
    PROVE  /\ Slide(b) \in Buffers(Octets)
           /\ Contents(Slide(b)) = Contents(b)
           /\ Slide(b).pos = 0 /\ Slide(b).len = b.len
<1>1. /\ b.mem \in [1 .. m_size -> Octets] /\ b.pos \in Nat /\ b.len \in Nat
      /\ b.pos + b.len <= m_size /\ m_size \in Nat
  BY SizeAssumption DEF Buffers
<1>2. PICK mem : mem = [k \in 1 .. m_size |-> IF k <= b.len THEN b.mem[b.pos + k] ELSE b.mem[k]]
  OBVIOUS
<1>3. mem \in [1 .. m_size -> Octets]
  <2>1. ASSUME NEW k \in 1 .. m_size PROVE mem[k] \in Octets
    BY <1>1, <1>2
  <2>2. QED
    BY <1>2, <2>1
<1>4. [mem |-> mem, pos |-> 0, len |-> b.len] \in Buffers(Octets)
  BY <1>1, <1>3 DEF Buffers
<1>5. PICK z \in Buffers(Octets) : z = Slide(b) /\ z.mem = mem /\ z.pos = 0 /\ z.len = b.len
  BY <1>2, <1>4 DEF Slide
<1>6. ASSUME NEW k \in 1 .. b.len PROVE z.mem[z.pos + k] = b.mem[b.pos + k]
  <2>1. k \in 1 .. m_size /\ k <= b.len /\ 0 + k = k
    BY <1>1
  <2>2. QED
    BY <1>2, <1>5, <2>1
<1>7. Contents(z) = Contents(b)
  <2>1. PICK c : c = Contents(b)
    OBVIOUS
  <2>2. PICK d : d = Contents(z)
    OBVIOUS
  <2>3. c \in Seq(Octets) /\ Len(c) = b.len /\ \A k \in 1 .. b.len : c[k] = b.mem[b.pos + k]
    BY <2>1, ContentsSeq
  <2>4. d \in Seq(Octets) /\ Len(d) = z.len /\ \A k \in 1 .. z.len : d[k] = z.mem[z.pos + k]
    BY <2>2, ContentsSeq
  <2>5. QED
    BY <1>5, <1>6, <2>1, <2>2, <2>3, <2>4, SeqEqual
<1>8. QED
  BY <1>5, <1>7

\* GetWriteLen changes where the data lies, never the data.
LEMMA MakeRoomKeeps ==
    ASSUME NEW Octets, NEW b \in Buffers(Octets)
    PROVE  /\ MakeRoom(b) \in Buffers(Octets)
           /\ Contents(MakeRoom(b)) = Contents(b)
           /\ MakeRoom(b).len = b.len
BY SlideKeeps DEF MakeRoom

\* GetWriteLen returns 0 for a full buffer only: a caller that waits for room
\* (the assertion in OnRun) waits for reads, not for a slide.
THEOREM RoomUnlessFull ==
    ASSUME NEW Octets, NEW b \in Buffers(Octets)
    PROVE  GetWriteLen(b) \in Nat /\ (GetWriteLen(b) = 0 <=> b.len = m_size)
<1> USE SizeAssumption
<1>1. /\ b.pos \in Nat /\ b.len \in Nat /\ b.pos + b.len <= m_size
  BY DEF Buffers
<1>2. CASE TailRoom(b) = 0
  <2>1. MakeRoom(b).pos = 0 /\ MakeRoom(b).len = b.len
    BY <1>2, SlideKeeps DEF MakeRoom
  <2>2. GetWriteLen(b) = m_size - b.len
    BY <1>1, <2>1 DEF GetWriteLen, TailRoom
  <2>3. QED
    BY <1>1, <2>2
<1>3. CASE TailRoom(b) # 0
  <2>1. GetWriteLen(b) = m_size - b.pos - b.len
    BY <1>3 DEF GetWriteLen, MakeRoom, TailRoom
  <2>2. m_size - b.pos - b.len # 0
    BY <1>3 DEF TailRoom
  <2>3. QED
    BY <1>1, <2>1, <2>2
<1>4. QED
  BY <1>2, <1>3

\* MarkRead takes the first n bytes and keeps the others, also when it resets
\* the position of an empty buffer.
THEOREM MarkReadContents ==
    ASSUME NEW Octets, NEW b \in Buffers(Octets), NEW n \in 0 .. b.len
    PROVE  /\ MarkRead(b, n) \in Buffers(Octets)
           /\ Contents(MarkRead(b, n)) = SubSeq(Contents(b), n + 1, b.len)
<1> USE SizeAssumption
<1>1. /\ b.mem \in [1 .. m_size -> Octets] /\ b.pos \in Nat /\ b.len \in Nat
      /\ b.pos + b.len <= m_size /\ n \in Nat /\ n <= b.len
      /\ b = [mem |-> b.mem, pos |-> b.pos, len |-> b.len]
  BY DEF Buffers
<1> DEFINE p == IF b.len = n THEN 0 ELSE b.pos + n
<1>2. MarkRead(b, n) = [mem |-> b.mem, pos |-> p, len |-> b.len - n]
  BY <1>1 DEF MarkRead
<1>3. MarkRead(b, n) \in Buffers(Octets)
  BY <1>1, <1>2 DEF Buffers
<1>4. Contents(MarkRead(b, n)) = [k \in 1 .. b.len - n |-> b.mem[p + k]]
  BY <1>2 DEF Contents
<1>5. /\ Contents(b) \in Seq(Octets)
      /\ \A k \in 1 .. b.len : Contents(b)[k] = b.mem[b.pos + k]
  BY ContentsSeq
<1> DEFINE rest == SubSeq(Contents(b), n + 1, b.len)
<1>6. /\ rest \in Seq(Octets) /\ Len(rest) = b.len - n
      /\ \A k \in 1 .. b.len - n : rest[k] = Contents(b)[n + k]
  <2>1. PICK c : c = Contents(b)
    OBVIOUS
  <2>2. n + 1 \in Int /\ b.len \in Int
    BY <1>1
  <2>3. PICK lo \in Int, hi \in Int : lo = n + 1 /\ hi = b.len
    BY <2>2
  <2>4. c = Contents(b) /\ lo = n + 1 /\ hi = b.len
    BY <2>1, <2>3
  <2>5. \A k \in lo .. hi : c[k] \in Octets
    <3>1. \A k \in lo .. hi : k \in 1 .. b.len
      BY <1>1, <2>4
    <3>2. \A k \in 1 .. b.len : c[k] \in Octets
      BY <2>4, ContentsSeq
    <3>3. QED
      BY <3>1, <3>2
  <2>6. /\ SubSeq(c, lo, hi) \in Seq(Octets)
        /\ Len(SubSeq(c, lo, hi)) = IF lo <= hi THEN hi - lo + 1 ELSE 0
        /\ \A k \in 1 .. hi - lo + 1 : SubSeq(c, lo, hi)[k] = c[lo + k - 1]
    BY <2>5, SubSeqProperties
  <2>7. hi - lo + 1 = b.len - n /\ (~ (lo <= hi) => b.len - n = 0)
    BY <1>1, <2>4
  <2>8. ASSUME NEW k \in 1 .. b.len - n PROVE lo + k - 1 = n + k
    BY <1>1, <2>4
  <2>9. QED
    BY <2>4, <2>6, <2>7, <2>8
<1>7. ASSUME NEW k \in 1 .. b.len - n PROVE rest[k] = b.mem[p + k]
  <2>1. n + k \in 1 .. b.len /\ b.len # n
    BY <1>1
  <2>2. rest[k] = b.mem[b.pos + (n + k)]
    BY <1>5, <1>6, <2>1
  <2>3. b.pos + (n + k) = (b.pos + n) + k
    BY <1>1
  <2>4. QED
    BY <2>1, <2>2, <2>3
<1>8. rest = [k \in 1 .. b.len - n |-> rest[k]]
  BY <1>6
<1>9. Contents(MarkRead(b, n)) = rest
  BY <1>4, <1>7, <1>8
<1>10. QED
  BY <1>3, <1>9

\* A position of the data lies in the memory and before the room at its tail.
LEMMA BeforeTail ==
    ASSUME NEW p \in Nat, NEW l \in Nat, NEW n \in Nat, NEW m \in Nat, p + l + n <= m,
           NEW k \in 1 .. l
    PROVE  p + k \in 1 .. m /\ (p + k) - p - l \notin 1 .. n
<1>1. p + k >= 1 /\ p + k <= p + l + n
  OBVIOUS
<1>2. (p + k) - p - l = k - l /\ ~ (k - l >= 1)
  OBVIOUS
<1>3. QED
  BY <1>1, <1>2

\* Bytes that fit behind the data leave it alone.
LEMMA StoreKeeps ==
    ASSUME NEW Octets, NEW r \in Buffers(Octets), NEW data \in Seq(Octets),
           Len(data) <= TailRoom(r)
    PROVE  LET s == Store(r, data)
           IN  /\ s \in Buffers(Octets) /\ s.pos = r.pos /\ s.len = r.len
               /\ \A k \in 1 .. r.len : s.mem[r.pos + k] = r.mem[r.pos + k]
               /\ \A k \in 1 .. Len(data) : s.mem[r.pos + r.len + k] = data[k]
<1> DEFINE f == [k \in 1 .. m_size |->
                   IF k - r.pos - r.len \in DOMAIN data THEN data[k - r.pos - r.len]
                                                        ELSE r.mem[k]]
<1>1. PICK n \in Nat : Len(data) = n /\ DOMAIN data = 1 .. n /\ \A k \in 1 .. n : data[k] \in Octets
  BY LenProperties
<1>2. PICK mem : mem = f
  OBVIOUS
<1>3. /\ r.mem \in [1 .. m_size -> Octets] /\ r.pos \in Nat /\ r.len \in Nat
      /\ r.pos + r.len + n <= m_size /\ m_size \in Nat
  <2>1. n <= m_size - r.pos - r.len
    BY <1>1 DEF TailRoom
  <2>2. QED
    BY <2>1, SizeAssumption DEF Buffers
<1>4. Store(r, data) = [mem |-> mem, pos |-> r.pos, len |-> r.len]
  BY <1>2 DEF Store
<1>5. ASSUME NEW k \in 1 .. m_size
      PROVE  mem[k] = IF k - r.pos - r.len \in 1 .. n THEN data[k - r.pos - r.len] ELSE r.mem[k]
  BY <1>1, <1>2
<1>6. mem \in [1 .. m_size -> Octets]
  <2>1. ASSUME NEW k \in 1 .. m_size PROVE mem[k] \in Octets
    BY <1>1, <1>3, <1>5
  <2>2. QED
    BY <1>2, <2>1
<1>7. [mem |-> mem, pos |-> r.pos, len |-> r.len] \in Buffers(Octets)
  BY <1>3, <1>6 DEF Buffers
<1>8. ASSUME NEW k \in 1 .. r.len PROVE mem[r.pos + k] = r.mem[r.pos + k]
  <2>1. PICK p \in Nat, l \in Nat : p = r.pos /\ l = r.len
          /\ p + l + n <= m_size /\ m_size \in Nat
    BY <1>3
  <2>2. p + k \in 1 .. m_size /\ (p + k) - p - l \notin 1 .. n
    BY <2>1, BeforeTail
  <2>3. QED
    BY <1>5, <2>1, <2>2
<1>9. ASSUME NEW k \in 1 .. n PROVE mem[r.pos + r.len + k] = data[k]
  <2>1. PICK j \in 1 .. m_size : j = r.pos + r.len + k
    BY <1>3
  <2>2. j - r.pos - r.len = k
    BY <1>3, <2>1
  <2>3. mem[j] = data[k]
    BY <1>5, <2>2
  <2>4. QED
    BY <2>1, <2>3
<1>10. QED
  BY <1>1, <1>4, <1>7, <1>8, <1>9

\* MarkWritten adds what was stored; the GetWriteLen in its assertion does not
\* slide the data away from it.
LEMMA MarkWrittenKeeps ==
    ASSUME NEW Octets, NEW s \in Buffers(Octets), NEW n \in Nat, n <= TailRoom(s)
    PROVE  LET w == MarkWritten(s, n)
           IN  /\ w \in Buffers(Octets) /\ w.len = s.len + n
               /\ \A k \in 1 .. s.len + n : w.mem[w.pos + k] = s.mem[s.pos + k]
<1>1. /\ s.mem \in [1 .. m_size -> Octets] /\ s.pos \in Nat /\ s.len \in Nat
      /\ s.pos + s.len + n <= m_size /\ m_size \in Nat
  <2>1. n <= m_size - s.pos - s.len
    BY DEF TailRoom
  <2>2. QED
    BY <2>1, SizeAssumption DEF Buffers
<1>2. CASE TailRoom(s) = 0
  <2>1. n = 0
    BY <1>1, <1>2
  <2>2. PICK z \in Buffers(Octets) :
          z = Slide(s) /\ z.pos = 0 /\ z.len = s.len /\ Contents(z) = Contents(s)
    BY SlideKeeps
  <2>3. MarkWritten(s, n) = [mem |-> z.mem, pos |-> z.pos, len |-> z.len + n]
    BY <1>2, <2>2 DEF MarkWritten, MakeRoom
  <2>4. \A k \in 1 .. s.len : z.mem[z.pos + k] = s.mem[s.pos + k]
    BY <2>2, ContentsSeq
  <2>5. z.mem \in [1 .. m_size -> Octets]
    BY DEF Buffers
  <2>6. z.len + n = s.len /\ s.len + n = s.len /\ z.pos \in 0 .. m_size
        /\ s.len \in 0 .. m_size /\ z.pos + s.len <= m_size
    BY <1>1, <2>1, <2>2
  <2>7. [mem |-> z.mem, pos |-> z.pos, len |-> s.len] \in Buffers(Octets)
    BY <2>5, <2>6 DEF Buffers
  <2>8. QED
    BY <2>3, <2>4, <2>6, <2>7
<1>3. CASE TailRoom(s) # 0
  <2>1. MarkWritten(s, n) = [mem |-> s.mem, pos |-> s.pos, len |-> s.len + n]
    BY <1>3 DEF MarkWritten, MakeRoom
  <2>2. [mem |-> s.mem, pos |-> s.pos, len |-> s.len + n] \in Buffers(Octets)
    BY <1>1 DEF Buffers
  <2>3. QED
    BY <2>1, <2>2
<1>4. QED
  BY <1>2, <1>3

\* A write: GetWriteLen, the bytes stored at GetWritePtr, MarkWritten.  What
\* fits is added at the end of the contents.
THEOREM WriteContents ==
    ASSUME NEW Octets, NEW b \in Buffers(Octets), NEW data \in Seq(Octets),
           Len(data) <= GetWriteLen(b)
    PROVE  LET w == MarkWritten(Store(MakeRoom(b), data), Len(data))
           IN  /\ w \in Buffers(Octets)
               /\ Contents(w) = Contents(b) \o data
<1>1. PICK r \in Buffers(Octets) : r = MakeRoom(b) /\ Contents(r) = Contents(b)
  BY MakeRoomKeeps
<1>2. PICK n \in Nat : n = Len(data) /\ n <= TailRoom(r)
  BY <1>1, LenProperties DEF GetWriteLen
<1>3. PICK s \in Buffers(Octets) :
        /\ s = Store(r, data) /\ s.pos = r.pos /\ s.len = r.len
        /\ \A k \in 1 .. r.len : s.mem[r.pos + k] = r.mem[r.pos + k]
        /\ \A k \in 1 .. n : s.mem[r.pos + r.len + k] = data[k]
  BY <1>2, StoreKeeps
<1>4. TailRoom(s) = TailRoom(r)
  BY <1>3 DEF TailRoom
<1>5. PICK w \in Buffers(Octets) :
        /\ w = MarkWritten(s, n) /\ w.len = s.len + n
        /\ \A k \in 1 .. s.len + n : w.mem[w.pos + k] = s.mem[s.pos + k]
  BY <1>2, <1>4, MarkWrittenKeeps
<1>6. PICK c \in Seq(Octets) :
        c = Contents(r) /\ Len(c) = r.len /\ \A k \in 1 .. r.len : c[k] = r.mem[r.pos + k]
  BY ContentsSeq
<1>7. PICK d \in Seq(Octets) :
        d = Contents(w) /\ Len(d) = w.len /\ \A k \in 1 .. w.len : d[k] = w.mem[w.pos + k]
  BY ContentsSeq
<1>8. /\ c \o data \in Seq(Octets)
      /\ Len(c \o data) = r.len + n
      /\ \A k \in 1 .. r.len + n : (c \o data)[k] = IF k <= r.len THEN c[k] ELSE data[k - r.len]
  <2>1. /\ c \o data \in Seq(Octets)
        /\ Len(c \o data) = Len(c) + Len(data)
        /\ \A k \in 1 .. Len(c) + Len(data) :
             (c \o data)[k] = IF k <= Len(c) THEN c[k] ELSE data[k - Len(c)]
    BY ConcatProperties
  <2>2. Len(c) = r.len /\ Len(data) = n
    BY <1>2, <1>6
  <2>3. QED
    BY <2>1, <2>2
<1>9. r.len \in Nat /\ r.pos \in Nat
  BY SizeAssumption DEF Buffers
<1>10. ASSUME NEW k \in 1 .. r.len + n
       PROVE  d[k] = (c \o data)[k]
  <2>1. d[k] = s.mem[r.pos + k]
    BY <1>3, <1>5, <1>7
  <2>2. CASE k <= r.len
    <3>1. k \in 1 .. r.len
      BY <1>9, <2>2
    <3>2. QED
      BY <1>3, <1>6, <1>8, <2>1, <2>2, <3>1
  <2>3. CASE ~ (k <= r.len)
    <3>1. PICK j \in 1 .. n : j = k - r.len
      BY <1>9, <2>3
    <3>2. r.pos + r.len + j = r.pos + k
      BY <1>9, <3>1
    <3>3. d[k] = data[j]
      BY <1>3, <2>1, <3>2
    <3>4. (c \o data)[k] = data[j]
      BY <1>8, <2>3, <3>1
    <3>5. QED
      BY <3>3, <3>4
  <2>4. QED
    BY <2>2, <2>3
<1>11. d = c \o data
  <2>1. Len(d) = Len(c \o data) /\ Len(d) = r.len + n
    BY <1>3, <1>5, <1>7, <1>8
  <2>2. QED
    BY <1>8, <1>10, <2>1, SeqEqual
<1>12. QED
  BY <1>1, <1>2, <1>3, <1>5, <1>6, <1>7, <1>11
=============================================================================
