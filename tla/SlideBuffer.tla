----------------------------- MODULE SlideBuffer -----------------------------
(***************************************************************************)
(* SOBuffer (sobuf.cpp), the "slide-over buffer" that stages the bytes of  *)
(* the serial line and of each client: the data is one contiguous block    *)
(* that moves to the right as it is read, and slides back to the start     *)
(* when it has reached the end.                                            *)
(*                                                                         *)
(* A buffer is a record of its memory, the offset of the data in it        *)
(* (m_bufpos - m_buf) and the length of the data (m_buflen).  Resize is    *)
(* never called and is left out.                                           *)
(***************************************************************************)
EXTENDS Integers, Sequences

CONSTANT m_size   \* the size of the memory

ASSUME SizeAssumption == m_size \in Nat \ {0}

Buffers(Octets) ==
    {b \in [mem : [1 .. m_size -> Octets], pos : 0 .. m_size, len : 0 .. m_size] :
        b.pos + b.len <= m_size}

\* The memory is not initialised; what it holds is never read.
EmptyBuffer(octet) == [mem |-> [k \in 1 .. m_size |-> octet], pos |-> 0, len |-> 0]

\* The GetReadLen() bytes at GetReadPtr()
Contents(b) == [k \in 1 .. b.len |-> b.mem[b.pos + k]]

MarkRead(b, n) ==
    [mem |-> b.mem, pos |-> IF b.len = n THEN 0 ELSE b.pos + n, len |-> b.len - n]

TailRoom(b) == m_size - b.pos - b.len

\* Mutant of Slide: the bytes stay where they are.
SlideOffsetOnly(b) == [b EXCEPT !.pos = 0]

\* memmove(m_buf, m_bufpos, m_buflen)
Slide(b) ==
    [mem |-> [k \in 1 .. m_size |-> IF k <= b.len THEN b.mem[b.pos + k] ELSE b.mem[k]],
     pos |-> 0, len |-> b.len]

\* Mutant of MakeRoom: the data never slides.
MakeRoomNever(b) == b

\* What a call of GetWriteLen does to the buffer, ...
MakeRoom(b) == IF TailRoom(b) = 0 THEN Slide(b) ELSE b

\* ... and what it returns.
GetWriteLen(b) == TailRoom(MakeRoom(b))

\* Its assertion calls GetWriteLen too.
MarkWritten(b, n) ==
    LET r == MakeRoom(b) IN [mem |-> r.mem, pos |-> r.pos, len |-> r.len + n]

\* Bytes stored at GetWritePtr()
Store(b, data) ==
    [mem |-> [k \in 1 .. m_size |->
                IF k - b.pos - b.len \in DOMAIN data THEN data[k - b.pos - b.len] ELSE b.mem[k]],
     pos |-> b.pos, len |-> b.len]
=============================================================================
