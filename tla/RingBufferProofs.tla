-------------------------- MODULE RingBufferProofs --------------------------
(***************************************************************************)
(* That the ring buffer implements module BoundedFIFO, for any size of the *)
(* array and any bytes.                                                    *)
(***************************************************************************)
EXTENDS RingBuffer, SequenceTheorems, TLAPS

-----------------------------------------------------------------------------
(* Arithmetic modulo Size. *)

\* An index that has run over the end by less than Size, or is short of the start.
Wrap(x) == IF x < 0 THEN x + Size ELSE IF x < Size THEN x ELSE x - Size

LEMMA Wraps ==
    ASSUME NEW x \in Int, -Size < x, x < 2 * Size
    PROVE  x % Size = Wrap(x) /\ Wrap(x) \in Slots
<1>1. Size \in Nat \ {0}
  BY RingBufferAssumption
<1>2. Wrap(x) \in Slots
  BY <1>1 DEF Wrap, Slots
<1>3. x % Size \in 0 .. Size - 1 /\ x = Size * (x \div Size) + (x % Size) /\ x \div Size \in Int
  BY <1>1
<1>4. x \div Size = IF x < 0 THEN -1 ELSE IF x < Size THEN 0 ELSE 1
  BY <1>1
<1>5. x % Size = Wrap(x)
  BY <1>1, <1>3, <1>4 DEF Wrap
<1> QED BY <1>2, <1>5

-----------------------------------------------------------------------------
(* The indexes stay in the array. *)

RingInv ==
    /\ read_index \in Slots /\ write_index \in Slots
    /\ buf \in [Slots -> Data]

LEMMA RingInit == ringbuffer_init => RingInv
<1>1. 0 \in Slots
  BY RingBufferAssumption DEF Slots
<1> QED BY <1>1 DEF ringbuffer_init, RingInv

\* What ringbuffer_putn is given.
LEMMA BlockLength ==
    ASSUME NEW n \in Nat, NEW block \in [1 .. n -> Data]
    PROVE  block \in Seq(Data) /\ Len(block) = n
<1>1. block \in Seq(Data)
  BY SeqDef
<1>2. DOMAIN block = 1 .. n /\ DOMAIN block = 1 .. Len(block) /\ Len(block) \in Nat
  BY <1>1, LenProperties
<1> QED BY <1>1, <1>2

\* Both indexes, and how many bytes there are between them.
SizeOK ==
    /\ Size \in Nat \ {0} /\ read_index \in 0 .. Size - 1 /\ write_index \in 0 .. Size - 1
    /\ ringbuffer_size \in 0 .. Size - 1
    /\ ringbuffer_size = 0 <=> ringbuffer_empty
    /\ ringbuffer_size = Size - 1 <=> ringbuffer_full

\* The contents are a sequence of as many bytes, and where they are.
ContentsOK ==
    /\ Stored \in Seq(Data) /\ Len(Stored) = ringbuffer_size
    /\ \A i \in 1 .. ringbuffer_size :
          Stored[i] = buf[Wrap(read_index + i - 1)] /\ Wrap(read_index + i - 1) \in Slots

LEMMA SizeFacts == RingInv => SizeOK
<1> SUFFICES ASSUME RingInv PROVE SizeOK
  OBVIOUS
<1>1. Size \in Nat \ {0} /\ read_index \in 0 .. Size - 1 /\ write_index \in 0 .. Size - 1
  BY RingBufferAssumption DEF RingInv, Slots
<1>2. ringbuffer_size \in 0 .. Size - 1 /\ (ringbuffer_size = 0 <=> ringbuffer_empty)
  BY <1>1 DEF ringbuffer_size, ringbuffer_empty
<1>3. (write_index + 1) % Size = Wrap(write_index + 1)
  BY <1>1, Wraps
<1>4. ringbuffer_size = Size - 1 <=> ringbuffer_full
  BY <1>1, <1>3 DEF ringbuffer_size, ringbuffer_full, Advance, Wrap
<1> QED BY <1>1, <1>2, <1>4 DEF SizeOK

LEMMA ContentsFacts == RingInv => ContentsOK
<1> SUFFICES ASSUME RingInv PROVE ContentsOK
  OBVIOUS
<1>1. Size \in Nat \ {0} /\ read_index \in 0 .. Size - 1 /\ ringbuffer_size \in 0 .. Size - 1
  BY SizeFacts DEF SizeOK
<1>2. \A i \in 1 .. ringbuffer_size :
         read_index + i - 1 \in Int /\ -Size < read_index + i - 1 /\ read_index + i - 1 < 2 * Size
  BY <1>1
<1>3. \A i \in 1 .. ringbuffer_size :
         (read_index + i - 1) % Size = Wrap(read_index + i - 1) /\ Wrap(read_index + i - 1) \in Slots
  BY <1>2, Wraps
<1>4. Stored \in [1 .. ringbuffer_size -> Data]
  BY <1>3 DEF Stored, RingInv
<1>5. Stored \in Seq(Data) /\ Len(Stored) = ringbuffer_size
  BY <1>1, <1>4, BlockLength
<1> QED BY <1>3, <1>5 DEF Stored, ContentsOK

\* The same after a step.
LEMMA NextFacts == RingInv' => SizeOK' /\ ContentsOK'
  BY SizeFacts, ContentsFacts, PTL

-----------------------------------------------------------------------------
(* The operations. *)

\* After a byte has been taken, the others are where they were.
LEMMA GetTakes ==
    ASSUME RingInv, ringbuffer_get
    PROVE  RingInv' /\ Bounded!Get
<1>1. UNCHANGED <<write_index, buf, ok>>
  BY DEF ringbuffer_get
<1>2. SizeOK /\ ContentsOK
  BY SizeFacts, ContentsFacts
<1>3. CASE ringbuffer_empty
  <2>1. got_byte' = NULL /\ UNCHANGED read_index
    BY <1>3 DEF ringbuffer_get
  <2>2. RingInv' /\ Stored' = Stored
    BY <1>1, <2>1 DEF RingInv, Stored, ringbuffer_size
  <2>3. Stored = <<>>
    BY <1>2, <1>3, EmptySeq DEF SizeOK, ContentsOK
  <2> QED BY <1>1, <2>1, <2>2, <2>3 DEF Bounded!Get
<1>4. CASE ~ringbuffer_empty
  <2>1. got_byte' = buf[read_index] /\ read_index' = (read_index + 1) % Size
    BY <1>4 DEF ringbuffer_get, Advance
  <2>2. read_index' = Wrap(read_index + 1) /\ read_index' \in Slots
    <3>1. read_index + 1 \in Int /\ -Size < read_index + 1 /\ read_index + 1 < 2 * Size
      BY <1>2 DEF SizeOK
    <3> QED BY <2>1, <3>1, Wraps
  <2>3. RingInv'
    BY <1>1, <2>2 DEF RingInv
  <2>4. SizeOK' /\ ContentsOK'
    BY <2>3, NextFacts
  <2>5. ringbuffer_size \in 1 .. Size - 1 /\ ringbuffer_size' = ringbuffer_size - 1
    BY <1>1, <1>2, <1>4, <2>2 DEF SizeOK, ringbuffer_size, ringbuffer_empty, Wrap
  <2>6. Stored # <<>> /\ Stored[1] = buf[Wrap(read_index + 1 - 1)]
    BY <1>2, <2>5, EmptySeq DEF ContentsOK
  <2>7. Wrap(read_index + 1 - 1) = read_index
    BY <1>2 DEF SizeOK, Wrap
  <2>8. Head(Stored) = buf[read_index]
    BY <1>2, <2>6, <2>7, HeadTailProperties DEF ContentsOK
  <2>9. /\ Tail(Stored) \in Seq(Data) /\ Len(Tail(Stored)) = ringbuffer_size - 1
        /\ \A i \in 1 .. ringbuffer_size - 1 : Tail(Stored)[i] = Stored[i + 1]
    BY <1>2, <2>6, HeadTailProperties DEF ContentsOK
  <2>10. ASSUME NEW i \in 1 .. ringbuffer_size - 1 PROVE Stored'[i] = Tail(Stored)[i]
    <3>1. i \in 1 .. ringbuffer_size' /\ i + 1 \in 1 .. ringbuffer_size
      BY <2>5
    <3>2. Stored'[i] = buf[Wrap(read_index' + i - 1)]
      BY <1>1, <2>4, <3>1 DEF ContentsOK, Wrap
    <3>3. Stored[i + 1] = buf[Wrap(read_index + (i + 1) - 1)]
      BY <1>2, <3>1 DEF ContentsOK
    <3>4. Wrap(read_index' + i - 1) = Wrap(read_index + (i + 1) - 1)
      BY <1>2, <2>2, <2>5 DEF SizeOK, Wrap
    <3> QED BY <2>9, <3>2, <3>3, <3>4
  <2>11. Stored' \in Seq(Data) /\ Len(Stored') = ringbuffer_size - 1
    BY <2>4, <2>5 DEF ContentsOK
  <2>12. Stored' = Tail(Stored)
    BY <2>9, <2>10, <2>11, SeqEqual
  <2> QED BY <1>1, <2>1, <2>3, <2>6, <2>8, <2>12 DEF Bounded!Get
<1> QED BY <1>3, <1>4

\* The bytes of d are written behind the others, and there is room for them: no byte that is
\* stored is overwritten.
LEMMA PutAppends ==
    ASSUME RingInv, NEW d \in Seq(Data), ringbuffer_size + Len(d) <= Size - 1,
           write_index' = Advance(write_index, Len(d)), UNCHANGED read_index, buf' \in [Slots -> Data],
           \A s \in Slots : LET offset == (s - write_index) % Size
                            IN  buf'[s] = IF offset < Len(d) THEN d[offset + 1] ELSE buf[s]
    PROVE  RingInv' /\ Stored' = Stored \o d
<1> DEFINE L == Len(d)
           n == ringbuffer_size
           r == read_index
           w == write_index
<1>1. SizeOK /\ ContentsOK
  BY SizeFacts, ContentsFacts
<1>2. /\ Size \in Nat \ {0} /\ L \in Nat /\ n \in 0 .. Size - 1 /\ n + L <= Size - 1
      /\ r \in 0 .. Size - 1 /\ w \in 0 .. Size - 1
      /\ n = IF w < r THEN w + Size - r ELSE w - r
  BY <1>1, LenProperties DEF SizeOK, ringbuffer_size
<1>3. write_index' = Wrap(w + L) /\ write_index' \in Slots
  <2>1. w + L \in Int /\ -Size < w + L /\ w + L < 2 * Size /\ write_index' = (w + L) % Size
    BY <1>2 DEF Advance
  <2> QED BY <2>1, Wraps
<1>4. RingInv'
  BY <1>3 DEF RingInv
<1>5. SizeOK' /\ ContentsOK'
  BY <1>4, NextFacts
<1>6. ringbuffer_size' = n + L
  <2>1. ringbuffer_size' = IF write_index' < r THEN write_index' + Size - r ELSE write_index' - r
    BY <1>2, <1>3 DEF ringbuffer_size, Slots
  <2> QED BY <1>2, <1>3, <2>1 DEF Wrap
<1>7. ASSUME NEW s \in Slots
      PROVE  buf'[s] = IF Wrap(s - w) < L THEN d[Wrap(s - w) + 1] ELSE buf[s]
  <2>1. (s - w) % Size = Wrap(s - w)
    BY <1>2, <1>7, Wraps DEF Slots
  <2> QED BY <2>1
<1>8. /\ Stored \o d \in Seq(Data) /\ Len(Stored \o d) = n + L
      /\ \A i \in 1 .. n + L : (Stored \o d)[i] = IF i <= n THEN Stored[i] ELSE d[i - n]
  BY <1>1, ConcatProperties DEF ContentsOK
<1>9. ASSUME NEW i \in 1 .. n + L PROVE Stored'[i] = (Stored \o d)[i]
  <2> DEFINE s == Wrap(r + i - 1)
  <2>1. Stored'[i] = buf'[s] /\ s \in Slots
    BY <1>5, <1>6 DEF ContentsOK, Wrap
  <2> HIDE DEF L, n, r, w
  <2>2. CASE i <= n
    <3>1. i \in 1 .. n
      BY <1>2, <2>2
    <3>2. w = IF r + n < Size THEN r + n ELSE r + n - Size
      BY <1>2
    <3>3. s = IF r + i - 1 < Size THEN r + i - 1 ELSE r + i - 1 - Size
      BY <1>2, <3>1 DEF Wrap
    <3>4. s - w = i - 1 - n \/ s - w = i - 1 - n + Size
      BY <1>2, <3>1, <3>2, <3>3
    <3>5. Wrap(s - w) = i - 1 - n + Size
      BY <1>2, <3>1, <3>4 DEF Wrap
    <3>6. ~(Wrap(s - w) < L)
      BY <1>2, <3>1, <3>5
    <3>7. Stored[i] = buf[s]
      BY <1>1, <3>1 DEF ContentsOK, n, r
    <3> HIDE DEF s
    <3> QED BY <1>7, <1>8, <2>1, <2>2, <3>6, <3>7
  <2>3. CASE ~(i <= n)
    <3>1. i \in Int /\ n < i /\ i <= n + L
      BY <1>2, <2>3
    <3>2. w = IF r + n < Size THEN r + n ELSE r + n - Size
      BY <1>2
    <3>3. s = IF r + i - 1 < Size THEN r + i - 1 ELSE r + i - 1 - Size
      BY <1>2, <3>1 DEF Wrap
    <3>4. s - w = i - n - 1 \/ s - w = i - n - 1 - Size
      BY <1>2, <3>1, <3>2, <3>3
    <3>5. Wrap(s - w) = i - n - 1
      BY <1>2, <3>1, <3>4 DEF Wrap
    <3>6. Wrap(s - w) < L /\ Wrap(s - w) + 1 = i - n
      BY <1>2, <3>1, <3>5
    <3> HIDE DEF s
    <3> QED BY <1>7, <1>8, <2>1, <2>3, <3>6
  <2> QED BY <2>2, <2>3
<1>10. Stored' \in Seq(Data) /\ Len(Stored') = n + L
  BY <1>5, <1>6 DEF ContentsOK
<1>11. Stored' = Stored \o d
  BY <1>8, <1>9, <1>10, SeqEqual
<1> QED BY <1>4, <1>11

\* A put that is refused.
LEMMA PutRefused ==
    ASSUME RingInv, UNCHANGED <<read_index, write_index, buf>>
    PROVE  RingInv' /\ Stored' = Stored
  BY DEF RingInv, Stored, ringbuffer_size

LEMMA PutPuts ==
    ASSUME RingInv, NEW byte \in Data, ringbuffer_put(byte)
    PROVE  RingInv' /\ Bounded!Put(<<byte>>)
<1>1. UNCHANGED <<read_index, got_byte>> /\ <<byte>> \in Seq(Data) /\ Len(<<byte>>) = 1 /\ <<byte>>[1] = byte
  BY DEF ringbuffer_put
<1>2. SizeOK /\ Len(Stored) = ringbuffer_size
  BY SizeFacts, ContentsFacts DEF ContentsOK
<1>3. CASE ringbuffer_full
  <2>1. ok' = FALSE /\ UNCHANGED <<write_index, buf>>
    BY <1>3 DEF ringbuffer_put
  <2>2. ~(Len(Stored) + Len(<<byte>>) <= Size - 1)
    BY <1>1, <1>2, <1>3 DEF SizeOK
  <2>3. RingInv' /\ Stored' = Stored
    BY <1>1, <2>1, PutRefused
  <2>4. ok' = (Len(Stored) + Len(<<byte>>) <= Size - 1)
    <3>1. (Len(Stored) + Len(<<byte>>) <= Size - 1) = FALSE
      BY <1>1, <1>2, <2>2, SMT DEF SizeOK
    <3> QED BY <2>1, <3>1, Zenon
  <2>5. Stored' = IF ok' THEN Stored \o <<byte>> ELSE Stored
    BY <2>1, <2>3
  <2> QED BY <1>1, <2>3, <2>4, <2>5 DEF Bounded!Put
<1>4. CASE ~ringbuffer_full
  <2>1. /\ ok' = TRUE /\ buf' = [buf EXCEPT ![write_index] = byte]
        /\ write_index' = Advance(write_index, Len(<<byte>>))
    BY <1>1, <1>4 DEF ringbuffer_put
  <2>2. ringbuffer_size + Len(<<byte>>) <= Size - 1 /\ Len(Stored) + Len(<<byte>>) <= Size - 1
    BY <1>1, <1>2, <1>4 DEF SizeOK
  <2>3. buf' \in [Slots -> Data] /\ \A s \in Slots : buf'[s] = IF s = write_index THEN byte ELSE buf[s]
    BY <2>1 DEF RingInv
  <2>4. ASSUME NEW s \in Slots
        PROVE  LET offset == (s - write_index) % Size
               IN  buf'[s] = IF offset < Len(<<byte>>) THEN <<byte>>[offset + 1] ELSE buf[s]
    <3>1. (s - write_index) % Size = Wrap(s - write_index)
      BY <1>2, Wraps DEF SizeOK, Slots
    <3>2. Wrap(s - write_index) \in Nat /\ (Wrap(s - write_index) = 0 <=> s = write_index)
      BY <1>2 DEF SizeOK, Slots, Wrap
    <3>3. CASE s = write_index
      BY <1>1, <2>3, <3>1, <3>2, <3>3
    <3>4. CASE s # write_index
      BY <1>1, <2>3, <3>1, <3>2, <3>4
    <3> QED BY <3>3, <3>4
  <2>5. RingInv' /\ Stored' = Stored \o <<byte>>
    BY <1>1, <2>1, <2>2, <2>3, <2>4, PutAppends
  <2>6. ok' = (Len(Stored) + Len(<<byte>>) <= Size - 1)
    BY <2>1, <2>2
  <2>7. Stored' = IF ok' THEN Stored \o <<byte>> ELSE Stored
    BY <2>1, <2>5
  <2> QED BY <1>1, <2>5, <2>6, <2>7 DEF Bounded!Put
<1> QED BY <1>3, <1>4

LEMMA PutnPuts ==
    ASSUME RingInv, NEW n \in Nat, NEW block \in [1 .. n -> Data], ringbuffer_putn(block)
    PROVE  RingInv' /\ Bounded!Put(block)
<1>1. UNCHANGED <<read_index, got_byte>> /\ block \in Seq(Data) /\ Len(block) = n
  BY BlockLength DEF ringbuffer_putn
<1>2. SizeOK /\ Len(Stored) = ringbuffer_size
  BY SizeFacts, ContentsFacts DEF ContentsOK
<1>3. CASE (Size - 1) - ringbuffer_size < Len(block)
  <2>1. ok' = FALSE /\ UNCHANGED <<write_index, buf>>
    BY <1>3 DEF ringbuffer_putn
  <2>2. ~(Len(Stored) + Len(block) <= Size - 1)
    BY <1>1, <1>2, <1>3 DEF SizeOK
  <2>3. RingInv' /\ Stored' = Stored
    BY <1>1, <2>1, PutRefused
  <2>4. ok' = (Len(Stored) + Len(block) <= Size - 1)
    <3>1. (Len(Stored) + Len(block) <= Size - 1) = FALSE
      BY <1>1, <1>2, <2>2, SMT DEF SizeOK
    <3> QED BY <2>1, <3>1, Zenon
  <2>5. Stored' = IF ok' THEN Stored \o block ELSE Stored
    BY <2>1, <2>3
  <2> QED BY <1>1, <2>3, <2>4, <2>5 DEF Bounded!Put
<1>4. CASE ~((Size - 1) - ringbuffer_size < Len(block))
  <2>1. /\ ok' = TRUE /\ write_index' = Advance(write_index, Len(block))
        /\ buf' = [s \in Slots |-> LET offset == (s - write_index) % Size
                                   IN  IF offset < Len(block) THEN block[offset + 1] ELSE buf[s]]
    BY <1>4 DEF ringbuffer_putn
  <2>2. ringbuffer_size + Len(block) <= Size - 1 /\ Len(Stored) + Len(block) <= Size - 1
    BY <1>1, <1>2, <1>4 DEF SizeOK
  <2>3. \A s \in Slots : LET offset == (s - write_index) % Size
                         IN  buf'[s] = IF offset < Len(block) THEN block[offset + 1] ELSE buf[s]
    BY <2>1
  <2>4. buf' \in [Slots -> Data]
    <3>1. ASSUME NEW s \in Slots PROVE buf'[s] \in Data
      <4>1. (s - write_index) % Size \in Nat
        BY <1>2 DEF SizeOK, Slots
      <4>2. buf[s] \in Data
        BY DEF RingInv
      <4> QED BY <1>1, <2>3, <4>1, <4>2
    <3> QED BY <2>1, <3>1
  <2>5. RingInv' /\ Stored' = Stored \o block
    BY <1>1, <2>1, <2>2, <2>3, <2>4, PutAppends
  <2>6. ok' = (Len(Stored) + Len(block) <= Size - 1)
    BY <2>1, <2>2
  <2>7. Stored' = IF ok' THEN Stored \o block ELSE Stored
    BY <2>1, <2>5
  <2> QED BY <1>1, <2>5, <2>6, <2>7 DEF Bounded!Put
<1> QED BY <1>3, <1>4

\* Every step keeps the indexes in the array and is one of the FIFO's.
LEMMA RingStep ==
    ASSUME RingInv, [RingNext]_ring_vars
    PROVE  RingInv' /\ [Bounded!Next]_(Bounded!vars)
<1>1. CASE UNCHANGED ring_vars
  <2>1. RingInv' /\ Stored' = Stored
    BY <1>1, PutRefused DEF ring_vars
  <2> QED BY <1>1, <2>1 DEF ring_vars, Bounded!vars
<1>2. CASE ringbuffer_get
  BY <1>2, GetTakes DEF Bounded!Next
<1>3. ASSUME NEW byte \in Data, ringbuffer_put(byte) PROVE RingInv' /\ Bounded!Next
  <2>1. <<byte>> \in [1 .. 1 -> Data] /\ 1 \in 0 .. MaxPut
    BY RingBufferAssumption
  <2>2. <<byte>> \in Bounded!Blocks
    BY <2>1 DEF Bounded!Blocks
  <2> QED BY <1>3, <2>2, PutPuts DEF Bounded!Next
<1>4. ASSUME NEW n \in 0 .. MaxPut, NEW block \in [1 .. n -> Data], ringbuffer_putn(block)
      PROVE  RingInv' /\ Bounded!Next
  <2>1. n \in Nat /\ block \in Bounded!Blocks
    BY RingBufferAssumption DEF Bounded!Blocks
  <2> QED BY <1>4, <2>1, PutnPuts DEF Bounded!Next
<1> QED BY <1>1, <1>2, <1>3, <1>4 DEF RingNext

\* ringbuffer.c is a FIFO of Size - 1 bytes whatever Size is: no byte is lost, overwritten or
\* read twice when the indexes wrap, ringbuffer_put and ringbuffer_putn fail exactly when there
\* is no room, and ringbuffer_putn stores all of a block or nothing.
THEOREM RingBufferImplements == RingSpec => ImplementsBoundedFIFO
<1>1. ringbuffer_init => Bounded!Init
  <2> SUFFICES ASSUME ringbuffer_init PROVE Bounded!Init
    OBVIOUS
  <2>1. RingInv /\ ringbuffer_empty /\ ok = TRUE /\ got_byte = NULL
    BY RingInit DEF ringbuffer_init, ringbuffer_empty
  <2>2. Stored \in Seq(Data) /\ Len(Stored) = 0
    BY <2>1, SizeFacts, ContentsFacts DEF SizeOK, ContentsOK
  <2>3. Stored = <<>>
    BY <2>2, EmptySeq
  <2> QED BY <2>1, <2>3 DEF Bounded!Init
<1>2. RingInv /\ [RingNext]_ring_vars => RingInv' /\ [Bounded!Next]_(Bounded!vars)
  BY RingStep
<1> QED BY <1>1, <1>2, RingInit, PTL DEF RingSpec, ImplementsBoundedFIFO, Bounded!Spec
=============================================================================
