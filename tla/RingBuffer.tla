----------------------------- MODULE RingBuffer -----------------------------
(***************************************************************************)
(* The ring buffer of src/ringbuffer/ringbuffer.c: two indexes modulo the  *)
(* size of the array, of which one slot is never filled so that equal      *)
(* indexes mean empty.  ringbuffer_get returns a pointer to the slot,      *)
(* which every caller reads at once: `got_byte` is the byte.               *)
(***************************************************************************)
EXTENDS Integers, Sequences

CONSTANTS Data,          \* bytes
          Size,          \* buf_size
          MaxPut,        \* the longest block passed to ringbuffer_putn
          NULL

ASSUME RingBufferAssumption ==
    /\ Size \in Nat \ {0}
    /\ MaxPut \in Nat \ {0}
    /\ Data # {}
    /\ NULL \notin Data

VARIABLES read_index, write_index, buf,
          ok, got_byte   \* what the last put and the last get returned

ring_vars == <<read_index, write_index, buf, ok, got_byte>>

Slots == 0 .. Size - 1

\* The array is not initialised: its first bytes are any bytes.
ringbuffer_init ==
    /\ read_index = 0
    /\ write_index = 0
    /\ buf \in [Slots -> Data]
    /\ ok = TRUE /\ got_byte = NULL

Advance(i, n) == (i + n) % Size

ringbuffer_empty == read_index = write_index

ringbuffer_full == Advance(write_index, 1) = read_index

\* Mutant: the wrapped case is missing.
SizeUnwrapped == write_index - read_index

ringbuffer_size ==
    IF write_index < read_index
    THEN (write_index + Size) - read_index
    ELSE write_index - read_index

ringbuffer_get ==
    /\ IF ringbuffer_empty
       THEN got_byte' = NULL /\ UNCHANGED read_index
       ELSE got_byte' = buf[read_index] /\ read_index' = Advance(read_index, 1)
    /\ UNCHANGED <<write_index, buf, ok>>

ringbuffer_put(byte) ==
    /\ IF ringbuffer_full
       THEN ok' = FALSE /\ UNCHANGED <<write_index, buf>>
       ELSE /\ ok' = TRUE
            /\ buf' = [buf EXCEPT ![write_index] = byte]
            /\ write_index' = Advance(write_index, 1)
    /\ UNCHANGED <<read_index, got_byte>>

\* The loop of ringbuffer_putn writes byte i of the block at offset i - 1.
ringbuffer_putn(block) ==
    /\ IF (Size - 1) - ringbuffer_size < Len(block)
       THEN ok' = FALSE /\ UNCHANGED <<write_index, buf>>
       ELSE /\ ok' = TRUE
            /\ buf' = [s \in Slots |->
                         LET offset == (s - write_index) % Size
                         IN  IF offset < Len(block) THEN block[offset + 1] ELSE buf[s]]
            /\ write_index' = Advance(write_index, Len(block))
    /\ UNCHANGED <<read_index, got_byte>>

RingNext ==
    \/ ringbuffer_get
    \/ \E byte \in Data : ringbuffer_put(byte)
    \/ \E n \in 0 .. MaxPut : \E block \in [1 .. n -> Data] : ringbuffer_putn(block)

RingSpec == ringbuffer_init /\ [][RingNext]_ring_vars

-----------------------------------------------------------------------------
\* The bytes stored, oldest first.
Stored == [i \in 1 .. ringbuffer_size |-> buf[(read_index + i - 1) % Size]]

\* The indexes, the wrap-around and the unused slot implement a FIFO that holds
\* Size - 1 bytes: none is lost, overwritten or read twice, puts are refused exactly
\* when there is no room, and ringbuffer_putn stores all of a block or nothing.
Bounded == INSTANCE BoundedFIFO WITH contents <- Stored, got <- got_byte, Capacity <- Size - 1, Nothing <- NULL

ImplementsBoundedFIFO == Bounded!Spec
=============================================================================
