----------------------------- MODULE RingBuffer -----------------------------
(***************************************************************************)
(* lib/ring_buffer/ringbuffer_char.c: the byte ring between a UART         *)
(* interrupt and the thread that parses its bytes.  The files              *)
(* ringbuffer4x_char.c and ringbuffer8x_char.c are the same code with      *)
(* another size, lib/stomeas_lib/storage_ring_buffer.c the same algorithm  *)
(* with another element type.  Each call is one step here; RingBufferIsr   *)
(* splits the calls of the thread where the interrupt can preempt them.    *)
(***************************************************************************)
EXTENDS Integers, Sequences

CONSTANTS Size,  \* RING_BUFFER_SIZE, a power of two
          Byte,  \* the values of a char
          Zero   \* the char a static buffer starts with

ASSUME SizeAssumption == Size \in Nat /\ Size > 1
ASSUME ZeroAssumption == Zero \in Byte

VARIABLES ring,  \* the struct ring_buffer_t
          data,  \* the caller's variable a read writes to
          rv,    \* what the last call returned (0 for a void call)
          call   \* history: which call that was

vars == <<ring, data, rv, call>>

Index == 0 .. Size - 1

\* Mutant of Mask: the mask is forgotten.
MaskMissing(x) == x

\* x & RING_BUFFER_MASK: the mask of a power of two keeps the remainder, of
\* a difference that wrapped below zero too.
Mask(x) == x % Size

NumItemsOf(r) == Mask(r.head - r.tail)

\* Mutant of IsFullOf: full only when every slot is used.
IsFullLate(r) == NumItemsOf(r) = Size

IsFullOf(r) == NumItemsOf(r) = Size - 1

IsEmptyOf(r) == r.head = r.tail

\* The body of ring_buffer_queue as a function of the struct.
Queued(r, b) ==
  [buffer |-> [r.buffer EXCEPT ![r.head] = b],
   head   |-> Mask(r.head + 1),
   tail   |-> IF IsFullOf(r) THEN Mask(r.tail + 1) ELSE r.tail]

Init ==
  /\ ring = [buffer |-> [i \in Index |-> Zero], head |-> 0, tail |-> 0]
  /\ data \in Byte
  /\ rv = 0 /\ call = "init"

\* ring_buffer_init; its header says it can also be used to empty the ring.
Reset ==
  /\ ring' = [ring EXCEPT !.tail = 0, !.head = 0]
  /\ rv' = 0 /\ call' = "init"
  /\ UNCHANGED data

Queue(b) ==
  /\ ring' = Queued(ring, b)
  /\ rv' = 0 /\ call' = "queue"
  /\ UNCHANGED data

Dequeue ==
  /\ ~IsEmptyOf(ring)
  /\ data' = ring.buffer[ring.tail]
  /\ ring' = [ring EXCEPT !.tail = Mask(@ + 1)]
  /\ rv' = 1 /\ call' = "dequeue"

DequeueEmpty ==
  /\ IsEmptyOf(ring)
  /\ rv' = 0 /\ call' = "dequeue"
  /\ UNCHANGED <<ring, data>>

\* ring_buffer_dequeue_arr_no_ret does not compare len with the number of
\* items.  Its only caller, nRF52_csCorrect, has checked that the whole frame
\* is there (nRF52_BodyPartPresent), so len is at most NumItemsOf(ring).
DequeueArrNoRet(len) ==
  /\ ~IsEmptyOf(ring)
  /\ len <= NumItemsOf(ring)
  /\ ring' = [ring EXCEPT !.tail = Mask(@ + len)]
  /\ rv' = 1 /\ call' = "skip"
  /\ UNCHANGED data

Peek(index) ==
  /\ index < NumItemsOf(ring)
  /\ data' = ring.buffer[Mask(ring.tail + index)]
  /\ rv' = 1 /\ call' = "peek"
  /\ UNCHANGED ring

PeekBeyond(index) ==
  /\ index >= NumItemsOf(ring)
  /\ rv' = 0 /\ call' = "peek"
  /\ UNCHANGED <<ring, data>>

Next ==
  \/ Reset
  \/ \E b \in Byte : Queue(b)
  \/ Dequeue
  \/ DequeueEmpty
  \/ \E len \in 1 .. Size - 1 : DequeueArrNoRet(len)
  \/ \E index \in Index : Peek(index)
  \/ \E index \in Index : PeekBeyond(index)

Spec == Init /\ [][Next]_vars

-----------------------------------------------------------------------------
\* Type invariant: both indices stay inside the array whatever the sequence
\* of calls, although no call checks an index before it uses it.
TypeOK ==
  /\ ring \in [buffer : [Index -> Byte], head : Index, tail : Index]
  /\ data \in Byte
  /\ rv \in {0, 1}
  /\ call \in {"init", "queue", "dequeue", "skip", "peek"}

\* The bytes between the two indices, oldest first.
UnreadOf(r) ==
  [i \in 1 .. NumItemsOf(r) |-> r.buffer[Mask(r.tail + (i - 1))]]

Unread == UnreadOf(ring)

LQ == INSTANCE LossyQueue WITH Capacity <- Size - 1, q <- Unread

\* Every sequence of calls of the ring buffer is one of a queue that holds
\* Size - 1 bytes, gives them back in order and loses only the oldest byte
\* of a full queue ("Only RING_BUFFER_SIZE-1 items can be contained",
\* "overwrite oldest byte").
ImplementsLossyQueue == LQ!QSpec

=============================================================================
