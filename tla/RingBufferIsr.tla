---------------------------- MODULE RingBufferIsr ----------------------------
(***************************************************************************)
(* The byte ring of lib/ring_buffer shared, with no lock, by a UART        *)
(* interrupt and the thread that parses its bytes (nRF52_RxHandler and     *)
(* nRF52_prot_decoder on the 8x ring, cpl_RxHandler and cpl_prot_decoder   *)
(* on the 4x ring).  The interrupt runs to completion; the thread's calls  *)
(* are cut where the compiled code touches head_index, tail_index or the   *)
(* buffer, and the interrupt may run at every cut.  The indices are not    *)
(* volatile, but *data is a char store, which may alias them, so           *)
(* ring_buffer_dequeue loads tail_index again after it.                    *)
(*                                                                         *)
(* A byte is the number of bytes that came before it plus one, so that     *)
(* order and loss are visible.                                             *)
(***************************************************************************)
EXTENDS Integers, Sequences, FiniteSets

CONSTANTS Size,      \* RING_BUFFER_SIZE
          FrameLen,  \* the length byte of the frame nRF52_BuildBody copies
          Kept,      \* what nRF52_csCorrect leaves in the ring (3)
          MaxBytes   \* bound: bytes the UART receives

ASSUME RingAssumption ==
  /\ Size \in Nat /\ Size > 1
  /\ FrameLen \in Nat /\ Kept \in Nat /\ Kept < FrameLen /\ FrameLen < Size
  /\ MaxBytes \in Nat

VARIABLES
  buffer, head, tail,  \* the struct ring_buffer_t
  pc,                  \* where the thread is in its call
  reg,                 \* tail_index as the thread last loaded it
  val,                 \* the byte the thread's dequeue has read
  frame,               \* the bytes nRF52_BuildBody has copied
  received,            \* history: bytes the interrupt has queued
  taken,               \* history: bytes the thread took, in its order
  overwritten,         \* history: bytes the interrupt pushed out
  raced                \* history: one was pushed out during a thread's call

ringVars == <<buffer, head, tail>>
vars == <<buffer, head, tail, pc, reg, val, frame, received, taken, overwritten, raced>>

Index == 0 .. Size - 1

\* Mutant of Mask: the mask is forgotten.
MaskMissing(x) == x

Mask(x) == x % Size

NumItems == Mask(head - tail)

\* Mutant of IsFull: full only when every slot is used.
IsFullLate == NumItems = Size

IsFull == NumItems = Size - 1

IsEmpty == head = tail

Init ==
  /\ buffer = [i \in Index |-> 0]
  /\ head = 0
  /\ tail = 0
  /\ pc = "idle"
  /\ reg = 0
  /\ val = 0
  /\ frame = <<>>
  /\ received = 0
  /\ taken = <<>>
  /\ overwritten = {}
  /\ raced = FALSE

-----------------------------------------------------------------------------
\* The interrupt: ring_buffer_queue of the next byte.
RxIsr ==
  /\ received < MaxBytes
  /\ received' = received + 1
  /\ IF IsFull
     THEN /\ tail' = Mask(tail + 1)
          /\ overwritten' = overwritten \cup {buffer[tail]}
          /\ raced' = (raced \/ pc # "idle")
     ELSE UNCHANGED <<tail, overwritten, raced>>
  /\ buffer' = [buffer EXCEPT ![head] = received + 1]
  /\ head' = Mask(head + 1)
  /\ UNCHANGED <<pc, reg, val, frame, taken>>

At(from, to) == pc = from /\ pc' = to

\* ring_buffer_dequeue.  A test that reads the two indices around an interrupt
\* can only take a ring for emptier than it is, and the call then returns 0.
DequeueCheck ==
  /\ At("idle", "load")
  /\ ~IsEmpty
  /\ UNCHANGED <<ringVars, reg, val, frame, received, taken, overwritten, raced>>

DequeueLoad ==
  /\ At("load", "read")
  /\ reg' = tail
  /\ UNCHANGED <<ringVars, val, frame, received, taken, overwritten, raced>>

DequeueRead ==
  /\ At("read", "reload")
  /\ val' = buffer[reg]
  /\ UNCHANGED <<ringVars, reg, frame, received, taken, overwritten, raced>>

DequeueReload ==
  /\ At("reload", "store")
  /\ reg' = tail
  /\ UNCHANGED <<ringVars, val, frame, received, taken, overwritten, raced>>

DequeueStore ==
  /\ At("store", "idle")
  /\ tail' = Mask(reg + 1)
  /\ taken' = Append(taken, val)
  /\ UNCHANGED <<buffer, head, reg, val, frame, received, overwritten, raced>>

\* Mutant of BodyPresent: one byte short of a frame is enough.
BodyPresentEarly ==
  /\ At("idle", "peek")
  /\ NumItems >= FrameLen - 1
  /\ frame' = <<>>
  /\ UNCHANGED <<ringVars, reg, val, received, taken, overwritten, raced>>

\* nRF52_BodyPartPresent, then nRF52_BuildBody: one ring_buffer_peek per byte
\* of the frame, each with its own load of tail_index.
BodyPresent ==
  /\ At("idle", "peek")
  /\ NumItems >= FrameLen
  /\ frame' = <<>>
  /\ UNCHANGED <<ringVars, reg, val, received, taken, overwritten, raced>>

PeekLoad ==
  /\ Len(frame) < FrameLen
  /\ At("peek", "peekRead")
  /\ reg' = tail
  /\ UNCHANGED <<ringVars, val, frame, received, taken, overwritten, raced>>

PeekRead ==
  /\ At("peekRead", "peek")
  /\ frame' = Append(frame, buffer[Mask(reg + Len(frame))])
  /\ UNCHANGED <<ringVars, reg, val, received, taken, overwritten, raced>>

\* nRF52_csCorrect on a frame with a wrong checksum: nothing is dequeued.
ChecksumBad ==
  /\ Len(frame) = FrameLen
  /\ At("peek", "idle")
  /\ UNCHANGED <<ringVars, reg, val, frame, received, taken, overwritten, raced>>

\* nRF52_csCorrect on a good frame: ring_buffer_dequeue_arr_no_ret(length - 3).
SkipLoad ==
  /\ Len(frame) = FrameLen
  /\ At("peek", "skipStore")
  /\ reg' = tail
  /\ UNCHANGED <<ringVars, val, frame, received, taken, overwritten, raced>>

\* Mutant of SkipStore: the whole frame is dequeued.
SkipStoreAll ==
  /\ At("skipStore", "idle")
  /\ tail' = Mask(reg + FrameLen)
  /\ taken' = taken \o SubSeq(frame, 1, FrameLen - Kept)
  /\ UNCHANGED <<buffer, head, reg, val, frame, received, overwritten, raced>>

SkipStore ==
  /\ At("skipStore", "idle")
  /\ tail' = Mask(reg + (FrameLen - Kept))
  /\ taken' = taken \o SubSeq(frame, 1, FrameLen - Kept)
  /\ UNCHANGED <<buffer, head, reg, val, frame, received, overwritten, raced>>

Thread ==
  \/ DequeueCheck \/ DequeueLoad \/ DequeueRead \/ DequeueReload \/ DequeueStore
  \/ BodyPresent \/ PeekLoad \/ PeekRead \/ ChecksumBad \/ SkipLoad \/ SkipStore

Next == RxIsr \/ Thread

Spec == Init /\ [][Next]_vars

-----------------------------------------------------------------------------
TypeOK ==
  /\ buffer \in [Index -> 0 .. MaxBytes]
  /\ head \in Index /\ tail \in Index /\ reg \in Index
  /\ pc \in {"idle", "load", "read", "reload", "store", "peek", "peekRead", "skipStore"}
  /\ val \in 0 .. MaxBytes
  /\ frame \in Seq(0 .. MaxBytes) /\ Len(frame) <= FrameLen
  /\ received \in 0 .. MaxBytes
  /\ taken \in Seq(0 .. MaxBytes)
  /\ overwritten \subseteq 0 .. MaxBytes
  /\ raced \in BOOLEAN

\* The bytes between the indices.
Unread == {buffer[Mask(tail + i)] : i \in 0 .. NumItems - 1}

TakenSet == {taken[i] : i \in DOMAIN taken}

\* As long as the interrupt never found the ring full, the thread has taken
\* the bytes in the order they came, none missing and none twice, however the
\* steps of its calls interleave with the interrupt: a ring with one producer
\* and one consumer needs no lock.
LosslessUntilFull ==
  overwritten = {} =>
    /\ \A i \in DOMAIN taken : taken[i] = i
    /\ pc = "idle" => NumItems = received - Len(taken)

\* Bytes pushed out while the thread is between two calls cost nothing but
\* themselves: every byte is unread, taken or overwritten, and only one of
\* the three, and what was taken is in order.
AccountedUnlessRaced ==
  ~raced =>
    /\ \A i, j \in DOMAIN taken : i < j => taken[i] < taken[j]
    /\ Unread \cup TakenSet \cup overwritten = 1 .. received
    /\ overwritten \cap (Unread \cup TakenSet) = {}
    /\ pc = "idle" => Unread \cap TakenSet = {}

\* A frame that nRF52_BuildBody copies is a run of consecutive bytes unless a
\* byte was pushed out during a call: the copy is not torn.
FrameNotTornUnlessRaced ==
  ~raced => \A i \in DOMAIN frame : frame[i] = frame[1] + (i - 1)

=============================================================================
