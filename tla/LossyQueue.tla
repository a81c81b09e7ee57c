----------------------------- MODULE LossyQueue -----------------------------
(***************************************************************************)
(* What the firmware's byte queues promise their two users, the UART       *)
(* interrupt that fills them and the thread that drains them: a queue of   *)
(* at most Capacity bytes, first in first out, in which a byte put into a  *)
(* full queue pushes out the oldest one and nothing else ever goes missing.*)
(* lib/ring_buffer implements it with an array and two indices             *)
(* (RingBuffer).                                                           *)
(***************************************************************************)
EXTENDS Naturals, Sequences

CONSTANTS Byte,     \* the values of a byte
          Capacity  \* the most bytes the queue holds, at least one

VARIABLES q,     \* the bytes not yet taken, oldest first
          data,  \* the caller's variable the last read wrote to
          rv,    \* what the last operation returned (0 for void operations)
          call   \* which operation that was

qvars == <<q, data, rv, call>>

QInit ==
  /\ q = <<>>
  /\ data \in Byte
  /\ rv = 0 /\ call = "init"

Empty ==
  /\ q' = <<>>
  /\ rv' = 0 /\ call' = "init"
  /\ UNCHANGED data

Put(b) ==
  /\ q' = Append(IF Len(q) = Capacity THEN Tail(q) ELSE q, b)
  /\ rv' = 0 /\ call' = "queue"
  /\ UNCHANGED data

Get ==
  /\ q # <<>>
  /\ data' = Head(q)
  /\ q' = Tail(q)
  /\ rv' = 1 /\ call' = "dequeue"

\* Forget the n oldest bytes, which the caller has looked at with LookAt.
Forget(n) ==
  /\ n \in 1 .. Len(q)
  /\ q' = SubSeq(q, n + 1, Len(q))
  /\ rv' = 1 /\ call' = "skip"
  /\ UNCHANGED data

\* Read the byte i places behind the oldest one and leave it in the queue.
LookAt(i) ==
  /\ i + 1 \in DOMAIN q
  /\ data' = q[i + 1]
  /\ rv' = 1 /\ call' = "peek"
  /\ UNCHANGED q

\* A read that finds nothing, and only such a one, answers 0 and leaves the
\* caller's variable alone.
GetNothing ==
  /\ q = <<>>
  /\ rv' = 0 /\ call' = "dequeue"
  /\ UNCHANGED <<q, data>>

LookBeyond(i) ==
  /\ i >= Len(q)
  /\ rv' = 0 /\ call' = "peek"
  /\ UNCHANGED <<q, data>>

QNext ==
  \/ Empty
  \/ \E b \in Byte : Put(b)
  \/ Get
  \/ \E n \in 1 .. Capacity : Forget(n)
  \/ \E i \in 0 .. Capacity : LookAt(i)
  \/ GetNothing
  \/ \E i \in 0 .. Capacity : LookBeyond(i)

QSpec == QInit /\ [][QNext]_qvars

=============================================================================
