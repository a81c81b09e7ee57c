-------------------------- MODULE RingBuffer_proofs --------------------------
(***************************************************************************)
(* Theorems about RingBuffer for every Size > 1 and every set of bytes:    *)
(* the indices never leave the array, and the ring implements LossyQueue.  *)
(* The argument for the second: Unread is a window of the array that       *)
(* starts at tail; a step either moves one end of the window or leaves it, *)
(* and the slot Queue overwrites is always the one slot outside it.        *)
(***************************************************************************)
EXTENDS RingBuffer, SequenceTheorems, TLAPS

\* The mask of an index that ran over the end of the array, or below its
\* start, brings it back by one array length.
LEMMA MaskCases ==
  ASSUME NEW x \in Int, -Size <= x, x < 2 * Size
  PROVE  Mask(x) = IF x < 0 THEN x + Size ELSE IF x >= Size THEN x - Size ELSE x
<1>1. CASE x < 0
  BY <1>1, SizeAssumption DEF Mask
<1>2. CASE x \in 0 .. Size - 1
  BY <1>2, SizeAssumption DEF Mask
<1>3. CASE x >= Size
  BY <1>3, SizeAssumption DEF Mask
<1>. QED
  BY <1>1, <1>2, <1>3, SizeAssumption

LEMMA MaskIndex ==
  ASSUME NEW x \in Int
  PROVE  Mask(x) \in Index
BY SizeAssumption DEF Mask, Index

\* One call keeps the types.
LEMMA QueuedType ==
  ASSUME TypeOK, NEW b \in Byte
  PROVE  Queued(ring, b) \in [buffer : [Index -> Byte], head : Index, tail : Index]
<1>0. ring.head + 1 \in Int /\ ring.tail + 1 \in Int
  BY SizeAssumption DEF TypeOK, Index
<1>1. Mask(ring.head + 1) \in Index /\ Mask(ring.tail + 1) \in Index
  BY <1>0, MaskIndex
<1>. QED
  BY <1>1 DEF Queued, TypeOK

LEMMA TypeStep == TypeOK /\ [Next]_vars => TypeOK'
<1>. SUFFICES ASSUME TypeOK, [Next]_vars PROVE TypeOK'
  OBVIOUS
<1>. USE DEF TypeOK
<1>0. ring.head \in Int /\ ring.tail \in Int /\ 0 \in Index /\ Index \subseteq Int
  BY SizeAssumption DEF Index
<1>1. CASE Reset
  BY <1>0, <1>1 DEF Reset
<1>2. ASSUME NEW b \in Byte, Queue(b) PROVE TypeOK'
  BY <1>2, QueuedType DEF Queue
<1>3. CASE Dequeue
  <2>1. Mask(ring.tail + 1) \in Index
    BY <1>0, MaskIndex
  <2>. QED
    BY <1>3, <2>1 DEF Dequeue
<1>4. CASE DequeueEmpty
  BY <1>4 DEF DequeueEmpty
<1>5. ASSUME NEW len \in 1 .. Size - 1, DequeueArrNoRet(len) PROVE TypeOK'
  <2>1. Mask(ring.tail + len) \in Index
    BY <1>0, MaskIndex, SizeAssumption
  <2>. QED
    BY <1>5, <2>1 DEF DequeueArrNoRet
<1>6. ASSUME NEW index \in Index, Peek(index) PROVE TypeOK'
  <2>1. Mask(ring.tail + index) \in Index
    BY <1>0, MaskIndex
  <2>. QED
    BY <1>6, <2>1 DEF Peek
<1>7. ASSUME NEW index \in Index, PeekBeyond(index) PROVE TypeOK'
  BY <1>7 DEF PeekBeyond
<1>8. CASE UNCHANGED vars
  BY <1>8 DEF vars
<1>. QED
  BY <1>1, <1>2, <1>3, <1>4, <1>5, <1>6, <1>7, <1>8 DEF Next

\* The indices stay inside the array for every size: no sequence of calls
\* makes ring_buffer_queue write, or a read read, outside the buffer.
THEOREM TypeCorrect == Spec => []TypeOK
<1>1. Init => TypeOK
  BY ZeroAssumption, SizeAssumption DEF Init, TypeOK, Index
<1>. QED
  BY <1>1, TypeStep, PTL DEF Spec
-----------------------------------------------------------------------------
Ring == [buffer : [Index -> Byte], head : Index, tail : Index]

\* The window of unread bytes is a sequence of the length the code computes.
LEMMA UnreadSeq ==
  ASSUME NEW r \in Ring
  PROVE  /\ NumItemsOf(r) \in Index
         /\ UnreadOf(r) \in Seq(Byte)
         /\ Len(UnreadOf(r)) = NumItemsOf(r)
         /\ DOMAIN UnreadOf(r) = 1 .. NumItemsOf(r)
         /\ \A i \in 1 .. NumItemsOf(r) :
              UnreadOf(r)[i] = r.buffer[Mask(r.tail + (i - 1))]
<1>1. r.head - r.tail \in Int
  BY SizeAssumption DEF Ring, Index
<1>2. NumItemsOf(r) \in Index
  BY <1>1, MaskIndex DEF NumItemsOf
<1>3. \A i \in 1 .. NumItemsOf(r) : Mask(r.tail + (i - 1)) \in Index
  <2>. TAKE i \in 1 .. NumItemsOf(r)
  <2>1. r.tail + (i - 1) \in Int
    BY <1>2, SizeAssumption DEF Ring, Index
  <2>. QED
    BY <2>1, MaskIndex
<1>4. \A i \in 1 .. NumItemsOf(r) : r.buffer[Mask(r.tail + (i - 1))] \in Byte
  BY <1>3 DEF Ring
<1>5. NumItemsOf(r) \in Nat
  BY <1>2, SizeAssumption DEF Index
<1>6. UnreadOf(r) \in [1 .. NumItemsOf(r) -> Byte]
  BY <1>4 DEF UnreadOf
<1>7. UnreadOf(r) \in Seq(Byte)
  BY <1>5, <1>6, SeqDef
<1>. QED
  BY <1>2, <1>5, <1>6, <1>7, LenProperties DEF UnreadOf

\* Taking n bytes off the tail leaves the rest of the window.
LEMMA UnreadDrop ==
  ASSUME NEW r \in Ring, NEW n \in 1 .. NumItemsOf(r),
         NEW s \in Ring, s.buffer = r.buffer, s.head = r.head,
         s.tail = Mask(r.tail + n)
  PROVE  UnreadOf(s) = SubSeq(UnreadOf(r), n + 1, NumItemsOf(r))
<1>. DEFINE m == NumItemsOf(r)
<1>1. m \in Index /\ n \in Int /\ n <= m /\ n > 0
  BY UnreadSeq, SizeAssumption DEF Index
<1>2. /\ r.head \in Index /\ r.tail \in Index /\ s.tail \in Index /\ s.head = r.head
      /\ m \in Int /\ m < Size
  BY <1>1, SizeAssumption DEF Ring, Index
<1>3. m = IF r.head < r.tail THEN r.head - r.tail + Size ELSE r.head - r.tail
  BY <1>2, MaskCases, SizeAssumption DEF NumItemsOf, Index
<1>4. s.tail = IF r.tail + n >= Size THEN r.tail + n - Size ELSE r.tail + n
  BY <1>1, <1>2, MaskCases, SizeAssumption DEF Index
<1>5. NumItemsOf(s) = IF s.head < s.tail THEN s.head - s.tail + Size ELSE s.head - s.tail
  BY <1>2, MaskCases, SizeAssumption DEF NumItemsOf, Index
<1>6. NumItemsOf(s) = m - n
  BY <1>1, <1>2, <1>3, <1>4, <1>5, SizeAssumption DEF Index
<1>7. ASSUME NEW i \in 1 .. m - n
      PROVE  Mask(s.tail + (i - 1)) = Mask(r.tail + (n + i - 1))
  <2>. DEFINE x == s.tail + (i - 1)
              y == r.tail + (n + i - 1)
  <2>1. x \in Int /\ -Size <= x /\ x < 2 * Size /\ 0 <= x
    BY <1>1, <1>2, SizeAssumption DEF Index
  <2>2. y \in Int /\ -Size <= y /\ y < 2 * Size /\ 0 <= y
    BY <1>1, <1>2, SizeAssumption DEF Index
  <2>3. y = x \/ y = x + Size
    BY <1>1, <1>2, <1>4, SizeAssumption DEF Index
  <2>. HIDE DEF x, y
  <2>4. Mask(x) = IF x >= Size THEN x - Size ELSE x
    BY <2>1, MaskCases, SizeAssumption
  <2>5. Mask(y) = IF y >= Size THEN y - Size ELSE y
    BY <2>2, MaskCases, SizeAssumption
  <2>6. Mask(x) = Mask(y)
    BY <2>1, <2>2, <2>3, <2>4, <2>5, SizeAssumption
  <2>. QED
    BY <2>6 DEF x, y
<1>8. \A i \in 1 .. m - n : UnreadOf(s)[i] = UnreadOf(r)[n + i]
  <2>. TAKE i \in 1 .. m - n
  <2>1. UnreadOf(s)[i] = s.buffer[Mask(s.tail + (i - 1))]
    BY <1>6, UnreadSeq
  <2>2. n + i \in 1 .. m /\ (n + i) - 1 = n + i - 1
    BY <1>1, <1>2
  <2>3. UnreadOf(r)[n + i] = r.buffer[Mask(r.tail + (n + i - 1))]
    BY <2>2, UnreadSeq
  <2>. QED
    BY <1>7, <2>1, <2>3
<1>. DEFINE w == SubSeq(UnreadOf(r), n + 1, m)
<1>9. \A i \in n + 1 .. m : UnreadOf(r)[i] \in Byte
  BY <1>1, <1>2, UnreadSeq, ElementOfSeq
<1>10. /\ w \in Seq(Byte)
       /\ Len(w) = m - n
       /\ \A i \in 1 .. m - n : w[i] = UnreadOf(r)[n + i]
  <2>1. n + 1 \in Int /\ m \in Int /\ m - (n + 1) + 1 = m - n
    BY <1>1, <1>2
  <2>2. /\ w \in Seq(Byte)
        /\ Len(w) = IF n + 1 <= m THEN m - (n + 1) + 1 ELSE 0
        /\ \A i \in 1 .. m - (n + 1) + 1 : w[i] = UnreadOf(r)[(n + 1) + i - 1]
    BY <1>9, <2>1, SubSeqProperties
  <2>. QED
    BY <1>1, <1>2, <2>2
<1>11. UnreadOf(s) \in Seq(Byte) /\ Len(UnreadOf(s)) = m - n
  BY <1>6, UnreadSeq
<1>. QED
  BY <1>8, <1>10, <1>11, SeqEqual

\* Putting a byte into a ring that is not full leaves the window where it is
\* and makes it one slot longer.
LEMMA UnreadAppend ==
  ASSUME NEW r \in Ring, NEW b \in Byte, ~IsFullOf(r)
  PROVE  UnreadOf(Queued(r, b)) = Append(UnreadOf(r), b)
<1>. DEFINE m == NumItemsOf(r)
            s == Queued(r, b)
<1>1. m \in Int /\ 0 <= m /\ m < Size - 1
  BY UnreadSeq, SizeAssumption DEF Index, IsFullOf
<1>2. r.head \in Index /\ r.tail \in Index /\ r.buffer \in [Index -> Byte]
  BY DEF Ring
<1>3. m = IF r.head < r.tail THEN r.head - r.tail + Size ELSE r.head - r.tail
  BY <1>2, MaskCases, SizeAssumption DEF NumItemsOf, Index
<1>4. /\ s.buffer = [r.buffer EXCEPT ![r.head] = b]
      /\ s.head = Mask(r.head + 1)
      /\ s.tail = r.tail
  BY DEF Queued
<1>5. s.head = IF r.head + 1 >= Size THEN r.head + 1 - Size ELSE r.head + 1
  BY <1>2, <1>4, MaskCases, SizeAssumption DEF Index
<1>6. s \in Ring
  BY <1>2, <1>4, <1>5, SizeAssumption DEF Ring, Queued, Index
<1>7. NumItemsOf(s) = IF s.head < s.tail THEN s.head - s.tail + Size ELSE s.head - s.tail
  BY <1>2, <1>4, <1>6, MaskCases, SizeAssumption DEF NumItemsOf, Ring, Index
<1>8. NumItemsOf(s) = m + 1
  <2>1. /\ Size \in Int /\ r.head \in Int /\ r.tail \in Int /\ s.tail = r.tail
        /\ 0 <= r.head /\ r.head < Size /\ 0 <= r.tail /\ r.tail < Size
    BY <1>2, <1>4, SizeAssumption DEF Index
  <2>2. ASSUME NEW h \in Int, NEW t \in Int, NEW h1, NEW k, NEW k1,
               0 <= h, h < Size, 0 <= t, t < Size, k < Size - 1,
               k = IF h < t THEN h - t + Size ELSE h - t,
               h1 = IF h + 1 >= Size THEN h + 1 - Size ELSE h + 1,
               k1 = IF h1 < t THEN h1 - t + Size ELSE h1 - t
        PROVE  k1 = k + 1
    BY <2>1, <2>2
  <2>. HIDE DEF m, s
  <2>. QED
    BY <1>1, <1>3, <1>5, <1>7, <2>1, <2>2
<1>9. ASSUME NEW i \in 1 .. m + 1
      PROVE  UnreadOf(s)[i] = IF i = m + 1 THEN b ELSE UnreadOf(r)[i]
  <2>. DEFINE x == r.tail + (i - 1)
  <2>1. x \in Int /\ -Size <= x /\ x < 2 * Size /\ 0 <= x
    BY <1>1, <1>2, SizeAssumption DEF Index
  <2>2. Mask(x) = IF x >= Size THEN x - Size ELSE x
    <3>. HIDE DEF x
    <3>. QED  BY <2>1, MaskCases, SizeAssumption
  <2>3. i = m + 1 <=> Mask(x) = r.head
    <3>1. ASSUME NEW z \in Int, NEW h \in Int, NEW t \in Int, NEW k \in Int, NEW j \in Int, NEW y,
                 0 <= h, h < z, 0 <= t, t < z, k < z - 1,
                 k = IF h < t THEN h - t + z ELSE h - t,
                 1 <= j, j <= k + 1,
                 y = IF t + (j - 1) >= z THEN t + (j - 1) - z ELSE t + (j - 1)
          PROVE  j = k + 1 <=> y = h
      BY <3>1
    <3>2. /\ Size \in Int /\ r.head \in Int /\ r.tail \in Int /\ m \in Int /\ i \in Int
          /\ 0 <= r.head /\ r.head < Size /\ 0 <= r.tail /\ r.tail < Size
          /\ 1 <= i /\ i <= m + 1
      BY <1>1, <1>2, SizeAssumption DEF Index
    <3>. HIDE DEF m
    <3>. QED
      BY <1>1, <1>3, <2>2, <3>1, <3>2
  <2>4. Mask(x) \in Index
    BY <2>1, MaskIndex
  <2>5. UnreadOf(s)[i] = s.buffer[Mask(x)]
    BY <1>4, <1>6, <1>8, UnreadSeq
  <2>6. CASE i = m + 1
    BY <1>2, <1>4, <2>3, <2>5, <2>6
  <2>7. CASE i # m + 1
    <3>1. i \in 1 .. m
      BY <1>1, <2>7
    <3>2. UnreadOf(r)[i] = r.buffer[Mask(x)]
      BY <3>1, UnreadSeq
    <3>. QED
      BY <1>2, <1>4, <2>3, <2>4, <2>5, <2>7, <3>2
  <2>. QED
    BY <2>6, <2>7
<1>10. UnreadOf(r) \in Seq(Byte) /\ Len(UnreadOf(r)) = m
  BY UnreadSeq
<1>11. /\ Append(UnreadOf(r), b) \in Seq(Byte)
       /\ Len(Append(UnreadOf(r), b)) = m + 1
       /\ \A i \in 1 .. m + 1 : Append(UnreadOf(r), b)[i] =
                               IF i = m + 1 THEN b ELSE UnreadOf(r)[i]
  BY <1>1, <1>10, AppendProperties
<1>12. UnreadOf(s) \in Seq(Byte) /\ Len(UnreadOf(s)) = m + 1
  BY <1>6, <1>8, UnreadSeq
<1>. QED
  BY <1>9, <1>11, <1>12, SeqEqual

\* Putting a byte into a full ring first gives up the oldest byte: the slot
\* written is the free one, never one of the bytes that stay.
LEMMA UnreadOverwrite ==
  ASSUME NEW r \in Ring, NEW b \in Byte, IsFullOf(r)
  PROVE  UnreadOf(Queued(r, b)) = Append(Tail(UnreadOf(r)), b)
<1>. DEFINE t == [r EXCEPT !.tail = Mask(r.tail + 1)]
<1>1. r.head \in Index /\ r.tail \in Index /\ r.buffer \in [Index -> Byte] /\ r.tail + 1 \in Int
  BY SizeAssumption DEF Ring, Index
<1>2. t \in Ring /\ t.buffer = r.buffer /\ t.head = r.head /\ t.tail = Mask(r.tail + 1)
  <2>1. Mask(r.tail + 1) \in Index
    BY <1>1, MaskIndex
  <2>. QED
    BY <2>1 DEF Ring
<1>3. NumItemsOf(r) = Size - 1 /\ 1 \in 1 .. NumItemsOf(r)
  BY SizeAssumption DEF IsFullOf
<1>4. UnreadOf(t) = SubSeq(UnreadOf(r), 2, NumItemsOf(r))
  <2>1. UnreadOf(t) = SubSeq(UnreadOf(r), 1 + 1, NumItemsOf(r))
    BY <1>2, <1>3, UnreadDrop
  <2>. QED
    BY <2>1
<1>5. UnreadOf(t) = Tail(UnreadOf(r))
  <2>1. UnreadOf(r) \in Seq(Byte) /\ Len(UnreadOf(r)) = NumItemsOf(r)
    BY UnreadSeq
  <2>2. UnreadOf(r) # <<>>
    BY <1>3, <2>1, SizeAssumption
  <2>. QED
    BY <1>4, <2>1, <2>2, TailIsSubSeq
<1>6. NumItemsOf(t) = Size - 2
  <2>1. Len(UnreadOf(t)) = NumItemsOf(t)
    BY <1>2, UnreadSeq
  <2>2. UnreadOf(r) \in Seq(Byte) /\ Len(UnreadOf(r)) = NumItemsOf(r) /\ UnreadOf(r) # <<>>
    BY <1>3, UnreadSeq, SizeAssumption
  <2>3. Len(Tail(UnreadOf(r))) = Size - 2
    BY <1>3, <2>2, HeadTailProperties, SizeAssumption
  <2>. QED
    BY <1>5, <2>1, <2>3
<1>7. ~IsFullOf(t)
  BY <1>6, SizeAssumption DEF IsFullOf
<1>8. Queued(r, b) = Queued(t, b)
  BY <1>2, <1>7 DEF Queued
<1>. QED
  BY <1>2, <1>5, <1>7, <1>8, UnreadAppend

-----------------------------------------------------------------------------
\* A typed state has a well-formed ring.
LEMMA RingTyped == TypeOK => ring \in Ring
BY DEF TypeOK, Ring

LEMMA InitRefines == Init => LQ!QInit
<1>. SUFFICES ASSUME Init PROVE LQ!QInit
  OBVIOUS
<1>1. ring \in Ring /\ ring.head = 0 /\ ring.tail = 0
  BY ZeroAssumption, SizeAssumption DEF Init, Ring, Index
<1>2. NumItemsOf(ring) = 0
  BY <1>1, MaskCases, SizeAssumption DEF NumItemsOf
<1>3. Unread = <<>>
  BY <1>1, <1>2, UnreadSeq, EmptySeq DEF Unread
<1>. QED
  BY <1>3 DEF Init, LQ!QInit

\* Each call of the ring is the queue operation of the same meaning.
LEMMA StepRefines == TypeOK /\ [Next]_vars => [LQ!QNext]_(LQ!qvars)
<1>. SUFFICES ASSUME TypeOK, [Next]_vars PROVE [LQ!QNext]_(LQ!qvars)
  OBVIOUS
<1>. USE DEF LQ!QNext
<1>0. /\ ring \in Ring /\ ring' \in Ring
      /\ Unread \in Seq(Byte) /\ Len(Unread) = NumItemsOf(ring)
      /\ NumItemsOf(ring) \in Index
  BY RingTyped, TypeStep, UnreadSeq DEF Unread, TypeOK, Ring
<1>1. CASE Reset
  <2>1. ring'.head = 0 /\ ring'.tail = 0
    BY <1>0, <1>1 DEF Reset, Ring
  <2>2. NumItemsOf(ring') = 0
    BY <2>1, MaskCases, SizeAssumption DEF NumItemsOf
  <2>3. Unread' = <<>>
    BY <1>0, <2>2, UnreadSeq, EmptySeq DEF Unread
  <2>4. LQ!Empty
    BY <1>1, <2>3 DEF Reset, LQ!Empty
  <2>. QED
    BY <2>4
<1>2. ASSUME NEW b \in Byte, Queue(b) PROVE [LQ!QNext]_(LQ!qvars)
  <2>1. Unread' = Append(IF Len(Unread) = Size - 1 THEN Tail(Unread) ELSE Unread, b)
    <3>1. Unread' = UnreadOf(Queued(ring, b))
      BY <1>2 DEF Queue, Unread
    <3>2. CASE IsFullOf(ring)
      BY <1>0, <3>1, <3>2, UnreadOverwrite DEF Unread, IsFullOf
    <3>3. CASE ~IsFullOf(ring)
      BY <1>0, <3>1, <3>3, UnreadAppend DEF Unread, IsFullOf
    <3>. QED
      BY <3>2, <3>3
  <2>2. LQ!Put(b)
    BY <1>2, <2>1 DEF Queue, LQ!Put
  <2>. QED
    BY <2>2
<1>3. CASE Dequeue
  <2>1. NumItemsOf(ring) # 0
    <3>1. ring.head # ring.tail /\ ring.head \in Index /\ ring.tail \in Index
      BY <1>0, <1>3 DEF Dequeue, IsEmptyOf, Ring
    <3>2. NumItemsOf(ring) = IF ring.head < ring.tail THEN ring.head - ring.tail + Size
                                                     ELSE ring.head - ring.tail
      BY <3>1, MaskCases, SizeAssumption DEF NumItemsOf, Index
    <3>. QED
      BY <3>1, <3>2, SizeAssumption DEF Index
  <2>2. 1 \in 1 .. NumItemsOf(ring) /\ NumItemsOf(ring) \in Nat
    BY <1>0, <2>1, SizeAssumption DEF Index
  <2>3. Unread # <<>>
    BY <1>0, <2>1
  <2>4. ring'.buffer = ring.buffer /\ ring'.head = ring.head /\ ring'.tail = Mask(ring.tail + 1)
    BY <1>0, <1>3 DEF Dequeue, Ring
  <2>5. Unread' = SubSeq(Unread, 1 + 1, NumItemsOf(ring))
    BY <1>0, <2>2, <2>4, UnreadDrop DEF Unread
  <2>6. Unread' = Tail(Unread)
    BY <1>0, <2>3, <2>5, TailIsSubSeq
  <2>7. data' = Head(Unread)
    <3>1. Unread[1] = ring.buffer[Mask(ring.tail + (1 - 1))]
      BY <1>0, <2>2, UnreadSeq DEF Unread
    <3>2. Mask(ring.tail + (1 - 1)) = ring.tail
      BY <1>0, MaskCases, SizeAssumption DEF Ring, Index
    <3>. QED
      BY <1>3, <3>1, <3>2 DEF Dequeue
  <2>8. LQ!Get
    BY <1>3, <2>3, <2>6, <2>7 DEF Dequeue, LQ!Get
  <2>. QED
    BY <2>8
<1>4. CASE DequeueEmpty
  <2>1. NumItemsOf(ring) = 0
    BY <1>0, <1>4, MaskCases, SizeAssumption DEF DequeueEmpty, IsEmptyOf, NumItemsOf, Ring, Index
  <2>2. Unread = <<>>
    BY <1>0, <2>1, EmptySeq
  <2>3. LQ!GetNothing
    BY <1>4, <2>2 DEF DequeueEmpty, LQ!GetNothing, Unread
  <2>. QED
    BY <2>3
<1>5. ASSUME NEW len \in 1 .. Size - 1, DequeueArrNoRet(len) PROVE [LQ!QNext]_(LQ!qvars)
  <2>1. len \in 1 .. NumItemsOf(ring)
    BY <1>0, <1>5, SizeAssumption DEF DequeueArrNoRet, Index
  <2>2. ring'.buffer = ring.buffer /\ ring'.head = ring.head /\ ring'.tail = Mask(ring.tail + len)
    BY <1>0, <1>5 DEF DequeueArrNoRet, Ring
  <2>3. Unread' = SubSeq(Unread, len + 1, NumItemsOf(ring))
    BY <1>0, <2>1, <2>2, UnreadDrop DEF Unread
  <2>4. LQ!Forget(len)
    BY <1>0, <1>5, <2>1, <2>3 DEF DequeueArrNoRet, LQ!Forget
  <2>. QED
    BY <2>4
<1>6. ASSUME NEW index \in Index, Peek(index) PROVE [LQ!QNext]_(LQ!qvars)
  <2>1. /\ index + 1 \in 1 .. NumItemsOf(ring) /\ (index + 1) - 1 = index
        /\ index \in 0 .. Size - 1
    BY <1>0, <1>6, SizeAssumption DEF Peek, Index
  <2>2. Unread[index + 1] = data' /\ index + 1 \in DOMAIN Unread
    BY <1>0, <1>6, <2>1, UnreadSeq DEF Peek, Unread
  <2>3. LQ!LookAt(index)
    BY <1>6, <2>2 DEF Peek, LQ!LookAt, Unread
  <2>. QED
    BY <2>1, <2>3
<1>7. ASSUME NEW index \in Index, PeekBeyond(index) PROVE [LQ!QNext]_(LQ!qvars)
  <2>1. index >= Len(Unread) /\ index \in 0 .. Size - 1
    BY <1>0, <1>7 DEF PeekBeyond, Index
  <2>2. LQ!LookBeyond(index)
    BY <1>7, <2>1 DEF PeekBeyond, LQ!LookBeyond, Unread
  <2>. QED
    BY <2>1, <2>2
<1>8. CASE UNCHANGED vars
  BY <1>8 DEF vars, LQ!qvars, Unread
<1>. QED
  BY <1>1, <1>2, <1>3, <1>4, <1>5, <1>6, <1>7, <1>8 DEF Next

\* For every size, the array and its two indices behave as a queue that holds
\* Size - 1 bytes, returns them in the order they came, and drops the oldest
\* byte, and only that one, when a byte comes to a full queue.
THEOREM Refinement == Spec => ImplementsLossyQueue
<1>. QED
  BY InitRefines, StepRefines, TypeCorrect, PTL
     DEF Spec, ImplementsLossyQueue, LQ!QSpec

=============================================================================
