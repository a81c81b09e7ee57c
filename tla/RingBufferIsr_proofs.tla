------------------------ MODULE RingBufferIsr_proofs ------------------------
(***************************************************************************)
(* Theorems about RingBufferIsr for every ring size, frame length and      *)
(* number of bytes: the unlocked ring is lossless and ordered until the    *)
(* interrupt finds it full, loses only the bytes pushed out until one is   *)
(* pushed out during a call of the thread, and until then tears no frame.  *)
(* None of the three is inductive: they say nothing of the thread's        *)
(* registers in the middle of a call, nor of where the bytes lie.  RingInv *)
(* adds that the unread bytes are the last ones received, slot by slot     *)
(* (Content), and that unless a call was raced only the thread moves tail  *)
(* during it, so what it loaded of tail is still tail (Call).              *)
(***************************************************************************)
EXTENDS RingBufferIsr, SequenceTheorems, TLAPS

LEMMA MaskCases ==
  ASSUME NEW x \in Int, -Size <= x, x < 2 * Size
  PROVE  Mask(x) = IF x < 0 THEN x + Size ELSE IF x >= Size THEN x - Size ELSE x
<1>1. CASE x < 0
  BY <1>1, RingAssumption DEF Mask
<1>2. CASE x \in 0 .. Size - 1
  BY <1>2, RingAssumption DEF Mask
<1>3. CASE x >= Size
  BY <1>3, RingAssumption DEF Mask
<1>. QED
  BY <1>1, <1>2, <1>3, RingAssumption

LEMMA MaskIndex ==
  ASSUME NEW x \in Int
  PROVE  Mask(x) \in Index
BY RingAssumption DEF Mask, Index

\* The length of the frame copied so far, where the thread relies on it.
TypeInv ==
  /\ TypeOK
  /\ pc = "peekRead" => Len(frame) < FrameLen
  /\ pc = "skipStore" => Len(frame) = FrameLen

\* No step leaves the types, whatever the interrupt does in between.
LEMMA TypeStep == TypeInv /\ [Next]_vars => TypeInv'
<1>. SUFFICES ASSUME TypeInv, [Next]_vars PROVE TypeInv'
  OBVIOUS
<1>. USE DEF TypeInv, TypeOK
<1>0. /\ head \in Int /\ tail \in Int /\ reg \in Int
      /\ Mask(head + 1) \in Index /\ Mask(tail + 1) \in Index /\ Mask(reg + 1) \in Index
  <2>1. head \in Int /\ tail \in Int /\ reg \in Int
    BY RingAssumption DEF Index
  <2>. QED
    BY <2>1, MaskIndex
<1>1. CASE RxIsr
  <2>1. received + 1 \in 0 .. MaxBytes /\ received' \in 0 .. MaxBytes
    BY <1>1, RingAssumption DEF RxIsr
  <2>2. buffer' \in [Index -> 0 .. MaxBytes]
    BY <1>1, <2>1 DEF RxIsr
  <2>3. head' \in Index /\ tail' \in Index
    BY <1>0, <1>1 DEF RxIsr
  <2>4. overwritten' \subseteq 0 .. MaxBytes
    <3>1. buffer[tail] \in 0 .. MaxBytes
      OBVIOUS
    <3>2. overwritten' = overwritten \/ overwritten' = overwritten \cup {buffer[tail]}
      BY <1>1 DEF RxIsr
    <3>. QED
      BY <3>1, <3>2, Zenon
  <2>5. raced' \in BOOLEAN
    BY <1>1, Zenon DEF RxIsr
  <2>. QED
    BY <1>1, <2>1, <2>2, <2>3, <2>4, <2>5 DEF RxIsr
<1>2. CASE DequeueCheck
  BY <1>2 DEF DequeueCheck, At, ringVars
<1>3. CASE DequeueLoad
  BY <1>3 DEF DequeueLoad, At, ringVars
<1>4. CASE DequeueRead
  BY <1>4 DEF DequeueRead, At, ringVars
<1>5. CASE DequeueReload
  BY <1>5 DEF DequeueReload, At, ringVars
<1>6. CASE DequeueStore
  <2>1. taken' \in Seq(0 .. MaxBytes)
    BY <1>6 DEF DequeueStore
  <2>. QED
    BY <1>0, <1>6, <2>1 DEF DequeueStore, At
<1>7. CASE BodyPresent
  <2>1. frame' \in Seq(0 .. MaxBytes) /\ Len(frame') <= FrameLen
    BY <1>7, EmptySeq, RingAssumption DEF BodyPresent
  <2>. QED
    BY <1>7, <2>1 DEF BodyPresent, At, ringVars
<1>8. CASE PeekLoad
  BY <1>8 DEF PeekLoad, At, ringVars
<1>9. CASE PeekRead
  <2>1. Len(frame) \in Nat /\ Len(frame) < FrameLen
    BY <1>9, LenProperties DEF PeekRead, At
  <2>2. Mask(reg + Len(frame)) \in Index
    BY <1>0, <2>1, MaskIndex
  <2>3. buffer[Mask(reg + Len(frame))] \in 0 .. MaxBytes
    BY <2>2
  <2>4. frame' \in Seq(0 .. MaxBytes) /\ Len(frame') = Len(frame) + 1
    BY <1>9, <2>3, AppendProperties DEF PeekRead
  <2>. QED
    BY <1>9, <2>1, <2>4, RingAssumption DEF PeekRead, At, ringVars
<1>10. CASE ChecksumBad
  BY <1>10 DEF ChecksumBad, At, ringVars
<1>11. CASE SkipLoad
  BY <1>11 DEF SkipLoad, At, ringVars
<1>12. CASE SkipStore
  <2>1. Len(frame) = FrameLen
    BY <1>12 DEF SkipStore, At
  <2>2. \A i \in 1 .. FrameLen - Kept : frame[i] \in 0 .. MaxBytes
    <3>. SUFFICES ASSUME NEW i \in 1 .. FrameLen - Kept
                  PROVE  frame[i] \in 0 .. MaxBytes
      OBVIOUS
    <3>1. i \in 1 .. Len(frame)
      BY <2>1, RingAssumption
    <3>. QED
      BY <3>1, ElementOfSeq
  <2>3. SubSeq(frame, 1, FrameLen - Kept) \in Seq(0 .. MaxBytes)
    BY <2>2, SubSeqProperties, RingAssumption
  <2>4. taken' \in Seq(0 .. MaxBytes)
    BY <1>12, <2>3, ConcatProperties DEF SkipStore
  <2>5. Mask(reg + (FrameLen - Kept)) \in Index
    BY <1>0, MaskIndex, RingAssumption
  <2>. QED
    BY <1>12, <2>4, <2>5 DEF SkipStore, At
<1>13. CASE UNCHANGED vars
  BY <1>13 DEF vars
<1>. QED
  BY <1>1, <1>2, <1>3, <1>4, <1>5, <1>6, <1>7, <1>8, <1>9, <1>10, <1>11, <1>12, <1>13
     DEF Next, Thread

LEMMA TypeInit == Init => TypeInv
BY RingAssumption, EmptySeq DEF Init, TypeInv, TypeOK, Index

\* The indices, the registers and the copies of the thread stay well typed in
\* every interleaving, for every size.
THEOREM TypeCorrect == Spec => []TypeOK
<1>1. TypeInv => TypeOK
  BY DEF TypeInv
<1>. QED
  BY <1>1, TypeInit, TypeStep, PTL DEF Spec
-----------------------------------------------------------------------------
\* The number of bytes that are no longer in the ring.
Gone == received - NumItems

\* The unread bytes are the last ones received, slot by slot.
Content ==
  /\ NumItems <= received
  /\ \A i \in 0 .. NumItems - 1 : buffer[Mask(tail + i)] = Gone + 1 + i

\* What the thread holds in the middle of a call that was not raced.
Call ==
  /\ pc \in {"load", "read", "reload", "store"} => NumItems > 0
  /\ pc \in {"read", "store", "peekRead", "skipStore"} => reg = tail
  /\ pc \in {"reload", "store"} => val = Gone + 1
  /\ pc \in {"peek", "peekRead", "skipStore"} =>
       /\ NumItems >= FrameLen
       /\ \A i \in DOMAIN frame : frame[i] = Gone + i

\* The bytes that left the ring were taken, in order, or overwritten.
Parted ==
  /\ \A i, j \in DOMAIN taken : i < j => taken[i] < taken[j]
  /\ TakenSet \cup overwritten = 1 .. Gone
  /\ TakenSet \cap overwritten = {}

InOrder == Len(taken) = Gone /\ \A i \in DOMAIN taken : taken[i] = i

Unraced == Content /\ Call /\ Parted /\ FrameNotTornUnlessRaced

RingInv ==
  /\ TypeInv
  /\ overwritten = {} => ~raced
  /\ ~raced => Unraced
  /\ overwritten = {} => InOrder

LEMMA Numbers ==
  ASSUME TypeInv
  PROVE  /\ head \in Int /\ tail \in Int /\ 0 <= head /\ head < Size /\ 0 <= tail /\ tail < Size
         /\ received \in Nat /\ NumItems \in Int /\ 0 <= NumItems /\ NumItems < Size
         /\ NumItems = IF head < tail THEN head - tail + Size ELSE head - tail
         /\ Gone \in Int
<1>1. /\ head \in Int /\ tail \in Int /\ 0 <= head /\ head < Size /\ 0 <= tail /\ tail < Size
      /\ received \in Nat
  BY RingAssumption DEF Index, TypeInv, TypeOK
<1>2. NumItems = IF head < tail THEN head - tail + Size ELSE head - tail
  <2>1. head - tail \in Int /\ -Size <= head - tail /\ head - tail < Size
    BY <1>1, RingAssumption
  <2>. QED
    BY <1>1, <2>1, MaskCases, RingAssumption DEF NumItems
<1>. QED
  BY <1>1, <1>2, RingAssumption DEF Gone

\* The arrival of a byte: appended, and the oldest pushed out of a full ring.
LEMMA RingRx ==
  ASSUME TypeInv, Content, RxIsr
  PROVE  /\ Content'
         /\ IsFull => NumItems' = NumItems /\ Gone' = Gone + 1
         /\ ~IsFull => NumItems' = NumItems + 1 /\ Gone' = Gone
<1>0. /\ head \in Int /\ tail \in Int /\ 0 <= head /\ head < Size /\ 0 <= tail /\ tail < Size
      /\ received \in Nat /\ NumItems \in Int /\ 0 <= NumItems /\ NumItems < Size
      /\ NumItems = IF head < tail THEN head - tail + Size ELSE head - tail
      /\ Size \in Nat /\ Size > 1 /\ NumItems <= received
  BY Numbers, RingAssumption DEF Content
<1>. DEFINE off == IF IsFull THEN 1 ELSE 0
            N == NumItems + 1 - off
<1>1. /\ received' = received + 1 /\ head' = Mask(head + 1) /\ tail' = Mask(tail + off)
      /\ buffer' = [buffer EXCEPT ![head] = received + 1]
  <2>1. Mask(tail + 0) = tail
    BY <1>0, MaskCases
  <2>. QED
    BY <1>0, <2>1 DEF RxIsr
<1>2. off \in {0, 1} /\ N \in Int /\ 0 <= N /\ N < Size /\ (off = 1 => NumItems = Size - 1)
  BY <1>0 DEF IsFull
<1>3. /\ head' = IF head + 1 >= Size THEN head + 1 - Size ELSE head + 1
      /\ tail' = IF tail + off >= Size THEN tail + off - Size ELSE tail + off
  <2>1. head + 1 \in Int /\ 0 <= head + 1 /\ head + 1 < 2 * Size
    BY <1>0
  <2>2. tail + off \in Int /\ 0 <= tail + off /\ tail + off < 2 * Size
    BY <1>0, <1>2
  <2>. DEFINE h == head + 1
              t == tail + off
  <2>. HIDE DEF h, t
  <2>3. Mask(h) = IF h >= Size THEN h - Size ELSE h
    BY <1>0, <2>1, MaskCases DEF h
  <2>4. Mask(t) = IF t >= Size THEN t - Size ELSE t
    <3>1. t \in Int /\ -Size <= t /\ t < 2 * Size /\ 0 <= t
      BY <1>0, <2>2 DEF t
    <3>. QED
      BY <3>1, MaskCases
  <2>5. head' = Mask(h) /\ tail' = Mask(t)
    BY <1>1 DEF h, t
  <2>. QED
    BY <1>0, <1>2, <2>3, <2>4, <2>5 DEF h, t
<1>. HIDE DEF off
<1>4. NumItems' = N
  <2>. DEFINE d == head' - tail'
  <2>1. d \in Int /\ -Size < d /\ d < Size
    BY <1>0, <1>2, <1>3
  <2>2. NumItems' = Mask(d)
    BY DEF NumItems, Mask
  <2>3. N = IF d < 0 THEN d + Size ELSE d
    BY <1>0, <1>2, <1>3
  <2>. HIDE DEF d, N
  <2>4. Mask(d) = IF d < 0 THEN d + Size ELSE d
    BY <1>0, <2>1, MaskCases
  <2>. QED
    BY <2>2, <2>3, <2>4
<1>5. Gone' = Gone + off
  BY <1>0, <1>1, <1>2, <1>4 DEF Gone
<1>6. ASSUME NEW i \in 0 .. N - 1
      PROVE  buffer'[Mask(tail' + i)] = Gone + off + 1 + i
  <2>. DEFINE x == tail' + i
              y == tail + (off + i)
  <2>1. x \in Int /\ 0 <= x /\ x < 2 * Size /\ y \in Int /\ 0 <= y /\ y < 2 * Size
    BY <1>0, <1>2, <1>3
  <2>2. y = x \/ y = x + Size
    BY <1>0, <1>2, <1>3
  <2>3. i = N - 1 => y = head \/ y = head + Size
    BY <1>0, <1>2
  <2>4. i < N - 1 => y # head /\ y # head + Size
    BY <1>0, <1>2
  <2>. HIDE DEF x, y
  <2>5. Mask(x) = IF x >= Size THEN x - Size ELSE x
    BY <1>0, <2>1, MaskCases
  <2>6. Mask(y) = IF y >= Size THEN y - Size ELSE y
    BY <1>0, <2>1, MaskCases
  <2>7. Mask(x) = Mask(y) /\ Mask(y) \in Index
    BY <1>0, <2>1, <2>2, <2>5, <2>6 DEF Index
  <2>8. CASE i = N - 1
    <3>1. Mask(y) = head
      BY <1>0, <2>1, <2>3, <2>6, <2>8
    <3>2. buffer'[head] = received + 1
      BY <1>1, <2>7, <3>1 DEF TypeInv, TypeOK
    <3>3. Gone + off + 1 + i = received + 1
      BY <1>0, <1>2, <2>8 DEF Gone
    <3>. QED
      BY <2>7, <3>1, <3>2, <3>3 DEF x
  <2>9. CASE i # N - 1
    <3>1. Mask(y) # head
      BY <1>0, <1>2, <2>1, <2>4, <2>6, <2>9
    <3>2. buffer'[Mask(y)] = buffer[Mask(y)]
      BY <1>1, <2>7, <3>1 DEF TypeInv, TypeOK
    <3>3. off + i \in 0 .. NumItems - 1
      BY <1>0, <1>2, <2>9
    <3>4. buffer[Mask(tail + (off + i))] = Gone + 1 + (off + i)
      BY <3>3 DEF Content
    <3>5. Gone + 1 + (off + i) = Gone + off + 1 + i
      BY <1>0, <1>2 DEF Gone
    <3>. QED
      BY <2>7, <3>2, <3>4, <3>5 DEF x, y
  <2>. QED
    BY <2>8, <2>9
<1>7. Content'
  <2>1. NumItems' <= received'
    BY <1>0, <1>1, <1>2, <1>4
  <2>2. \A i \in 0 .. NumItems' - 1 : buffer'[Mask(tail' + i)] = Gone' + 1 + i
    BY <1>4, <1>5, <1>6
  <2>. QED
    BY <2>1, <2>2 DEF Content, Mask
<1>. QED
  BY <1>0, <1>4, <1>5, <1>7, Numbers DEF off

\* Moving tail past n bytes leaves the others where they are.
LEMMA RingTake ==
  ASSUME TypeInv, Content, NEW n \in Nat, n <= NumItems,
         tail' = Mask(tail + n), UNCHANGED <<buffer, head, received>>
  PROVE  Content' /\ NumItems' = NumItems - n /\ Gone' = Gone + n
<1>0. /\ head \in Int /\ tail \in Int /\ 0 <= head /\ head < Size /\ 0 <= tail /\ tail < Size
      /\ received \in Nat /\ NumItems \in Int /\ 0 <= NumItems /\ NumItems < Size
      /\ NumItems = IF head < tail THEN head - tail + Size ELSE head - tail
      /\ Size \in Nat /\ Size > 1 /\ NumItems <= received
  BY Numbers, RingAssumption DEF Content
<1>1. tail' = IF tail + n >= Size THEN tail + n - Size ELSE tail + n
  BY <1>0, MaskCases
<1>2. NumItems' = NumItems - n
  <2>. DEFINE d == head - tail'
  <2>1. d \in Int /\ -Size < d /\ d < Size
    BY <1>0, <1>1
  <2>2. NumItems' = Mask(d)
    BY DEF NumItems, Mask
  <2>3. NumItems - n = IF d < 0 THEN d + Size ELSE d
    BY <1>0, <1>1
  <2>. HIDE DEF d
  <2>4. Mask(d) = IF d < 0 THEN d + Size ELSE d
    BY <1>0, <2>1, MaskCases
  <2>. QED
    BY <2>2, <2>3, <2>4
<1>3. Gone' = Gone + n
  BY <1>0, <1>2 DEF Gone
<1>4. ASSUME NEW i \in 0 .. NumItems' - 1
      PROVE  buffer[Mask(tail' + i)] = Gone' + 1 + i
  <2>. DEFINE x == tail' + i
              y == tail + (n + i)
  <2>1. x \in Int /\ 0 <= x /\ x < 2 * Size /\ y \in Int /\ 0 <= y /\ y < 2 * Size
    BY <1>0, <1>1, <1>2
  <2>2. y = x \/ y = x + Size
    BY <1>0, <1>1, <1>2
  <2>. HIDE DEF x, y
  <2>3. Mask(x) = IF x >= Size THEN x - Size ELSE x
    BY <1>0, <2>1, MaskCases
  <2>4. Mask(y) = IF y >= Size THEN y - Size ELSE y
    BY <1>0, <2>1, MaskCases
  <2>5. Mask(x) = Mask(y)
    BY <1>0, <2>1, <2>2, <2>3, <2>4
  <2>6. n + i \in 0 .. NumItems - 1
    BY <1>0, <1>2
  <2>7. buffer[Mask(tail + (n + i))] = Gone + 1 + (n + i)
    BY <2>6 DEF Content
  <2>8. Gone + 1 + (n + i) = Gone' + 1 + i
    BY <1>0, <1>3 DEF Gone
  <2>. QED
    BY <2>5, <2>7, <2>8 DEF x, y
<1>5. Content'
  <2>1. NumItems' <= received'
    BY <1>0, <1>2
  <2>. QED
    BY <1>4, <2>1 DEF Content, Mask
<1>. QED
  BY <1>2, <1>3, <1>5

\* What a step that takes the first n unread bytes does to the histories.
LEMMA TakeOrder ==
  ASSUME TypeInv, Parted, NEW n \in Nat, Gone \in Nat, Gone' = Gone + n,
         Len(taken') = Len(taken) + n, DOMAIN taken' = 1 .. Len(taken) + n,
         \A i \in 1 .. Len(taken) + n : taken'[i] =
            IF i <= Len(taken) THEN taken[i] ELSE Gone + (i - Len(taken)),
         UNCHANGED overwritten
  PROVE  Parted' /\ (InOrder => InOrder')
<1>. DEFINE L == Len(taken)
<1>0. L \in Nat /\ DOMAIN taken = 1 .. L /\ \A i \in 1 .. L : taken[i] \in 1 .. Gone
  <2>1. L \in Nat /\ DOMAIN taken = 1 .. L
    BY LenProperties DEF TypeInv, TypeOK
  <2>2. \A i \in 1 .. L : taken[i] \in TakenSet
    BY <2>1 DEF TakenSet
  <2>. QED
    BY <2>1, <2>2 DEF Parted
<1>00. \A i \in 1 .. L + n : taken'[i] = IF i <= L THEN taken[i] ELSE Gone + (i - L)
  OBVIOUS
<1>. HIDE DEF L
<1>1. \A i, j \in DOMAIN taken' : i < j => taken'[i] < taken'[j]
  <2>. SUFFICES ASSUME NEW i \in 1 .. L + n, NEW j \in 1 .. L + n, i < j
                PROVE  taken'[i] < taken'[j]
    BY DEF L
  <2>1. CASE j <= L
    <3>1. i \in 1 .. L /\ j \in 1 .. L /\ i <= L
      BY <1>0, <2>1
    <3>2. taken'[i] = taken[i] /\ taken'[j] = taken[j]
      BY <1>00, <2>1, <3>1, Zenon
    <3>3. taken[i] < taken[j]
      BY <1>0, <3>1 DEF Parted
    <3>. QED
      BY <3>2, <3>3
  <2>2. CASE i <= L /\ ~(j <= L)
    <3>1. taken'[i] \in 1 .. Gone /\ taken'[j] = Gone + (j - L)
      BY <1>0, <1>00, <2>2
    <3>. QED
      BY <1>0, <2>2, <3>1
  <2>3. CASE ~(i <= L)
    <3>1. ~(j <= L) /\ taken'[i] = Gone + (i - L) /\ taken'[j] = Gone + (j - L)
      BY <1>0, <1>00, <2>3
    <3>. QED
      BY <1>0, <3>1
  <2>. QED
    BY <2>1, <2>2, <2>3
<1>2. TakenSet' = TakenSet \cup (Gone + 1 .. Gone + n)
  <2>1. ASSUME NEW i \in 1 .. L + n
        PROVE  taken'[i] \in TakenSet \cup (Gone + 1 .. Gone + n)
    <3>1. CASE i <= L
      <4>1. i \in DOMAIN taken /\ taken'[i] = taken[i]
        BY <1>0, <1>00, <3>1
      <4>. QED
        BY <4>1 DEF TakenSet
    <3>2. CASE ~(i <= L)
      BY <1>0, <1>00, <3>2
    <3>. QED
      BY <3>1, <3>2
  <2>2. ASSUME NEW i \in 1 .. L PROVE taken[i] \in TakenSet'
    <3>1. i \in DOMAIN taken' /\ taken'[i] = taken[i]
      BY <1>0, <1>00 DEF L
    <3>. QED
      BY <3>1 DEF TakenSet
  <2>3. ASSUME NEW b \in Gone + 1 .. Gone + n PROVE b \in TakenSet'
    <3>. DEFINE k == L + (b - Gone)
    <3>1. k \in 1 .. L + n /\ ~(k <= L) /\ Gone + (k - L) = b
      BY <1>0
    <3>. HIDE DEF k
    <3>2. k \in DOMAIN taken' /\ taken'[k] = b
      <4>1. \A i \in 1 .. L + n : ~(i <= L) => taken'[i] = Gone + (i - L)
        BY <1>00
      <4>. QED
        BY <3>1, <4>1 DEF L
    <3>. QED
      BY <3>2, Zenon DEF TakenSet
  <2>4. TakenSet' = {taken'[i] : i \in 1 .. L + n} /\ TakenSet = {taken[i] : i \in 1 .. L}
    BY <1>0 DEF TakenSet, L
  <2>5. ASSUME NEW b \in TakenSet' PROVE b \in TakenSet \cup (Gone + 1 .. Gone + n)
    BY <2>1, <2>4
  <2>6. ASSUME NEW b \in TakenSet PROVE b \in TakenSet'
    BY <2>2, <2>4
  <2>. QED
    BY <2>3, <2>5, <2>6
<1>3. TakenSet' \cup overwritten' = 1 .. Gone'
  <2>1. TakenSet \cup overwritten = 1 .. Gone
    BY DEF Parted
  <2>2. (1 .. Gone) \cup (Gone + 1 .. Gone + n) = 1 .. Gone + n
    OBVIOUS
  <2>. QED
    BY <1>2, <2>1, <2>2
<1>4. TakenSet' \cap overwritten' = {}
  <2>1. TakenSet \cap overwritten = {} /\ overwritten \subseteq 1 .. Gone
    BY DEF Parted
  <2>2. (1 .. Gone) \cap (Gone + 1 .. Gone + n) = {}
    OBVIOUS
  <2>. QED
    BY <1>2, <2>1, <2>2
<1>5. InOrder => InOrder'
  <2>. SUFFICES ASSUME InOrder PROVE InOrder'
    OBVIOUS
  <2>1. L = Gone /\ \A i \in 1 .. L : taken[i] = i
    BY <1>0 DEF InOrder, L
  <2>2. ASSUME NEW i \in 1 .. L + n PROVE taken'[i] = i
    BY <1>0, <1>00, <2>1
  <2>. QED
    BY <2>1, <2>2 DEF InOrder, L
<1>. QED
  BY <1>1, <1>3, <1>4, <1>5 DEF Parted

\* The interrupt, whether it pushes a byte out or not.
LEMMA UnracedRx ==
  ASSUME TypeInv, Unraced, RxIsr, ~raced'
  PROVE  Unraced'
<1>. USE DEF Unraced
<1>1. Content' /\ (IsFull => Gone' = Gone + 1 /\ NumItems' = NumItems)
      /\ (~IsFull => Gone' = Gone /\ NumItems' = NumItems + 1)
  BY RingRx
<1>2. UNCHANGED <<pc, reg, val, frame, taken>>
  BY DEF RxIsr
<1>3. NumItems \in Int /\ 0 <= NumItems /\ NumItems < Size /\ received \in Nat
      /\ Gone \in Nat /\ tail \in Int /\ 0 <= tail /\ tail < Size
  BY Numbers DEF Content, Gone
<1>4. FrameNotTornUnlessRaced'
  BY <1>2 DEF FrameNotTornUnlessRaced, RxIsr
<1>5. CASE IsFull
  <2>1. pc = "idle" /\ overwritten' = overwritten \cup {buffer[tail]}
    BY <1>5 DEF RxIsr
  <2>2. buffer[tail] = Gone + 1
    <3>1. 0 \in 0 .. NumItems - 1 /\ Mask(tail + 0) = tail
      BY <1>3, <1>5, MaskCases, RingAssumption DEF IsFull
    <3>2. buffer[Mask(tail + 0)] = Gone + 1 + 0
      BY <3>1, Zenon DEF Content
    <3>. QED
      BY <1>3, <3>1, <3>2
  <2>3. TakenSet' = TakenSet
    BY <1>2 DEF TakenSet
  <2>4. TakenSet \cup overwritten = 1 .. Gone /\ TakenSet \cap overwritten = {}
    BY DEF Parted
  <2>5. Gone + 1 \notin 1 .. Gone /\ (1 .. Gone) \cup {Gone + 1} = 1 .. Gone + 1
    BY <1>3
  <2>6. TakenSet' \cup overwritten' = 1 .. Gone'
    BY <1>1, <1>5, <2>1, <2>2, <2>3, <2>4, <2>5
  <2>7. TakenSet' \cap overwritten' = {}
    BY <2>1, <2>2, <2>3, <2>4, <2>5
  <2>8. Call'
    BY <1>2, <2>1 DEF Call
  <2>. QED
    BY <1>1, <1>2, <1>4, <2>6, <2>7, <2>8 DEF Parted
<1>6. CASE ~IsFull
  <2>1. tail' = tail /\ overwritten' = overwritten
    BY <1>6 DEF RxIsr
  <2>2. Parted'
    BY <1>1, <1>2, <1>6, <2>1 DEF Parted, TakenSet
  <2>3. Call'
    BY <1>1, <1>2, <1>3, <1>6, <2>1, RingAssumption DEF Call
  <2>. QED
    BY <1>1, <1>4, <2>2, <2>3
<1>. QED
  BY <1>5, <1>6

\* The thread: no step of it changes what the interrupt wrote, and of the two
\* that move tail each takes exactly the bytes it moves past.
LEMMA UnracedThread ==
  ASSUME TypeInv, Unraced, Thread
  PROVE  Unraced' /\ (InOrder => InOrder')
<1>. USE DEF At, ringVars
<1>0. /\ Len(taken) \in Nat /\ taken \in Seq(0 .. MaxBytes) /\ DOMAIN taken = 1 .. Len(taken)
      /\ Len(frame) \in Nat /\ frame \in Seq(0 .. MaxBytes) /\ DOMAIN frame = 1 .. Len(frame)
      /\ tail \in Int /\ 0 <= tail /\ tail < Size
      /\ NumItems \in Int /\ 0 <= NumItems /\ Gone \in Nat
  BY LenProperties, Numbers DEF TypeInv, TypeOK, Unraced, Content, Gone
<1>00. \A i \in 0 .. NumItems - 1 : buffer[Mask(tail + i)] = Gone + 1 + i
  BY DEF Unraced, Content
\* A step that leaves the ring and the histories alone has to keep only Call
\* and the frame.
<1>000. ASSUME UNCHANGED <<ringVars, received, taken, overwritten, raced>>,
               Call', FrameNotTornUnlessRaced'
        PROVE  Unraced' /\ (InOrder => InOrder')
  <2>1. NumItems' = NumItems /\ Gone' = Gone /\ TakenSet' = TakenSet
    BY <1>000 DEF NumItems, Gone, TakenSet
  <2>2. Content'
    BY <1>000, <2>1 DEF Unraced, Content, Mask
  <2>3. Parted' /\ (InOrder => InOrder')
    BY <1>000, <2>1 DEF Unraced, Parted, InOrder
  <2>. QED
    BY <1>000, <2>2, <2>3 DEF Unraced
<1>1. CASE DequeueCheck
  <2>1. NumItems > 0
    BY <1>1, Numbers, RingAssumption DEF DequeueCheck, IsEmpty
  <2>. QED
    BY <1>1, <1>000, <2>1 DEF DequeueCheck, Unraced, Call, NumItems, FrameNotTornUnlessRaced
<1>2. CASE DequeueLoad
  BY <1>2, <1>000 DEF DequeueLoad, Unraced, Call, NumItems, FrameNotTornUnlessRaced
<1>3. CASE DequeueRead
  <2>1. NumItems > 0 /\ reg = tail
    BY <1>3 DEF DequeueRead, Unraced, Call
  <2>2. 0 \in 0 .. NumItems - 1 /\ Mask(tail + 0) = tail
    BY <1>0, <2>1, MaskCases, RingAssumption
  <2>3. buffer[Mask(tail + 0)] = Gone + 1 + 0
    BY <1>00, <2>2, Zenon
  <2>4. val' = Gone + 1
    BY <1>0, <1>3, <2>1, <2>2, <2>3 DEF DequeueRead
  <2>. QED
    BY <1>3, <1>000, <2>1, <2>4 DEF DequeueRead, Unraced, Call, NumItems, Gone,
       FrameNotTornUnlessRaced
<1>4. CASE DequeueReload
  BY <1>4, <1>000 DEF DequeueReload, Unraced, Call, NumItems, Gone, FrameNotTornUnlessRaced
<1>5. CASE DequeueStore
  <2>1. NumItems > 0 /\ reg = tail /\ val = Gone + 1
    BY <1>5 DEF DequeueStore, Unraced, Call
  <2>2. val \in 0 .. MaxBytes
    BY DEF TypeInv, TypeOK
  <2>3. /\ Len(taken') = Len(taken) + 1 /\ DOMAIN taken' = 1 .. Len(taken) + 1
        /\ \A i \in 1 .. Len(taken) + 1 :
             taken'[i] = IF i = Len(taken) + 1 THEN val ELSE taken[i]
    BY <1>0, <1>5, <2>2, AppendProperties, LenProperties DEF DequeueStore
  <2>4. ASSUME NEW i \in 1 .. Len(taken) + 1
        PROVE  taken'[i] = IF i <= Len(taken) THEN taken[i] ELSE Gone + (i - Len(taken))
    BY <1>0, <2>1, <2>3
  <2>5. Content' /\ Gone' = Gone + 1
    <3>1. /\ 1 \in Nat /\ 1 <= NumItems /\ tail' = Mask(tail + 1)
          /\ UNCHANGED <<buffer, head, received>>
      BY <1>0, <1>5, <2>1 DEF DequeueStore
    <3>. QED
      BY <3>1, RingTake DEF Unraced
  <2>6. Parted' /\ (InOrder => InOrder')
    <3>1. UNCHANGED overwritten /\ 1 \in Nat
      BY <1>5 DEF DequeueStore
    <3>. QED
      BY <1>0, <2>3, <2>4, <2>5, <3>1, TakeOrder DEF Unraced
  <2>7. Call' /\ FrameNotTornUnlessRaced'
    BY <1>5 DEF DequeueStore, Unraced, Call, FrameNotTornUnlessRaced
  <2>. QED
    BY <2>5, <2>6, <2>7 DEF Unraced
<1>6. CASE BodyPresent
  <2>1. DOMAIN frame' = {}
    BY <1>6 DEF BodyPresent
  <2>. QED
    BY <1>6, <1>000, <2>1 DEF BodyPresent, Unraced, Call, NumItems, FrameNotTornUnlessRaced
<1>7. CASE PeekLoad
  BY <1>7, <1>000 DEF PeekLoad, Unraced, Call, NumItems, Gone, FrameNotTornUnlessRaced
<1>8. CASE PeekRead
  <2>1. /\ reg = tail /\ NumItems >= FrameLen /\ Len(frame) < FrameLen
        /\ \A i \in 1 .. Len(frame) : frame[i] = Gone + i
    BY <1>0, <1>8 DEF PeekRead, Unraced, Call, TypeInv
  <2>2. Len(frame) \in 0 .. NumItems - 1
    BY <1>0, <2>1, RingAssumption
  <2>3. buffer[Mask(tail + Len(frame))] = Gone + 1 + Len(frame)
    BY <1>00, <2>2, Zenon
  <2>4. buffer[Mask(tail + Len(frame))] \in 0 .. MaxBytes
    <3>1. Mask(tail + Len(frame)) \in Index
      BY <1>0, MaskIndex
    <3>. QED
      BY <3>1 DEF TypeInv, TypeOK
  <2>5. /\ DOMAIN frame' = 1 .. Len(frame) + 1
        /\ \A i \in 1 .. Len(frame) + 1 :
             frame'[i] = IF i = Len(frame) + 1 THEN Gone + 1 + Len(frame) ELSE frame[i]
    BY <1>0, <1>8, <2>1, <2>3, <2>4, AppendProperties, LenProperties DEF PeekRead
  <2>6. \A i \in DOMAIN frame' : frame'[i] = Gone + i
    BY <1>0, <2>1, <2>5
  <2>7. \A i \in DOMAIN frame' : frame'[i] = frame'[1] + (i - 1)
    <3>1. 1 \in DOMAIN frame'
      BY <1>0, <2>5
    <3>2. frame'[1] = Gone + 1
      BY <2>6, <3>1
    <3>. QED
      BY <1>0, <2>5, <2>6, <3>2
  <2>8. Gone' = Gone /\ NumItems' = NumItems
    BY <1>8 DEF PeekRead, Gone, NumItems
  <2>9. Call' /\ FrameNotTornUnlessRaced'
    BY <1>8, <2>1, <2>6, <2>7, <2>8 DEF PeekRead, Call, FrameNotTornUnlessRaced
  <2>. QED
    BY <1>8, <1>000, <2>9 DEF PeekRead
<1>9. CASE ChecksumBad
  BY <1>9, <1>000 DEF ChecksumBad, Unraced, Call, FrameNotTornUnlessRaced
<1>10. CASE SkipLoad
  BY <1>10, <1>000 DEF SkipLoad, Unraced, Call, NumItems, Gone, FrameNotTornUnlessRaced
<1>11. CASE SkipStore
  <2>. DEFINE n == FrameLen - Kept
              s == SubSeq(frame, 1, n)
  <2>1. /\ n \in Nat /\ n > 0 /\ n <= FrameLen /\ Len(frame) = FrameLen
        /\ reg = tail /\ NumItems >= FrameLen
        /\ \A i \in 1 .. FrameLen : frame[i] = Gone + i
    <3>1. n \in Nat /\ n > 0 /\ n <= FrameLen
      BY RingAssumption
    <3>2. pc = "skipStore" /\ Len(frame) = FrameLen
      BY <1>11 DEF SkipStore, TypeInv
    <3>3. reg = tail /\ NumItems >= FrameLen /\ \A i \in DOMAIN frame : frame[i] = Gone + i
      BY <3>2 DEF Unraced, Call
    <3>. QED
      BY <1>0, <3>1, <3>2, <3>3
  <2>2. /\ s \in Seq(0 .. MaxBytes) /\ Len(s) = n
        /\ \A i \in 1 .. n : s[i] = Gone + i
    <3>1. \A i \in 1 .. n : frame[i] \in 0 .. MaxBytes
      BY <1>0, <2>1, ElementOfSeq, RingAssumption
    <3>2. /\ s \in Seq(0 .. MaxBytes)
          /\ Len(s) = IF 1 <= n THEN n - 1 + 1 ELSE 0
          /\ \A i \in 1 .. n - 1 + 1 : s[i] = frame[1 + i - 1]
      <4>1. 1 \in Int /\ n \in Int
        BY <2>1
      <4>. HIDE DEF n
      <4>. QED
        BY <3>1, <4>1, SubSeqProperties
    <3>. QED
      BY <2>1, <3>2, RingAssumption
  <2>. HIDE DEF n, s
  <2>3. taken' = taken \o s /\ tail' = Mask(tail + n)
    BY <1>11, <2>1 DEF SkipStore, n, s
  <2>4. /\ Len(taken') = Len(taken) + n
        /\ DOMAIN taken' = 1 .. Len(taken) + n
        /\ \A i \in 1 .. Len(taken) + n : taken'[i] =
             IF i <= Len(taken) THEN taken[i] ELSE s[i - Len(taken)]
    <3>1. /\ taken \o s \in Seq(0 .. MaxBytes)
          /\ Len(taken \o s) = Len(taken) + Len(s)
          /\ \A i \in 1 .. Len(taken) + Len(s) : (taken \o s)[i] =
               IF i <= Len(taken) THEN taken[i] ELSE s[i - Len(taken)]
      BY <1>0, <2>2, ConcatProperties
    <3>2. DOMAIN (taken \o s) = 1 .. Len(taken \o s)
      BY <3>1, LenProperties
    <3>. QED
      BY <2>2, <2>3, <3>1, <3>2
  <2>5. ASSUME NEW i \in 1 .. Len(taken) + n
        PROVE  taken'[i] = IF i <= Len(taken) THEN taken[i] ELSE Gone + (i - Len(taken))
    <3>1. ~(i <= Len(taken)) => i - Len(taken) \in 1 .. n
      BY <1>0, <2>1
    <3>. QED
      BY <2>2, <2>4, <3>1
  <2>6. Content' /\ Gone' = Gone + n
    <3>1. n \in Nat /\ n <= NumItems /\ UNCHANGED <<buffer, head, received>>
      BY <1>0, <1>11, <2>1, RingAssumption DEF SkipStore
    <3>. QED
      BY <2>3, <3>1, RingTake DEF Unraced
  <2>7. Parted' /\ (InOrder => InOrder')
    <3>1. UNCHANGED overwritten
      BY <1>11 DEF SkipStore
    <3>. QED
      BY <1>0, <2>1, <2>4, <2>5, <2>6, <3>1, TakeOrder DEF Unraced
  <2>8. Call' /\ FrameNotTornUnlessRaced'
    BY <1>11 DEF SkipStore, Unraced, Call, FrameNotTornUnlessRaced
  <2>. QED
    BY <2>6, <2>7, <2>8 DEF Unraced
<1>. QED
  BY <1>1, <1>2, <1>3, <1>4, <1>5, <1>6, <1>7, <1>8, <1>9, <1>10, <1>11 DEF Thread

LEMMA RingStep == RingInv /\ [Next]_vars => RingInv'
<1>. SUFFICES ASSUME RingInv, [Next]_vars PROVE RingInv'
  OBVIOUS
<1>. USE DEF RingInv
<1>1. TypeInv'
  BY TypeStep
<1>2. CASE RxIsr
  <2>1. ~raced' => Unraced'
    <3>. HAVE ~raced'
    <3>1. ~raced
      BY <1>2 DEF RxIsr
    <3>. QED
      BY <1>2, <3>1, UnracedRx
  <2>2. overwritten' = {} => overwritten = {} /\ ~IsFull
    BY <1>2, Zenon DEF RxIsr
  <2>3. ~IsFull => UNCHANGED <<raced, tail>>
    BY <1>2 DEF RxIsr
  <2>4. overwritten' = {} => InOrder'
    <3>. HAVE overwritten' = {}
    <3>1. Gone' = Gone /\ taken' = taken
      BY <1>2, <2>2, RingRx DEF RxIsr, Unraced
    <3>. QED
      BY <2>2, <3>1 DEF InOrder
  <2>. QED
    BY <1>1, <2>1, <2>2, <2>3, <2>4
<1>3. CASE Thread
  <2>1. UNCHANGED <<overwritten, raced>>
    BY <1>3 DEF Thread, DequeueCheck, DequeueLoad, DequeueRead, DequeueReload, DequeueStore,
       BodyPresent, PeekLoad, PeekRead, ChecksumBad, SkipLoad, SkipStore
  <2>. QED
    BY <1>1, <1>3, <2>1, UnracedThread
<1>4. CASE UNCHANGED vars
  <2>1. NumItems' = NumItems /\ Gone' = Gone /\ TakenSet' = TakenSet
    BY <1>4 DEF vars, NumItems, Gone, TakenSet
  <2>2. Unraced => Unraced'
    BY <1>4, <2>1 DEF vars, Unraced, Content, Call, Parted, FrameNotTornUnlessRaced, Mask
  <2>3. InOrder => InOrder'
    BY <1>4, <2>1 DEF vars, InOrder
  <2>. QED
    BY <1>1, <1>4, <2>2, <2>3 DEF vars
<1>. QED
  BY <1>2, <1>3, <1>4 DEF Next

LEMMA RingInit == Init => RingInv
<1>. SUFFICES ASSUME Init PROVE RingInv
  OBVIOUS
<1>1. TypeInv
  BY TypeInit
<1>2. NumItems = 0 /\ Gone = 0
  BY <1>1, Numbers DEF Init, Gone
<1>3. TakenSet = {} /\ Len(taken) = 0 /\ DOMAIN taken = {} /\ DOMAIN frame = {}
  BY DEF Init, TakenSet
<1>4. Content
  BY <1>2 DEF Init, Content
<1>5. Parted /\ InOrder
  BY <1>2, <1>3 DEF Init, Parted, InOrder
<1>6. Call /\ FrameNotTornUnlessRaced
  BY <1>3 DEF Init, Call, FrameNotTornUnlessRaced
<1>. QED
  BY <1>1, <1>4, <1>5, <1>6 DEF Init, RingInv, Unraced

LEMMA RingAlways == Spec => []RingInv
BY RingInit, RingStep, PTL DEF Spec

\* For every ring size and frame length: until the interrupt first finds the
\* ring full, the bytes the parsers take are the bytes the UART received, in
\* order, none missing and none twice, in every interleaving of the interrupt
\* with the unlocked loads and stores of the thread.
THEOREM Lossless == Spec => []LosslessUntilFull
<1>1. RingInv => LosslessUntilFull
  <2>. SUFFICES ASSUME RingInv, overwritten = {}
                PROVE  (\A i \in DOMAIN taken : taken[i] = i) /\ NumItems = received - Len(taken)
    BY DEF LosslessUntilFull
  <2>1. received \in Nat /\ NumItems \in Int
    BY Numbers DEF RingInv
  <2>. QED
    BY <2>1 DEF RingInv, InOrder, Gone
<1>. QED
  BY <1>1, RingAlways, PTL

\* For every ring size and frame length: as long as the interrupt pushed bytes
\* out only between two calls of the thread, every byte is unread, taken or
\* overwritten, only one of the three, and the taken ones are in order.
THEOREM Accounted == Spec => []AccountedUnlessRaced
<1>1. RingInv => AccountedUnlessRaced
  <2>. SUFFICES ASSUME RingInv, ~raced PROVE AccountedUnlessRaced
    BY DEF AccountedUnlessRaced
  <2>1. TypeInv /\ Content /\ Parted
    BY DEF RingInv, Unraced
  <2>2. received \in Nat /\ NumItems \in Int /\ 0 <= NumItems /\ Gone \in Nat
        /\ Gone + NumItems = received
    BY <2>1, Numbers DEF Content, Gone
  <2>3. Unread = Gone + 1 .. received
    <3>1. ASSUME NEW i \in 0 .. NumItems - 1
          PROVE  buffer[Mask(tail + i)] \in Gone + 1 .. received
      BY <2>1, <2>2 DEF Content
    <3>2. ASSUME NEW b \in Gone + 1 .. received PROVE b \in Unread
      <4>1. b - Gone - 1 \in 0 .. NumItems - 1 /\ Gone + 1 + (b - Gone - 1) = b
        BY <2>2
      <4>2. buffer[Mask(tail + (b - Gone - 1))] = Gone + 1 + (b - Gone - 1)
        BY <2>1, <4>1, Zenon DEF Content
      <4>3. buffer[Mask(tail + (b - Gone - 1))] = b
        BY <4>1, <4>2
      <4>. QED
        BY <4>1, <4>3, Zenon DEF Unread
    <3>3. ASSUME NEW b \in Unread PROVE b \in Gone + 1 .. received
      BY <3>1, <3>3 DEF Unread
    <3>. QED
      BY <3>2, <3>3
  <2>4. TakenSet \cup overwritten = 1 .. Gone /\ TakenSet \cap overwritten = {}
    BY <2>1 DEF Parted
  <2>5. (1 .. Gone) \cup (Gone + 1 .. received) = 1 .. received
        /\ (1 .. Gone) \cap (Gone + 1 .. received) = {}
    BY <2>2
  <2>6. \A i, j \in DOMAIN taken : i < j => taken[i] < taken[j]
    BY <2>1 DEF Parted
  <2>7. Unread \cup TakenSet \cup overwritten = 1 .. received
    BY <2>3, <2>4, <2>5
  <2>8. overwritten \cap (Unread \cup TakenSet) = {} /\ Unread \cap TakenSet = {}
    BY <2>3, <2>4, <2>5
  <2>. QED
    BY <2>6, <2>7, <2>8 DEF AccountedUnlessRaced
<1>. QED
  BY <1>1, RingAlways, PTL

\* For every ring size and frame length: the frame nRF52_BuildBody copies peek
\* by peek is a run of consecutive bytes, unless a byte was pushed out during
\* a call.
THEOREM FrameNotTorn == Spec => []FrameNotTornUnlessRaced
<1>1. RingInv => FrameNotTornUnlessRaced
  BY DEF RingInv, Unraced, FrameNotTornUnlessRaced
<1>. QED
  BY <1>1, RingAlways, PTL

=============================================================================
