-------------------------- MODULE NrfDecoder_proofs --------------------------
(***************************************************************************)
(* Theorems about NrfDecoder for every ring size, set of frame lengths and *)
(* amount of noise: the frames are handed over in their order and none     *)
(* twice, none is lost but for a reason, and no length wraps but for one.  *)
(* None is inductive: all turn on what lies in the ring and on what the    *)
(* decoder has seen of it.  RingOK says the first: the bytes lie in the    *)
(* order they were sent, what is left of a frame handed over has no first  *)
(* byte, and behind the first byte of a frame that was not hit lies the    *)
(* rest of its header.  Seen says the second: as long as nothing was       *)
(* pushed out, what the decoder has read still lies where it was read, so  *)
(* that nothing takes a delimiter for a stray one or a header for an       *)
(* invalid one.  InFront holds even of a ring that has moved on.           *)
(***************************************************************************)
EXTENDS NrfDecoder, Integers, SequenceTheorems, TLAPS

Bytes(s) == [of : 0 .. s, size : 0 .. 84, at : 0 .. 84, value : 0 .. 255]

Before(b, c) == b.of < c.of \/ (b.of = c.of /\ b.at < c.at)

\* The bytes of frames lie in the order they were sent.
Ordered(q) ==
  \A i, j \in 1 .. Len(q) : i < j /\ q[i].of # 0 /\ q[j].of # 0 => Before(q[i], q[j])

\* None lies there that was not sent, when a bytes of frame s, which has z, were.
Arrived(q, s, a, z) ==
  \A i \in 1 .. Len(q) : q[i].of <= s /\ (q[i].of = s => q[i].at <= a /\ q[i].size = z)

Shaped(b) ==
  b.of # 0 => /\ b.at >= 1 /\ b.size \in Lengths
              /\ b.at = 1 => b.value = Start
              /\ b.at = 2 => b.value = b.size
              /\ b.at = 3 => b.value = TypeOf(b.size)
              /\ b.at = 4 => b.value < 14 /\ (b.size \in DataLengths => b.value < 7)

\* Behind the first byte of a frame that was not hit come the others.
Whole(q, s, a, h) ==
  \A i \in 1 .. Len(q) : (q[i].at = 1 /\ q[i].of # 0 /\ q[i].of \notin h) =>
    /\ \A j \in 1 .. 4 : i + j - 1 <= Len(q) => q[i + j - 1].of = q[i].of /\ q[i + j - 1].at = j /\ q[i + j - 1].size = q[i].size
    /\ q[i].of = s => Len(q) = i + a - 1
    /\ q[i].of # s => Len(q) >= i + 6

\* Of the frames handed over, and of those before them, no first byte is left.
Behind(q, d) ==
  \A k \in 1 .. Len(d), i \in 1 .. Len(q) :
    q[i].of # 0 => d[k] < q[i].of \/ (d[k] = q[i].of /\ q[i].at > 1)

RingOK(q, s, a, z, h, d) ==
  /\ q \in Seq(Bytes(s))
  /\ Ordered(q) /\ Arrived(q, s, a, z) /\ (\A i \in 1 .. Len(q) : Shaped(q[i]))
  /\ Whole(q, s, a, h) /\ Behind(q, d)

Handed(d, s, a) ==
  \A k \in 1 .. Len(d) : k <= d[k] /\ d[k] <= s /\ (d[k] = s => a >= 1)

Increasing(d) == \A i, j \in 1 .. Len(d) : i < j => d[i] < d[j]

\* Frame f is the next to hand over: none of those handed over is behind it,
\* and the ring holds its first byte at the front or not at all.
InFront(q, d, f, s, a) ==
  /\ f \in 1 .. s /\ (f = s => a >= 1)
  /\ \A k \in 1 .. Len(d) : d[k] < f
  /\ \A i \in 1 .. Len(q) :
       q[i].of # 0 => f < q[i].of \/ (f = q[i].of /\ (i = 1 \/ q[i].at > 1))

Control ==
  /\ (size \in Sizes /\ sent # 0) \/ (size = 0 /\ sent = 0)
  /\ state # "idle" => Len(ring) >= 1
  /\ state = "header" => Len(ring) >= 2
  /\ state \in {"type", "command", "body"} => Len(ring) > 4
  /\ msg.copied > 0 => state \in {"body", "wrapped"} /\ msg.length <= Len(ring)

\* What the decoder has read of a message, when nothing was pushed out since.
Seen ==
  /\ state = "header" => ring[2].value \in Lengths
  /\ state \in {"type", "command", "body"} => msg.length = ring[2].value /\ msg.length \in Lengths
  /\ state = "command" => msg.type = ring[3].value
  /\ state = "type" => msg.from = {ring[2].of}
  /\ state = "command" => msg.from = {ring[2].of, ring[3].of}
  /\ state = "body" => msg.from = {ring[2].of, ring[3].of, ring[4].of}
  /\ msg.whole => \A i \in 1 .. msg.copied : ring[i].of = msg.of
  /\ state = "dequeue" /\ ring[1].of # 0 /\ ring[1].at = 1 => ring[1].of \in hit \cup lone
  /\ state # "wrapped"

Vars ==
  /\ Len(ring) <= RingSize
  /\ state \in States
  /\ msg \in [length : 0 .. 255, type : 0 .. 255, from : SUBSET (0 .. sent),
             copied : 0 .. 255, of : 0 .. sent, whole : BOOLEAN]
  /\ msg.copied <= msg.length
  /\ sent \in 0 .. MaxFrames /\ at \in 0 .. size
  /\ hit \subseteq 0 .. sent /\ lone \subseteq 0 .. sent /\ slipped \subseteq 0 .. sent
  /\ shifted \in BOOLEAN
  /\ delivered \in Seq(Nat)

DecInv ==
  /\ Vars /\ Control
  /\ RingOK(ring, sent, at, size, hit, delivered)
  /\ Handed(delivered, sent, at) /\ Increasing(delivered)
  /\ msg.copied > 0 /\ msg.whole => msg.length \in Lengths /\ InFront(ring, delivered, msg.of, sent, at)
  /\ ~shifted => Seen

-----------------------------------------------------------------------------
(* What a ring without its first bytes, or with one more, is. *)

IsSuffix(r, q, k) ==
  /\ Len(r) = Len(q) - k
  /\ \A i \in 1 .. Len(r) : r[i] = q[i + k]

IsAppend(r, q, b) ==
  /\ Len(r) = Len(q) + 1
  /\ \A i \in 1 .. Len(q) : r[i] = q[i]
  /\ r[Len(q) + 1] = b

LEMMA TailIsSuffix ==
  ASSUME NEW S, NEW q \in Seq(S), q # <<>>
  PROVE  Tail(q) \in Seq(S) /\ IsSuffix(Tail(q), q, 1)
BY HeadTailProperties, LenProperties DEF IsSuffix

LEMMA SubSeqIsSuffix ==
  ASSUME NEW S, NEW q \in Seq(S), NEW k \in Nat, k <= Len(q)
  PROVE  SubSeq(q, k + 1, Len(q)) \in Seq(S) /\ IsSuffix(SubSeq(q, k + 1, Len(q)), q, k)
<1>. DEFINE n == Len(q)
            m == k + 1
            r == SubSeq(q, m, n)
<1>1. n \in Nat /\ m \in 1 .. n + 1 /\ \A i \in m .. n : q[i] \in S
  <2>1. n \in Nat
    BY LenProperties
  <2>2. \A i \in m .. n : q[i] \in S
    <3>. TAKE i \in m .. n
    <3>1. i \in 1 .. Len(q)
      BY <2>1
    <3>. QED
      BY <3>1, ElementOfSeq
  <2>. QED
    BY <2>1, <2>2
<1>2. /\ SubSeq(q, m, n) \in Seq(S)
      /\ Len(SubSeq(q, m, n)) = IF m <= n THEN n - m + 1 ELSE 0
      /\ \A i \in 1 .. n - m + 1 : SubSeq(q, m, n)[i] = q[m + i - 1]
  <2>1. m \in Int /\ n \in Int /\ \A i \in m .. n : q[i] \in S
    BY <1>1
  <2>. HIDE DEF m, n
  <2>. QED
    BY <2>1, SubSeqProperties
<1>3. Len(r) = n - k
  BY <1>1, <1>2
<1>4. ASSUME NEW i \in 1 .. Len(r) PROVE r[i] = q[i + k]
  <2>1. i \in 1 .. n - m + 1 /\ m + i - 1 = i + k
    BY <1>1, <1>3
  <2>2. r[i] = q[m + i - 1]
    BY <1>2, <2>1
  <2>. QED
    BY <2>1, <2>2
<1>. QED
  BY <1>2, <1>3, <1>4 DEF IsSuffix

LEMMA AppendIsAppend ==
  ASSUME NEW S, NEW q \in Seq(S), NEW b \in S
  PROVE  Append(q, b) \in Seq(S) /\ IsAppend(Append(q, b), q, b)
BY AppendProperties, LenProperties DEF IsAppend

LEMMA BytesAre ==
  ASSUME NEW s \in Nat, NEW q \in Seq(Bytes(s))
  PROVE  /\ Len(q) \in Nat
         /\ \A i \in 1 .. Len(q) : /\ q[i] \in Bytes(s) /\ q[i].of \in Nat /\ q[i].at \in Nat
                                   /\ q[i].of <= s /\ q[i].value \in 0 .. 255
<1>1. Len(q) \in Nat
  BY LenProperties
<1>2. ASSUME NEW i \in 1 .. Len(q)
      PROVE  /\ q[i] \in Bytes(s) /\ q[i].of \in Nat /\ q[i].at \in Nat
             /\ q[i].of <= s /\ q[i].value \in 0 .. 255
  <2>1. q[i] \in Bytes(s)
    BY ElementOfSeq
  <2>2. q[i].of \in 0 .. s
    BY <2>1 DEF Bytes
  <2>3. q[i].at \in 0 .. 84
    BY <2>1 DEF Bytes
  <2>4. q[i].value \in 0 .. 255
    BY <2>1 DEF Bytes
  <2>5. q[i].of \in Nat /\ q[i].of <= s
    BY <2>2
  <2>6. q[i].at \in Nat
    <3>1. 0 .. 84 \subseteq Nat
      OBVIOUS
    <3>. QED
      BY <2>3, <3>1, Zenon
  <2>. QED
    BY <2>1, <2>4, <2>5, <2>6
<1>. QED
  BY <1>1, <1>2

\* Bytes that go from the front leave a ring in order.
LEMMA SuffixOK ==
  ASSUME NEW s \in Nat, NEW a \in Nat, NEW z, NEW h, NEW d \in Seq(Nat), NEW q, NEW r, NEW k \in Nat,
         RingOK(q, s, a, z, h, d), r \in Seq(Bytes(s)), IsSuffix(r, q, k), k <= Len(q)
  PROVE  RingOK(r, s, a, z, h, d)
<1>1. /\ Len(q) \in Nat /\ Len(r) \in Nat /\ Len(r) = Len(q) - k
      /\ \A i \in 1 .. Len(r) : i + k \in 1 .. Len(q) /\ r[i] = q[i + k]
  BY LenProperties DEF IsSuffix, RingOK
<1>2. Ordered(r)
  <2>. SUFFICES ASSUME NEW i \in 1 .. Len(r), NEW j \in 1 .. Len(r), i < j,
                       r[i].of # 0, r[j].of # 0
                PROVE  Before(r[i], r[j])
    BY DEF Ordered
  <2>1. i + k \in 1 .. Len(q) /\ j + k \in 1 .. Len(q) /\ i + k < j + k
        /\ r[i] = q[i + k] /\ r[j] = q[j + k]
    BY <1>1
  <2>2. Before(q[i + k], q[j + k])
    BY <2>1 DEF RingOK, Ordered
  <2>. QED
    BY <2>1, <2>2
<1>3. Arrived(r, s, a, z)
  BY <1>1 DEF RingOK, Arrived
<1>4. \A i \in 1 .. Len(r) : Shaped(r[i])
  BY <1>1 DEF RingOK
<1>5. Whole(r, s, a, h)
  <2>. SUFFICES ASSUME NEW i \in 1 .. Len(r), r[i].at = 1, r[i].of # 0, r[i].of \notin h
                PROVE  /\ \A j \in 1 .. 4 : i + j - 1 <= Len(r) =>
                             r[i + j - 1].of = r[i].of /\ r[i + j - 1].at = j /\ r[i + j - 1].size = r[i].size
                       /\ r[i].of = s => Len(r) = i + a - 1
                       /\ r[i].of # s => Len(r) >= i + 6
    BY DEF Whole
  <2>. DEFINE m == i + k
  <2>1. m \in 1 .. Len(q) /\ r[i] = q[m]
    BY <1>1
  <2>2. /\ \A j \in 1 .. 4 : m + j - 1 <= Len(q) => q[m + j - 1].of = q[m].of /\ q[m + j - 1].at = j /\ q[m + j - 1].size = q[m].size
        /\ q[m].of = s => Len(q) = m + a - 1
        /\ q[m].of # s => Len(q) >= m + 6
    <3>. HIDE DEF m
    <3>. QED
      BY <2>1 DEF RingOK, Whole
  <2>3. ASSUME NEW j \in 1 .. 4, i + j - 1 <= Len(r)
        PROVE  r[i + j - 1].of = r[i].of /\ r[i + j - 1].at = j /\ r[i + j - 1].size = r[i].size
    <3>. DEFINE x == i + j - 1
    <3>0. m + j - 1 = x + k /\ x \in Int /\ x >= 1 /\ x <= Len(r)
      BY <2>3
    <3>1. x \in 1 .. Len(r) /\ m + j - 1 = x + k /\ m + j - 1 <= Len(q)
      <4>. HIDE DEF x, m
      <4>. QED
        BY <1>1, <3>0
    <3>. HIDE DEF x
    <3>2. r[x] = q[m + j - 1]
      BY <1>1, <3>1
    <3>. QED
      BY <2>1, <2>2, <3>1, <3>2 DEF x
  <2>4. r[i].of = s => Len(r) = i + a - 1
    BY <1>1, <2>1, <2>2
  <2>5. r[i].of # s => Len(r) >= i + 6
    BY <1>1, <2>1, <2>2
  <2>. QED
    BY <2>3, <2>4, <2>5
<1>6. Behind(r, d)
  <2>. SUFFICES ASSUME NEW m \in 1 .. Len(d), NEW i \in 1 .. Len(r), r[i].of # 0
                PROVE  d[m] < r[i].of \/ (d[m] = r[i].of /\ r[i].at > 1)
    BY DEF Behind
  <2>1. i + k \in 1 .. Len(q) /\ r[i] = q[i + k]
    BY <1>1
  <2>2. d[m] < q[i + k].of \/ (d[m] = q[i + k].of /\ q[i + k].at > 1)
    BY <2>1 DEF RingOK, Behind
  <2>. QED
    BY <2>1, <2>2
<1>. QED
  BY <1>2, <1>3, <1>4, <1>5, <1>6 DEF RingOK

\* More frames may have been hit than were.
LEMMA HitOK ==
  ASSUME NEW s, NEW a, NEW z, NEW h, NEW g, NEW d, NEW q, RingOK(q, s, a, z, h, d), h \subseteq g
  PROVE  RingOK(q, s, a, z, g, d)
BY DEF RingOK, Whole

\* The line goes on when the frame being sent was hit.
LEMMA LostOK ==
  ASSUME NEW s \in Nat, NEW a \in Nat, NEW z, NEW h, NEW d, NEW q, RingOK(q, s, a, z, h, d), s \in h
  PROVE  RingOK(q, s, a + 1, z, h, d)
<1>1. Arrived(q, s, a + 1, z)
  <2>. SUFFICES ASSUME NEW i \in 1 .. Len(q)
                PROVE  q[i].of <= s /\ (q[i].of = s => q[i].at <= a + 1 /\ q[i].size = z)
    BY DEF Arrived
  <2>1. q[i].of <= s /\ (q[i].of = s => q[i].at <= a /\ q[i].size = z) /\ q[i].at \in Nat
    BY BytesAre DEF RingOK, Arrived
  <2>. QED
    BY <2>1
<1>2. Whole(q, s, a + 1, h)
  BY DEF RingOK, Whole
<1>. QED
  BY <1>1, <1>2 DEF RingOK

\* A byte that noise has changed joins the ring.
LEMMA NoiseOK ==
  ASSUME NEW s \in Nat \ {0}, NEW a \in Nat, NEW z, NEW h, NEW d \in Seq(Nat), NEW q, NEW r, NEW b \in Bytes(s),
         RingOK(q, s, a, z, h, d), s \in h, b.of = 0, b.at = 0,
         r \in Seq(Bytes(s)), IsAppend(r, q, b)
  PROVE  RingOK(r, s, a, z, h, d)
<1>. DEFINE n == Len(q)
<1>1. n \in Nat /\ Len(r) = n + 1 /\ r[n + 1] = b
      /\ \A i \in 1 .. Len(r) : i = n + 1 \/ (i \in 1 .. n /\ r[i] = q[i])
  BY LenProperties DEF IsAppend, RingOK
<1>. HIDE DEF n
<1>2. Ordered(r)
  BY <1>1 DEF RingOK, Ordered, n
<1>3. Arrived(r, s, a, z)
  <2>. SUFFICES ASSUME NEW i \in 1 .. Len(r)
                PROVE  r[i].of <= s /\ (r[i].of = s => r[i].at <= a /\ r[i].size = z)
    BY DEF Arrived
  <2>1. CASE i = n + 1
    BY <1>1, <2>1
  <2>2. CASE i \in 1 .. n
    <3>1. r[i] = q[i]
      BY <1>1, <2>2
    <3>2. q[i].of <= s /\ (q[i].of = s => q[i].at <= a /\ q[i].size = z)
      BY <2>2 DEF RingOK, Arrived, n
    <3>. QED
      BY <3>1, <3>2
  <2>. QED
    BY <1>1, <2>1, <2>2
<1>4. \A i \in 1 .. Len(r) : Shaped(r[i])
  BY <1>1 DEF RingOK, n, Shaped
<1>5. Whole(r, s, a, h)
  <2>. SUFFICES ASSUME NEW i \in 1 .. Len(r), r[i].at = 1, r[i].of # 0, r[i].of \notin h
                PROVE  /\ \A j \in 1 .. 4 : i + j - 1 <= Len(r) =>
                             r[i + j - 1].of = r[i].of /\ r[i + j - 1].at = j /\ r[i + j - 1].size = r[i].size
                       /\ r[i].of = s => Len(r) = i + a - 1
                       /\ r[i].of # s => Len(r) >= i + 6
    BY DEF Whole
  <2>1. i \in 1 .. n /\ r[i] = q[i]
    BY <1>1
  <2>2. /\ \A j \in 1 .. 4 : i + j - 1 <= n => q[i + j - 1].of = q[i].of /\ q[i + j - 1].at = j /\ q[i + j - 1].size = q[i].size
        /\ n >= i + 6
    BY <2>1 DEF RingOK, Whole, n
  <2>3. ASSUME NEW j \in 1 .. 4 PROVE r[i + j - 1].of = r[i].of /\ r[i + j - 1].at = j /\ r[i + j - 1].size = r[i].size
    <3>. DEFINE x == i + j - 1
    <3>0. x \in Int /\ x >= 1 /\ x <= n
      <4>1. i \in Int /\ i >= 1 /\ n >= i + 6 /\ n \in Int
        BY <1>1, <2>1, <2>2
      <4>. HIDE DEF n
      <4>. QED
        BY <4>1
    <3>1. x \in 1 .. n /\ x \in 1 .. Len(r) /\ x # n + 1 /\ x <= n
      <4>. HIDE DEF x
      <4>. QED
        BY <1>1, <3>0
    <3>2. q[x].of = q[i].of /\ q[x].at = j /\ q[x].size = q[i].size
      BY <2>2, <3>1, Zenon
    <3>. HIDE DEF x
    <3>3. r[x] = q[x]
      BY <1>1, <3>1
    <3>4. r[x].of = r[i].of /\ r[x].at = j /\ r[x].size = r[i].size
      BY <2>1, <3>2, <3>3
    <3>. QED
      BY <3>4 DEF x
  <2>4. r[i].of # s
    <3>1. s \in h
      OBVIOUS
    <3>2. q[i].of = s => FALSE
      BY <2>1, <3>1
    <3>. QED
      BY <2>1, <3>2
  <2>5. Len(r) >= i + 6
    BY <1>1, <2>1, <2>2
  <2>. QED
    BY <2>3, <2>4, <2>5
<1>6. Behind(r, d)
  <2>. SUFFICES ASSUME NEW m \in 1 .. Len(d), NEW i \in 1 .. Len(r), r[i].of # 0
                PROVE  d[m] < r[i].of \/ (d[m] = r[i].of /\ r[i].at > 1)
    BY DEF Behind
  <2>1. i \in 1 .. Len(q) /\ r[i] = q[i]
    BY <1>1 DEF n
  <2>. QED
    BY <2>1 DEF RingOK, Behind
<1>. QED
  BY <1>2, <1>3, <1>4, <1>5, <1>6 DEF RingOK

\* The next byte of the frame being sent joins the ring.
LEMMA ByteOK ==
  ASSUME NEW s \in Nat \ {0}, NEW a \in Nat, NEW z, NEW h, NEW d \in Seq(Nat), NEW q, NEW r,
         NEW b \in Bytes(s), RingOK(q, s, a, z, h, d), Handed(d, s, a),
         b.of = s, b.size = z, b.at = a + 1, Shaped(b),
         r \in Seq(Bytes(s)), IsAppend(r, q, b)
  PROVE  RingOK(r, s, a + 1, z, h, d)
<1>. DEFINE n == Len(q)
<1>1. n \in Nat /\ Len(r) = n + 1 /\ r[n + 1] = b
      /\ \A i \in 1 .. Len(r) : i = n + 1 \/ (i \in 1 .. n /\ r[i] = q[i])
  BY LenProperties DEF IsAppend, RingOK
<1>0. \A i \in 1 .. n : /\ q[i].of \in Nat /\ q[i].at \in Nat /\ q[i].of <= s
                        /\ q[i].of = s => q[i].at <= a /\ q[i].size = z
  BY BytesAre DEF RingOK, Arrived
<1>. HIDE DEF n
<1>2. Ordered(r)
  <2>. SUFFICES ASSUME NEW i \in 1 .. Len(r), NEW j \in 1 .. Len(r), i < j,
                       r[i].of # 0, r[j].of # 0
                PROVE  Before(r[i], r[j])
    BY DEF Ordered
  <2>1. i \in 1 .. n /\ r[i] = q[i]
    BY <1>1
  <2>2. CASE j = n + 1
    BY <1>0, <1>1, <2>1, <2>2 DEF Before
  <2>3. CASE j \in 1 .. n /\ r[j] = q[j]
    BY <2>1, <2>3 DEF RingOK, Ordered, n
  <2>. QED
    BY <1>1, <2>2, <2>3
<1>3. Arrived(r, s, a + 1, z)
  <2>. SUFFICES ASSUME NEW i \in 1 .. Len(r)
                PROVE  r[i].of <= s /\ (r[i].of = s => r[i].at <= a + 1 /\ r[i].size = z)
    BY DEF Arrived
  <2>1. CASE i = n + 1
    BY <1>1, <2>1
  <2>2. CASE i \in 1 .. n /\ r[i] = q[i]
    BY <1>0, <2>2
  <2>. QED
    BY <1>1, <2>1, <2>2
<1>4. \A i \in 1 .. Len(r) : Shaped(r[i])
  BY <1>1 DEF RingOK, n
<1>5. Whole(r, s, a + 1, h)
  <2>. SUFFICES ASSUME NEW i \in 1 .. Len(r), r[i].at = 1, r[i].of # 0, r[i].of \notin h
                PROVE  /\ \A j \in 1 .. 4 : i + j - 1 <= Len(r) =>
                             r[i + j - 1].of = r[i].of /\ r[i + j - 1].at = j /\ r[i + j - 1].size = r[i].size
                       /\ r[i].of = s => Len(r) = i + (a + 1) - 1
                       /\ r[i].of # s => Len(r) >= i + 6
    BY DEF Whole
  <2>1. CASE i = n + 1
    <3>1. a = 0 /\ r[i].of = s /\ Len(r) = i + (a + 1) - 1
      BY <1>1, <2>1
    <3>2. ASSUME NEW j \in 1 .. 4, i + j - 1 <= Len(r)
          PROVE  r[i + j - 1].of = r[i].of /\ r[i + j - 1].at = j /\ r[i + j - 1].size = r[i].size
      <4>1. j = 1 /\ i + j - 1 = i
        BY <1>1, <2>1, <3>2
      <4>. QED
        BY <4>1
    <3>. QED
      BY <3>1, <3>2
  <2>2. CASE i \in 1 .. n /\ r[i] = q[i]
    <3>1. /\ \A j \in 1 .. 4 : i + j - 1 <= n => q[i + j - 1].of = q[i].of /\ q[i + j - 1].at = j /\ q[i + j - 1].size = q[i].size
          /\ q[i].of = s => n = i + a - 1
          /\ q[i].of # s => n >= i + 6
      BY <2>2 DEF RingOK, Whole, n
    <3>2. ASSUME NEW j \in 1 .. 4, i + j - 1 <= Len(r)
          PROVE  r[i + j - 1].of = r[i].of /\ r[i + j - 1].at = j /\ r[i + j - 1].size = r[i].size
      <4>. DEFINE x == i + j - 1
      <4>1. CASE x = n + 1
        <5>1. q[i].of = s /\ j = a + 1
          BY <1>1, <2>2, <3>1, <3>2, <4>1
        <5>2. q[i].size = z
          BY <1>0, <2>2, <5>1
        <5>. HIDE DEF x
        <5>3. r[x].of = s /\ r[x].at = j /\ r[x].size = z
          BY <1>1, <4>1, <5>1
        <5>. QED
          BY <2>2, <5>1, <5>2, <5>3 DEF x
      <4>2. CASE x # n + 1
        <5>1. x \in 1 .. n /\ x \in 1 .. Len(r) /\ x <= n
          BY <1>1, <2>2, <3>2, <4>2
        <5>2. q[x].of = q[i].of /\ q[x].at = j /\ q[x].size = q[i].size
          BY <3>1, <5>1, Zenon
        <5>. HIDE DEF x
        <5>3. r[x] = q[x]
          BY <1>1, <4>2, <5>1
        <5>4. r[x].of = r[i].of /\ r[x].at = j /\ r[x].size = r[i].size
          BY <2>2, <5>2, <5>3
        <5>. QED
          BY <5>4 DEF x
      <4>. QED
        BY <4>1, <4>2
    <3>3. r[i].of = s => Len(r) = i + (a + 1) - 1
      BY <1>1, <2>2, <3>1
    <3>4. r[i].of # s => Len(r) >= i + 6
      BY <1>1, <2>2, <3>1
    <3>. QED
      BY <3>2, <3>3, <3>4
  <2>. QED
    BY <1>1, <2>1, <2>2
<1>6. Behind(r, d)
  <2>. SUFFICES ASSUME NEW k \in 1 .. Len(d), NEW i \in 1 .. Len(r), r[i].of # 0
                PROVE  d[k] < r[i].of \/ (d[k] = r[i].of /\ r[i].at > 1)
    BY DEF Behind
  <2>1. CASE i = n + 1
    <3>1. d[k] <= s /\ (d[k] = s => a >= 1) /\ d[k] \in Nat
      BY ElementOfSeq DEF Handed
    <3>. QED
      BY <1>1, <2>1, <3>1
  <2>2. CASE i \in 1 .. n /\ r[i] = q[i]
    BY <2>2 DEF RingOK, Behind, n
  <2>. QED
    BY <1>1, <2>1, <2>2
<1>. QED
  BY <1>2, <1>3, <1>4, <1>5, <1>6 DEF RingOK

\* The next frame begins when the last one is sent.
LEMMA BeginOK ==
  ASSUME NEW s \in Nat, NEW a \in Nat, NEW z, NEW y, NEW h, NEW d \in Seq(Nat), NEW q,
         RingOK(q, s, a, z, h, d), a >= 7 \/ s = 0
  PROVE  RingOK(q, s + 1, 0, y, h, d)
<1>1. Len(q) \in Nat /\ \A i \in 1 .. Len(q) : /\ q[i] \in Bytes(s) /\ q[i].of \in Nat
                                               /\ q[i].at \in Nat /\ q[i].of <= s
  BY BytesAre DEF RingOK
<1>2. q \in Seq(Bytes(s + 1))
  <2>1. Bytes(s) \subseteq Bytes(s + 1)
    BY DEF Bytes
  <2>. QED
    BY <2>1 DEF RingOK
<1>3. Arrived(q, s + 1, 0, y)
  BY <1>1 DEF Arrived
<1>4. Whole(q, s + 1, 0, h)
  <2>. SUFFICES ASSUME NEW i \in 1 .. Len(q), q[i].at = 1, q[i].of # 0, q[i].of \notin h
                PROVE  /\ \A j \in 1 .. 4 : i + j - 1 <= Len(q) =>
                             q[i + j - 1].of = q[i].of /\ q[i + j - 1].at = j /\ q[i + j - 1].size = q[i].size
                       /\ q[i].of # s + 1 /\ Len(q) >= i + 6
    BY DEF Whole
  <2>1. /\ \A j \in 1 .. 4 : i + j - 1 <= Len(q) => q[i + j - 1].of = q[i].of /\ q[i + j - 1].at = j /\ q[i + j - 1].size = q[i].size
        /\ q[i].of = s => Len(q) = i + a - 1
        /\ q[i].of # s => Len(q) >= i + 6
    BY DEF RingOK, Whole
  <2>2. a >= 7
    BY <1>1
  <2>. QED
    BY <1>1, <2>1, <2>2
<1>. QED
  BY <1>2, <1>3, <1>4 DEF RingOK

\* Handing over a frame in front, whose first byte goes with those removed.
LEMMA HandOver ==
  ASSUME NEW s \in Nat, NEW a \in Nat, NEW z, NEW h, NEW d \in Seq(Nat), NEW q, NEW r, NEW k \in Nat,
         RingOK(q, s, a, z, h, d), Handed(d, s, a), Increasing(d),
         NEW f, InFront(q, d, f, s, a),
         1 <= k, k <= Len(q), r \in Seq(Bytes(s)), IsSuffix(r, q, k)
  PROVE  LET e == Append(d, f)
         IN  e \in Seq(Nat) /\ RingOK(r, s, a, z, h, e) /\ Handed(e, s, a) /\ Increasing(e)
<1>. DEFINE n == Len(d)
            e == Append(d, f)
<1>1. /\ n \in Nat /\ Len(q) \in Nat /\ f \in Nat /\ f <= s /\ f >= 1
      /\ f = s => a >= 1
  <2>1. Len(q) \in Nat /\ n \in Nat
    BY LenProperties DEF RingOK
  <2>. QED
    BY <2>1 DEF InFront
<1>2. /\ e \in Seq(Nat) /\ Len(e) = n + 1 /\ e[n + 1] = f
      /\ \A i \in 1 .. Len(e) : i = n + 1 \/ (i \in 1 .. n /\ e[i] = d[i])
  <2>1. e \in Seq(Nat) /\ IsAppend(e, d, f)
    BY <1>1, AppendIsAppend
  <2>. QED
    BY <1>1, <2>1 DEF IsAppend
<1>3. \A i \in 1 .. n : i <= d[i] /\ d[i] < f /\ d[i] \in Nat
  <2>. SUFFICES ASSUME NEW i \in 1 .. n PROVE i <= d[i] /\ d[i] < f /\ d[i] \in Nat
    OBVIOUS
  <2>1. d[i] < f
    BY DEF InFront
  <2>. QED
    BY <2>1, ElementOfSeq DEF Handed
<1>4. n + 1 <= f
  <2>1. CASE n = 0
    BY <1>1, <2>1
  <2>2. CASE n > 0
    <3>1. n \in 1 .. n
      BY <1>1, <2>2
    <3>2. n <= d[n] /\ d[n] < f /\ d[n] \in Nat
      BY <1>3, <3>1, Zenon
    <3>. QED
      BY <1>1, <3>2
  <2>. QED
    BY <1>1, <2>1, <2>2
<1>. HIDE DEF n, e
<1>5. Handed(e, s, a)
  <2>. SUFFICES ASSUME NEW i \in 1 .. Len(e)
                PROVE  i <= e[i] /\ e[i] <= s /\ (e[i] = s => a >= 1)
    BY DEF Handed
  <2>1. CASE i = n + 1
    BY <1>1, <1>2, <1>4, <2>1
  <2>2. CASE i \in 1 .. n /\ e[i] = d[i]
    BY <2>2 DEF Handed, n
  <2>. QED
    BY <1>2, <2>1, <2>2
<1>6. Increasing(e)
  <2>. SUFFICES ASSUME NEW i \in 1 .. Len(e), NEW j \in 1 .. Len(e), i < j
                PROVE  e[i] < e[j]
    BY DEF Increasing
  <2>1. i \in 1 .. n /\ e[i] = d[i]
    BY <1>1, <1>2
  <2>2. CASE j = n + 1
    BY <1>2, <1>3, <2>1, <2>2
  <2>3. CASE j \in 1 .. n /\ e[j] = d[j]
    BY <2>1, <2>3 DEF Increasing, n
  <2>. QED
    BY <1>2, <2>2, <2>3
<1>7. RingOK(r, s, a, z, h, d)
  BY SuffixOK
<1>8. Behind(r, e)
  <2>. SUFFICES ASSUME NEW m \in 1 .. Len(e), NEW i \in 1 .. Len(r), r[i].of # 0
                PROVE  e[m] < r[i].of \/ (e[m] = r[i].of /\ r[i].at > 1)
    BY DEF Behind
  <2>1. CASE m = n + 1
    <3>. DEFINE x == i + k
    <3>1. x \in 1 .. Len(q) /\ 1 < x /\ r[i] = q[x]
      <4>1. Len(r) \in Nat /\ Len(r) = Len(q) - k /\ r[i] = q[i + k]
        BY LenProperties DEF IsSuffix
      <4>2. i + k \in 1 .. Len(q) /\ 1 < i + k
        BY <1>1, <4>1
      <4>. QED
        BY <4>1, <4>2
    <3>. HIDE DEF x
    <3>2. f < q[x].of \/ (f = q[x].of /\ q[x].at > 1)
      BY <3>1 DEF InFront
    <3>. QED
      BY <1>2, <2>1, <3>1, <3>2
  <2>2. CASE m \in 1 .. n /\ e[m] = d[m]
    BY <1>7, <2>2 DEF RingOK, Behind, n
  <2>. QED
    BY <1>2, <2>1, <2>2
<1>9. e \in Seq(Nat) /\ RingOK(r, s, a, z, h, e)
  BY <1>2, <1>7, <1>8 DEF RingOK
<1>. QED
  BY <1>5, <1>6, <1>9 DEF e

-----------------------------------------------------------------------------
(* A frame in front stays there. *)

LEMMA FrontSuffix ==
  ASSUME NEW q, NEW r, NEW k \in Nat, NEW d, NEW f, NEW s, NEW a,
         InFront(q, d, f, s, a), IsSuffix(r, q, k), Len(q) \in Nat
  PROVE  InFront(r, d, f, s, a)
<1>1. ASSUME NEW i \in 1 .. Len(r), r[i].of # 0
      PROVE  f < r[i].of \/ (f = r[i].of /\ (i = 1 \/ r[i].at > 1))
  <2>. DEFINE x == i + k
  <2>1. x \in 1 .. Len(q) /\ (x = 1 => i = 1) /\ r[i] = q[x]
    BY DEF IsSuffix
  <2>. HIDE DEF x
  <2>2. f < q[x].of \/ (f = q[x].of /\ (x = 1 \/ q[x].at > 1))
    BY <1>1, <2>1 DEF InFront
  <2>. QED
    BY <2>1, <2>2
<1>. QED
  BY <1>1 DEF InFront

LEMMA FrontAppend ==
  ASSUME NEW q, NEW r, NEW b, NEW d, NEW f, NEW s \in Nat, NEW a \in Nat,
         InFront(q, d, f, s, a), IsAppend(r, q, b), Len(q) \in Nat,
         b.of = 0 \/ (b.of = s /\ b.at = a + 1)
  PROVE  InFront(r, d, f, s, a + 1)
<1>1. ASSUME NEW i \in 1 .. Len(r), r[i].of # 0
      PROVE  f < r[i].of \/ (f = r[i].of /\ (i = 1 \/ r[i].at > 1))
  <2>1. CASE i = Len(q) + 1
    BY <1>1, <2>1 DEF InFront, IsAppend
  <2>2. CASE i # Len(q) + 1
    <3>1. i \in 1 .. Len(q) /\ r[i] = q[i]
      BY <2>2 DEF IsAppend
    <3>. QED
      BY <1>1, <3>1 DEF InFront
  <2>. QED
    BY <2>1, <2>2
<1>. QED
  BY <1>1 DEF InFront

-----------------------------------------------------------------------------
(* The steps. *)

LEMMA SizesAre == \A n \in Sizes : n \in Lengths /\ n \in Nat /\ n >= 7 /\ n <= 84 /\ n <= RingSize
BY NrfDecoderAssumption DEF Lengths

\* The ring, oldest byte first, when it has to make room for another.
Room == IF Len(ring) < RingSize THEN ring ELSE Tail(ring)

LEMMA RoomOK ==
  ASSUME DecInv, at < size
  PROVE  /\ RingOK(Room, sent, at, size, hit \cup PushedOut, delivered)
         /\ Len(Room) \in Nat /\ Len(Room) < RingSize /\ Len(Room) + 1 >= Len(ring)
         /\ PushedOut \subseteq 0 .. sent
         /\ sent \in Nat \ {0} /\ size \in Sizes /\ at \in Nat
         /\ \A b : Queued(b) = Append(Room, b)
<1>. USE DEF DecInv, Vars
<1>1. sent \in Nat \ {0} /\ size \in Sizes /\ at \in Nat /\ size \in Nat
  <2>1. size \in Sizes /\ size \in Nat
    BY SizesAre DEF Control
  <2>2. sent \in Nat /\ at \in Nat
    BY <2>1, NrfDecoderAssumption
  <2>3. sent # 0
    BY <2>1 DEF Control
  <2>. QED
    BY <2>1, <2>2, <2>3
<1>2. ring \in Seq(Bytes(sent)) /\ Len(ring) \in Nat /\ Len(ring) <= RingSize
      /\ RingSize \in Nat /\ RingSize >= 7
  BY <1>1, SizesAre, LenProperties, NrfDecoderAssumption DEF RingOK
<1>3. RingOK(ring, sent, at, size, hit \cup PushedOut, delivered)
  BY HitOK
<1>4. CASE Len(ring) < RingSize
  <2>1. Room = ring /\ PushedOut = {}
    BY <1>4 DEF Room, PushedOut
  <2>. QED
    BY <1>1, <1>2, <1>3, <1>4, <2>1 DEF Queued
<1>5. CASE ~(Len(ring) < RingSize)
  <2>1. Room = Tail(ring) /\ PushedOut = {Head(ring).of}
    BY <1>5 DEF Room, PushedOut
  <2>2. ring # <<>> /\ 1 \in 1 .. Len(ring) /\ Head(ring) = ring[1]
    BY <1>2, <1>5
  <2>3. Tail(ring) \in Seq(Bytes(sent)) /\ IsSuffix(Tail(ring), ring, 1)
    BY <1>2, <2>2, TailIsSuffix
  <2>4. RingOK(Tail(ring), sent, at, size, hit \cup PushedOut, delivered)
    <3>1. 1 \in Nat /\ 1 <= Len(ring) /\ delivered \in Seq(Nat) /\ sent \in Nat
      BY <1>1, <1>2, <1>5
    <3>. HIDE DEF DecInv, Vars
    <3>. QED
      BY <1>1, <1>3, <2>3, <3>1, SuffixOK
  <2>5. Len(Tail(ring)) = Len(ring) - 1
    BY <2>3 DEF IsSuffix
  <2>6. Head(ring).of \in 0 .. sent
    BY <1>1, <1>2, <2>2, BytesAre
  <2>. QED
    BY <1>1, <1>2, <1>5, <2>1, <2>4, <2>5, <2>6 DEF Queued
<1>. QED
  BY <1>4, <1>5

\* A step that takes the first byte away, or nothing.
LEMMA Shrinks ==
  ASSUME DecInv, ring # <<>>
  PROVE  /\ Tail(ring) \in Seq(Bytes(sent)) /\ IsSuffix(Tail(ring), ring, 1)
         /\ RingOK(Tail(ring), sent, at, size, hit, delivered)
         /\ Len(Tail(ring)) <= RingSize
         /\ Len(ring) \in Nat /\ 1 \in 1 .. Len(ring) /\ Head(ring) = ring[1]
         /\ Head(ring).of \in 0 .. sent
<1>1. ring \in Seq(Bytes(sent)) /\ Len(ring) \in Nat /\ Len(ring) <= RingSize
      /\ sent \in Nat /\ at \in Nat /\ delivered \in Seq(Nat) /\ RingSize \in Nat
  <2>1. size \in Nat
    BY SizesAre DEF DecInv, Control
  <2>. QED
    BY <2>1, LenProperties, NrfDecoderAssumption DEF DecInv, Vars, RingOK
<1>2. Len(ring) >= 1 /\ Head(ring) = ring[1]
  BY <1>1, EmptySeq
<1>3. Tail(ring) \in Seq(Bytes(sent)) /\ IsSuffix(Tail(ring), ring, 1)
  BY <1>1, TailIsSuffix
<1>4. RingOK(Tail(ring), sent, at, size, hit, delivered)
  <2>1. 1 \in Nat /\ RingOK(ring, sent, at, size, hit, delivered)
    BY DEF DecInv
  <2>. QED
    BY <1>1, <1>2, <1>3, <2>1, SuffixOK
<1>5. 1 \in 1 .. Len(ring)
  BY <1>1, <1>2
<1>6. Head(ring).of \in 0 .. sent
  <2>1. ring[1].of \in Nat /\ ring[1].of <= sent
    BY <1>1, <1>5, BytesAre
  <2>. QED
    BY <1>1, <1>2, <2>1
<1>7. Len(Tail(ring)) <= RingSize
  BY <1>1, <1>3 DEF IsSuffix
<1>. QED
  BY <1>1, <1>2, <1>3, <1>4, <1>5, <1>6, <1>7

LEMMA StatesAre ==
  \A p \in {"second", "dequeue", "header", "type", "command", "body", "wrapped"} :
    p \in States \ {"idle"}
BY DEF States

LEMMA MsgIs ==
  ASSUME DecInv
  PROVE  msg.length \in Nat /\ msg.length <= 255 /\ msg.copied \in Nat /\ msg.copied <= msg.length
<1>1. msg.length \in 0 .. 255 /\ msg.copied \in 0 .. 255 /\ msg.copied <= msg.length
  BY DEF DecInv, Vars
<1>2. 0 .. 255 \subseteq Nat /\ \A i \in 0 .. 255 : i <= 255
  OBVIOUS
<1>3. msg.length \in Nat /\ msg.length <= 255 /\ msg.copied \in Nat
  BY <1>1, <1>2, Zenon
<1>. QED
  BY <1>1, <1>3

LEMMA NextByte ==
  ASSUME NEW c \in Nat, NEW l \in Nat, NEW n \in Nat, c < l, l <= n, l <= 255
  PROVE  /\ c + 1 \in 1 .. n /\ c + 1 \in 0 .. 255 /\ c + 1 <= l
         /\ \A x \in 1 .. c + 1 : x # c + 1 => x \in 1 .. c
OBVIOUS

\* What nRF52_csCorrect removes.
LEMMA TakenOK ==
  ASSUME DecInv, BodyBuilt, msg.length > 2
  PROVE  /\ msg.length - 3 \in Nat /\ msg.length - 3 <= Len(ring)
         /\ Taken \in Seq(Bytes(sent)) /\ IsSuffix(Taken, ring, msg.length - 3)
         /\ RingOK(Taken, sent, at, size, hit, delivered)
         /\ Len(Taken) <= RingSize /\ TakenFrom \subseteq 0 .. sent
<1>. DEFINE n == Len(ring)
            k == msg.length - 3
<1>1. /\ ring \in Seq(Bytes(sent)) /\ n \in Nat /\ sent \in Nat /\ at \in Nat
      /\ delivered \in Seq(Nat) /\ n <= RingSize /\ RingSize \in Nat
  <2>1. size \in Nat
    BY SizesAre DEF DecInv, Control
  <2>. QED
    BY <2>1, LenProperties, NrfDecoderAssumption DEF DecInv, Vars, RingOK
<1>2. k \in Nat /\ k <= n /\ k + 1 = msg.length - 2
  <2>1. msg.length \in Nat /\ msg.length <= n
    BY MsgIs DEF BodyBuilt, BodyPartPresent
  <2>. QED
    BY <1>1, <2>1
<1>3. Taken = SubSeq(ring, k + 1, n)
  BY <1>2 DEF Taken
<1>. HIDE DEF k, n
<1>4. Taken \in Seq(Bytes(sent)) /\ IsSuffix(Taken, ring, k)
  BY <1>1, <1>2, <1>3, SubSeqIsSuffix DEF n
<1>5. RingOK(Taken, sent, at, size, hit, delivered)
  <2>1. RingOK(ring, sent, at, size, hit, delivered)
    BY DEF DecInv
  <2>. QED
    BY <1>1, <1>2, <1>4, <2>1, SuffixOK DEF n
<1>6. Len(Taken) <= RingSize
  BY <1>1, <1>2, <1>4 DEF IsSuffix, n
<1>7. \A i \in 1 .. k : ring[i].of \in 0 .. sent
  <2>. TAKE i \in 1 .. k
  <2>1. i \in 1 .. Len(ring)
    BY <1>1, <1>2 DEF n
  <2>2. ring[i].of \in Nat /\ ring[i].of <= sent
    BY <1>1, <2>1, BytesAre
  <2>. QED
    BY <1>1, <2>2
<1>. QED
  BY <1>2, <1>4, <1>5, <1>6, <1>7 DEF TakenFrom, k, n

\* The first byte of a frame that was not hit is a delimiter, and behind it
\* lies a valid header.
LEMMA Kept ==
  ASSUME DecInv, Len(ring) >= 1, ring[1].of # 0, ring[1].at = 1, ring[1].of \notin hit
  PROVE  /\ ring[1].value = Start
         /\ Len(ring) > 1 => ring[2].value \in Lengths
         /\ Len(ring) > 4 => /\ ring[3].value = TypeOf(ring[2].value) /\ ring[4].value < 14
                             /\ ring[2].value \in DataLengths => ring[4].value < 7
<1>1. Len(ring) \in Nat /\ 1 \in 1 .. Len(ring) /\ \A i \in 1 .. Len(ring) : Shaped(ring[i])
  BY LenProperties DEF DecInv, RingOK
<1>2. \A j \in 1 .. 4 : 1 + j - 1 <= Len(ring) =>
        /\ ring[1 + j - 1].of = ring[1].of /\ ring[1 + j - 1].at = j
        /\ ring[1 + j - 1].size = ring[1].size
  BY <1>1 DEF DecInv, RingOK, Whole
<1>3. ASSUME NEW j \in {1, 2, 3, 4}, j <= Len(ring)
      PROVE  ring[j].of # 0 /\ ring[j].at = j /\ ring[j].size = ring[1].size /\ Shaped(ring[j])
  <2>1. j \in 1 .. 4 /\ 1 + j - 1 = j /\ j \in 1 .. Len(ring)
    BY <1>1, <1>3
  <2>2. ring[1 + j - 1].of = ring[1].of /\ ring[1 + j - 1].at = j
        /\ ring[1 + j - 1].size = ring[1].size
    BY <1>2, <1>3, <2>1
  <2>. QED
    BY <1>1, <2>1, <2>2
<1>4. ring[1].value = Start
  <2>1. ring[1].of # 0 /\ ring[1].at = 1 /\ Shaped(ring[1])
    BY <1>3
  <2>. QED
    BY <2>1 DEF Shaped
<1>5. ASSUME Len(ring) > 1 PROVE ring[2].value = ring[1].size /\ ring[2].value \in Lengths
  <2>1. 2 <= Len(ring)
    BY <1>1, <1>5
  <2>2. ring[2].of # 0 /\ ring[2].at = 2 /\ ring[2].size = ring[1].size /\ Shaped(ring[2])
    BY <1>3, <2>1
  <2>. QED
    BY <2>2 DEF Shaped
<1>6. ASSUME Len(ring) > 4
      PROVE  /\ ring[3].value = TypeOf(ring[2].value) /\ ring[4].value < 14
             /\ ring[2].value \in DataLengths => ring[4].value < 7
  <2>1. 3 <= Len(ring) /\ 4 <= Len(ring) /\ Len(ring) > 1
    BY <1>1, <1>6
  <2>2. ring[2].value = ring[1].size
    BY <1>5, <2>1
  <2>3. ring[3].of # 0 /\ ring[3].at = 3 /\ ring[3].size = ring[1].size /\ Shaped(ring[3])
    BY <1>3, <2>1
  <2>4. ring[4].of # 0 /\ ring[4].at = 4 /\ ring[4].size = ring[1].size /\ Shaped(ring[4])
    BY <1>3, <2>1
  <2>5. ring[3].value = TypeOf(ring[1].size)
    BY <2>3 DEF Shaped
  <2>6. ring[4].value < 14 /\ (ring[1].size \in DataLengths => ring[4].value < 7)
    BY <2>4 DEF Shaped
  <2>. QED
    BY <2>2, <2>5, <2>6
<1>. QED
  BY <1>4, <1>5, <1>6

\* A byte joins the ring: the next of the frame being sent, or noise for it.
LEMMA ReceiveOK ==
  ASSUME DecInv, at < size, NEW b \in Bytes(sent), NEW c, Receive(b, c), c \subseteq 0 .. sent,
         \/ b.of = sent /\ b.size = size /\ b.at = at + 1 /\ Shaped(b)
         \/ b.of = 0 /\ b.at = 0 /\ sent \in c
  PROVE  DecInv'
<1>1. /\ at' = at + 1 /\ ring' = Queued(b) /\ hit' = (hit \cup PushedOut) \cup c
      /\ shifted' = (shifted \/ (state # "idle" /\ PushedOut # {}))
      /\ UNCHANGED <<state, msg, sent, size, delivered, lone, slipped>>
  BY DEF Receive
<1>2. /\ RingOK(Room, sent, at, size, hit \cup PushedOut, delivered)
      /\ Len(Room) \in Nat /\ Len(Room) < RingSize /\ Len(Room) + 1 >= Len(ring)
      /\ PushedOut \subseteq 0 .. sent
      /\ sent \in Nat \ {0} /\ size \in Sizes /\ at \in Nat
      /\ ring' = Append(Room, b)
  BY <1>1, RoomOK
<1>3. /\ Vars /\ Control /\ Handed(delivered, sent, at) /\ Increasing(delivered)
      /\ delivered \in Seq(Nat) /\ ring \in Seq(Bytes(sent)) /\ Len(ring) \in Nat
      /\ RingSize \in Nat /\ size \in Nat /\ msg.length \in Nat /\ msg.copied \in Nat
      /\ msg.copied <= msg.length
  <2>1. size \in Nat
    BY <1>2, SizesAre
  <2>. QED
    BY <2>1, LenProperties, MsgIs, NrfDecoderAssumption DEF DecInv, Vars, RingOK
<1>4. ring' \in Seq(Bytes(sent)) /\ IsAppend(ring', Room, b) /\ Room \in Seq(Bytes(sent))
  <2>1. Room \in Seq(Bytes(sent))
    BY <1>2 DEF RingOK
  <2>. QED
    BY <1>2, <2>1, AppendIsAppend
<1>5. RingOK(Room, sent, at, size, hit', delivered)
  <2>1. hit \cup PushedOut \subseteq hit'
    BY <1>1
  <2>. QED
    BY <1>2, <2>1, HitOK
<1>6. RingOK(ring', sent, at + 1, size, hit', delivered)
  <2>1. CASE b.of = sent /\ b.size = size /\ b.at = at + 1 /\ Shaped(b)
    BY <1>2, <1>3, <1>4, <1>5, <2>1, ByteOK
  <2>2. CASE b.of = 0 /\ b.at = 0 /\ sent \in c
    <3>1. sent \in hit' /\ at + 1 \in Nat
      BY <1>1, <1>2, <2>2
    <3>2. RingOK(Room, sent, at + 1, size, hit', delivered)
      BY <1>2, <1>5, <3>1, LostOK
    <3>. QED
      BY <1>2, <1>3, <1>4, <2>2, <3>1, <3>2, NoiseOK
  <2>. QED
    BY <2>1, <2>2
<1>7. Handed(delivered, sent, at + 1)
  BY <1>2, <1>3 DEF Handed
<1>8. Len(ring') \in Nat /\ Len(ring') <= RingSize /\ Len(ring') >= Len(ring)
  BY <1>2, <1>3, <1>4 DEF IsAppend
<1>9. Vars'
  <2>1. at' \in 0 .. size'
    BY <1>1, <1>2, <1>3
  <2>2. shifted' \in BOOLEAN
    BY <1>1, <1>3 DEF Vars
  <2>3. hit' \subseteq 0 .. sent
    BY <1>1, <1>2, <1>3 DEF Vars
  <2>. QED
    BY <1>1, <1>3, <1>8, <2>1, <2>2, <2>3 DEF Vars
<1>10. Control'
  <2>1. msg.copied > 0 => state \in {"body", "wrapped"} /\ msg.length <= Len(ring')
    BY <1>3, <1>8 DEF Control
  <2>2. /\ state # "idle" => Len(ring') >= 1
        /\ state = "header" => Len(ring') >= 2
        /\ state \in {"type", "command", "body"} => Len(ring') > 4
    BY <1>3, <1>8 DEF Control
  <2>. QED
    BY <1>1, <1>3, <2>1, <2>2 DEF Control
<1>11. ASSUME msg.copied > 0, msg.whole
       PROVE  msg.length \in Lengths /\ InFront(ring', delivered, msg.of, sent, at + 1)
  <2>1. msg.length \in Lengths /\ InFront(ring, delivered, msg.of, sent, at)
    BY <1>11 DEF DecInv
  <2>2. InFront(Room, delivered, msg.of, sent, at)
    <3>1. CASE Len(ring) < RingSize
      BY <2>1, <3>1 DEF Room
    <3>2. CASE ~(Len(ring) < RingSize)
      <4>1. ring # <<>>
        BY <1>2, <1>3, <3>2
      <4>2. IsSuffix(Tail(ring), ring, 1)
        BY <1>3, <4>1, TailIsSuffix
      <4>. QED
        BY <1>3, <2>1, <3>2, <4>2, FrontSuffix DEF Room
    <3>. QED
      BY <3>1, <3>2
  <2>3. sent \in Nat
    BY <1>2
  <2>. QED
    BY <1>2, <1>4, <2>1, <2>2, <2>3, FrontAppend
<1>12. ASSUME ~shifted' PROVE Seen'
  <2>1. CASE state = "idle"
    <3>1. state' = "idle" /\ msg' = msg /\ ~(msg.copied > 0)
      BY <1>1, <1>3, <2>1 DEF Control
    <3>2. 1 .. msg'.copied = {}
      <4>. QED
        BY <1>3, <3>1
    <3>. QED
      BY <3>1, <3>2 DEF Seen
  <2>2. CASE state # "idle"
    <3>1. Seen /\ PushedOut = {}
      BY <1>1, <1>12, <2>2 DEF DecInv
    <3>2. Room = ring
      BY <3>1 DEF PushedOut, Room
    <3>3. \A i \in 1 .. Len(ring) : ring'[i] = ring[i]
      BY <1>4, <3>2 DEF IsAppend
    <3>4. 1 \in 1 .. Len(ring)
      BY <1>3, <2>2 DEF Control
    <3>5. ring'[1] = ring[1]
      BY <3>3, <3>4
    <3>6. state = "header" => ring'[2] = ring[2]
      BY <1>3, <3>3 DEF Control
    <3>7. state \in {"type", "command", "body"} =>
            ring'[2] = ring[2] /\ ring'[3] = ring[3] /\ ring'[4] = ring[4]
      BY <1>3, <3>3 DEF Control
    <3>8. \A i \in 1 .. msg.copied : ring'[i] = ring[i]
      <4>. TAKE i \in 1 .. msg.copied
      <4>1. msg.copied > 0
        BY <1>3
      <4>2. msg.length <= Len(ring)
        BY <1>3, <4>1 DEF Control
      <4>3. i \in 1 .. Len(ring)
        BY <1>3, <4>2
      <4>. QED
        BY <3>3, <4>3
    <3>9. hit \subseteq hit' /\ lone' = lone /\ state' = state /\ msg' = msg
      BY <1>1
    <3>. QED
      BY <3>1, <3>5, <3>6, <3>7, <3>8, <3>9 DEF Seen
  <2>. QED
    BY <2>1, <2>2
<1>. QED
  BY <1>1, <1>3, <1>6, <1>7, <1>9, <1>10, <1>11, <1>12 DEF DecInv

\* What the peeks build.
Msgs(n) == [length : 0 .. 255, type : 0 .. 255, from : SUBSET (0 .. n),
            copied : 0 .. 255, of : 0 .. n, whole : BOOLEAN]

LEMMA GotoOK ==
  ASSUME DecInv, NEW place \in States \ {"idle"}, Goto(place), UNCHANGED shifted,
         hit' \subseteq 0 .. sent, hit \subseteq hit', lone' \subseteq 0 .. sent,
         msg' \in Msgs(sent), msg'.copied <= msg'.length,
         Len(ring) >= 1,
         place = "header" => Len(ring) >= 2,
         place \in {"type", "command", "body"} => Len(ring) > 4,
         msg'.copied > 0 => place \in {"body", "wrapped"} /\ msg'.length <= Len(ring),
         msg'.copied > 0 /\ msg'.whole =>
           msg'.length \in Lengths /\ InFront(ring, delivered, msg'.of, sent, at),
         ~shifted => Seen'
  PROVE  DecInv'
<1>1. /\ state' = place /\ UNCHANGED <<ring, sent, size, at, delivered, slipped>>
      /\ Vars /\ Control /\ RingOK(ring, sent, at, size, hit, delivered)
      /\ Handed(delivered, sent, at) /\ Increasing(delivered)
  BY DEF Goto, line, DecInv
<1>2. RingOK(ring, sent, at, size, hit', delivered)
  BY <1>1, HitOK
<1>3. Vars'
  BY <1>1 DEF Vars, Msgs
<1>4. Control'
  BY <1>1 DEF Control
<1>. QED
  BY <1>1, <1>2, <1>3, <1>4 DEF DecInv

\* A step of the decoder back to nRF52_IDLE.
LEMMA IdleOK ==
  ASSUME DecInv, GotoIdle, Len(ring') <= RingSize,
         hit' \subseteq 0 .. sent, slipped' \subseteq 0 .. sent, delivered' \in Seq(Nat),
         RingOK(ring', sent, at, size, hit', delivered'),
         Handed(delivered', sent, at), Increasing(delivered')
  PROVE  DecInv'
<1>1. /\ state' = "idle" /\ msg' = NoMsg /\ shifted' = FALSE
      /\ UNCHANGED <<sent, size, at, lone>> /\ Vars /\ Control
  BY DEF GotoIdle, line, DecInv
<1>2. sent \in Nat
  BY <1>1, NrfDecoderAssumption DEF Vars
<1>3. /\ msg'.copied = 0 /\ msg'.length = 0
      /\ msg' \in [length : 0 .. 255, type : 0 .. 255, from : SUBSET (0 .. sent),
                   copied : 0 .. 255, of : 0 .. sent, whole : BOOLEAN]
  BY <1>1, <1>2 DEF NoMsg
<1>4. Vars'
  <2>1. msg'.copied <= msg'.length
    BY <1>3
  <2>. QED
    BY <1>1, <1>3, <2>1 DEF Vars, States
<1>5. Control'
  BY <1>1, <1>3 DEF Control
<1>6. Seen'
  <2>1. 1 .. msg'.copied = {}
    BY <1>3
  <2>. QED
    BY <1>1, <2>1 DEF Seen
<1>. QED
  BY <1>1, <1>3, <1>4, <1>5, <1>6 DEF DecInv

LEMMA ValuesAtAre ==
  ASSUME NEW n \in Lengths, NEW i \in 1 .. n, NEW v \in ValuesAt(i, n)
  PROVE  /\ v \in 0 .. 255
         /\ i = 1 => v = Start
         /\ i = 2 => v = n
         /\ i = 3 => v = TypeOf(n)
         /\ i = 4 => v < 14 /\ (n \in DataLengths => v < 7)
<1>1. n \in 7 .. 84 /\ i \in Nat /\ i >= 1
  BY DEF Lengths
<1>2. CASE i = 1
  BY <1>2 DEF ValuesAt, Start
<1>3. CASE i = 2
  BY <1>1, <1>3 DEF ValuesAt
<1>4. CASE i = 3
  BY <1>4 DEF ValuesAt, TypeOf
<1>5. CASE i = 4
  <2>1. v \in {c \in Commands : n \in DataLengths => c < 7}
    BY <1>5 DEF ValuesAt
  <2>2. v \in 0 .. 13
    BY <2>1, NrfDecoderAssumption
  <2>. QED
    BY <1>5, <2>1, <2>2
<1>6. CASE i > 4
  <2>1. v \in Values
    BY <1>6 DEF ValuesAt
  <2>. QED
    BY <1>6, <2>1, NrfDecoderAssumption
<1>. QED
  BY <1>1, <1>2, <1>3, <1>4, <1>5, <1>6

LEMMA DecStep == DecInv /\ [Next]_vars => DecInv'
<1>. SUFFICES ASSUME DecInv, [Next]_vars PROVE DecInv'
  OBVIOUS
<1>0. /\ Vars /\ Control /\ RingOK(ring, sent, at, size, hit, delivered)
      /\ Handed(delivered, sent, at) /\ Increasing(delivered)
      /\ size \in Nat /\ sent \in Nat /\ at \in Nat /\ at <= size /\ Len(ring) \in Nat
      /\ delivered \in Seq(Nat) /\ RingSize \in Nat /\ MaxFrames \in Nat
      /\ ring \in Seq(Bytes(sent))
  <2>1. size \in Nat
    BY SizesAre DEF DecInv, Control
  <2>. QED
    BY <2>1, LenProperties, NrfDecoderAssumption DEF DecInv, Vars, RingOK
<1>a. /\ msg.copied <= msg.length
      /\ msg \in [length : 0 .. 255, type : 0 .. 255, from : SUBSET (0 .. sent),
                  copied : 0 .. 255, of : 0 .. sent, whole : BOOLEAN]
      /\ hit \subseteq 0 .. sent /\ lone \subseteq 0 .. sent /\ slipped \subseteq 0 .. sent
      /\ state = "idle" \/ Len(ring) >= 1
  BY <1>0 DEF Vars, Control
<1>m. msg \in Msgs(sent)
  BY <1>a DEF Msgs
<1>e. msg.copied \in Nat /\ msg.length \in Nat /\ msg.length <= 255 /\ msg.copied <= msg.length
  BY MsgIs
<1>b. \A i \in 1 .. Len(ring) : ring[i].of \in 0 .. sent /\ ring[i].value \in 0 .. 255
  <2>. TAKE i \in 1 .. Len(ring)
  <2>1. ring[i].of \in Nat /\ ring[i].of <= sent /\ ring[i].value \in 0 .. 255
    BY <1>0, BytesAre
  <2>. QED
    BY <1>0, <2>1
<1>c. ~shifted => Seen
  BY DEF DecInv
<1>1. CASE Begin
  <2>1. sent' = sent + 1 /\ at' = 0 /\ size' \in Sizes /\ sent' \in 0 .. MaxFrames
        /\ UNCHANGED <<ring, state, msg, delivered, hit, lone, shifted, slipped>>
    BY <1>0, <1>1 DEF Begin
  <2>2. at >= 7 \/ sent = 0
    BY <1>0, <1>1, SizesAre DEF Begin, Control
  <2>3. RingOK(ring', sent', at', size', hit', delivered')
    BY <1>0, <2>1, <2>2, BeginOK
  <2>4. Handed(delivered', sent', at')
    <3>. SUFFICES ASSUME NEW k \in 1 .. Len(delivered)
                  PROVE  k <= delivered[k] /\ delivered[k] <= sent + 1 /\ delivered[k] # sent + 1
      BY <2>1 DEF Handed
    <3>1. k <= delivered[k] /\ delivered[k] <= sent /\ delivered[k] \in Nat
      BY <1>0, ElementOfSeq DEF Handed
    <3>. QED
      BY <1>0, <3>1
  <2>5. Vars'
    <3>1. at' \in 0 .. size'
      BY <2>1, SizesAre
    <3>2. 0 .. sent \subseteq 0 .. sent'
      BY <1>0, <2>1
    <3>3. msg \in [length : 0 .. 255, type : 0 .. 255, from : SUBSET (0 .. sent'),
                   copied : 0 .. 255, of : 0 .. sent', whole : BOOLEAN]
      BY <1>a, <3>2
    <3>4. hit \subseteq 0 .. sent' /\ lone \subseteq 0 .. sent' /\ slipped \subseteq 0 .. sent'
      BY <1>a, <3>2
    <3>. QED
      BY <1>0, <2>1, <3>1, <3>3, <3>4 DEF Vars
  <2>6. ASSUME InFront(ring, delivered, msg.of, sent, at)
        PROVE  InFront(ring, delivered, msg.of, sent + 1, 0)
    BY <1>0, <2>6 DEF InFront
  <2>7. ~shifted' => Seen'
    BY <1>c, <2>1 DEF Seen
  <2>8. Control'
    BY <1>0, <2>1 DEF Control
  <2>9. (msg.copied > 0 /\ msg.whole =>
           msg.length \in Lengths /\ InFront(ring, delivered, msg.of, sent, at))
    BY DEF DecInv
  <2>. QED
    BY <1>0, <2>1, <2>3, <2>4, <2>5, <2>6, <2>7, <2>8, <2>9 DEF DecInv
<1>2. CASE RxIsr
  <2>1. at < size /\ size \in Sizes
    BY <1>0, <1>2 DEF RxIsr, Control
  <2>2. PICK v \in ValuesAt(at + 1, size) :
          Receive([of |-> sent, size |-> size, at |-> at + 1, value |-> v], {})
    BY <1>2 DEF RxIsr
  <2>. DEFINE b == [of |-> sent, size |-> size, at |-> at + 1, value |-> v]
              m == at + 1
  <2>3. size \in Lengths /\ size <= 84 /\ m \in 1 .. size /\ m \in 0 .. 84 /\ size \in 0 .. 84
    BY <1>0, <2>1, SizesAre
  <2>4. /\ v \in 0 .. 255
        /\ m = 1 => v = Start
        /\ m = 2 => v = size
        /\ m = 3 => v = TypeOf(size)
        /\ m = 4 => v < 14 /\ (size \in DataLengths => v < 7)
    <3>. HIDE DEF m
    <3>1. v \in ValuesAt(m, size)
      BY <2>2 DEF m
    <3>. QED
      BY <2>3, <3>1, ValuesAtAre
  <2>5. b \in Bytes(sent) /\ b.of = sent /\ b.size = size /\ b.at = m /\ b.value = v
    BY <1>0, <2>3, <2>4 DEF Bytes
  <2>6. Shaped(b)
    <3>. HIDE DEF b, m
    <3>1. m \in Nat /\ m >= 1
      BY <2>3
    <3>. QED
      BY <2>3, <2>4, <2>5, <3>1 DEF Shaped
  <2>. HIDE DEF b
  <2>. QED
    BY <2>1, <2>2, <2>5, <2>6, ReceiveOK DEF b
<1>3. CASE ByteChanges
  <2>1. at < size
    BY <1>3 DEF ByteChanges
  <2>2. PICK v \in Values : Receive([of |-> 0, size |-> 0, at |-> 0, value |-> v], {sent})
    BY <1>3 DEF ByteChanges
  <2>. DEFINE b == [of |-> 0, size |-> 0, at |-> 0, value |-> v]
  <2>3. b \in Bytes(sent) /\ b.of = 0 /\ b.at = 0
    <3>1. v \in 0 .. 255 /\ 0 \in 0 .. sent /\ 0 \in 0 .. 84
      BY <1>0, NrfDecoderAssumption
    <3>. QED
      BY <3>1 DEF Bytes
  <2>4. {sent} \subseteq 0 .. sent /\ sent \in {sent}
    BY <1>0
  <2>. HIDE DEF b
  <2>. QED
    BY <2>1, <2>2, <2>3, <2>4, ReceiveOK DEF b
<1>4. CASE ByteLost
  <2>1. at < size /\ at' = at + 1 /\ hit' = hit \cup {sent}
        /\ UNCHANGED <<ring, state, msg, sent, size, delivered, lone, shifted, slipped>>
    BY <1>4 DEF ByteLost
  <2>2. RingOK(ring, sent, at + 1, size, hit', delivered)
    <3>1. hit \subseteq hit' /\ sent \in hit'
      BY <2>1
    <3>2. RingOK(ring, sent, at, size, hit', delivered)
      BY <1>0, <3>1, HitOK
    <3>. QED
      BY <1>0, <3>1, <3>2, LostOK
  <2>3. Handed(delivered, sent, at + 1)
    BY <1>0 DEF Handed
  <2>4. Vars' /\ Control'
    BY <1>0, <2>1 DEF Vars, Control
  <2>5. ASSUME InFront(ring, delivered, msg.of, sent, at)
        PROVE  InFront(ring, delivered, msg.of, sent, at + 1)
    BY <1>0, <2>5 DEF InFront
  <2>6. ~shifted' => Seen'
    BY <1>c, <2>1 DEF Seen
  <2>7. (msg.copied > 0 /\ msg.whole =>
           msg.length \in Lengths /\ InFront(ring, delivered, msg.of, sent, at))
    BY DEF DecInv
  <2>. QED
    BY <1>0, <2>1, <2>2, <2>3, <2>4, <2>5, <2>6, <2>7 DEF DecInv
\* Nothing of a message has been copied before its body is.
<1>d. ASSUME state \notin {"body", "wrapped"} PROVE msg.copied = 0 /\ 1 .. msg.copied = {}
  BY <1>0, <1>d, <1>e DEF Control
<1>5. CASE FindSdByte
  <2>. DEFINE place == IF Head(ring).value = Start THEN "second" ELSE "dequeue"
  <2>1. state = "idle" /\ ring # <<>> /\ Goto(place)
        /\ UNCHANGED <<msg, hit, lone, shifted>>
    BY <1>5 DEF FindSdByte
  <2>2. place \in States \ {"idle"} /\ (place = "second" \/ place = "dequeue")
    BY DEF States
  <2>3. Len(ring) >= 1 /\ Head(ring) = ring[1]
    BY <1>0, <2>1, EmptySeq
  <2>4. msg.copied = 0 /\ 1 .. msg.copied = {}
    BY <1>d, <2>1
  <2>5. place = "dequeue" => ring[1].of = 0 \/ ring[1].at # 1
    <3>1. Shaped(ring[1])
      BY <1>0, <2>3 DEF RingOK
    <3>. QED
      BY <2>3, <3>1 DEF Shaped
  <2>6. state' = place /\ UNCHANGED ring
    BY <2>1 DEF Goto
  <2>. HIDE DEF place
  <2>7. Seen'
    BY <2>1, <2>2, <2>4, <2>5, <2>6 DEF Seen
  <2>. QED
    BY <1>a, <1>m, <2>1, <2>2, <2>3, <2>4, <2>7, GotoOK
<1>6. CASE SecondMissing
  <2>1. state = "second" /\ Len(ring) = 1 /\ Goto("dequeue") /\ lone' = lone \cup {Head(ring).of}
        /\ UNCHANGED <<msg, hit, shifted>>
    BY <1>6 DEF SecondMissing
  <2>2. Head(ring) = ring[1] /\ ring[1].of \in 0 .. sent
    BY <1>0, <1>b, <2>1, EmptySeq
  <2>3. msg.copied = 0 /\ 1 .. msg.copied = {}
    BY <1>d, <2>1
  <2>4. state' = "dequeue" /\ UNCHANGED ring
    BY <2>1 DEF Goto
  <2>5. Seen'
    BY <2>1, <2>2, <2>3, <2>4 DEF Seen
  <2>6. lone' \subseteq 0 .. sent
    <3>1. {ring[1].of} \subseteq 0 .. sent /\ lone' = lone \cup {ring[1].of}
      BY <2>1, <2>2
    <3>. QED
      BY <1>a, <3>1, Zenon
  <2>. QED
    BY <1>a, <1>m, <2>1, <2>3, <2>5, <2>6, GotoOK, StatesAre
<1>7. CASE SecondByte
  <2>. DEFINE place == IF ring[2].value = Start THEN "dequeue" ELSE "header"
  <2>1. state = "second" /\ Len(ring) > 1 /\ Goto(place) /\ UNCHANGED <<msg, hit, lone, shifted>>
        /\ (ring[2].value = Start \/ ring[2].value \in Lengths)
    BY <1>7 DEF SecondByte, IsLength
  <2>2. place \in States \ {"idle"} /\ (place = "dequeue" \/ place = "header")
    BY DEF States
  <2>3. msg.copied = 0 /\ 1 .. msg.copied = {}
    BY <1>d, <2>1
  <2>4. place = "header" => ring[2].value \in Lengths
    BY <2>1
  <2>5. place = "dequeue" => ring[1].of = 0 \/ ring[1].at # 1 \/ ring[1].of \in hit
    <3>. SUFFICES ASSUME ring[2].value = Start, ring[1].of # 0, ring[1].at = 1, ring[1].of \notin hit
                  PROVE  FALSE
      OBVIOUS
    <3>1. ring[2].value \in Lengths
      BY <1>0, <2>1, Kept
    <3>. QED
      BY <3>1 DEF Start, Lengths
  <2>6. state' = place /\ UNCHANGED ring
    BY <2>1 DEF Goto
  <2>. HIDE DEF place
  <2>7. Seen'
    BY <2>1, <2>2, <2>3, <2>4, <2>5, <2>6 DEF Seen
  <2>8. Len(ring) >= 1 /\ Len(ring) >= 2
    BY <1>0, <2>1
  <2>. QED
    BY <1>a, <1>m, <2>1, <2>2, <2>3, <2>7, <2>8, GotoOK
<1>8. CASE SecondOther
  <2>1. GotoIdle /\ UNCHANGED <<ring, delivered, hit, slipped>>
    BY <1>8 DEF SecondOther
  <2>. QED
    BY <1>0, <1>a, <2>1, IdleOK DEF Vars
<1>9. CASE PeekLength
  <2>0. msg' = [msg EXCEPT !.length = ring[2].value, !.from = {ring[2].of}]
    BY <1>9 DEF PeekLength
  <2>1. state = "header" /\ Len(ring) > 4 /\ Goto("type") /\ UNCHANGED <<hit, lone, shifted>>
    BY <1>9 DEF PeekLength, HeaderPartPresent
  <2>2. ring[2].value \in 0 .. 255 /\ ring[2].of \in 0 .. sent
    <3>1. 2 \in 1 .. Len(ring)
      BY <1>0, <2>1
    <3>. QED
      BY <1>b, <3>1
  <2>3. msg.copied = 0 /\ 1 .. msg.copied = {}
    BY <1>d, <2>1
  <2>4. /\ msg' \in Msgs(sent)
        /\ msg'.length = ring[2].value /\ msg'.from = {ring[2].of} /\ msg'.copied = msg.copied
    <3>1. {ring[2].of} \in SUBSET (0 .. sent)
      BY <2>2
    <3>. QED
      BY <1>m, <2>0, <2>2, <3>1 DEF Msgs
  <2>5. state' = "type" /\ UNCHANGED ring
    BY <2>1 DEF Goto
  <2>6. ~shifted => Seen'
    <3>1. ~shifted => ring[2].value \in Lengths
      BY <1>c, <2>1 DEF Seen
    <3>2. 1 .. msg'.copied = {}
      BY <2>3, <2>4
    <3>. QED
      BY <2>4, <2>5, <3>1, <3>2 DEF Seen
  <2>7. msg'.copied <= msg'.length /\ Len(ring) >= 1
        /\ ~(msg'.copied > 0)
    <3>1. ring[2].value >= 0
      <4>1. \A v \in 0 .. 255 : v >= 0
        OBVIOUS
      <4>. QED
        BY <2>2, <4>1, Zenon
    <3>. QED
      BY <1>0, <2>1, <2>3, <2>4, <3>1
  <2>. QED
    BY <1>a, <2>1, <2>4, <2>6, <2>7, GotoOK, StatesAre
<1>10. CASE PeekType
  <2>0. msg' = [msg EXCEPT !.type = ring[3].value, !.from = @ \cup {ring[3].of}]
    BY <1>10 DEF PeekType
  <2>1. /\ state = "type" /\ Goto("command") /\ UNCHANGED <<hit, lone, shifted>>
        /\ Len(ring) > 4
    BY <1>0, <1>10 DEF PeekType, Control
  <2>2. ring[3].value \in 0 .. 255 /\ ring[3].of \in 0 .. sent
    <3>1. 3 \in 1 .. Len(ring)
      BY <1>0, <2>1
    <3>. QED
      BY <1>b, <3>1
  <2>3. msg.copied = 0 /\ 1 .. msg.copied = {}
    BY <1>d, <2>1
  <2>4. /\ msg' \in Msgs(sent)
        /\ msg'.length = msg.length /\ msg'.type = ring[3].value
        /\ msg'.from = msg.from \cup {ring[3].of} /\ msg'.copied = msg.copied
    <3>1. msg.from \cup {ring[3].of} \in SUBSET (0 .. sent)
      BY <1>m, <2>2 DEF Msgs
    <3>. QED
      BY <1>m, <2>0, <2>2, <3>1 DEF Msgs
  <2>5. state' = "command" /\ UNCHANGED ring
    BY <2>1 DEF Goto
  <2>6. ~shifted => Seen'
    <3>. SUFFICES ASSUME Seen PROVE Seen'
      BY <1>c
    <3>1. msg.from = {ring[2].of} /\ msg.length = ring[2].value /\ msg.length \in Lengths
      BY <2>1 DEF Seen
    <3>2. msg'.from = {ring[2].of, ring[3].of}
      BY <2>4, <3>1
    <3>3. 1 .. msg'.copied = {}
      BY <2>3, <2>4
    <3>. QED
      BY <2>4, <2>5, <3>1, <3>2, <3>3 DEF Seen
  <2>7. msg'.copied <= msg'.length /\ Len(ring) >= 1
        /\ ~(msg'.copied > 0)
    BY <1>0, <1>e, <2>1, <2>3, <2>4
  <2>. QED
    BY <1>a, <2>1, <2>4, <2>6, <2>7, GotoOK, StatesAre
<1>11. CASE PeekCommand
  <2>. DEFINE place == IF HeaderIsValid(ring[4].value) THEN "body" ELSE "dequeue"
  <2>0. msg' = [msg EXCEPT !.from = @ \cup {ring[4].of}]
    BY <1>11 DEF PeekCommand
  <2>1. /\ state = "command" /\ Goto(place) /\ UNCHANGED <<hit, lone, shifted>>
        /\ Len(ring) > 4
    BY <1>0, <1>11 DEF PeekCommand, Control
  <2>2. place \in States \ {"idle"} /\ (place = "body" \/ place = "dequeue")
        /\ (place = "dequeue" => ~HeaderIsValid(ring[4].value))
    BY DEF States
  <2>3. msg.copied = 0 /\ 1 .. msg.copied = {}
    BY <1>d, <2>1
  <2>4. /\ msg' \in Msgs(sent)
        /\ msg'.length = msg.length /\ msg'.from = msg.from \cup {ring[4].of}
        /\ msg'.copied = msg.copied
    <3>1. ring[4].of \in 0 .. sent
      BY <1>0, <1>b, <2>1
    <3>2. msg.from \cup {ring[4].of} \in SUBSET (0 .. sent)
      BY <1>m, <3>1 DEF Msgs
    <3>. QED
      BY <1>m, <2>0, <3>2 DEF Msgs
  <2>5. state' = place /\ UNCHANGED ring
    BY <2>1 DEF Goto
  <2>. HIDE DEF place
  <2>6. ~shifted => Seen'
    <3>. SUFFICES ASSUME Seen PROVE Seen'
      BY <1>c
    <3>1. /\ msg.from = {ring[2].of, ring[3].of} /\ msg.length = ring[2].value
          /\ msg.length \in Lengths /\ msg.type = ring[3].value
      BY <2>1 DEF Seen
    <3>2. msg'.from = {ring[2].of, ring[3].of, ring[4].of}
      BY <2>4, <3>1
    <3>3. place = "dequeue" => ring[1].of = 0 \/ ring[1].at # 1 \/ ring[1].of \in hit
      <4>. SUFFICES ASSUME place = "dequeue", ring[1].of # 0, ring[1].at = 1, ring[1].of \notin hit
                    PROVE  FALSE
        OBVIOUS
      <4>1. /\ ring[3].value = TypeOf(ring[2].value) /\ ring[4].value < 14
            /\ ring[2].value \in DataLengths => ring[4].value < 7
        BY <1>0, <2>1, Kept
      <4>2. msg.length < 86
        BY <3>1 DEF Lengths
      <4>3. HeaderIsValid(ring[4].value)
        BY <3>1, <4>1, <4>2 DEF HeaderIsValid, TypeOf
      <4>. QED
        BY <2>2, <4>3
    <3>4. 1 .. msg'.copied = {}
      BY <2>3, <2>4
    <3>. QED
      <4>1. \A i \in 1 .. msg'.copied : ring'[i].of = msg'.of
        BY <3>4
      <4>2. CASE place = "body"
        BY <2>4, <2>5, <3>1, <3>2, <4>1, <4>2 DEF Seen
      <4>3. CASE place = "dequeue"
        BY <2>1, <2>5, <3>3, <4>1, <4>3 DEF Seen
      <4>. QED
        BY <2>2, <4>2, <4>3
  <2>7. msg'.copied <= msg'.length /\ Len(ring) >= 1 /\ ~(msg'.copied > 0) /\ place # "header"
    BY <1>0, <1>a, <2>1, <2>2, <2>3, <2>4
  <2>. QED
    BY <1>a, <2>1, <2>2, <2>4, <2>6, <2>7, GotoOK
<1>12. CASE TimedOut
  <2>1. /\ state = "header" \/ (state = "body" /\ ~BodyPartPresent)
        /\ Goto("dequeue") /\ UNCHANGED <<msg, lone, shifted>> /\ hit' = hit \cup {Head(ring).of}
    BY <1>12 DEF TimedOut
  <2>2. Len(ring) >= 1 /\ Head(ring) = ring[1] /\ ring[1].of \in 0 .. sent
    <3>1. Len(ring) >= 1
      BY <1>a, <2>1
    <3>. QED
      BY <1>0, <1>b, <3>1, EmptySeq
  <2>3. ~(msg.copied > 0)
    BY <1>0, <1>e, <2>1 DEF Control, BodyPartPresent
  <2>4. state' = "dequeue" /\ UNCHANGED ring /\ 1 .. msg.copied = {}
    BY <1>e, <2>1, <2>3 DEF Goto
  <2>5. Seen'
    BY <2>1, <2>2, <2>4 DEF Seen
  <2>6. hit' \subseteq 0 .. sent
    BY <1>a, <2>1, <2>2
  <2>. QED
    BY <1>a, <1>m, <2>1, <2>2, <2>3, <2>5, <2>6, GotoOK, StatesAre
<1>13. CASE PeekBody
  <2>. DEFINE i == msg.copied + 1
              b == ring[i]
              whole == /\ msg.whole /\ b.of # 0 /\ b.at = i /\ b.size = msg.length
                       /\ msg.copied = 0 \/ b.of = msg.of
              of == IF msg.copied = 0 THEN b.of ELSE msg.of
  <2>0. msg' = [msg EXCEPT !.copied = i, !.of = of, !.whole = whole]
    BY <1>13 DEF PeekBody
  <2>1. /\ state = "body" /\ Len(ring) >= msg.length /\ msg.copied < msg.length
        /\ Goto("body") /\ UNCHANGED <<hit, lone, shifted>>
        /\ Len(ring) > 4
    BY <1>0, <1>13 DEF PeekBody, BodyPartPresent, Control
  <2>2. i \in 1 .. Len(ring) /\ i \in 0 .. 255 /\ i <= msg.length /\ b.of \in 0 .. sent
        /\ \A x \in 1 .. i : x # i => x \in 1 .. msg.copied
    <3>0. Len(ring) \in Nat /\ msg.length <= Len(ring) /\ msg.copied < msg.length
      BY <1>0, <2>1
    <3>1. i \in 1 .. Len(ring) /\ i \in 0 .. 255 /\ i <= msg.length
          /\ \A x \in 1 .. i : x # i => x \in 1 .. msg.copied
      BY <1>e, <3>0, NextByte
    <3>. HIDE DEF i
    <3>. QED
      BY <1>b, <3>1
  <2>3. of \in 0 .. sent /\ whole \in BOOLEAN
    BY <1>a, <2>2
  <2>4. /\ msg' \in Msgs(sent)
        /\ msg'.length = msg.length /\ msg'.from = msg.from /\ msg'.copied = i
        /\ msg'.of = of /\ msg'.whole = whole
    <3>1. i \in 0 .. 255
      BY <2>2
    <3>. HIDE DEF i, of, whole
    <3>. QED
      BY <1>m, <2>0, <2>3, <3>1 DEF Msgs
  <2>5. ASSUME whole PROVE msg.length \in Lengths /\ InFront(ring, delivered, of, sent, at)
    <3>1. CASE msg.copied # 0
      <4>1. of = msg.of /\ msg.copied > 0 /\ msg.whole
        BY <1>e, <2>5, <3>1
      <4>. QED
        BY <4>1 DEF DecInv
    <3>2. CASE msg.copied = 0
      <4>1. i = 1 /\ of = ring[1].of /\ ring[1].of # 0 /\ ring[1].at = 1 /\ ring[1].size = msg.length
            /\ 1 \in 1 .. Len(ring)
        BY <2>2, <2>5, <3>2
      <4>2. msg.length \in Lengths
        <5>1. Shaped(ring[1])
          BY <1>0, <4>1 DEF RingOK
        <5>. QED
          BY <4>1, <5>1 DEF Shaped
      <4>3. ring[1].of \in 1 .. sent /\ (ring[1].of = sent => at >= 1)
        <5>1. ring[1].of \in 0 .. sent /\ (ring[1].of = sent => 1 <= at)
          BY <1>0, <1>b, <4>1 DEF RingOK, Arrived
        <5>. QED
          BY <1>0, <4>1, <5>1
      <4>4. \A k \in 1 .. Len(delivered) : delivered[k] < ring[1].of
        BY <1>0, <4>1 DEF RingOK, Behind
      <4>5. \A x \in 1 .. Len(ring) : ring[x].of # 0 =>
              ring[1].of < ring[x].of \/ (ring[1].of = ring[x].of /\ (x = 1 \/ ring[x].at > 1))
        <5>. SUFFICES ASSUME NEW x \in 1 .. Len(ring), ring[x].of # 0, x # 1
                      PROVE  ring[1].of < ring[x].of \/ (ring[1].of = ring[x].of /\ ring[x].at > 1)
          OBVIOUS
        <5>1. Before(ring[1], ring[x])
          BY <1>0, <4>1 DEF RingOK, Ordered
        <5>. QED
          BY <4>1, <5>1 DEF Before
      <4>6. InFront(ring, delivered, ring[1].of, sent, at)
        BY <4>3, <4>4, <4>5 DEF InFront
      <4>. QED
        BY <4>1, <4>2, <4>6
    <3>. QED
      BY <3>1, <3>2
  <2>6. state' = "body" /\ UNCHANGED ring
    BY <2>1 DEF Goto
  <2>7. ~shifted => Seen'
    <3>. SUFFICES ASSUME Seen PROVE Seen'
      BY <1>c
    <3>1. ASSUME whole, NEW x \in 1 .. i PROVE ring[x].of = of
      <4>1. CASE x = i
        BY <3>1, <4>1
      <4>2. CASE x # i
        <5>1. x \in 1 .. msg.copied
          BY <2>2, <4>2
        <5>2. msg.copied # 0 /\ msg.whole
          BY <1>e, <3>1, <5>1
        <5>3. ring[x].of = msg.of
          BY <5>1, <5>2 DEF Seen
        <5>. QED
          BY <5>2, <5>3
      <4>. QED
        BY <4>1, <4>2
    <3>2. /\ msg.length = ring[2].value /\ msg.length \in Lengths
          /\ msg.from = {ring[2].of, ring[3].of, ring[4].of}
      BY <2>1 DEF Seen
    <3>. HIDE DEF i, b, of, whole
    <3>. QED
      BY <2>1, <2>4, <2>6, <3>1, <3>2 DEF Seen
  <2>8. "body" \in States \ {"idle"} /\ Len(ring) >= 1
    BY <1>0, <2>1 DEF States
  <2>. HIDE DEF i, b, of, whole
  <2>. QED
    BY <1>a, <2>1, <2>2, <2>4, <2>5, <2>7, <2>8, GotoOK
<1>14. CASE Dequeue
  <2>1. state = "dequeue" /\ ring' = Tail(ring) /\ Slips({Head(ring).of}) /\ GotoIdle
        /\ UNCHANGED <<delivered, hit>>
    BY <1>14 DEF Dequeue, Dequeued
  <2>2. ring # <<>>
    BY <1>a, <2>1, EmptySeq
  <2>3. /\ RingOK(Tail(ring), sent, at, size, hit, delivered) /\ Len(Tail(ring)) <= RingSize
        /\ Head(ring).of \in 0 .. sent
    BY <2>2, Shrinks
  <2>4. slipped' \subseteq 0 .. sent
    BY <1>a, <2>1, <2>3 DEF Slips
  <2>. QED
    BY <1>0, <1>a, <2>1, <2>3, <2>4, IdleOK
<1>15. CASE CorrectFrame
  <2>1. /\ BodyBuilt /\ msg.whole /\ msg.length # 0 /\ ring' = Taken
        /\ delivered' = Append(delivered, msg.of) /\ Slips(TakenFrom \ {msg.of}) /\ GotoIdle
        /\ UNCHANGED hit
    BY <1>15 DEF CorrectFrame, CsCorrect
  <2>2. msg.length \in Lengths /\ InFront(ring, delivered, msg.of, sent, at)
    <3>1. msg.copied > 0
      BY <1>e, <2>1 DEF BodyBuilt
    <3>. QED
      BY <2>1, <3>1 DEF DecInv
  <2>. DEFINE k == msg.length - 3
  <2>3. /\ k \in Nat /\ k <= Len(ring) /\ Taken \in Seq(Bytes(sent)) /\ IsSuffix(Taken, ring, k)
        /\ Len(Taken) <= RingSize /\ TakenFrom \subseteq 0 .. sent
    <3>1. msg.length > 2
      BY <2>2 DEF Lengths
    <3>. QED
      BY <2>1, <3>1, TakenOK
  <2>4. 1 <= k
    BY <2>2 DEF Lengths
  <2>. HIDE DEF k
  <2>5. LET e == Append(delivered, msg.of)
        IN  e \in Seq(Nat) /\ RingOK(Taken, sent, at, size, hit, e) /\ Handed(e, sent, at) /\ Increasing(e)
    BY <1>0, <2>2, <2>3, <2>4, HandOver
  <2>6. slipped' \subseteq 0 .. sent
    BY <1>a, <2>1, <2>3 DEF Slips
  <2>. QED
    BY <1>a, <2>1, <2>3, <2>5, <2>6, IdleOK
<1>16. CASE MixedFrame
  <2>1. /\ BodyBuilt /\ msg.whole /\ msg.length # 0 /\ ring' = Taken
        /\ Slips(TakenFrom \cup {msg.of}) /\ GotoIdle /\ UNCHANGED <<delivered, hit>>
    BY <1>16 DEF MixedFrame, CsCorrect
  <2>2. msg.length > 2
    <3>1. msg.copied > 0
      BY <1>e, <2>1 DEF BodyBuilt
    <3>2. msg.length \in Lengths
      BY <2>1, <3>1 DEF DecInv
    <3>. QED
      BY <3>2 DEF Lengths
  <2>3. /\ RingOK(Taken, sent, at, size, hit, delivered)
        /\ Len(Taken) <= RingSize /\ TakenFrom \subseteq 0 .. sent
    BY <2>1, <2>2, TakenOK
  <2>4. slipped' \subseteq 0 .. sent
    <3>1. {msg.of} \subseteq 0 .. sent
      BY <1>m DEF Msgs
    <3>2. slipped' = slipped \/ slipped' = slipped \cup (TakenFrom \cup {msg.of})
      BY <2>1 DEF Slips
    <3>. QED
      BY <1>a, <2>3, <3>1, <3>2, Zenon
  <2>. QED
    BY <1>0, <1>a, <2>1, <2>3, <2>4, IdleOK
<1>17. CASE IncorrectFrame
  <2>1. GotoIdle /\ UNCHANGED <<ring, delivered, hit, slipped>>
    BY <1>17 DEF IncorrectFrame
  <2>. QED
    BY <1>0, <1>a, <2>1, IdleOK DEF Vars
<1>18. CASE AccidentalFit
  <2>1. /\ BodyBuilt /\ msg.length > 2 /\ ring' = Taken /\ hit' = hit \cup TakenFrom
        /\ GotoIdle /\ UNCHANGED <<delivered, slipped>>
    BY <1>18 DEF AccidentalFit
  <2>2. /\ RingOK(Taken, sent, at, size, hit, delivered)
        /\ Len(Taken) <= RingSize /\ TakenFrom \subseteq 0 .. sent
    BY <2>1, TakenOK
  <2>3. hit \subseteq hit' /\ hit' \subseteq 0 .. sent
    BY <1>a, <2>1, <2>2
  <2>4. RingOK(Taken, sent, at, size, hit', delivered)
    BY <2>2, <2>3, HitOK
  <2>. QED
    BY <1>0, <1>a, <2>1, <2>2, <2>3, <2>4, IdleOK
<1>19. CASE Wraps
  <2>1. /\ BodyBuilt /\ msg.length < 3 /\ Goto("wrapped") /\ UNCHANGED <<msg, hit, lone, shifted>>
    BY <1>19 DEF Wraps
  <2>2. state = "body" /\ Len(ring) >= 1 /\ msg.length <= Len(ring)
    BY <1>a, <2>1 DEF BodyBuilt, BodyPartPresent
  <2>3. shifted
    <3>1. msg.length \notin Lengths
      BY <2>1 DEF Lengths
    <3>. QED
      BY <1>c, <2>2, <3>1 DEF Seen
  <2>4. "wrapped" \in States \ {"idle"}
    BY DEF States
  <2>5. msg.copied > 0 /\ msg.whole =>
          msg.length \in Lengths /\ InFront(ring, delivered, msg.of, sent, at)
    BY DEF DecInv
  <2>. QED
    BY <1>a, <1>m, <2>1, <2>2, <2>3, <2>4, <2>5, GotoOK
<1>20. CASE UNCHANGED vars
  <2>1. UNCHANGED <<ring, state, msg, sent, size, at, delivered, hit, lone, shifted, slipped>>
    BY <1>20 DEF vars, line
  <2>2. Vars' /\ Control' /\ (~shifted' => Seen')
    BY <1>0, <1>c, <2>1 DEF Vars, Control, Seen
  <2>3. msg.copied > 0 /\ msg.whole =>
          msg.length \in Lengths /\ InFront(ring, delivered, msg.of, sent, at)
    BY DEF DecInv
  <2>. QED
    BY <1>0, <2>1, <2>2, <2>3 DEF DecInv
<1>. QED
  BY <1>1, <1>2, <1>3, <1>4, <1>5, <1>6, <1>7, <1>8, <1>9, <1>10, <1>11, <1>12, <1>13, <1>14,
     <1>15, <1>16, <1>17, <1>18, <1>19, <1>20 DEF Next

LEMMA DecInit == Init => DecInv
<1>. SUFFICES ASSUME Init PROVE DecInv
  OBVIOUS
<1>1. Len(ring) = 0 /\ Len(delivered) = 0 /\ ring \in Seq(Bytes(sent)) /\ delivered \in Seq(Nat)
  BY EmptySeq DEF Init
<1>2. RingOK(ring, sent, at, size, hit, delivered)
  BY <1>1 DEF RingOK, Ordered, Arrived, Whole, Behind
<1>3. Handed(delivered, sent, at) /\ Increasing(delivered)
  BY <1>1 DEF Handed, Increasing
<1>4. msg.copied = 0 /\ msg.length = 0 /\ 1 .. msg.copied = {} /\ sent = 0
      /\ msg \in [length : 0 .. 255, type : 0 .. 255, from : SUBSET (0 .. 0),
                  copied : 0 .. 255, of : 0 .. 0, whole : BOOLEAN]
  BY DEF Init, NoMsg
<1>5. Vars
  <2>1. msg.copied <= msg.length
    BY <1>4
  <2>2. Len(ring) <= RingSize /\ sent \in 0 .. MaxFrames /\ at \in 0 .. size
    BY <1>1, NrfDecoderAssumption DEF Init
  <2>3. state \in States /\ shifted \in BOOLEAN /\ hit = {} /\ lone = {} /\ slipped = {}
    BY DEF Init, States
  <2>. QED
    BY <1>1, <1>4, <2>1, <2>2, <2>3 DEF Vars
<1>7. Control
  BY <1>1, <1>4 DEF Init, Control
<1>6. Seen
  BY <1>4 DEF Init, Seen
<1>. QED
  BY <1>2, <1>3, <1>4, <1>5, <1>6, <1>7 DEF DecInv

LEMMA DecAlways == Spec => []DecInv
BY DecInit, DecStep, PTL DEF Spec

\* The ring stays within its size, and no more frames are handed over than
\* were sent, for every size of the ring and set of frame lengths.
THEOREM TypeCorrect == Spec => []TypeOK
<1>1. DecInv => TypeOK
  <2>. SUFFICES ASSUME DecInv PROVE TypeOK
    OBVIOUS
  <2>1. Vars /\ ring \in Seq(Bytes(sent)) /\ Handed(delivered, sent, at)
    BY DEF DecInv, RingOK
  <2>2. Len(delivered) <= sent
    <3>1. Len(delivered) \in Nat /\ sent \in Nat
      BY <2>1, LenProperties DEF Vars
    <3>2. CASE Len(delivered) > 0
      <4>1. Len(delivered) \in 1 .. Len(delivered)
        BY <3>1, <3>2
      <4>2. Len(delivered) <= delivered[Len(delivered)] /\ delivered[Len(delivered)] <= sent
            /\ delivered[Len(delivered)] \in Nat
        BY <2>1, <4>1, ElementOfSeq DEF Handed, Vars
      <4>. QED
        BY <3>1, <4>2
    <3>. QED
      BY <3>1, <3>2
  <2>. QED
    BY <2>1, <2>2 DEF TypeOK, Vars, Bytes
<1>. QED
  BY <1>1, DecAlways, PTL

\* Frames are handed over in their order and none twice, whatever noise, a
\* full ring and timeouts do to the bytes between them.
THEOREM OrderedOnce == Spec => []InOrderAndOnce
<1>1. DecInv => InOrderAndOnce
  <2>. SUFFICES ASSUME DecInv PROVE InOrderAndOnce
    OBVIOUS
  <2>1. DOMAIN delivered = 1 .. Len(delivered)
    BY LenProperties DEF DecInv, Vars
  <2>. QED
    BY <2>1 DEF DecInv, Increasing, InOrderAndOnce
<1>. QED
  BY <1>1, DecAlways, PTL

\* The unsigned subtractions of nRF52_csCorrect wrap only when the ring has
\* moved on since the length was found to be one.
THEOREM WrapsForAReason == Spec => []WrapsOnlyWhenShifted
<1>1. DecInv => WrapsOnlyWhenShifted
  BY DEF DecInv, Seen, WrapsOnlyWhenShifted
<1>. QED
  BY <1>1, DecAlways, PTL

-----------------------------------------------------------------------------
(* No frame is lost but for a reason. *)

\* The first byte of frame f is in q.
Here(q, f) == \E i \in 1 .. Len(q) : q[i].of = f /\ q[i].at = 1

Given(d, f) == \E i \in 1 .. Len(d) : d[i] = f

\* Where frame f may be.
Known(f) ==
  Given(delivered, f) \/ f \in hit \cup lone \cup slipped \/ Here(ring, f) \/ (f = sent /\ at = 0)

LostInv == \A f \in 1 .. sent : Known(f)

\* The first byte of a frame stays when it is not among those that go.
LEMMA HereSuffix ==
  ASSUME NEW S, NEW q \in Seq(S), NEW r, NEW k \in Nat, IsSuffix(r, q, k), NEW f, Here(q, f),
         \A i \in 1 .. Len(q) : i <= k => ~(q[i].of = f /\ q[i].at = 1)
  PROVE  Here(r, f)
<1>1. PICK i \in 1 .. Len(q) : q[i].of = f /\ q[i].at = 1
  BY DEF Here
<1>. DEFINE x == i - k
<1>2. x \in 1 .. Len(r) /\ x + k = i
  <2>1. ~(i <= k) /\ Len(q) \in Nat
    BY <1>1, LenProperties
  <2>. QED
    BY <2>1 DEF IsSuffix
<1>. HIDE DEF x
<1>3. r[x] = q[i]
  BY <1>2 DEF IsSuffix
<1>. QED
  BY <1>1, <1>2, <1>3 DEF Here

LEMMA HereAppend ==
  ASSUME NEW S, NEW q \in Seq(S), NEW r, NEW b, IsAppend(r, q, b), NEW f,
         Here(q, f) \/ (b.of = f /\ b.at = 1)
  PROVE  Here(r, f)
<1>1. Len(q) \in Nat
  BY LenProperties
<1>2. CASE Here(q, f)
  <2>1. PICK i \in 1 .. Len(q) : q[i].of = f /\ q[i].at = 1
    BY <1>2 DEF Here
  <2>2. i \in 1 .. Len(r) /\ r[i] = q[i]
    BY <1>1 DEF IsAppend
  <2>. QED
    BY <2>1, <2>2 DEF Here
<1>3. CASE b.of = f /\ b.at = 1
  <2>1. Len(q) + 1 \in 1 .. Len(r) /\ r[Len(q) + 1] = b
    BY <1>1 DEF IsAppend
  <2>. QED
    BY <1>3, <2>1 DEF Here
<1>. QED
  BY <1>2, <1>3

\* The interrupt keeps the first byte of a frame, or the frame is hit.
LEMMA HereRoom ==
  ASSUME DecInv, at < size, NEW f, Here(ring, f), f \notin PushedOut
  PROVE  Here(Room, f)
<1>1. ring \in Seq(Bytes(sent)) /\ Len(ring) \in Nat
  BY LenProperties DEF DecInv, RingOK
<1>2. CASE Len(ring) < RingSize
  BY <1>2 DEF Room
<1>3. CASE ~(Len(ring) < RingSize)
  <2>1. ring # <<>> /\ Head(ring) = ring[1] /\ Room = Tail(ring) /\ PushedOut = {ring[1].of}
    <3>1. PICK i \in 1 .. Len(ring) : TRUE
      BY DEF Here
    <3>2. ring # <<>>
      BY <1>1, <3>1, EmptySeq
    <3>. QED
      BY <1>3, <3>2 DEF Room, PushedOut
  <2>2. IsSuffix(Tail(ring), ring, 1)
    BY <1>1, <2>1, TailIsSuffix
  <2>3. \A i \in 1 .. Len(ring) : i <= 1 => ~(ring[i].of = f /\ ring[i].at = 1)
    BY <2>1
  <2>. QED
    BY <1>1, <2>1, <2>2, <2>3, HereSuffix
<1>. QED
  BY <1>2, <1>3

LEMMA LostStep == DecInv /\ LostInv /\ [Next]_vars => LostInv'
<1>. SUFFICES ASSUME DecInv, LostInv, [Next]_vars, NEW f \in 1 .. sent' PROVE Known(f)'
  BY DEF LostInv
<1>0. /\ ring \in Seq(Bytes(sent)) /\ Len(ring) \in Nat /\ sent \in Nat /\ at \in Nat /\ size \in Nat
      /\ delivered \in Seq(Nat) /\ Len(delivered) \in Nat
  <2>1. size \in Nat
    BY SizesAre DEF DecInv, Control
  <2>. QED
    BY <2>1, LenProperties, NrfDecoderAssumption DEF DecInv, Vars, RingOK
<1>1. CASE Begin
  <2>1. sent' = sent + 1 /\ at' = 0 /\ at = size /\ UNCHANGED <<ring, delivered, hit, lone, slipped>>
    BY <1>1 DEF Begin
  <2>2. CASE f = sent + 1
    BY <2>1, <2>2 DEF Known
  <2>3. CASE f # sent + 1
    <3>1. f \in 1 .. sent
      BY <1>0, <2>1, <2>3
    <3>2. at # 0
      BY <1>0, <2>1, <3>1, SizesAre DEF DecInv, Control
    <3>3. Known(f)
      BY <3>1 DEF LostInv
    <3>. QED
      BY <2>1, <3>2, <3>3 DEF Known
  <2>. QED
    BY <2>2, <2>3
<1>2. CASE sent' = sent /\ ~Begin /\ ~UNCHANGED vars
  <2>1. f \in 1 .. sent /\ f # 0 /\ Known(f)
    BY <1>2 DEF LostInv
  \* Only the disappearance of its first byte takes a frame's place away.
  <2>2. ASSUME UNCHANGED at, hit \subseteq hit', lone \subseteq lone', slipped \subseteq slipped',
               Given(delivered, f) => Given(delivered', f),
               (Here(ring, f) /\ f \notin hit \cup lone \cup slipped)
                  => Here(ring', f) \/ f \in hit' \cup slipped' \/ Given(delivered', f)
        PROVE  Known(f)'
    BY <1>2, <2>1, <2>2 DEF Known
  \* A byte of the line takes none away but from a frame that it hits.
  <2>3. ASSUME at < size, NEW b \in Bytes(sent), NEW c, Receive(b, c),
               f = sent /\ at = 0 => (b.of = f /\ b.at = 1) \/ f \in c
        PROVE  Known(f)'
    <3>1. /\ ring' = Queued(b) /\ hit' = (hit \cup PushedOut) \cup c
          /\ UNCHANGED <<delivered, lone, slipped>>
      BY <2>3 DEF Receive
    <3>2. Room \in Seq(Bytes(sent)) /\ ring' = Append(Room, b)
      BY <2>3, <3>1, RoomOK DEF RingOK
    <3>3. IsAppend(ring', Room, b)
      BY <3>2, AppendProperties, LenProperties DEF IsAppend
    <3>4. CASE f = sent /\ at = 0
      <4>1. CASE b.of = f /\ b.at = 1
        <5>1. Here(ring', f)
          BY <3>2, <3>3, <4>1, HereAppend
        <5>. QED
          BY <5>1 DEF Known
      <4>2. CASE f \in c
        BY <3>1, <4>2 DEF Known
      <4>. QED
        BY <2>3, <3>4, <4>1, <4>2
    <3>5. CASE Here(ring, f) /\ f \notin PushedOut
      <4>1. Here(Room, f)
        BY <2>3, <3>5, HereRoom
      <4>2. Here(ring', f)
        BY <3>2, <3>3, <4>1, HereAppend
      <4>. QED
        BY <4>2 DEF Known
    <3>6. CASE Given(delivered, f) \/ f \in hit \cup lone \cup slipped \/ f \in PushedOut
      BY <3>1, <3>6 DEF Known
    <3>. QED
      BY <2>1, <3>4, <3>5, <3>6 DEF Known
  <2>4. CASE RxIsr
    <3>1. at < size /\ size \in Sizes
      BY <1>0, <2>4 DEF RxIsr, DecInv, Control
    <3>2. PICK v \in ValuesAt(at + 1, size) :
            Receive([of |-> sent, size |-> size, at |-> at + 1, value |-> v], {})
      BY <2>4 DEF RxIsr
    <3>. DEFINE b == [of |-> sent, size |-> size, at |-> at + 1, value |-> v]
                m == at + 1
    <3>3. b \in Bytes(sent) /\ b.of = sent /\ b.at = at + 1
      <4>1. size \in Lengths /\ size <= 84 /\ m \in 1 .. size /\ m \in 0 .. 84 /\ size \in 0 .. 84
        BY <1>0, <3>1, SizesAre
      <4>2. v \in 0 .. 255
        <5>. HIDE DEF m
        <5>1. v \in ValuesAt(m, size)
          BY <3>2 DEF m
        <5>. QED
          BY <4>1, <5>1, ValuesAtAre
      <4>. QED
        BY <1>0, <4>1, <4>2 DEF Bytes
    <3>. HIDE DEF b
    <3>4. f = sent /\ at = 0 => b.of = f /\ b.at = 1
      BY <3>3
    <3>. QED
      BY <2>3, <3>1, <3>2, <3>3, <3>4 DEF b
  <2>5. CASE ByteChanges
    <3>1. at < size
      BY <2>5 DEF ByteChanges
    <3>2. PICK v \in Values : Receive([of |-> 0, size |-> 0, at |-> 0, value |-> v], {sent})
      BY <2>5 DEF ByteChanges
    <3>. DEFINE b == [of |-> 0, size |-> 0, at |-> 0, value |-> v]
    <3>3. b \in Bytes(sent)
      <4>1. v \in 0 .. 255 /\ 0 \in 0 .. sent /\ 0 \in 0 .. 84
        BY <1>0, NrfDecoderAssumption
      <4>. QED
        BY <4>1 DEF Bytes
    <3>4. f = sent /\ at = 0 => f \in {sent}
      OBVIOUS
    <3>. HIDE DEF b
    <3>. QED
      BY <2>3, <3>1, <3>2, <3>3, <3>4 DEF b
  <2>6. CASE ByteLost
    <3>1. hit' = hit \cup {sent} /\ UNCHANGED <<ring, delivered, lone, slipped>>
      BY <2>6 DEF ByteLost
    <3>. QED
      BY <2>1, <3>1 DEF Known
  <2>7. CASE FindSdByte \/ SecondMissing \/ SecondByte \/ PeekLength \/ PeekType \/ PeekCommand
             \/ TimedOut \/ PeekBody \/ Wraps
    <3>1. UNCHANGED <<ring, at, delivered, slipped>> /\ hit \subseteq hit' /\ lone \subseteq lone'
      BY <2>7 DEF FindSdByte, SecondMissing, SecondByte, PeekLength, PeekType, PeekCommand,
         TimedOut, PeekBody, Wraps, Goto, line
    <3>. QED
      BY <2>2, <3>1
  <2>8. CASE SecondOther \/ IncorrectFrame
    <3>1. UNCHANGED <<ring, at, delivered, slipped, hit, lone>>
      BY <2>8 DEF SecondOther, IncorrectFrame, GotoIdle, line
    <3>. QED
      BY <2>2, <3>1
  <2>9. CASE Dequeue
    <3>1. state = "dequeue" /\ ring' = Tail(ring) /\ Slips({Head(ring).of})
          /\ UNCHANGED <<at, delivered, hit, lone>>
      BY <2>9 DEF Dequeue, Dequeued, GotoIdle, line
    <3>2. ring # <<>>
      BY <1>0, <3>1, EmptySeq DEF DecInv, Control
    <3>3. Head(ring) = ring[1] /\ IsSuffix(Tail(ring), ring, 1)
      BY <3>2, Shrinks
    <3>4. slipped \subseteq slipped' /\ (shifted => ring[1].of \in slipped')
      BY <3>1, <3>3 DEF Slips
    <3>5. ASSUME Here(ring, f), f \notin hit \cup lone PROVE Here(ring', f) \/ f \in slipped'
      <4>1. CASE ring[1].of = f /\ ring[1].at = 1
        <5>1. shifted
          BY <2>1, <3>1, <3>5, <4>1 DEF DecInv, Seen
        <5>. QED
          BY <3>4, <4>1, <5>1
      <4>2. CASE ~(ring[1].of = f /\ ring[1].at = 1)
        <5>1. \A i \in 1 .. Len(ring) : i <= 1 => ~(ring[i].of = f /\ ring[i].at = 1)
          BY <4>2
        <5>. QED
          BY <1>0, <3>1, <3>3, <3>5, <5>1, HereSuffix
      <4>. QED
        BY <4>1, <4>2
    <3>. QED
      BY <2>2, <3>1, <3>4, <3>5
  \* What is removed behind a checksum that fits.
  <2>10. ASSUME BodyBuilt, msg.length > 2, ring' = Taken, Here(ring, f), f \notin TakenFrom
         PROVE  Here(ring', f)
    <3>. DEFINE k == msg.length - 3
    <3>1. k \in Nat /\ IsSuffix(ring', ring, k)
      BY <2>10, TakenOK
    <3>2. \A i \in 1 .. Len(ring) : i <= k => ~(ring[i].of = f /\ ring[i].at = 1)
      <4>. SUFFICES ASSUME NEW i \in 1 .. Len(ring), i <= k PROVE ring[i].of # f
        OBVIOUS
      <4>1. i \in 1 .. k
        BY <1>0, <3>1
      <4>. QED
        BY <2>10, <4>1 DEF TakenFrom
    <3>. HIDE DEF k
    <3>. QED
      BY <1>0, <2>10, <3>1, <3>2, HereSuffix
  <2>11. ASSUME CsCorrect
         PROVE  /\ BodyBuilt /\ msg.length > 2 /\ msg.of \in 1 .. sent
                /\ ~shifted => TakenFrom = {msg.of} /\ msg.from = {msg.of}
    <3>1. BodyBuilt /\ msg.whole /\ msg.copied > 0 /\ msg.copied = msg.length
      BY <2>11, MsgIs DEF CsCorrect, BodyBuilt
    <3>2. msg.length \in Lengths /\ msg.of \in 1 .. sent
      BY <3>1 DEF DecInv, InFront
    <3>3. ASSUME ~shifted PROVE TakenFrom = {msg.of} /\ msg.from = {msg.of}
      <4>1. /\ \A i \in 1 .. msg.length : ring[i].of = msg.of
            /\ msg.from = {ring[2].of, ring[3].of, ring[4].of}
        BY <3>1, <3>3 DEF DecInv, Seen, BodyBuilt
      <4>2. \A i \in 1 .. msg.length - 3 : ring[i].of = msg.of
        BY <3>2, <4>1 DEF Lengths
      <4>3. 1 \in 1 .. msg.length - 3 /\ 2 \in 1 .. msg.length /\ 3 \in 1 .. msg.length
            /\ 4 \in 1 .. msg.length
        BY <3>2 DEF Lengths
      <4>4. TakenFrom = {msg.of}
        BY <4>2, <4>3 DEF TakenFrom
      <4>5. ring[2].of = msg.of /\ ring[3].of = msg.of /\ ring[4].of = msg.of
        BY <4>1, <4>3
      <4>. QED
        BY <4>1, <4>4, <4>5
    <3>. QED
      BY <3>1, <3>2, <3>3 DEF Lengths
  <2>12. CASE CorrectFrame
    <3>1. /\ CsCorrect /\ ring' = Taken /\ delivered' = Append(delivered, msg.of)
          /\ Slips(TakenFrom \ {msg.of}) /\ UNCHANGED <<at, hit, lone>>
      BY <2>12 DEF CorrectFrame, GotoIdle, line
    <3>2. IsAppend(delivered', delivered, msg.of)
      <4>1. msg.of \in Nat
        BY <1>0, <2>11, <3>1
      <4>. QED
        BY <1>0, <3>1, <4>1, AppendIsAppend
    <3>3. ASSUME Given(delivered, f) \/ f = msg.of PROVE Given(delivered', f)
      <4>1. CASE f = msg.of
        <5>1. Len(delivered) + 1 \in 1 .. Len(delivered')
          BY <1>0, <3>2 DEF IsAppend
        <5>. QED
          BY <3>2, <4>1, <5>1 DEF IsAppend, Given
      <4>2. CASE Given(delivered, f)
        <5>1. PICK i \in 1 .. Len(delivered) : delivered[i] = f
          BY <4>2 DEF Given
        <5>2. i \in 1 .. Len(delivered') /\ delivered'[i] = f
          BY <1>0, <3>2, <5>1 DEF IsAppend
        <5>. QED
          BY <5>2 DEF Given
      <4>. QED
        BY <3>3, <4>1, <4>2
    <3>4. slipped \subseteq slipped' /\ (f \in TakenFrom => f = msg.of \/ f \in slipped')
      <4>1. CASE shifted
        BY <3>1, <4>1 DEF Slips
      <4>2. CASE ~shifted
        <5>1. TakenFrom = {msg.of}
          BY <2>11, <3>1, <4>2
        <5>. QED
          BY <3>1, <4>2, <5>1 DEF Slips
      <4>. QED
        BY <4>1, <4>2
    <3>5. ASSUME Here(ring, f), f \notin TakenFrom PROVE Here(ring', f)
      BY <2>10, <2>11, <3>1, <3>5
    <3>. QED
      BY <2>2, <3>1, <3>3, <3>4, <3>5
  <2>13. CASE MixedFrame
    <3>1. /\ CsCorrect /\ msg.from # {msg.of} /\ ring' = Taken
          /\ Slips(TakenFrom \cup {msg.of}) /\ UNCHANGED <<at, delivered, hit, lone>>
      BY <2>13 DEF MixedFrame, GotoIdle, line
    <3>2. shifted
      BY <2>11, <3>1
    <3>3. slipped \subseteq slipped' /\ (f \in TakenFrom => f \in slipped')
      BY <3>1, <3>2 DEF Slips
    <3>4. ASSUME Here(ring, f), f \notin TakenFrom PROVE Here(ring', f)
      BY <2>10, <2>11, <3>1, <3>4
    <3>. QED
      BY <2>2, <3>1, <3>3, <3>4
  <2>14. CASE AccidentalFit
    <3>1. /\ BodyBuilt /\ msg.length > 2 /\ ring' = Taken /\ hit' = hit \cup TakenFrom
          /\ UNCHANGED <<at, delivered, lone, slipped>>
      BY <2>14 DEF AccidentalFit, GotoIdle, line
    <3>2. ASSUME Here(ring, f), f \notin TakenFrom PROVE Here(ring', f)
      BY <2>10, <3>1, <3>2
    <3>. QED
      BY <2>2, <3>1, <3>2
  <2>. QED
    BY <1>2, <2>4, <2>5, <2>6, <2>7, <2>8, <2>9, <2>12, <2>13, <2>14 DEF Next
<1>3. CASE UNCHANGED vars
  <2>1. UNCHANGED <<ring, sent, at, delivered, hit, lone, slipped>>
    BY <1>3 DEF vars, line
  <2>2. Known(f)
    BY <2>1 DEF LostInv
  <2>. QED
    BY <2>1, <2>2 DEF Known
<1>4. sent' = sent \/ Begin
  BY DEF Next, RxIsr, ByteChanges, ByteLost, Receive, FindSdByte, SecondMissing, SecondByte,
     SecondOther, Dequeue, PeekLength, PeekType, PeekCommand, TimedOut, PeekBody, CorrectFrame,
     MixedFrame, IncorrectFrame, AccidentalFit, Wraps, Goto, GotoIdle, vars, line
<1>. QED
  BY <1>1, <1>2, <1>3, <1>4

LEMMA LostInit == Init => LostInv
<1>. SUFFICES ASSUME Init PROVE LostInv
  OBVIOUS
<1>1. 1 .. sent = {}
  BY DEF Init
<1>. QED
  BY <1>1 DEF LostInv

\* A frame is lost only when noise, a full ring or a timeout hit one of its
\* bytes, when the decoder found its delimiter alone, or when the full ring
\* moved on between the decoder's look and its removal, which then took one of
\* its bytes: what else nRF52_prot_decoder does to get past a broken frame, and
\* past the rest of a good one, costs none of the frames behind.
THEOREM LostForAReason == Spec => []LostOnlyWhenHit
<1>1. DecInv /\ LostInv => LostOnlyWhenHit
  <2>. SUFFICES ASSUME DecInv, NEW f \in 1 .. sent, Known(f)
                PROVE  \/ \E i \in DOMAIN delivered : delivered[i] = f
                       \/ f \in hit \cup lone \cup slipped
                       \/ \E i \in DOMAIN ring : ring[i].of = f /\ ring[i].at = 1
                       \/ f = sent /\ at = 0
    BY DEF LostInv, LostOnlyWhenHit
  <2>1. DOMAIN delivered = 1 .. Len(delivered) /\ DOMAIN ring = 1 .. Len(ring)
    BY LenProperties DEF DecInv, Vars, RingOK
  <2>. QED
    BY <2>1 DEF Known, Given, Here
<1>. QED
  BY <1>1, DecInit, DecStep, LostInit, LostStep, PTL DEF Spec

=============================================================================
