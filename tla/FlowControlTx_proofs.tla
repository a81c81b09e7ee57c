------------------------ MODULE FlowControlTx_proofs ------------------------
(***************************************************************************)
(* Theorems about FlowControlTx for every size of packet, burst and file   *)
(* and every number of requests and losses: the counters of the sender     *)
(* stay those of a transfer, it never believes more than is true, and when *)
(* it is over the tablet holds the file.                                   *)
(*                                                                         *)
(* The first turns on what is never sent.  The last burst can be short of  *)
(* packets (Pending); its last packet then holds more than Payload, its    *)
(* end is not found, and so no acknowledgement ever carries its number     *)
(* (Fits): were it acknowledged, packetSent would leave the multiples of   *)
(* Burst.  The second turns on the order of what is under way while the    *)
(* sender waits for the answer to an INIT (Opening), the third on what the *)
(* packets under way hold (Content).                                       *)
(***************************************************************************)
EXTENDS FlowControlTx, Integers, SequenceTheorems, TLAPS

Handlers == [state : {"init", "wait", "burst", "over", "fault"}, packets : Nat,
             burstSent : Nat, packetSent : Nat, pending : Nat, start : Nat, bytes : Nat]

\* Packets of a file of s bytes.
Total(s) == (s + Payload - 1) \div Payload

\* m is the last packet of a short burst that leaves packets behind.
TooLong(s, m) ==
  \E k \in Nat : LET r == Total(s) - k * Burst IN
    0 < r /\ r < Burst /\ Pending(r) < r /\ m = k * Burst + Pending(r)

Fits(s, n) == \A m \in Nat : TooLong(s, m) => n < m

Numbers(s) == {n \in 1 .. Total(s) : Fits(s, n)}

Data(s) == [kind : {"data"}, number : Numbers(s), bytes : Seq(Nat)]
Inits(s, b) == [kind : {"init"}, packets : {Total(s)}, burst : 0 .. 255, transfer : 1 .. b]
InitAcks(b) == [kind : {"initAck"}, transfer : 1 .. b]
Requests == [kind : {"request"}]
Acks(s) == [kind : {"ack", "nack"}, number : Numbers(s)]

Outgoing(s, b) == Inits(s, b) \cup Data(s)
Incoming(s, b) == Requests \cup InitAcks(b) \cup Acks(s)

-----------------------------------------------------------------------------
(* Arithmetic. *)

LEMMA Multiples ==
  ASSUME NEW a \in Nat, NEW b \in Nat, NEW c \in Nat
  PROVE  /\ a * c \in Nat
         /\ a < b => a * c + c <= b * c
         /\ a <= b => a * c <= b * c
         /\ (a + 1) * c = a * c + c
         /\ (a + b) * c = a * c + b * c
<1>1. a * c \in Nat /\ b * c \in Nat /\ (a + 1) * c = a * c + c /\ (a + b) * c = a * c + b * c
  BY SMT
<1>2. ASSUME a <= b PROVE a * c <= b * c
  <2>1. b - a \in Nat /\ (b - a) * c \in Nat /\ b * c = a * c + (b - a) * c
    BY <1>2, SMT
  <2>. QED
    BY <1>1, <2>1
<1>3. ASSUME a < b PROVE a * c + c <= b * c
  <2>1. b - (a + 1) \in Nat /\ (b - (a + 1)) * c \in Nat
        /\ b * c = (a + 1) * c + (b - (a + 1)) * c
    BY <1>3, SMT
  <2>. QED
    BY <1>1, <2>1
<1>. QED
  BY <1>1, <1>2, <1>3

LEMMA TotalIs ==
  ASSUME NEW s \in Nat
  PROVE  /\ Total(s) \in Nat
         /\ s <= Total(s) * Payload
         /\ s > 0 => Total(s) > 0 /\ (Total(s) - 1) * Payload < s
<1>. DEFINE n == s + Payload - 1
            q == n \div Payload
            r == n % Payload
<1>1. Payload \in Nat \ {0} /\ n \in Nat
  BY FlowControlAssumption
<1>2. q \in Nat /\ r \in 0 .. Payload - 1 /\ n = Payload * q + r
  <2>. HIDE DEF n
  <2>. QED
    BY <1>1, SMT
<1>3. q * Payload = Payload * q /\ (q - 1) * Payload = q * Payload - Payload
  <2>. HIDE DEF q
  <2>. QED
    BY <1>1, <1>2, SMT
<1>4. s > 0 => q > 0
  <2>1. q = 0 => Payload * q = 0
    <3>. HIDE DEF q
    <3>. QED
      BY <1>1
  <2>. QED
    BY <1>1, <1>2, <2>1
<1>5. Total(s) = q
  BY DEF Total
<1>. HIDE DEF q
<1>. QED
  BY <1>1, <1>2, <1>3, <1>4, <1>5

LEMMA PendingIs ==
  ASSUME NEW r \in Nat \ {0}
  PROVE  /\ Pending(r) \in 1 .. Burst
         /\ Pending(r) <= r
         /\ r >= Burst => Pending(r) = Burst
         /\ r < Burst => Pending(r) < Burst
<1>1. Burst \in Nat \ {0}
  BY FlowControlAssumption
<1>2. r < Burst => Burst % r \in 0 .. r - 1
  BY <1>1
<1>3. r > Burst => Burst % r = Burst
  BY <1>1
<1>. QED
  BY <1>1, <1>2, <1>3 DEF Pending

\* The number of an acknowledgement is no more than that of its packet.
LEMMA PacketNumberIs ==
  ASSUME NEW n \in Nat
  PROVE  PacketNumber(n) \in Nat /\ PacketNumber(n) <= n
BY DEF PacketNumber

LEMMA FitsBelow ==
  ASSUME NEW s \in Nat, NEW n \in Nat, NEW m \in Nat, m <= n, Fits(s, n)
  PROVE  Fits(s, m)
BY DEF Fits

-----------------------------------------------------------------------------
(* A burst: of p packets sent before it, in k bursts. *)

\* A packet of a burst has a number that fits, unless it is the last one of a
\* short burst.
LEMMA InBurst ==
  ASSUME NEW s \in Nat, NEW k \in Nat, NEW p, p = k * Burst, p < Total(s),
         NEW r, r = Total(s) - p, NEW i \in 1 .. Pending(r),
         i < Pending(r) \/ Pending(r) = r \/ r >= Burst
  PROVE  p + i \in Numbers(s)
<1>1. /\ Burst \in Nat \ {0} /\ p \in Nat /\ Total(s) \in Nat /\ r \in Nat \ {0}
      /\ Pending(r) \in 1 .. Burst /\ Pending(r) <= r
  <2>1. Burst \in Nat \ {0} /\ p \in Nat /\ Total(s) \in Nat
    BY FlowControlAssumption, TotalIs, Multiples
  <2>2. r \in Nat \ {0}
    BY <2>1
  <2>. QED
    BY <2>1, <2>2, PendingIs
<1>2. ASSUME NEW m \in Nat, TooLong(s, m) PROVE p + i < m
  <2>1. PICK l \in Nat : /\ 0 < Total(s) - l * Burst /\ Total(s) - l * Burst < Burst
                         /\ Pending(Total(s) - l * Burst) < Total(s) - l * Burst
                         /\ m = l * Burst + Pending(Total(s) - l * Burst)
    BY <1>2 DEF TooLong
  <2>. DEFINE q == l * Burst
  <2>2. /\ q \in Nat /\ 0 < Total(s) - q /\ Total(s) - q < Burst
        /\ m = q + Pending(Total(s) - q)
    BY <1>1, <2>1, Multiples
  <2>3. Pending(Total(s) - q) \in 1 .. Burst
    <3>1. Total(s) - q \in Nat \ {0}
      BY <1>1, <2>1, <2>2
    <3>. QED
      BY <3>1, PendingIs
  <2>4. CASE l = k
    <3>1. Total(s) - q = r /\ q = p
      BY <2>4
    <3>2. Pending(r) < r /\ r < Burst /\ m = p + Pending(r)
      BY <2>1, <3>1
    <3>3. i < Pending(r)
      BY <1>1, <3>2
    <3>. QED
      BY <1>1, <3>2, <3>3
  <2>5. CASE l < k
    <3>1. q + Burst <= p
      BY <1>1, <2>5, Multiples
    <3>. HIDE DEF q
    <3>. QED
      BY <1>1, <2>2, <3>1
  <2>6. CASE k < l
    <3>1. p + Burst <= q
      BY <1>1, <2>6, Multiples
    <3>. HIDE DEF q
    <3>. QED
      BY <1>1, <2>2, <2>3, <3>1
  <2>. QED
    BY <2>4, <2>5, <2>6
<1>3. p + i \in 1 .. Total(s)
  BY <1>1
<1>. QED
  BY <1>2, <1>3 DEF Numbers, Fits

\* A burst whose last packet is acknowledged is the last of the file or
\* a full one.
LEMMA BurstEnds ==
  ASSUME NEW s \in Nat, NEW k \in Nat, NEW p, p = k * Burst, p < Total(s),
         NEW r, r = Total(s) - p, Fits(s, p + Pending(r))
  PROVE  \/ p + Pending(r) = Total(s)
         \/ p + Pending(r) < Total(s) /\ p + Pending(r) = (k + 1) * Burst
<1>1. /\ Burst \in Nat \ {0} /\ p \in Nat /\ Total(s) \in Nat /\ r \in Nat \ {0}
      /\ Pending(r) \in 1 .. Burst /\ Pending(r) <= r
      /\ r >= Burst => Pending(r) = Burst
  <2>1. Burst \in Nat \ {0} /\ p \in Nat /\ Total(s) \in Nat
    BY FlowControlAssumption, TotalIs, Multiples
  <2>2. r \in Nat \ {0}
    BY <2>1
  <2>. QED
    BY <2>1, <2>2, PendingIs
<1>2. CASE r < Burst
  <2>1. ASSUME Pending(r) < r PROVE TooLong(s, p + Pending(r))
    <3>1. /\ 0 < Total(s) - k * Burst /\ Total(s) - k * Burst < Burst
          /\ Pending(Total(s) - k * Burst) < Total(s) - k * Burst
          /\ p + Pending(r) = k * Burst + Pending(Total(s) - k * Burst)
      BY <1>1, <1>2, <2>1
    <3>. QED
      BY <3>1, Zenon DEF TooLong
  <2>2. p + Pending(r) \in Nat /\ ~(p + Pending(r) < p + Pending(r))
    BY <1>1
  <2>3. Pending(r) = r
    BY <1>1, <2>1, <2>2 DEF Fits
  <2>. QED
    BY <1>1, <2>3
<1>3. CASE r >= Burst
  <2>1. (k + 1) * Burst = p + Burst
    BY <1>1, Multiples
  <2>. QED
    BY <1>1, <1>3, <2>1
<1>. QED
  BY <1>1, <1>2, <1>3

\* What the sender sets out with: t.packets of the file, t.packetSent sent.
Sending(t, s) ==
  /\ t \in Handlers
  /\ s \in Nat /\ s > 0
  /\ t.packets = Total(s) /\ t.packetSent = t.burstSent * Burst /\ t.packetSent < Total(s)

\* A burst is within the file, and reaches its end unless it is a full one.
Within(b, s) ==
  LET r == Total(s) - b.packetSent IN
  /\ Sending(b, s)
  /\ b.pending = Pending(r) /\ b.pending \in 1 .. Burst /\ b.pending <= r
  /\ b.start = b.packetSent * Payload
  /\ b.start + b.bytes = s \/ (r > Burst /\ b.bytes = Burst * Payload)
  /\ b.start + b.bytes <= s

LEMMA BurstIs ==
  ASSUME NEW t, Sending(t, size)
  PROVE  /\ Within(WithBurst(t), size)
         /\ WithBurst(t).state = t.state /\ WithBurst(t).burstSent = t.burstSent
         /\ WithBurst(t).packetSent = t.packetSent
<1>. DEFINE P == Total(size)
            k == t.burstSent
            p == t.packetSent
            r == P - p
            start == k * Burst * Payload
            next == (k + 1) * Burst * Payload
            end == IF r <= Burst THEN size ELSE next
            b == WithBurst(t)
<1>1. /\ Burst \in Nat \ {0} /\ Payload \in Nat \ {0} /\ P \in Nat /\ k \in Nat /\ p \in Nat
      /\ size \in Nat /\ p = k * Burst /\ p < P /\ t.packets = P /\ (P - 1) * Payload < size
  BY FlowControlAssumption, TotalIs DEF Sending, Handlers
<1>2. r \in Nat \ {0} /\ Pending(r) \in 1 .. Burst /\ Pending(r) <= r
  <2>1. r \in Nat \ {0}
    BY <1>1
  <2>. QED
    BY <2>1, PendingIs
<1>3. start = p * Payload /\ start \in Nat /\ start <= (P - 1) * Payload
  <2>1. P - 1 \in Nat /\ p <= P - 1
    BY <1>1
  <2>. QED
    BY <1>1, <2>1, Multiples
<1>4. next = start + Burst * Payload /\ Burst * Payload \in Nat
  <2>1. (k + 1) * Burst = k * Burst + Burst
    BY <1>1, Multiples
  <2>2. k * Burst \in Nat
    BY <1>1
  <2>. QED
    BY <1>1, <2>1, <2>2, Multiples
<1>5. ASSUME r > Burst PROVE next <= (P - 1) * Payload
  <2>1. P - 1 \in Nat /\ p + Burst \in Nat /\ p + Burst <= P - 1
    BY <1>1, <1>5
  <2>2. next = (p + Burst) * Payload
    BY <1>1, Multiples
  <2>. QED
    BY <1>1, <2>1, <2>2, Multiples
<1>6. /\ end - start \in Nat
      /\ start + (end - start) = size \/ (r > Burst /\ end - start = Burst * Payload)
      /\ start + (end - start) <= size
  <2>1. (P - 1) * Payload \in Int /\ (P - 1) * Payload < size
    <3>1. P - 1 \in Nat
      BY <1>1
    <3>. QED
      BY <1>1, <3>1, Multiples
  <2>. HIDE DEF start, next
  <2>. QED
    BY <1>1, <1>2, <1>3, <1>4, <1>5, <2>1
<1>7. b = [t EXCEPT !.pending = Pending(r), !.start = start, !.bytes = end - start]
  BY <1>1 DEF WithBurst
<1>8. Pending(r) \in Nat /\ start \in Nat /\ end - start \in Nat
  BY <1>2, <1>3, <1>6
<1>. HIDE DEF start, end, r
<1>9. /\ b \in Handlers /\ b.packets = t.packets /\ b.state = t.state /\ b.burstSent = t.burstSent
      /\ b.packetSent = t.packetSent /\ b.pending = Pending(r) /\ b.start = start
      /\ b.bytes = end - start
  BY <1>7, <1>8 DEF Sending, Handlers
<1>10. r = P - b.packetSent
  BY <1>9 DEF r
<1>. QED
  BY <1>1, <1>2, <1>3, <1>6, <1>9, <1>10 DEF Sending, Within

-----------------------------------------------------------------------------
(* The packets of a burst. *)

\* What packet m of a file of s bytes holds.
SizeOf(s, m) ==
  IF m < Total(s) \/ Total(s) % Burst = 0 THEN Payload ELSE s - (Total(s) - 1) * Payload

LEMMA FunctionIsSeq ==
  ASSUME NEW S, NEW n \in Nat, NEW f \in [1 .. n -> S]
  PROVE  f \in Seq(S) /\ Len(f) = n
BY SMT

LEMMA Remainder ==
  ASSUME NEW k \in Nat, NEW b \in Nat \ {0}, NEW r \in 0 .. b - 1
  PROVE  (k * b + r) % b = r
<1>. DEFINE x == k * b + r
            q == x \div b
            m == x % b
<1>1. x \in Nat /\ k * b \in Nat
  BY SMT
<1>2. q \in Nat /\ m \in 0 .. b - 1 /\ x = b * q + m
  <2>. HIDE DEF x
  <2>. QED
    BY <1>1, SMT
<1>3. b * q = q * b
  <2>. HIDE DEF q
  <2>. QED
    BY <1>2
<1>. HIDE DEF q, m
<1>4. q < k => q * b + b <= k * b
  BY <1>2, Multiples
<1>5. k < q => k * b + b <= q * b
  BY <1>2, Multiples
<1>6. q * b \in Nat
  BY <1>2, Multiples
<1>7. q = k
  BY <1>1, <1>2, <1>3, <1>4, <1>5, <1>6
<1>8. m = r
  BY <1>1, <1>2, <1>3, <1>7
<1>. QED
  BY <1>8 DEF m

LEMMA PacketSizeIs ==
  ASSUME NEW b, Within(b, size), NEW i \in 1 .. b.pending
  PROVE  /\ PacketSize(b, i) \in Nat
         /\ PacketSize(b, i) <= Payload =>
              /\ b.packetSent + i \in Numbers(size)
              /\ PacketSize(b, i) = SizeOf(size, b.packetSent + i)
<1>. DEFINE P == Total(size)
            k == b.burstSent
            p == b.packetSent
            r == P - p
            n == b.pending
<1>1. /\ Burst \in Nat \ {0} /\ Payload \in Nat \ {0} /\ P \in Nat /\ k \in Nat /\ p \in Nat
      /\ size \in Nat /\ p = k * Burst /\ p < P /\ (P - 1) * Payload < size
  BY FlowControlAssumption, TotalIs DEF Sending, Handlers, Within
<1>2. r \in Nat \ {0} /\ n \in 1 .. Burst /\ n = Pending(r) /\ n <= r /\ b.bytes \in Nat
      /\ (r >= Burst => n = Burst) /\ (r < Burst => n < Burst)
  <2>1. r \in Nat \ {0}
    BY <1>1
  <2>. QED
    BY <2>1, PendingIs DEF Within, Sending, Handlers
<1>3. b.start = p * Payload /\ (b.start + b.bytes = size \/ (r > Burst /\ b.bytes = Burst * Payload))
  BY DEF Within
<1>4. CASE n = Burst \/ i < n
  <2>1. PacketSize(b, i) = Payload
    BY <1>2, <1>4 DEF PacketSize
  <2>2. p + i \in Numbers(size)
    <3>1. i < Pending(r) \/ Pending(r) = r \/ r >= Burst
      BY <1>1, <1>2, <1>4
    <3>2. i \in 1 .. Pending(r) /\ size \in Nat /\ k \in Nat
      BY <1>1, <1>2
    <3>. QED
      BY <1>1, <3>1, <3>2, InBurst
  <2>3. p + i < P \/ P % Burst = 0
    <3>1. CASE r = Burst
      <4>1. P = (k + 1) * Burst + 0
        BY <1>1, <3>1, Multiples
      <4>2. k + 1 \in Nat /\ 0 \in 0 .. Burst - 1
        BY <1>1
      <4>3. ((k + 1) * Burst + 0) % Burst = 0
        BY <1>1, <4>2, Remainder
      <4>. QED
        BY <4>1, <4>3
    <3>2. CASE r # Burst
      BY <1>1, <1>2, <1>4, <3>2
    <3>. QED
      BY <3>1, <3>2
  <2>. QED
    BY <1>1, <2>1, <2>2, <2>3 DEF SizeOf
<1>5. CASE n # Burst /\ i = n
  <2>1. PacketSize(b, i) = b.bytes - (n - 1) * Payload
    BY <1>2, <1>5 DEF PacketSize
  <2>2. r < Burst /\ b.start + b.bytes = size
    BY <1>1, <1>2, <1>3, <1>5
  <2>3. /\ p * Payload \in Nat /\ (n - 1) * Payload \in Nat
        /\ (p + (n - 1)) * Payload = p * Payload + (n - 1) * Payload
        /\ (p + (n - 1)) * Payload <= (P - 1) * Payload
    <3>1. n - 1 \in Nat /\ P - 1 \in Nat /\ p + (n - 1) \in Nat /\ p + (n - 1) <= P - 1
      BY <1>1, <1>2
    <3>2. p * Payload \in Nat /\ (n - 1) * Payload \in Nat
          /\ (p + (n - 1)) * Payload = p * Payload + (n - 1) * Payload
      BY <1>1, <3>1, Multiples
    <3>3. (p + (n - 1)) * Payload <= (P - 1) * Payload
      BY <1>1, <3>1, Multiples
    <3>. QED
      BY <3>2, <3>3
  <2>4. PacketSize(b, i) \in Nat /\ PacketSize(b, i) = size - (p + (n - 1)) * Payload
    <3>. DEFINE x == p * Payload
                y == (n - 1) * Payload
                z == (p + (n - 1)) * Payload
                w == (P - 1) * Payload
    <3>1. /\ x \in Nat /\ y \in Nat /\ z = x + y /\ z <= w /\ w < size /\ w \in Int
          /\ b.start = x /\ PacketSize(b, i) = b.bytes - y
      <4>1. w \in Int
        BY <1>1
      <4>. QED
        BY <1>1, <1>3, <2>1, <2>3, <4>1
    <3>. HIDE DEF x, y, z, w
    <3>2. PacketSize(b, i) \in Nat /\ PacketSize(b, i) = size - z
      BY <1>1, <1>2, <2>2, <3>1
    <3>. QED
      BY <3>2 DEF z
  <2>5. ASSUME PacketSize(b, i) <= Payload PROVE n = r
    <3>1. SUFFICES ASSUME n < r PROVE FALSE
      BY <1>2
    <3>. DEFINE z == (p + (n - 1)) * Payload
                w == (P - 1) * Payload
    <3>2. z + Payload <= w
      <4>1. P - 1 \in Nat /\ p + (n - 1) \in Nat /\ p + (n - 1) < P - 1
        BY <1>1, <1>2, <3>1
      <4>. QED
        BY <1>1, <4>1, Multiples
    <3>3. z \in Int /\ w \in Int /\ PacketSize(b, i) = size - z /\ w < size
      BY <1>1, <1>2, <2>4
    <3>. HIDE DEF z, w
    <3>. QED
      BY <1>1, <2>5, <3>2, <3>3
  <2>6. ASSUME n = r
        PROVE  p + i \in Numbers(size) /\ PacketSize(b, i) = SizeOf(size, p + i)
    <3>1. p + i \in Numbers(size)
      <4>1. Pending(r) = r /\ i \in 1 .. Pending(r) /\ size \in Nat /\ k \in Nat
        BY <1>1, <1>2, <2>6
      <4>. QED
        BY <1>1, <4>1, InBurst
    <3>2. p + i = P /\ p + (n - 1) = P - 1 /\ P = k * Burst + r /\ r \in 0 .. Burst - 1
      BY <1>1, <1>2, <1>5, <2>2, <2>6
    <3>3. P % Burst = r
      BY <1>1, <3>2, Remainder
    <3>4. SizeOf(size, p + i) = size - (P - 1) * Payload
      BY <1>1, <1>2, <3>2, <3>3 DEF SizeOf
    <3>. QED
      BY <2>4, <3>1, <3>2, <3>4
  <2>. QED
    BY <2>4, <2>5, <2>6
<1>. QED
  BY <1>2, <1>4, <1>5

Buffers(s) == [1 .. Burst * Payload -> 0 .. s]

\* Data packets with numbers up to n.
UpTo(s, n) == {m \in Data(s) : m.number <= n}

\* The bytes of q are those of the file behind from, or a checksum.
Right(s, q, from) == \A j \in 1 .. Len(q) : from + j <= s => q[j] \in {from + j, s + 1}

Faithful(s) ==
  {m \in Data(s) : /\ Len(m.bytes) = SizeOf(s, m.number)
                   /\ Right(s, m.bytes, (m.number - 1) * Payload)}

LEMMA RefreshedIs ==
  ASSUME NEW b, Within(b, size), buffer \in Buffers(size)
  PROVE  /\ Refreshed(b) \in Buffers(size)
         /\ \A x \in 1 .. Burst * Payload : x <= b.bytes => Refreshed(b)[x] = b.start + x
<1>. DEFINE n == Burst * Payload
<1>1. b.start \in Nat /\ b.bytes \in Nat /\ size \in Nat /\ b.start + b.bytes <= size
  BY DEF Within, Sending, Handlers
<1>2. DOMAIN buffer = 1 .. n /\ buffer \in [1 .. n -> 0 .. size] /\ n \in Int
  BY FlowControlAssumption DEF Buffers
<1>. HIDE DEF n
<1>3. Refreshed(b) = [x \in 1 .. n |-> IF x <= b.bytes THEN b.start + x ELSE buffer[x]]
  BY <1>2 DEF Refreshed
<1>4. \A x \in 1 .. n : (IF x <= b.bytes THEN b.start + x ELSE buffer[x]) \in 0 .. size
  BY <1>1, <1>2
<1>5. Refreshed(b) \in [1 .. n -> 0 .. size]
  BY <1>3, <1>4
<1>6. \A x \in 1 .. n : x <= b.bytes => Refreshed(b)[x] = b.start + x
  BY <1>3
<1>. QED
  BY <1>5, <1>6 DEF n, Buffers

LEMMA ReadableIs ==
  ASSUME NEW b, Within(b, size)
  PROVE  /\ Readable(b) \in 0 .. b.pending
         /\ \A i \in 1 .. Readable(b) : i \in 1 .. b.pending /\ PacketSize(b, i) <= Payload
<1>1. b.pending \in 1 .. Burst /\ Burst \in Nat \ {0} /\ Payload \in Nat \ {0}
  BY FlowControlAssumption DEF Within
<1>2. Readable(b) \in 0 .. b.pending
  BY <1>1 DEF Readable
<1>3. ASSUME NEW i \in 1 .. Readable(b)
      PROVE  i \in 1 .. b.pending /\ PacketSize(b, i) <= Payload
  <2>1. i \in 1 .. b.pending
    BY <1>1, <1>2
  <2>2. CASE i = b.pending
    <3>1. PacketSize(b, b.pending) <= Payload
      BY <1>1, <2>2 DEF Readable
    <3>. QED
      BY <2>1, <2>2, <3>1
  <2>3. CASE i # b.pending
    BY <1>1, <2>1, <2>3 DEF PacketSize
  <2>. QED
    BY <2>1, <2>2, <2>3
<1>. QED
  BY <1>2, <1>3

\* Where byte j of packet i is in the buffer.
LEMMA OffsetIs ==
  ASSUME NEW b, Within(b, size), NEW i \in 1 .. Readable(b), NEW j \in 1 .. PacketSize(b, i)
  PROVE  (i - 1) * Payload + j \in 1 .. Burst * Payload
<1>1. /\ i \in 1 .. Burst /\ PacketSize(b, i) <= Payload /\ PacketSize(b, i) \in Nat
      /\ Burst \in Nat \ {0} /\ Payload \in Nat \ {0} /\ j \in Nat
  <2>1. i \in 1 .. b.pending /\ PacketSize(b, i) <= Payload /\ b.pending \in 1 .. Burst
    BY ReadableIs DEF Within
  <2>2. PacketSize(b, i) \in Nat
    BY <2>1, PacketSizeIs
  <2>3. Burst \in Nat \ {0} /\ Payload \in Nat \ {0}
    BY FlowControlAssumption
  <2>. QED
    BY <2>1, <2>2, <2>3
<1>2. i - 1 \in Nat /\ i - 1 < Burst
  BY <1>1
<1>3. (i - 1) * Payload + Payload <= Burst * Payload /\ (i - 1) * Payload \in Nat
      /\ Burst * Payload \in Nat
  BY <1>1, <1>2, Multiples
<1>. DEFINE x == (i - 1) * Payload
            n == Burst * Payload
<1>4. x + Payload <= n /\ x \in Nat /\ n \in Nat
  BY <1>3
<1>. HIDE DEF x, n
<1>5. x + j \in 1 .. n
  BY <1>1, <1>4
<1>. QED
  BY <1>5 DEF x, n

LEMMA PacketIs ==
  ASSUME NEW b, Within(b, size), NEW content \in Buffers(size), NEW i \in 1 .. Readable(b)
  PROVE  LET m == Packet(b, content, i) IN
         /\ m \in UpTo(size, b.packetSent + b.pending)
         /\ m.number = b.packetSent + i
         /\ Len(m.bytes) = SizeOf(size, b.packetSent + i)
         /\ Len(m.bytes) = PacketSize(b, i)
         /\ \A j \in 1 .. Len(m.bytes) :
              m.bytes[j] = Checksum \/ m.bytes[j] = content[(i - 1) * Payload + j]
<1>. DEFINE m == Packet(b, content, i)
            n == PacketSize(b, i)
            p == b.packetSent
            by == [j \in 1 .. n |-> IF j = n THEN Checksum ELSE content[(i - 1) * Payload + j]]
<1>1. i \in 1 .. b.pending /\ n <= Payload
  BY ReadableIs
<1>2. n \in Nat /\ p + i \in Numbers(size) /\ n = SizeOf(size, p + i)
  BY <1>1, PacketSizeIs
<1>3. size \in Nat /\ Checksum \in Nat /\ p \in Nat /\ b.pending \in Nat /\ i \in Nat
  BY <1>1 DEF Within, Sending, Handlers, Checksum
<1>4. ASSUME NEW j \in 1 .. n PROVE content[(i - 1) * Payload + j] \in Nat
  <2>1. (i - 1) * Payload + j \in 1 .. Burst * Payload
    BY OffsetIs
  <2>. DEFINE x == (i - 1) * Payload + j
  <2>2. x \in 1 .. Burst * Payload
    BY <2>1
  <2>. HIDE DEF x
  <2>3. content[x] \in 0 .. size
    BY <2>2, Zenon DEF Buffers
  <2>4. content[x] \in Nat
    BY <1>3, <2>3
  <2>. QED
    BY <2>4 DEF x
<1>5. m = [kind |-> "data", number |-> p + i, bytes |-> by]
  BY DEF Packet
<1>6. by \in [1 .. n -> Nat]
  <2>1. \A j \in 1 .. n : (IF j = n THEN Checksum ELSE content[(i - 1) * Payload + j]) \in Nat
    BY <1>3, <1>4, Zenon
  <2>. QED
    BY <2>1, Zenon
<1>7. \A j \in 1 .. n : by[j] = Checksum \/ by[j] = content[(i - 1) * Payload + j]
  BY Zenon
<1>. HIDE DEF by
<1>8. by \in Seq(Nat) /\ Len(by) = n
  BY <1>2, <1>6, FunctionIsSeq
<1>9. m.kind = "data" /\ m.number = p + i /\ m.bytes = by
  BY <1>5
<1>10. m \in Data(size)
  BY <1>2, <1>5, <1>8 DEF Data
<1>11. p + i <= p + b.pending
  BY <1>1, <1>3
<1>12. m \in UpTo(size, p + b.pending)
  BY <1>9, <1>10, <1>11 DEF UpTo
<1>. HIDE DEF m, n
<1>13. \A j \in 1 .. Len(m.bytes) :
         m.bytes[j] = Checksum \/ m.bytes[j] = content[(i - 1) * Payload + j]
  BY <1>7, <1>8, <1>9, Zenon
<1>. QED
  BY <1>2, <1>8, <1>9, <1>12, <1>13, Zenon DEF m, n

LEMMA FaithfulIs ==
  ASSUME NEW b, Within(b, size), buffer \in Buffers(size), NEW i \in 1 .. Readable(b)
  PROVE  Packet(b, Refreshed(b), i) \in Faithful(size)
<1>. DEFINE m == Packet(b, Refreshed(b), i)
            p == b.packetSent
            from == (m.number - 1) * Payload
            off == (i - 1) * Payload
            n == Burst * Payload
<1>1. /\ m \in UpTo(size, p + b.pending) /\ m.number = p + i
      /\ Len(m.bytes) = SizeOf(size, p + i)
      /\ Len(m.bytes) = PacketSize(b, i)
      /\ \A j \in 1 .. Len(m.bytes) : m.bytes[j] = Checksum \/ m.bytes[j] = Refreshed(b)[off + j]
  BY RefreshedIs, PacketIs
<1>2. m \in Data(size)
  BY <1>1 DEF UpTo
<1>3. /\ p \in Nat /\ i \in Nat \ {0} /\ Payload \in Nat \ {0} /\ size \in Nat
      /\ b.start \in Nat /\ b.bytes \in Nat /\ b.start = p * Payload
      /\ b.start + b.bytes = size \/ b.bytes = n
      /\ n \in Nat
  <2>1. b.pending \in Nat /\ Readable(b) \in 0 .. b.pending
    BY ReadableIs DEF Within, Sending, Handlers
  <2>2. Payload \in Nat \ {0} /\ Burst \in Nat
    BY FlowControlAssumption
  <2>3. n \in Nat
    BY <2>2
  <2>. QED
    BY <2>1, <2>2, <2>3 DEF Within, Sending, Handlers
<1>4. from = b.start + off /\ off \in Nat
  <2>1. i - 1 \in Nat /\ m.number - 1 = p + (i - 1)
    BY <1>1, <1>3
  <2>2. (p + (i - 1)) * Payload = p * Payload + off /\ off \in Nat
    BY <1>3, <2>1, Multiples
  <2>. QED
    BY <1>3, <2>1, <2>2
<1>. HIDE DEF m, from
<1>5. ASSUME NEW j \in 1 .. Len(m.bytes), from + j <= size
      PROVE  m.bytes[j] \in {from + j, size + 1}
  <2>1. CASE m.bytes[j] = Checksum
    BY <2>1 DEF Checksum
  <2>2. CASE m.bytes[j] = Refreshed(b)[off + j]
    <3>1. off + j \in 1 .. n /\ j \in Nat
      <4>1. j \in 1 .. PacketSize(b, i)
        BY <1>1
      <4>. QED
        BY <4>1, OffsetIs
    <3>. HIDE DEF off, n
    <3>2. off + j <= b.bytes
      <4>1. /\ b.start \in Nat /\ b.bytes \in Nat /\ size \in Nat /\ n \in Nat /\ off \in Nat
            /\ (b.start + b.bytes = size \/ b.bytes = n)
            /\ from = b.start + off /\ from + j <= size
        BY <1>3, <1>4, <1>5, Zenon
      <4>. QED
        BY <3>1, <4>1
    <3>. DEFINE x == off + j
    <3>3. x \in 1 .. n /\ x <= b.bytes
      BY <3>1, <3>2
    <3>. HIDE DEF x
    <3>4. Refreshed(b)[x] = b.start + x
      BY <3>3, RefreshedIs, Zenon DEF n
    <3>5. b.start + x = from + j
      BY <1>3, <1>4, <3>1 DEF x
    <3>. QED
      BY <2>2, <3>4, <3>5 DEF x
  <2>. QED
    BY <1>1, <2>1, <2>2, Zenon DEF off, m
<1>6. Right(size, m.bytes, from)
  BY <1>5, Zenon DEF Right
<1>7. Len(m.bytes) = SizeOf(size, m.number)
  BY <1>1
<1>. QED
  BY <1>2, <1>6, <1>7, Zenon DEF Faithful, m, from

\* What is put on the line of a burst.
Frames(b, content) == [i \in 1 .. Readable(b) |-> Packet(b, content, i)]

LEMMA FramesAre ==
  ASSUME NEW b, Within(b, size), buffer \in Buffers(size)
  PROVE  /\ \A content \in Buffers(size) :
              Frames(b, content) \in Seq(UpTo(size, b.packetSent + b.pending))
         /\ Frames(b, Refreshed(b)) \in Seq(Faithful(size))
<1>1. Readable(b) \in Nat
  BY ReadableIs DEF Within, Sending, Handlers
<1>2. ASSUME NEW content \in Buffers(size)
      PROVE  Frames(b, content) \in Seq(UpTo(size, b.packetSent + b.pending))
  <2>1. \A i \in 1 .. Readable(b) :
          Packet(b, content, i) \in UpTo(size, b.packetSent + b.pending)
    BY PacketIs
  <2>2. Frames(b, content) \in [1 .. Readable(b) -> UpTo(size, b.packetSent + b.pending)]
    BY <2>1, Zenon DEF Frames
  <2>. QED
    BY <1>1, <2>2, FunctionIsSeq
<1>3. Frames(b, Refreshed(b)) \in Seq(Faithful(size))
  <2>1. \A i \in 1 .. Readable(b) : Packet(b, Refreshed(b), i) \in Faithful(size)
    BY FaithfulIs
  <2>2. Frames(b, Refreshed(b)) \in [1 .. Readable(b) -> Faithful(size)]
    BY <2>1, Zenon DEF Frames
  <2>. QED
    BY <1>1, <2>2, FunctionIsSeq
<1>. QED
  BY <1>2, <1>3

-----------------------------------------------------------------------------
(* The inductive invariant. *)

Tablets(s) == [enabled : BOOLEAN, expected : {0, Total(s)}, every : 0 .. 255,
               received : {0} \cup Numbers(s), file : Seq(Nat)]

Typed ==
  /\ size \in Nat
  /\ tx \in Handlers
  /\ buffer \in Buffers(size)
  /\ toTablet \in Seq(Outgoing(size, begun))
  /\ toDcu \in Seq(Incoming(size, begun))
  /\ tablet \in Tablets(size)
  /\ begun \in Nat
  /\ unread \in BOOLEAN /\ crossed \in BOOLEAN

\* The counters of the sender are those of a transfer.
Progress(t, s) ==
  /\ t.state = "init" => t.packetSent = 0
  /\ t.state \in {"wait", "burst", "fault"} => Sending(t, s)
  /\ t.state = "wait" => t.burstSent = 0
  /\ t.state = "burst" => Within(t, s)
  /\ t.state = "over" => s > 0 /\ t.packets = Total(s) /\ t.packetSent = Total(s)

\* The tablet waits for a packet while it is enabled.
Awaiting(tab) ==
  /\ tab.received <= tab.expected
  /\ tab.enabled => tab.received < tab.expected

\* While the sender waits for the answer to INIT b: the INIT is the last on the
\* line, and when its answer is under way, nothing comes behind either of them
\* and the tablet has taken nothing yet.
Opening(q, d, b, tab) ==
  /\ \A i \in 1 .. Len(q) : q[i].kind = "init" /\ q[i].transfer = b => i = Len(q)
  /\ \A i \in 1 .. Len(d) : d[i].kind = "initAck" /\ d[i].transfer = b =>
       /\ q = <<>>
       /\ \A j \in 1 .. Len(d) : i < j => d[j] \in Requests
       /\ tab.received = 0 /\ tab.file = <<>>

\* Answers a sender with n packets out may believe, when the tablet has
\* received rec.
Believable(s, b, rec, n) ==
  {m \in Incoming(s, b) : /\ m.kind = "ack" => m.number <= rec
                          /\ m.kind = "nack" => m.number < n}

Out(t) == t.packetSent + t.pending

Sound(t, q, d, s, b, tab) ==
  /\ q \in Seq(UpTo(s, Out(t)))
  /\ d \in Seq(Believable(s, b, tab.received, Out(t)))
  /\ tab.received >= t.packetSent

\* The bytes in the first n packets.
Filled(s, n) == IF n < Total(s) THEN n * Payload ELSE (Total(s) - 1) * Payload + SizeOf(s, Total(s))

Content(q, s, tab) ==
  /\ q \in Seq(Faithful(s))
  /\ Len(tab.file) = Filled(s, tab.received)
  /\ Right(s, tab.file, 0)

TxInv ==
  /\ Typed
  /\ begun > 0 => size > 0
  /\ Progress(tx, size)
  /\ Awaiting(tablet)
  /\ tx.state = "wait" => Opening(toTablet, toDcu, begun, tablet)
  /\ tx.state \in {"burst", "over"} /\ ~crossed =>
       Sound(tx, toTablet, toDcu, size, begun, tablet)
  /\ tx.state \in {"burst", "over"} /\ ~crossed /\ ~unread => Content(toTablet, size, tablet)

-----------------------------------------------------------------------------
(* What is taken from the line, or put on it. *)

LEMMA OpeningTaken ==
  ASSUME NEW S, NEW q \in Seq(S), NEW D, NEW d \in Seq(D), NEW b, NEW tab,
         Opening(q, d, b, tab)
  PROVE  /\ q # <<>> => Opening(Tail(q), d, b, tab)
         /\ d # <<>> => Opening(q, Tail(d), b, tab)
<1>1. Len(q) \in Nat /\ Len(d) \in Nat
  BY LenProperties
<1>2. ASSUME q # <<>> PROVE Opening(Tail(q), d, b, tab)
  <2>1. Len(Tail(q)) = Len(q) - 1 /\ \A i \in 1 .. Len(Tail(q)) : Tail(q)[i] = q[i + 1]
    BY <1>2, HeadTailProperties
  <2>2. ASSUME NEW i \in 1 .. Len(Tail(q)), Tail(q)[i].kind = "init", Tail(q)[i].transfer = b
        PROVE  i = Len(Tail(q))
    <3>1. i + 1 \in 1 .. Len(q) /\ Tail(q)[i] = q[i + 1]
      BY <1>1, <2>1
    <3>2. i + 1 = Len(q)
      BY <2>2, <3>1 DEF Opening
    <3>. QED
      BY <1>1, <2>1, <3>2
  <2>3. ASSUME NEW i \in 1 .. Len(d), d[i].kind = "initAck", d[i].transfer = b PROVE FALSE
    BY <1>2, <2>3 DEF Opening
  <2>. QED
    BY <2>2, <2>3 DEF Opening
<1>3. ASSUME d # <<>> PROVE Opening(q, Tail(d), b, tab)
  <2>1. Len(Tail(d)) = Len(d) - 1 /\ \A i \in 1 .. Len(Tail(d)) : Tail(d)[i] = d[i + 1]
    BY <1>3, HeadTailProperties
  <2>2. ASSUME NEW i \in 1 .. Len(Tail(d)), Tail(d)[i].kind = "initAck", Tail(d)[i].transfer = b
        PROVE  /\ q = <<>>
               /\ \A j \in 1 .. Len(Tail(d)) : i < j => Tail(d)[j] \in Requests
               /\ tab.received = 0 /\ tab.file = <<>>
    <3>1. i + 1 \in 1 .. Len(d) /\ Tail(d)[i] = d[i + 1]
      BY <1>1, <2>1
    <3>2. /\ q = <<>>
          /\ \A j \in 1 .. Len(d) : i + 1 < j => d[j] \in Requests
          /\ tab.received = 0 /\ tab.file = <<>>
      BY <2>2, <3>1 DEF Opening
    <3>3. ASSUME NEW j \in 1 .. Len(Tail(d)), i < j PROVE Tail(d)[j] \in Requests
      <4>1. j + 1 \in 1 .. Len(d) /\ i + 1 < j + 1 /\ Tail(d)[j] = d[j + 1]
        BY <1>1, <2>1, <3>3
      <4>. QED
        BY <3>2, <4>1
    <3>. QED
      BY <3>2, <3>3
  <2>. QED
    BY <2>2 DEF Opening
<1>. QED
  BY <1>2, <1>3

\* Nothing taken from the line disturbs the invariant.
LEMMA Taken ==
  ASSUME TxInv,
         UNCHANGED <<size, tx, buffer, tablet, unread, begun, crossed>>,
         \/ toTablet # <<>> /\ toTablet' = Tail(toTablet) /\ toDcu' = toDcu
         \/ toDcu # <<>> /\ toDcu' = Tail(toDcu) /\ toTablet' = toTablet
  PROVE  TxInv'
<1>1. \A S : (toTablet \in Seq(S) => toTablet' \in Seq(S)) /\ (toDcu \in Seq(S) => toDcu' \in Seq(S))
  BY HeadTailProperties
<1>2. Typed'
  BY <1>1 DEF TxInv, Typed
<1>3. tx.state = "wait" => Opening(toTablet', toDcu', begun, tablet)
  BY OpeningTaken DEF TxInv, Typed
<1>4. tx.state \in {"burst", "over"} /\ ~crossed =>
        Sound(tx, toTablet', toDcu', size, begun, tablet)
  BY <1>1, Zenon DEF TxInv, Sound
<1>5. tx.state \in {"burst", "over"} /\ ~crossed /\ ~unread => Content(toTablet', size, tablet)
  BY <1>1, Zenon DEF TxInv, Content
<1>. QED
  BY <1>2, <1>3, <1>4, <1>5 DEF TxInv

\* What the tablet puts on the line.
LEMMA Answered ==
  ASSUME Typed, NEW m \in Incoming(size, begun), toDcu' = Append(toDcu, m)
  PROVE  toDcu' \in Seq(Incoming(size, begun))
BY AppendProperties DEF Typed

LEMMA OpeningAnswered ==
  ASSUME NEW q, NEW D, NEW d \in Seq(D), NEW b, NEW tab, Opening(q, d, b, tab), NEW m \in D,
         \/ m \in Requests
         \/ /\ \A i \in 1 .. Len(d) : ~(d[i].kind = "initAck" /\ d[i].transfer = b)
            /\ m.kind = "initAck" /\ m.transfer = b =>
                 q = <<>> /\ tab.received = 0 /\ tab.file = <<>>
  PROVE  Opening(q, Append(d, m), b, tab)
<1>. DEFINE e == Append(d, m)
            n == Len(d)
<1>1. /\ n \in Nat /\ Len(e) = n + 1 /\ e[n + 1] = m
      /\ \A i \in 1 .. n : e[i] = d[i]
  BY AppendProperties, LenProperties
<1>. HIDE DEF e, n
<1>2. SUFFICES ASSUME NEW i \in 1 .. Len(e), e[i].kind = "initAck", e[i].transfer = b
               PROVE  /\ q = <<>>
                      /\ \A j \in 1 .. Len(e) : i < j => e[j] \in Requests
                      /\ tab.received = 0 /\ tab.file = <<>>
  BY DEF Opening, e
<1>3. CASE i \in 1 .. n
  <2>1. d[i].kind = "initAck" /\ d[i].transfer = b
    BY <1>1, <1>2, <1>3
  <2>2. m \in Requests
    BY <1>3, <2>1 DEF n
  <2>3. /\ q = <<>> /\ tab.received = 0 /\ tab.file = <<>>
        /\ \A j \in 1 .. n : i < j => d[j] \in Requests
    BY <1>3, <2>1 DEF n, Opening
  <2>4. ASSUME NEW j \in 1 .. Len(e), i < j PROVE e[j] \in Requests
    <3>1. CASE j = n + 1
      BY <1>1, <2>2, <3>1
    <3>2. CASE j # n + 1
      <4>1. j \in 1 .. n
        BY <1>1, <3>2
      <4>. QED
        BY <1>1, <2>3, <2>4, <4>1
    <3>. QED
      BY <3>1, <3>2
  <2>. QED
    BY <2>3, <2>4
<1>4. CASE i = n + 1
  <2>1. m.kind = "initAck" /\ m.transfer = b
    BY <1>1, <1>2, <1>4
  <2>2. m \notin Requests
    BY <2>1 DEF Requests
  <2>3. \A j \in 1 .. Len(e) : ~(i < j)
    BY <1>1, <1>4
  <2>. QED
    BY <2>1, <2>2, <2>3
<1>. QED
  BY <1>1, <1>3, <1>4

\* What may be believed stays so when more is out and more is received.
LEMMA Monotone ==
  ASSUME NEW s, NEW b, NEW n \in Nat, NEW k \in Nat, n <= k, NEW r \in Nat, NEW v \in Nat, r <= v
  PROVE  UpTo(s, n) \subseteq UpTo(s, k) /\ Believable(s, b, r, n) \subseteq Believable(s, b, v, k)
<1>1. ASSUME NEW a \in Data(s), a.number <= n PROVE a.number <= k
  <2>1. a.number \in Int
    BY DEF Data, Numbers
  <2>. QED
    BY <1>1, <2>1
<1>2. ASSUME NEW a \in Incoming(s, b), a.kind = "ack" => a.number <= r, a.kind = "nack" => a.number < n
      PROVE  (a.kind = "ack" => a.number <= v) /\ (a.kind = "nack" => a.number < k)
  <2>1. a.kind \in {"ack", "nack"} => a.number \in Int
    BY DEF Incoming, Requests, InitAcks, Acks, Numbers
  <2>2. CASE a.kind = "ack"
    BY <1>2, <2>1, <2>2
  <2>3. CASE a.kind = "nack"
    BY <1>2, <2>1, <2>3
  <2>. QED
    BY <2>2, <2>3
<1>. QED
  BY <1>1, <1>2 DEF UpTo, Believable

-----------------------------------------------------------------------------
(* The steps of the tablet. *)

LEMMA RequestStep == TxInv /\ TabletRequests => TxInv'
<1>. SUFFICES ASSUME TxInv, TabletRequests PROVE TxInv'
  OBVIOUS
<1>. DEFINE m == [kind |-> "request"]
<1>1. /\ UNCHANGED <<size, tx, buffer, toTablet, tablet, unread, begun, crossed>>
      /\ toDcu' = Append(toDcu, m)
  BY DEF TabletRequests, Answer
<1>2. m \in Requests /\ m \in Incoming(size, begun) /\ m.kind = "request"
  BY DEF Requests, Incoming
<1>. HIDE DEF m
<1>3. Typed'
  BY <1>1, <1>2, Answered DEF TxInv, Typed
<1>4. tx.state = "wait" => Opening(toTablet, toDcu', begun, tablet)
  BY <1>1, <1>2, OpeningAnswered DEF TxInv, Typed
<1>5. tx.state \in {"burst", "over"} /\ ~crossed =>
        Sound(tx, toTablet, toDcu', size, begun, tablet)
  <2>1. m \in Believable(size, begun, tablet.received, Out(tx))
    BY <1>2 DEF Believable
  <2>. QED
    BY <1>1, <2>1, AppendProperties DEF TxInv, Sound
<1>. QED
  BY <1>1, <1>3, <1>4, <1>5 DEF TxInv

\* The head of the line to the tablet.
LEMMA HeadToTablet ==
  ASSUME TxInv, toTablet # <<>>
  PROVE  LET m == Head(toTablet) IN
         /\ m \in Outgoing(size, begun)
         /\ m.kind = "init" => /\ m \in Inits(size, begun) /\ m.packets = Total(size)
                               /\ m.burst \in 0 .. 255 /\ m.transfer \in 1 .. begun
         /\ m.kind = "data" => /\ m \in Data(size) /\ m.number \in Numbers(size)
                               /\ m.bytes \in Seq(Nat)
         /\ m = toTablet[1] /\ Len(toTablet) \in Nat \ {0}
<1>1. Head(toTablet) \in Outgoing(size, begun) /\ Len(toTablet) \in Nat \ {0}
  BY HeadTailProperties, EmptySeq DEF TxInv, Typed
<1>2. Head(toTablet) = toTablet[1]
  BY DEF TxInv, Typed
<1>. QED
  BY <1>1, <1>2 DEF Outgoing, Inits, Data

\* Only an INIT that is expected clears the way for its answer.
LEMMA InitStep == TxInv /\ TabletOnInit => TxInv'
<1>. SUFFICES ASSUME TxInv, TabletOnInit PROVE TxInv'
  OBVIOUS
<1>. DEFINE msg == Head(toTablet)
            m == [kind |-> "initAck", transfer |-> msg.transfer]
<1>1. /\ UNCHANGED <<size, tx, buffer, unread, begun, crossed>>
      /\ toTablet # <<>> /\ msg.kind = "init" /\ toTablet' = Tail(toTablet)
      /\ tablet' = [enabled |-> TRUE, expected |-> msg.packets,
                    every |-> msg.burst, received |-> 0, file |-> <<>>]
      /\ toDcu' = Append(toDcu, m)
  BY DEF TabletOnInit, TabletReceives, Answer
<1>2. /\ msg \in Inits(size, begun) /\ msg.packets = Total(size) /\ msg.burst \in 0 .. 255
      /\ msg.transfer \in 1 .. begun /\ msg = toTablet[1] /\ Len(toTablet) \in Nat \ {0}
  BY <1>1, HeadToTablet
<1>3. m \in InitAcks(begun) /\ m \in Incoming(size, begun) /\ m.kind = "initAck"
      /\ m.transfer = msg.transfer
  BY <1>2 DEF InitAcks, Incoming
<1>4. size \in Nat /\ size > 0 /\ Total(size) \in Nat /\ Total(size) > 0
  <2>1. begun > 0 /\ size \in Nat
    BY <1>2 DEF TxInv, Typed
  <2>. QED
    BY <2>1, TotalIs DEF TxInv
<1>. HIDE DEF m
<1>5. Typed'
  <2>1. tablet' \in Tablets(size)
    <3>1. <<>> \in Seq(Nat)
      BY EmptySeq
    <3>. QED
      BY <1>1, <1>2, <3>1 DEF Tablets
  <2>2. toTablet' \in Seq(Outgoing(size, begun))
    BY <1>1, HeadTailProperties DEF TxInv, Typed
  <2>3. toDcu' \in Seq(Incoming(size, begun))
    BY <1>1, <1>3, Answered DEF TxInv
  <2>. QED
    BY <1>1, <2>1, <2>2, <2>3 DEF TxInv, Typed
<1>6. Awaiting(tablet')
  BY <1>1, <1>2, <1>4 DEF Awaiting
<1>7. ASSUME tx.state = "wait" PROVE Opening(toTablet', toDcu', begun, tablet')
  <2>1. Opening(toTablet, toDcu, begun, tablet)
    BY <1>7 DEF TxInv
  <2>2. \A i \in 1 .. Len(toDcu) : ~(toDcu[i].kind = "initAck" /\ toDcu[i].transfer = begun)
    BY <1>1, <2>1 DEF Opening
  <2>3. Opening(toTablet', toDcu, begun, tablet')
    <3>1. Opening(toTablet', toDcu, begun, tablet)
      BY <1>1, <2>1, OpeningTaken DEF TxInv, Typed
    <3>. QED
      BY <2>2, <3>1 DEF Opening
  <2>4. m.transfer = begun => toTablet' = <<>> /\ tablet'.received = 0 /\ tablet'.file = <<>>
    <3>1. ASSUME m.transfer = begun PROVE toTablet' = <<>>
      <4>1. 1 = Len(toTablet)
        <5>1. 1 \in 1 .. Len(toTablet) /\ toTablet[1].kind = "init" /\ toTablet[1].transfer = begun
          BY <1>1, <1>2, <1>3, <3>1
        <5>. QED
          BY <2>1, <5>1, Zenon DEF Opening
      <4>2. toTablet' \in Seq(Outgoing(size, begun)) /\ Len(toTablet') = Len(toTablet) - 1
        BY <1>1, HeadTailProperties DEF TxInv, Typed
      <4>3. Len(toTablet') = 0
        BY <4>1, <4>2
      <4>. QED
        BY <4>2, <4>3, EmptySeq
    <3>. QED
      BY <1>1, <3>1
  <2>. QED
    BY <1>1, <1>3, <2>2, <2>3, <2>4, OpeningAnswered DEF TxInv, Typed
<1>8. ASSUME tx.state \in {"burst", "over"}, ~crossed PROVE FALSE
  <2>1. Sound(tx, toTablet, toDcu, size, begun, tablet)
    BY <1>8 DEF TxInv
  <2>2. toTablet \in Seq(UpTo(size, Out(tx)))
    BY <2>1 DEF Sound
  <2>3. msg \in Data(size)
    BY <1>1, <2>2, HeadTailProperties DEF UpTo
  <2>. QED
    BY <1>1, <2>3 DEF Data
<1>9. Progress(tx', size') /\ (begun' > 0 => size' > 0)
  BY <1>1 DEF TxInv
<1>. QED
  BY <1>1, <1>5, <1>6, <1>7, <1>8, <1>9 DEF TxInv

\* What a packet that is kept makes of the file.
LEMMA FileGrows ==
  ASSUME NEW s \in Nat, NEW tab \in Tablets(s), NEW msg \in Faithful(s),
         msg.number = tab.received + 1,
         Len(tab.file) = Filled(s, tab.received), Right(s, tab.file, 0)
  PROVE  LET file == tab.file \o msg.bytes IN
         Len(file) = Filled(s, msg.number) /\ Right(s, file, 0)
<1>. DEFINE T == Total(s)
            n == tab.received
            old == tab.file
            new == msg.bytes
            file == old \o new
            from == n * Payload
<1>1. /\ T \in Nat /\ Payload \in Nat \ {0} /\ n \in Nat /\ n < T /\ msg.number = n + 1
      /\ old \in Seq(Nat) /\ new \in Seq(Nat)
      /\ Len(new) = SizeOf(s, n + 1)
  <2>1. msg.number \in Numbers(s) /\ new \in Seq(Nat) /\ Len(new) = SizeOf(s, msg.number)
    BY DEF Faithful, Data
  <2>2. n \in {0} \cup Numbers(s) /\ old \in Seq(Nat)
    BY DEF Tablets
  <2>3. T \in Nat /\ Payload \in Nat \ {0}
    BY FlowControlAssumption, TotalIs
  <2>4. n \in Nat /\ msg.number \in 1 .. T
    BY <2>1, <2>2 DEF Numbers
  <2>. QED
    BY <2>1, <2>2, <2>3, <2>4
<1>2. Len(old) = from /\ from \in Nat
  BY <1>1, Multiples DEF Filled
<1>3. Right(s, new, from)
  <2>1. msg.number - 1 = n /\ Right(s, new, (msg.number - 1) * Payload)
    BY <1>1 DEF Faithful
  <2>. QED
    BY <2>1
<1>4. Len(file) = Filled(s, n + 1)
  <2>1. Len(file) = Len(old) + Len(new)
    BY <1>1, ConcatProperties
  <2>2. CASE n + 1 < T
    <3>1. SizeOf(s, n + 1) = Payload /\ Filled(s, n + 1) = (n + 1) * Payload
      BY <2>2 DEF SizeOf, Filled
    <3>2. (n + 1) * Payload = from + Payload
      BY <1>1, Multiples
    <3>. QED
      BY <1>1, <1>2, <2>1, <3>1, <3>2
  <2>3. CASE ~(n + 1 < T)
    <3>1. n + 1 = T /\ T - 1 = n
      BY <1>1, <2>3
    <3>2. Filled(s, n + 1) = (T - 1) * Payload + SizeOf(s, T)
      BY <2>3 DEF Filled
    <3>. QED
      BY <1>1, <1>2, <2>1, <3>1, <3>2
  <2>. QED
    BY <2>2, <2>3
<1>. HIDE DEF from
<1>5. ASSUME NEW j \in 1 .. Len(file), 0 + j <= s PROVE file[j] \in {0 + j, s + 1}
  <2>1. /\ Len(file) = Len(old) + Len(new) /\ Len(old) \in Nat /\ Len(new) \in Nat
        /\ \A i \in 1 .. Len(old) + Len(new) :
             file[i] = IF i <= Len(old) THEN old[i] ELSE new[i - Len(old)]
    <3>1. old \in Seq(Nat) /\ new \in Seq(Nat)
      BY <1>1
    <3>. HIDE DEF old, new
    <3>2. Len(old) \in Nat /\ Len(new) \in Nat
      BY <3>1, LenProperties
    <3>3. Len(file) = Len(old) + Len(new)
      BY <3>1, ConcatProperties
    <3>4. \A i \in 1 .. Len(old) + Len(new) :
            file[i] = IF i <= Len(old) THEN old[i] ELSE new[i - Len(old)]
      BY <3>1, ConcatProperties, Zenon
    <3>. QED
      BY <3>2, <3>3, <3>4
  <2>. HIDE DEF file, old, new
  <2>2. CASE j <= Len(old)
    <3>1. j \in 1 .. Len(old) /\ file[j] = old[j]
      BY <2>1, <2>2
    <3>. QED
      BY <1>5, <3>1 DEF Right, old
  <2>3. CASE ~(j <= Len(old))
    <3>. DEFINE i == j - Len(old)
    <3>1. i \in 1 .. Len(new) /\ file[j] = new[i] /\ from + i = j /\ 0 + j = j
      BY <1>2, <2>1, <2>3
    <3>. HIDE DEF i
    <3>2. from + i <= s
      BY <1>5, <3>1
    <3>3. new[i] \in {from + i, s + 1}
      BY <1>3, <3>1, <3>2, Zenon DEF Right
    <3>. QED
      BY <3>1, <3>3
  <2>. QED
    BY <2>2, <2>3
<1>6. Right(s, file, 0)
  BY <1>5 DEF Right
<1>. QED
  BY <1>1, <1>4, <1>6

\* What the answer to a packet leaves of what is said while waiting.
LEMMA OpeningData ==
  ASSUME TxInv, toTablet # <<>>, tx.state = "wait", NEW tab, NEW d,
         d = toDcu \/ \E m \in Acks(size) : d = Append(toDcu, m)
  PROVE  Opening(Tail(toTablet), d, begun, tab)
<1>1. Opening(toTablet, toDcu, begun, tablet)
  BY DEF TxInv
<1>2. \A i \in 1 .. Len(toDcu) : ~(toDcu[i].kind = "initAck" /\ toDcu[i].transfer = begun)
  BY <1>1 DEF Opening
<1>3. Opening(Tail(toTablet), toDcu, begun, tab)
  <2>1. Opening(Tail(toTablet), toDcu, begun, tablet)
    BY <1>1, OpeningTaken DEF TxInv, Typed
  <2>. QED
    BY <1>2, <2>1 DEF Opening
<1>4. ASSUME NEW m \in Acks(size) PROVE Opening(Tail(toTablet), Append(toDcu, m), begun, tab)
  <2>1. m \in Incoming(size, begun) /\ m.kind # "initAck" /\ toDcu \in Seq(Incoming(size, begun))
    BY DEF Acks, Incoming, TxInv, Typed
  <2>. QED
    BY <1>2, <1>3, <2>1, OpeningAnswered
<1>. QED
  BY <1>3, <1>4

\* A packet that is awaited is kept.
LEMMA KeptStep ==
  ASSUME TxInv, TabletOnData, tablet.enabled, Head(toTablet).number = tablet.received + 1
  PROVE  TxInv'
<1>. DEFINE msg == Head(toTablet)
            rec == tablet.received + 1
            m == [kind |-> "ack", number |-> rec]
<1>1. /\ UNCHANGED <<size, tx, buffer, unread, begun, crossed>>
      /\ toTablet # <<>> /\ msg.kind = "data" /\ toTablet' = Tail(toTablet)
      /\ tablet' = [tablet EXCEPT !.received = rec, !.file = @ \o msg.bytes,
                                  !.enabled = rec # tablet.expected]
      /\ toDcu' = toDcu \/ toDcu' = Append(toDcu, m)
  BY DEF TabletOnData, TabletReceives, Answer
<1>2. msg \in Data(size) /\ msg.number \in Numbers(size) /\ msg.bytes \in Seq(Nat)
  BY <1>1, HeadToTablet
<1>3. /\ rec \in Numbers(size) /\ rec \in Nat /\ Total(size) \in Nat /\ tablet.received \in Nat
      /\ tablet \in Tablets(size) /\ tablet.file \in Seq(Nat) /\ tablet.expected \in {0, Total(size)}
      /\ tablet.received < tablet.expected
  <2>1. tablet \in Tablets(size) /\ size \in Nat /\ tablet.received < tablet.expected
    BY DEF TxInv, Typed, Awaiting
  <2>2. Total(size) \in Nat /\ tablet.received \in Nat /\ tablet.file \in Seq(Nat)
        /\ tablet.expected \in {0, Total(size)}
    <3>1. Total(size) \in Nat
      BY <2>1, TotalIs
    <3>2. tablet.received \in {0} \cup Numbers(size) /\ tablet.file \in Seq(Nat)
          /\ tablet.expected \in {0, Total(size)}
      BY <2>1 DEF Tablets
    <3>3. tablet.received \in Nat
      BY <3>1, <3>2 DEF Numbers
    <3>. QED
      BY <3>1, <3>2, <3>3
  <2>. QED
    BY <1>2, <2>1, <2>2
<1>4. m \in Acks(size) /\ m \in Incoming(size, begun) /\ m.kind = "ack" /\ m.number = rec
  BY <1>3 DEF Acks, Incoming
<1>5. /\ tablet' \in Tablets(size) /\ tablet'.received = rec
      /\ tablet'.file = tablet.file \o msg.bytes /\ tablet'.expected = tablet.expected
      /\ tablet'.enabled = (rec # tablet.expected)
  <2>1. tablet.file \o msg.bytes \in Seq(Nat)
    BY <1>2, <1>3, ConcatProperties
  <2>2. (rec # tablet.expected) \in BOOLEAN
    OBVIOUS
  <2>. HIDE DEF rec, msg
  <2>. DEFINE file == tablet.file \o msg.bytes
              on == rec # tablet.expected
  <2>3. tablet' = [tablet EXCEPT !.received = rec, !.file = file, !.enabled = on]
    BY <1>1
  <2>4. file \in Seq(Nat) /\ on \in BOOLEAN
    BY <2>1, <2>2
  <2>. HIDE DEF file, on
  <2>5. /\ tablet' \in Tablets(size) /\ tablet'.received = rec /\ tablet'.file = file
        /\ tablet'.expected = tablet.expected /\ tablet'.enabled = on
    BY <1>3, <2>3, <2>4 DEF Tablets
  <2>. QED
    BY <2>5 DEF file, on
<1>6. \A S : toTablet \in Seq(S) => toTablet' \in Seq(S)
  BY <1>1, HeadTailProperties
<1>. HIDE DEF m
<1>7. Typed'
  <2>1. toDcu' \in Seq(Incoming(size, begun))
    BY <1>1, <1>4, Answered DEF TxInv, Typed
  <2>. QED
    BY <1>1, <1>5, <1>6, <2>1 DEF TxInv, Typed
<1>8. Awaiting(tablet')
  <2>1. tablet.expected \in Nat /\ rec <= tablet.expected
    BY <1>3
  <2>2. tablet'.enabled => rec # tablet.expected
    BY <1>5, Zenon
  <2>. QED
    BY <1>3, <1>5, <2>1, <2>2 DEF Awaiting
<1>9. tx.state = "wait" => Opening(toTablet', toDcu', begun, tablet')
  BY <1>1, <1>4, OpeningData
<1>10. ASSUME tx.state \in {"burst", "over"}, ~crossed
       PROVE  Sound(tx, toTablet', toDcu', size, begun, tablet')
  <2>1. /\ toTablet \in Seq(UpTo(size, Out(tx)))
        /\ toDcu \in Seq(Believable(size, begun, tablet.received, Out(tx)))
        /\ tablet.received >= tx.packetSent /\ tx.packetSent \in Nat
    BY <1>10 DEF TxInv, Typed, Sound, Handlers
  <2>2. Believable(size, begun, tablet.received, Out(tx)) \subseteq Believable(size, begun, rec, Out(tx))
    <3>1. tx \in Handlers
      BY DEF TxInv, Typed
    <3>2. Out(tx) \in Nat
      BY <3>1 DEF Handlers, Out
    <3>3. Out(tx) <= Out(tx) /\ tablet.received <= rec /\ tablet.received \in Nat /\ rec \in Nat
      BY <1>3, <3>2
    <3>. HIDE DEF rec
    <3>. QED
      BY <3>2, <3>3, Monotone
  <2>3. m \in Believable(size, begun, rec, Out(tx))
    BY <1>3, <1>4 DEF Believable
  <2>4. toDcu \in Seq(Believable(size, begun, rec, Out(tx)))
    BY <2>1, <2>2, SeqMonotonic
  <2>5. toDcu' \in Seq(Believable(size, begun, rec, Out(tx)))
    BY <1>1, <2>3, <2>4, AppendProperties
  <2>6. rec >= tx.packetSent
    BY <1>3, <2>1
  <2>. QED
    BY <1>5, <1>6, <2>1, <2>5, <2>6 DEF Sound
<1>11. ASSUME tx.state \in {"burst", "over"}, ~crossed, ~unread
       PROVE  Content(toTablet', size, tablet')
  <2>1. Content(toTablet, size, tablet) /\ size \in Nat
    BY <1>11 DEF TxInv, Typed
  <2>2. msg \in Faithful(size) /\ toTablet' \in Seq(Faithful(size))
    BY <1>1, <2>1, HeadTailProperties DEF Content
  <2>3. LET file == tablet.file \o msg.bytes IN
        Len(file) = Filled(size, msg.number) /\ Right(size, file, 0)
    BY <1>3, <2>1, <2>2, FileGrows DEF Content
  <2>. QED
    BY <1>5, <2>2, <2>3 DEF Content
<1>. QED
  BY <1>1, <1>7, <1>8, <1>9, <1>10, <1>11 DEF TxInv

\* Any other is dropped, and reported when packets before it are missing.
LEMMA DroppedStep ==
  ASSUME TxInv, TabletOnData, ~(tablet.enabled /\ Head(toTablet).number = tablet.received + 1)
  PROVE  TxInv'
<1>. DEFINE msg == Head(toTablet)
            rec == tablet.received + 1
            m == [kind |-> "nack", number |-> rec]
<1>1. /\ UNCHANGED <<size, tx, buffer, tablet, unread, begun, crossed>>
      /\ toTablet # <<>> /\ msg.kind = "data" /\ toTablet' = Tail(toTablet)
      /\ toDcu' = toDcu \/ (msg.number > rec /\ toDcu' = Append(toDcu, m))
  BY DEF TabletOnData, TabletReceives, Answer
<1>2. CASE toDcu' = toDcu
  BY <1>1, <1>2, Taken
<1>3. CASE msg.number > rec /\ toDcu' = Append(toDcu, m)
  <2>1. msg \in Data(size) /\ msg.number \in Numbers(size) /\ tablet.received \in Nat /\ size \in Nat
        /\ Total(size) \in Nat
    <3>1. tablet.received \in {0} \cup Numbers(size) /\ size \in Nat
      BY DEF TxInv, Typed, Tablets
    <3>2. msg \in Data(size) /\ msg.number \in Numbers(size)
      BY <1>1, HeadToTablet
    <3>3. Total(size) \in Nat
      BY <3>1, TotalIs
    <3>4. tablet.received \in Nat
      BY <3>1, <3>3 DEF Numbers
    <3>. QED
      BY <3>1, <3>2, <3>3, <3>4
  <2>2. rec \in Numbers(size)
    <3>1. msg.number \in Nat /\ rec \in 1 .. Total(size) /\ Fits(size, msg.number)
      BY <1>3, <2>1 DEF Numbers
    <3>2. rec \in Nat /\ rec <= msg.number
      BY <1>3, <2>1, <3>1
    <3>. QED
      BY <2>1, <3>1, <3>2, FitsBelow DEF Numbers
  <2>3. m \in Acks(size) /\ m \in Incoming(size, begun) /\ m.kind = "nack" /\ m.number = rec
    BY <2>2 DEF Acks, Incoming
  <2>4. \A S : toTablet \in Seq(S) => toTablet' \in Seq(S)
    BY <1>1, HeadTailProperties
  <2>. HIDE DEF m
  <2>5. Typed'
    <3>1. toDcu' \in Seq(Incoming(size, begun))
      BY <1>3, <2>3, Answered DEF TxInv
    <3>. QED
      BY <1>1, <2>4, <3>1 DEF TxInv, Typed
  <2>6. tx.state = "wait" => Opening(toTablet', toDcu', begun, tablet)
    BY <1>1, <1>3, <2>3, OpeningData
  <2>7. ASSUME tx.state \in {"burst", "over"}, ~crossed
        PROVE  Sound(tx, toTablet', toDcu', size, begun, tablet)
    <3>1. Sound(tx, toTablet, toDcu, size, begun, tablet)
      BY <2>7 DEF TxInv
    <3>2. msg.number <= Out(tx) /\ Out(tx) \in Nat
      <4>1. msg \in UpTo(size, Out(tx)) /\ tx \in Handlers
        BY <1>1, <3>1, HeadTailProperties DEF Sound, TxInv, Typed
      <4>. QED
        BY <4>1 DEF UpTo, Out, Handlers
    <3>3. rec < Out(tx)
      <4>1. msg.number \in Nat
        BY <2>1 DEF Numbers
      <4>. QED
        BY <1>3, <2>1, <3>2, <4>1
    <3>4. m \in Believable(size, begun, tablet.received, Out(tx))
      BY <2>3, <3>3 DEF Believable
    <3>5. toDcu' \in Seq(Believable(size, begun, tablet.received, Out(tx)))
      BY <1>3, <3>1, <3>4, AppendProperties DEF Sound
    <3>. QED
      BY <2>4, <3>1, <3>5 DEF Sound
  <2>8. ASSUME tx.state \in {"burst", "over"}, ~crossed, ~unread
        PROVE  Content(toTablet', size, tablet)
    BY <2>4, <2>8, Zenon DEF TxInv, Content
  <2>. QED
    BY <1>1, <2>5, <2>6, <2>7, <2>8 DEF TxInv
<1>. QED
  BY <1>1, <1>2, <1>3

-----------------------------------------------------------------------------
(* The steps of the sender. *)

\* A burst goes out, or a packet of it is too long.
LEMMA BurstGoes ==
  ASSUME Typed, NEW t, Sending(t, size), NextBurst(t)
  PROVE  /\ buffer' \in Buffers(size)
         /\ unread' \in BOOLEAN /\ (~unread' => ~unread)
         /\ tx' \in Handlers /\ tx'.packetSent = t.packetSent /\ tx'.burstSent = t.burstSent
         /\ \/ tx'.state = "fault" /\ Sending(tx', size) /\ UNCHANGED toTablet
            \/ /\ tx'.state = "burst" /\ Within(tx', size)
               /\ \E q : /\ toTablet' = toTablet \o q
                         /\ q \in Seq(UpTo(size, Out(tx')))
                         /\ ~unread' => q \in Seq(Faithful(size))
<1>. DEFINE b == WithBurst(t)
<1>1. /\ Within(b, size) /\ Sending(b, size) /\ b \in Handlers
      /\ b.packetSent = t.packetSent /\ b.burstSent = t.burstSent
  BY BurstIs DEF Within, Sending
<1>. HIDE DEF b
<1>2. PICK ok \in Reads :
        LET content == IF ok THEN Refreshed(b) ELSE buffer IN
        /\ buffer' = content /\ unread' = (unread \/ ~ok) /\ SendBurst(b, content)
  BY Zenon DEF NextBurst, b
<1>. DEFINE content == IF ok THEN Refreshed(b) ELSE buffer
<1>3. buffer' = content /\ unread' = (unread \/ ~ok) /\ SendBurst(b, content)
  BY <1>2, Zenon
<1>4. buffer \in Buffers(size)
  BY DEF Typed
<1>5. content \in Buffers(size)
  BY <1>1, <1>4, RefreshedIs
<1>6. unread' \in BOOLEAN /\ (~unread' => ~unread /\ ok)
  BY <1>3, Zenon
<1>7. /\ Frames(b, content) \in Seq(UpTo(size, Out(b)))
      /\ ~unread' => Frames(b, content) \in Seq(Faithful(size))
  BY <1>1, <1>4, <1>5, <1>6, FramesAre, Zenon DEF Out
<1>. HIDE DEF content
<1>8. \/ /\ toTablet' = toTablet \o Frames(b, content) /\ tx' = [b EXCEPT !.state = "burst"]
      \/ tx' = [b EXCEPT !.state = "fault"] /\ UNCHANGED toTablet
  BY <1>3, Zenon DEF SendBurst, Frames
<1>9. ASSUME NEW st \in {"burst", "fault"}, tx' = [b EXCEPT !.state = st]
      PROVE  /\ tx' \in Handlers /\ tx'.state = st /\ Sending(tx', size) /\ Within(tx', size)
             /\ tx'.packetSent = b.packetSent /\ tx'.burstSent = b.burstSent /\ Out(tx') = Out(b)
  <2>1. /\ tx' \in Handlers /\ tx'.state = st /\ tx'.packetSent = b.packetSent
        /\ tx'.burstSent = b.burstSent /\ tx'.pending = b.pending /\ tx'.packets = b.packets
        /\ tx'.start = b.start /\ tx'.bytes = b.bytes
    BY <1>1, <1>9 DEF Handlers
  <2>2. Sending(tx', size) /\ Out(tx') = Out(b)
    BY <1>1, <2>1 DEF Sending, Out
  <2>3. Within(tx', size)
    BY <1>1, <2>1, <2>2, Zenon DEF Within
  <2>. QED
    BY <2>1, <2>2, <2>3
<1>10. CASE tx' = [b EXCEPT !.state = "fault"] /\ UNCHANGED toTablet
  BY <1>1, <1>3, <1>5, <1>6, <1>9, <1>10
<1>11. CASE toTablet' = toTablet \o Frames(b, content) /\ tx' = [b EXCEPT !.state = "burst"]
  <2>1. /\ tx' \in Handlers /\ tx'.state = "burst" /\ Within(tx', size)
        /\ tx'.packetSent = b.packetSent /\ tx'.burstSent = b.burstSent /\ Out(tx') = Out(b)
    BY <1>9, <1>11
  <2>2. \E q : /\ toTablet' = toTablet \o q
               /\ q \in Seq(UpTo(size, Out(tx')))
               /\ ~unread' => q \in Seq(Faithful(size))
    BY <1>7, <1>11, <2>1, Zenon
  <2>. QED
    BY <1>1, <1>3, <1>5, <1>6, <2>1, <2>2, Zenon
<1>. QED
  BY <1>8, <1>10, <1>11

\* A request starts over: what is under way belongs to earlier transfers.
LEMMA StartOver == TxInv /\ OnRequest => TxInv'
<1>. SUFFICES ASSUME TxInv, OnRequest PROVE TxInv'
  OBVIOUS
<1>1. /\ UNCHANGED <<size, tablet>> /\ size > 0 /\ size \in Nat /\ begun \in Nat
      /\ toDcu # <<>> /\ toDcu' = Tail(toDcu)
      /\ tx' = [state |-> "wait", packets |-> Total(size), burstSent |-> 0, packetSent |-> 0,
                pending |-> 0, start |-> 0, bytes |-> 0]
      /\ buffer' = Fresh /\ unread' = FALSE /\ begun' = begun + 1 /\ crossed' = FALSE
      /\ toTablet \in Seq(Outgoing(size, begun)) /\ toDcu \in Seq(Incoming(size, begun))
  BY DEF OnRequest, Receive, TxInv, Typed, Total
<1>2. PICK by \in BurstBytes :
        toTablet' = Append(toTablet, [kind |-> "init", packets |-> Total(size), burst |-> by,
                                      transfer |-> begun + 1])
  <2>1. tx'.packets = Total(size)
    BY <1>1
  <2>. QED
    BY <1>1, <2>1, Zenon DEF OnRequest
<1>. DEFINE m == [kind |-> "init", packets |-> Total(size), burst |-> by, transfer |-> begun + 1]
<1>3. m \in Outgoing(size, begun + 1) /\ m.kind = "init"
  BY <1>1, FlowControlAssumption DEF Outgoing, Inits
<1>4. Total(size) \in Nat /\ Total(size) > 0
  BY <1>1, TotalIs
<1>5. tx' \in Handlers /\ tx'.state = "wait" /\ tx'.burstSent = 0 /\ Sending(tx', size)
  <2>1. tx' \in Handlers /\ tx'.state = "wait" /\ tx'.burstSent = 0 /\ tx'.packetSent = 0
        /\ tx'.packets = Total(size)
    BY <1>1, <1>4 DEF Handlers
  <2>2. 0 = 0 * Burst
    BY FlowControlAssumption
  <2>. QED
    BY <1>1, <1>4, <2>1, <2>2 DEF Sending
<1>6. toTablet \in Seq(Outgoing(size, begun + 1)) /\ toDcu \in Seq(Incoming(size, begun + 1))
  <2>1. 1 .. begun \subseteq 1 .. begun + 1
    BY <1>1
  <2>2. Outgoing(size, begun) \subseteq Outgoing(size, begun + 1)
        /\ Incoming(size, begun) \subseteq Incoming(size, begun + 1)
    BY <2>1 DEF Outgoing, Incoming, Inits, InitAcks
  <2>. QED
    BY <1>1, <2>2, SeqMonotonic
<1>. HIDE DEF m
<1>7. Typed'
  <2>1. toTablet' \in Seq(Outgoing(size, begun + 1))
    BY <1>2, <1>3, <1>6, AppendProperties DEF m
  <2>2. toDcu' \in Seq(Incoming(size, begun + 1))
    BY <1>1, <1>6, HeadTailProperties
  <2>3. buffer' \in Buffers(size)
    <3>1. 0 \in 0 .. size
      BY <1>1
    <3>. QED
      BY <1>1, <3>1 DEF Buffers, Fresh, Zero
  <2>4. size' = size /\ begun' = begun + 1
    BY <1>1
  <2>5. tablet' \in Tablets(size) /\ begun' \in Nat /\ unread' \in BOOLEAN /\ crossed' \in BOOLEAN
    <3>1. tablet' = tablet /\ tablet \in Tablets(size)
      BY <1>1, Zenon DEF TxInv, Typed
    <3>2. begun' \in Nat
      BY <1>1
    <3>3. unread' = FALSE /\ crossed' = FALSE
      BY <1>1, Zenon
    <3>. QED
      BY <3>1, <3>2, <3>3
  <2>. QED
    BY <1>1, <1>5, <2>1, <2>2, <2>3, <2>4, <2>5, Zenon DEF Typed
<1>8. Opening(toTablet', toDcu', begun + 1, tablet)
  <2>1. ASSUME NEW i \in 1 .. Len(toTablet'), toTablet'[i].kind = "init",
               toTablet'[i].transfer = begun + 1
        PROVE  i = Len(toTablet')
    <3>1. /\ Len(toTablet) \in Nat /\ Len(toTablet') = Len(toTablet) + 1
          /\ \A k \in 1 .. Len(toTablet) : toTablet'[k] = toTablet[k]
      BY <1>1, <1>2, <1>3, <1>6, AppendProperties, LenProperties DEF m
    <3>2. ASSUME i \in 1 .. Len(toTablet) PROVE FALSE
      <4>1. toTablet[i] \in Outgoing(size, begun) /\ toTablet[i].kind = "init"
            /\ toTablet[i].transfer = begun + 1
        BY <1>1, <2>1, <3>1, <3>2, ElementOfSeq
      <4>2. toTablet[i].transfer \in 1 .. begun
        BY <4>1 DEF Outgoing, Inits, Data
      <4>. QED
        BY <1>1, <4>1, <4>2
    <3>. QED
      BY <3>1, <3>2
  <2>2. ASSUME NEW i \in 1 .. Len(toDcu'), toDcu'[i].kind = "initAck",
               toDcu'[i].transfer = begun + 1
        PROVE  FALSE
    <3>1. toDcu' \in Seq(Incoming(size, begun))
      BY <1>1, HeadTailProperties
    <3>2. toDcu'[i] \in Incoming(size, begun)
      BY <3>1, ElementOfSeq
    <3>3. toDcu'[i].transfer \in 1 .. begun
      BY <2>2, <3>2 DEF Incoming, Requests, InitAcks, Acks
    <3>. QED
      BY <1>1, <2>2, <3>3
  <2>. QED
    BY <2>1, <2>2 DEF Opening
<1>9. Progress(tx', size)
  BY <1>5 DEF Progress
<1>. QED
  BY <1>1, <1>5, <1>7, <1>8, <1>9 DEF TxInv

\* The head of the line to the sender.
LEMMA HeadToDcu ==
  ASSUME TxInv, toDcu # <<>>
  PROVE  LET m == Head(toDcu) IN
         /\ m = toDcu[1] /\ 1 \in 1 .. Len(toDcu)
         /\ m \in Incoming(size, begun)
         /\ m.kind = "initAck" => m.transfer \in 1 .. begun
         /\ m.kind \in {"ack", "nack"} => m.number \in Numbers(size)
<1>1. Head(toDcu) \in Incoming(size, begun) /\ Len(toDcu) \in Nat \ {0}
  BY HeadTailProperties, EmptySeq DEF TxInv, Typed
<1>2. Head(toDcu) = toDcu[1]
  BY DEF TxInv, Typed
<1>3. 1 \in 1 .. Len(toDcu)
  BY <1>1
<1>. QED
  BY <1>1, <1>2, <1>3 DEF Incoming, Requests, InitAcks, Acks

\* The transfer begins, for the answer to its INIT or to an earlier one.
LEMMA BeginStep == TxInv /\ OnInitAck => TxInv'
<1>. SUFFICES ASSUME TxInv, OnInitAck PROVE TxInv'
  OBVIOUS
<1>1. /\ UNCHANGED <<size, tablet, begun>> /\ toDcu # <<>> /\ toDcu' = Tail(toDcu)
      /\ Head(toDcu).kind = "initAck" /\ tx.state = "wait" /\ NextBurst(tx)
      /\ crossed' = (Head(toDcu).transfer # begun)
      /\ size \in Nat
  BY DEF OnInitAck, Receive, TxInv, Typed
<1>2. Sending(tx, size) /\ tx.burstSent = 0 /\ tx.packetSent = 0
  <2>1. Sending(tx, size) /\ tx.burstSent = 0
    BY <1>1 DEF TxInv, Progress
  <2>2. 0 * Burst = 0
    BY FlowControlAssumption
  <2>. QED
    BY <2>1, <2>2 DEF Sending
<1>3. /\ buffer' \in Buffers(size)
      /\ unread' \in BOOLEAN
      /\ tx' \in Handlers /\ tx'.packetSent = 0 /\ tx'.burstSent = 0
      /\ \/ tx'.state = "fault" /\ Sending(tx', size) /\ UNCHANGED toTablet
         \/ /\ tx'.state = "burst" /\ Within(tx', size)
            /\ \E q : /\ toTablet' = toTablet \o q
                      /\ q \in Seq(UpTo(size, Out(tx')))
                      /\ ~unread' => q \in Seq(Faithful(size))
  BY <1>1, <1>2, BurstGoes, Zenon DEF TxInv
<1>4. toTablet' \in Seq(Outgoing(size, begun))
  <2>1. CASE UNCHANGED toTablet
    BY <2>1 DEF TxInv, Typed
  <2>2. ASSUME NEW q, toTablet' = toTablet \o q, q \in Seq(UpTo(size, Out(tx')))
        PROVE  toTablet' \in Seq(Outgoing(size, begun))
    <3>1. UpTo(size, Out(tx')) \subseteq Outgoing(size, begun)
      BY DEF UpTo, Outgoing
    <3>2. q \in Seq(Outgoing(size, begun))
      BY <2>2, <3>1, SeqMonotonic
    <3>. QED
      BY <2>2, <3>2, ConcatProperties DEF TxInv, Typed
  <2>. QED
    BY <1>3, <2>1, <2>2
<1>5. Typed'
  <2>1. toDcu' \in Seq(Incoming(size, begun))
    BY <1>1, HeadTailProperties DEF TxInv, Typed
  <2>2. crossed' \in BOOLEAN
    BY <1>1, Zenon
  <2>3. size' = size /\ tablet' \in Tablets(size) /\ begun' = begun /\ begun \in Nat
    BY <1>1 DEF TxInv, Typed
  <2>. QED
    BY <1>1, <1>3, <1>4, <2>1, <2>2, <2>3, Zenon DEF Typed
<1>6. tx'.state # "wait" /\ tx'.state # "over" /\ Progress(tx', size)
  BY <1>3 DEF Progress, Within
<1>7. ASSUME tx'.state = "burst", ~crossed'
      PROVE  Sound(tx', toTablet', toDcu', size, begun, tablet)
             /\ (~unread' => Content(toTablet', size, tablet))
  <2>1. Head(toDcu).transfer = begun /\ toDcu[1] = Head(toDcu) /\ 1 \in 1 .. Len(toDcu)
    BY <1>1, <1>7, HeadToDcu
  <2>2. /\ toTablet = <<>> /\ tablet.received = 0 /\ tablet.file = <<>>
        /\ \A j \in 1 .. Len(toDcu) : 1 < j => toDcu[j] \in Requests
    <3>1. Opening(toTablet, toDcu, begun, tablet)
      BY <1>1 DEF TxInv
    <3>. QED
      BY <1>1, <2>1, <3>1 DEF Opening
  <2>3. PICK q : /\ toTablet' = toTablet \o q
                 /\ q \in Seq(UpTo(size, Out(tx')))
                 /\ ~unread' => q \in Seq(Faithful(size))
    BY <1>3, <1>7
  <2>4. toTablet' = q
    BY <2>2, <2>3, ConcatEmptySeq
  <2>5. toDcu' \in Seq(Believable(size, begun, 0, Out(tx')))
    <3>1. /\ toDcu' \in Seq(Incoming(size, begun)) /\ Len(toDcu') = Len(toDcu) - 1
          /\ \A i \in 1 .. Len(toDcu') : toDcu'[i] = toDcu[i + 1]
          /\ Len(toDcu) \in Nat
      BY <1>1, HeadTailProperties, LenProperties DEF TxInv, Typed
    <3>2. ASSUME NEW i \in 1 .. Len(toDcu')
          PROVE  toDcu'[i] \in Believable(size, begun, 0, Out(tx'))
      <4>1. toDcu[i + 1] \in Requests /\ toDcu'[i] = toDcu[i + 1]
        BY <2>2, <3>1
      <4>. QED
        BY <4>1 DEF Believable, Requests, Incoming
    <3>3. toDcu' \in [1 .. Len(toDcu') -> Incoming(size, begun)] /\ Len(toDcu') \in Nat
      BY <3>1, LenProperties
    <3>4. toDcu' \in [1 .. Len(toDcu') -> Believable(size, begun, 0, Out(tx'))]
      BY <3>2, <3>3, Zenon
    <3>. QED
      BY <3>3, <3>4, FunctionIsSeq
  <2>6. Sound(tx', toTablet', toDcu', size, begun, tablet)
    BY <1>3, <2>2, <2>3, <2>4, <2>5 DEF Sound
  <2>7. Len(tablet.file) = Filled(size, 0) /\ Right(size, tablet.file, 0)
    <3>1. Len(<<>>) = 0
      BY EmptySeq
    <3>2. Total(size) > 0 /\ 0 * Payload = 0
      BY <1>2, TotalIs, FlowControlAssumption DEF Sending
    <3>3. Filled(size, 0) = 0
      BY <3>2 DEF Filled
    <3>. QED
      BY <2>2, <3>1, <3>3 DEF Right
  <2>8. ~unread' => Content(toTablet', size, tablet)
    BY <2>2, <2>3, <2>4, <2>7 DEF Content
  <2>. QED
    BY <2>6, <2>8
<1>. QED
  BY <1>1, <1>5, <1>6, <1>7 DEF TxInv

\* The last packet of a burst is acknowledged: the next burst, or the end.
LEMMA AckStep == TxInv /\ OnBurstAck => TxInv'
<1>. SUFFICES ASSUME TxInv, OnBurstAck PROVE TxInv'
  OBVIOUS
<1>. DEFINE t == [tx EXCEPT !.burstSent = @ + 1, !.packetSent = @ + tx.pending]
            m == Head(toDcu)
<1>1. /\ UNCHANGED <<size, tablet, begun, crossed>> /\ toDcu # <<>> /\ toDcu' = Tail(toDcu)
      /\ m.kind \in {"ack", "nack"} /\ tx.state = "burst" /\ IsAwaited(m.number)
      /\ IF t.packetSent = t.packets
         THEN tx' = [t EXCEPT !.state = "over"] /\ UNCHANGED <<buffer, toTablet, unread>>
         ELSE NextBurst(t)
  BY DEF OnBurstAck, Receive
<1>2. Within(tx, size) /\ Sending(tx, size) /\ tx \in Handlers /\ size \in Nat
  BY <1>1 DEF TxInv, Typed, Progress, Within
<1>3. /\ m.number \in Numbers(size) /\ Total(size) \in Nat /\ m.number \in Nat
      /\ Out(tx) \in Nat /\ Out(tx) <= m.number
  <2>1. m.number \in Numbers(size) /\ Total(size) \in Nat
    <3>1. m.number \in Numbers(size)
      BY <1>1, HeadToDcu
    <3>. QED
      BY <1>2, <3>1, TotalIs
  <2>2. m.number \in Nat
    BY <2>1 DEF Numbers
  <2>3. Out(tx) = PacketNumber(m.number)
    BY <1>1 DEF IsAwaited, Out
  <2>. QED
    BY <2>1, <2>2, <2>3, PacketNumberIs
<1>4. \/ Out(tx) = Total(size)
      \/ Out(tx) < Total(size) /\ Out(tx) = (tx.burstSent + 1) * Burst
  <2>. DEFINE p == tx.packetSent
              r == Total(size) - p
  <2>1. Fits(size, Out(tx))
    BY <1>2, <1>3, FitsBelow DEF Numbers
  <2>2. tx.pending = Pending(r) /\ Out(tx) = p + Pending(r) /\ p = tx.burstSent * Burst
        /\ p < Total(size) /\ tx.burstSent \in Nat
    BY <1>2 DEF Within, Sending, Out, Handlers
  <2>3. Fits(size, p + Pending(r))
    BY <2>1, <2>2
  <2>. HIDE DEF r
  <2>4. r = Total(size) - p
    BY DEF r
  <2>. QED
    BY <1>2, <2>2, <2>3, <2>4, BurstEnds
<1>5. /\ t \in Handlers /\ t.state = "burst" /\ t.packets = Total(size) /\ t.packetSent = Out(tx)
      /\ t.burstSent = tx.burstSent + 1 /\ t.pending = tx.pending
  <2>. DEFINE k == tx.burstSent + 1
              n == tx.packetSent + tx.pending
  <2>1. k \in Nat /\ n \in Nat /\ tx.packets = Total(size)
    BY <1>2 DEF Handlers, Sending
  <2>2. t = [tx EXCEPT !.burstSent = k, !.packetSent = n]
    OBVIOUS
  <2>. HIDE DEF k, n, t
  <2>3. /\ t \in Handlers /\ t.state = tx.state /\ t.packets = tx.packets /\ t.packetSent = n
        /\ t.burstSent = k /\ t.pending = tx.pending
    BY <1>2, <2>1, <2>2 DEF Handlers
  <2>. QED
    BY <1>1, <2>1, <2>3 DEF Out, k, n
<1>. HIDE DEF t
<1>6. \A S : toDcu \in Seq(S) => toDcu' \in Seq(S)
  BY <1>1, HeadTailProperties
<1>7. size' = size /\ tablet' = tablet /\ begun' = begun /\ crossed' = crossed
      /\ toDcu' \in Seq(Incoming(size, begun)) /\ tablet' \in Tablets(size) /\ begun' \in Nat
      /\ crossed' \in BOOLEAN
  <2>1. size' = size /\ tablet' = tablet /\ begun' = begun /\ crossed' = crossed
    BY <1>1, Zenon
  <2>. QED
    BY <1>6, <2>1, Zenon DEF TxInv, Typed
<1>8. \* What an answer that was believed says.
      ASSUME ~crossed PROVE tablet.received >= Out(tx) /\ Sound(tx, toTablet, toDcu, size, begun, tablet)
  <2>1. Sound(tx, toTablet, toDcu, size, begun, tablet)
    BY <1>1, <1>8 DEF TxInv
  <2>2. m \in Believable(size, begun, tablet.received, Out(tx))
    BY <1>1, <2>1, HeadTailProperties DEF Sound
  <2>3. m.kind = "ack" => m.number <= tablet.received
    BY <2>2 DEF Believable
  <2>4. m.kind = "nack" => m.number < Out(tx)
    BY <2>2 DEF Believable
  <2>5. tablet.received \in Nat
    BY <1>3 DEF TxInv, Typed, Tablets, Numbers
  <2>. QED
    BY <1>1, <1>3, <2>1, <2>3, <2>4, <2>5
<1>9. CASE t.packetSent = t.packets
  <2>1. tx' = [t EXCEPT !.state = "over"] /\ UNCHANGED <<buffer, toTablet, unread>>
    BY <1>1, <1>9
  <2>2. /\ tx' \in Handlers /\ tx'.state = "over" /\ tx'.packets = Total(size)
        /\ tx'.packetSent = Total(size) /\ tx'.packetSent = Out(tx) /\ tx'.pending = tx.pending
    BY <1>5, <1>9, <2>1 DEF Handlers
  <2>3. Progress(tx', size)
    BY <1>2, <2>2 DEF Progress, Sending
  <2>4. Typed'
    BY <1>7, <2>1, <2>2 DEF TxInv, Typed
  <2>5. ASSUME ~crossed PROVE Sound(tx', toTablet', toDcu', size, begun, tablet)
    <3>1. UpTo(size, Out(tx)) \subseteq UpTo(size, Out(tx'))
          /\ Believable(size, begun, tablet.received, Out(tx))
               \subseteq Believable(size, begun, tablet.received, Out(tx'))
      <4>1. Out(tx') \in Nat /\ Out(tx) <= Out(tx')
        BY <1>2, <1>3, <2>2 DEF Out, Handlers
      <4>2. tablet.received \in Nat /\ tablet.received <= tablet.received
        BY <1>3 DEF TxInv, Typed, Tablets, Numbers
      <4>. QED
        BY <1>3, <4>1, <4>2, Monotone
    <3>2. Sound(tx, toTablet, toDcu, size, begun, tablet) /\ tablet.received >= tx'.packetSent
      BY <1>8, <2>2, <2>5
    <3>3. toTablet \in Seq(UpTo(size, Out(tx'))) /\ toTablet' = toTablet
      BY <2>1, <3>1, <3>2, SeqMonotonic DEF Sound
    <3>4. toDcu' \in Seq(Believable(size, begun, tablet.received, Out(tx')))
      BY <1>6, <3>1, <3>2, SeqMonotonic DEF Sound
    <3>. QED
      BY <3>2, <3>3, <3>4 DEF Sound
  <2>6. ~crossed /\ ~unread => Content(toTablet', size, tablet)
    BY <1>1, <2>1 DEF TxInv
  <2>. QED
    BY <1>7, <2>1, <2>2, <2>3, <2>4, <2>5, <2>6 DEF TxInv
<1>10. CASE t.packetSent # t.packets
  <2>1. NextBurst(t)
    BY <1>1, <1>10
  <2>2. Sending(t, size)
    BY <1>2, <1>4, <1>5, <1>10 DEF Sending
  <2>3. /\ buffer' \in Buffers(size)
        /\ unread' \in BOOLEAN /\ (~unread' => ~unread)
        /\ tx' \in Handlers /\ tx'.packetSent = Out(tx)
        /\ \/ tx'.state = "fault" /\ Sending(tx', size) /\ UNCHANGED toTablet
           \/ /\ tx'.state = "burst" /\ Within(tx', size)
              /\ \E q : /\ toTablet' = toTablet \o q
                        /\ q \in Seq(UpTo(size, Out(tx')))
                        /\ ~unread' => q \in Seq(Faithful(size))
    BY <1>5, <2>1, <2>2, BurstGoes, Zenon DEF TxInv
  <2>4. toTablet' \in Seq(Outgoing(size, begun))
    <3>1. CASE UNCHANGED toTablet
      BY <3>1 DEF TxInv, Typed
    <3>2. ASSUME NEW q, toTablet' = toTablet \o q, q \in Seq(UpTo(size, Out(tx')))
          PROVE  toTablet' \in Seq(Outgoing(size, begun))
      <4>1. UpTo(size, Out(tx')) \subseteq Outgoing(size, begun)
        BY DEF UpTo, Outgoing
      <4>2. q \in Seq(Outgoing(size, begun))
        BY <3>2, <4>1, SeqMonotonic
      <4>. QED
        BY <3>2, <4>2, ConcatProperties DEF TxInv, Typed
    <3>. QED
      BY <2>3, <3>1, <3>2
  <2>5. Typed'
    BY <1>2, <1>7, <2>3, <2>4, Zenon DEF Typed
  <2>6. tx'.state # "wait" /\ tx'.state # "over" /\ Progress(tx', size)
    BY <2>3 DEF Progress, Within
  <2>7. ASSUME tx'.state = "burst", ~crossed
        PROVE  Sound(tx', toTablet', toDcu', size, begun, tablet)
               /\ (~unread' => Content(toTablet', size, tablet))
    <3>1. PICK q : /\ toTablet' = toTablet \o q
                   /\ q \in Seq(UpTo(size, Out(tx')))
                   /\ ~unread' => q \in Seq(Faithful(size))
      BY <2>3, <2>7
    <3>2. Out(tx') \in Nat /\ Out(tx) <= Out(tx')
      BY <1>3, <2>3 DEF Out, Handlers
    <3>3. Sound(tx, toTablet, toDcu, size, begun, tablet) /\ tablet.received >= tx'.packetSent
      BY <1>8, <2>3, <2>7
    <3>4. tablet.received \in Nat /\ tablet.received <= tablet.received
      BY <1>3 DEF TxInv, Typed, Tablets, Numbers
    <3>5. /\ UpTo(size, Out(tx)) \subseteq UpTo(size, Out(tx'))
          /\ Believable(size, begun, tablet.received, Out(tx))
               \subseteq Believable(size, begun, tablet.received, Out(tx'))
      BY <1>3, <3>2, <3>4, Monotone
    <3>6. toTablet' \in Seq(UpTo(size, Out(tx')))
      <4>1. toTablet \in Seq(UpTo(size, Out(tx')))
        BY <3>3, <3>5, SeqMonotonic DEF Sound
      <4>. QED
        BY <3>1, <4>1, ConcatProperties
    <3>7. toDcu' \in Seq(Believable(size, begun, tablet.received, Out(tx')))
      BY <1>6, <3>3, <3>5, SeqMonotonic DEF Sound
    <3>8. ASSUME ~unread' PROVE Content(toTablet', size, tablet)
      <4>1. Content(toTablet, size, tablet) /\ q \in Seq(Faithful(size))
        BY <1>1, <2>3, <2>7, <3>1, <3>8 DEF TxInv
      <4>. QED
        BY <3>1, <4>1, ConcatProperties DEF Content
    <3>. QED
      BY <3>3, <3>6, <3>7, <3>8 DEF Sound
  <2>. QED
    BY <1>7, <2>5, <2>6, <2>7 DEF TxInv
<1>. QED
  BY <1>9, <1>10

-----------------------------------------------------------------------------
(* The theorems. *)

LEMMA TxInit == Init => TxInv
<1>. SUFFICES ASSUME Init PROVE TxInv
  OBVIOUS
<1>1. size \in Nat /\ begun = 0 /\ begun \in Nat /\ unread = FALSE /\ crossed = FALSE
      /\ toTablet = <<>> /\ toDcu = <<>>
  BY FlowControlAssumption DEF Init
<1>2. tx \in Handlers /\ tx.state = "init" /\ tx.packetSent = 0
  BY DEF Init, Handlers
<1>3. buffer \in Buffers(size)
  <2>1. 0 \in 0 .. size
    BY <1>1
  <2>. QED
    BY <2>1 DEF Init, Buffers, Fresh, Zero
<1>4. toTablet \in Seq(Outgoing(size, begun)) /\ toDcu \in Seq(Incoming(size, begun))
  BY <1>1, EmptySeq
<1>5. tablet \in Tablets(size) /\ Awaiting(tablet)
  <2>1. <<>> \in Seq(Nat)
    BY EmptySeq
  <2>. QED
    BY <2>1 DEF Init, Tablets, Awaiting
<1>6. Typed
  BY <1>1, <1>2, <1>3, <1>4, <1>5, Zenon DEF Typed
<1>7. Progress(tx, size) /\ tx.state # "wait" /\ tx.state \notin {"burst", "over"}
  BY <1>2 DEF Progress
<1>. QED
  BY <1>1, <1>5, <1>6, <1>7 DEF TxInv

LEMMA TxNext == TxInv /\ [Next]_vars => TxInv'
<1>. SUFFICES ASSUME TxInv, [Next]_vars PROVE TxInv'
  OBVIOUS
<1>1. CASE NoFile
  BY <1>1, Taken DEF NoFile, Receive
<1>2. CASE OnRequest
  BY <1>2, StartOver
<1>3. CASE OnInitAck
  BY <1>3, BeginStep
<1>4. CASE OnBurstAck
  BY <1>4, AckStep
<1>5. CASE OnUnexpected
  BY <1>5, Taken DEF OnUnexpected, Receive
<1>6. CASE TabletRequests
  BY <1>6, RequestStep
<1>7. CASE TabletOnInit
  BY <1>7, InitStep
<1>8. CASE TabletOnData
  BY <1>8, KeptStep, DroppedStep
<1>9. CASE Lose
  BY <1>9, Taken DEF Lose
<1>10. CASE UNCHANGED vars
  BY <1>10 DEF vars, TxInv, Typed
<1>. QED
  BY <1>1, <1>2, <1>3, <1>4, <1>5, <1>6, <1>7, <1>8, <1>9, <1>10, Zenon DEF Next, Sender

LEMMA TxAlways == Spec => []TxInv
BY TxInit, TxNext, PTL DEF Spec

\* The counters of the sender stay those of a transfer, the buffer within the
\* file and the tablet's count within what was announced: TypeOK, for every
\* size of packet, burst and file.
THEOREM TypeCorrect == Spec => []TypeOK
<1>1. TxInv => TypeOK
  <2>. SUFFICES ASSUME TxInv PROVE TypeOK
    OBVIOUS
  <2>1. tx \in Handlers /\ size \in Nat /\ Total(size) \in Nat
    BY TotalIs DEF TxInv, Typed
  <2>2. tx.packetSent <= tx.packets
    <3>1. CASE tx.state = "init"
      BY <2>1, <3>1 DEF TxInv, Progress, Handlers
    <3>2. CASE tx.state \in {"wait", "burst", "fault"}
      BY <2>1, <3>2 DEF TxInv, Progress, Sending, Handlers
    <3>3. CASE tx.state = "over"
      BY <2>1, <3>3 DEF TxInv, Progress
    <3>. QED
      BY <2>1, <3>1, <3>2, <3>3 DEF Handlers
  <2>3. tx.state = "burst" => tx.pending \in 1 .. Burst
    BY DEF TxInv, Progress, Within
  <2>4. \A i \in 1 .. Burst * Payload : buffer[i] \in 0 .. size
    BY Zenon DEF TxInv, Typed, Buffers
  <2>5. tablet.received \in 0 .. tablet.expected
    <3>1. tablet.received \in Nat /\ tablet.expected \in Nat /\ tablet.received <= tablet.expected
      BY <2>1 DEF TxInv, Typed, Tablets, Numbers, Awaiting
    <3>. QED
      BY <3>1
  <2>. QED
    BY <2>1, <2>2, <2>3, <2>4, <2>5 DEF TypeOK, Handlers
<1>. QED
  BY <1>1, TxAlways, PTL

\* The sender never counts as sent what the tablet does not hold, whatever is
\* lost and however often a request starts the transfer over, unless it took
\* the answer to an earlier INIT for that to the last: NeverAhead.
THEOREM NeverTooFar == Spec => []NeverAhead
<1>1. TxInv => NeverAhead
  BY DEF TxInv, Sound, NeverAhead
<1>. QED
  BY <1>1, TxAlways, PTL

\* When the transfer is over the tablet holds the file, each byte in its place
\* or a checksum there, unless a read failed or an answer was taken for
\* another: WholeFileWhenOver.
THEOREM FileArrives == Spec => []WholeFileWhenOver
<1>1. TxInv => WholeFileWhenOver
  <2>. SUFFICES ASSUME TxInv, tx.state = "over", ~unread, ~crossed
                PROVE  /\ Len(tablet.file) >= size
                       /\ \A i \in 1 .. size : tablet.file[i] \in {i, Checksum}
                       /\ tx.packets % Burst # 0 => Len(tablet.file) = size
    BY DEF WholeFileWhenOver
  <2>. DEFINE T == Total(size)
              len == Len(tablet.file)
              before == (T - 1) * Payload
  <2>1. /\ size \in Nat /\ T \in Nat /\ Payload \in Nat \ {0}
        /\ size <= T * Payload /\ (size > 0 => T > 0 /\ before < size)
    BY FlowControlAssumption, TotalIs DEF TxInv, Typed
  <2>2. size > 0 /\ T > 0
    BY <2>1 DEF TxInv, Progress
  <2>3. tx.packets = T /\ tablet.received = T
    <3>1. tx.packets = T /\ tx.packetSent = T /\ tablet.received >= tx.packetSent
      BY DEF TxInv, Progress, Sound
    <3>2. tablet.received \in {0} \cup Numbers(size)
      BY DEF TxInv, Typed, Tablets
    <3>3. tablet.received \in Nat /\ tablet.received <= T
      BY <2>1, <3>2 DEF Numbers
    <3>. QED
      BY <2>1, <3>1, <3>3
  <2>4. len = before + SizeOf(size, T) /\ Right(size, tablet.file, 0)
    <3>1. Content(toTablet, size, tablet)
      BY DEF TxInv
    <3>2. ~(tablet.received < T)
      BY <2>1, <2>3
    <3>. QED
      BY <3>1, <3>2 DEF Content, Filled
  <2>5. before + Payload = T * Payload /\ before \in Int
    <3>1. T - 1 \in Nat /\ (T - 1) + 1 = T
      BY <2>1, <2>2
    <3>. QED
      BY <2>1, <3>1, Multiples
  <2>6. len >= size /\ (T % Burst # 0 => len = size)
    <3>1. SizeOf(size, T) = IF T % Burst = 0 THEN Payload ELSE size - before
      BY <2>1 DEF SizeOf
    <3>. HIDE DEF before, len
    <3>2. CASE T % Burst = 0
      BY <2>1, <2>4, <2>5, <3>1, <3>2
    <3>3. CASE T % Burst # 0
      BY <2>1, <2>4, <2>5, <3>1, <3>3
    <3>. QED
      BY <3>2, <3>3
  <2>7. ASSUME NEW i \in 1 .. size PROVE tablet.file[i] \in {i, Checksum}
    <3>1. i \in 1 .. len /\ 0 + i <= size /\ 0 + i = i
      <4>1. len \in Nat
        BY LenProperties DEF TxInv, Typed, Tablets
      <4>. HIDE DEF len
      <4>. QED
        BY <2>1, <2>6, <4>1
    <3>2. tablet.file[i] \in {0 + i, size + 1}
      BY <2>4, <3>1, Zenon DEF Right
    <3>. QED
      BY <3>1, <3>2 DEF Checksum
  <2>. QED
    BY <2>3, <2>6, <2>7
<1>. QED
  BY <1>1, TxAlways, PTL
=============================================================================
