------------------------- MODULE SetupUpload_proofs -------------------------
(***************************************************************************)
(* Theorems about SetupUpload for every size of file, packet and burst and *)
(* every number of transfers, losses and failing writes: the fifo never    *)
(* fills, a setup is stored in order, and a tablet that has been told that *)
(* all has come has a setup that is whole on the card.                     *)
(*                                                                         *)
(* What is stored is that of the last transfer once its INIT has been      *)
(* handled, because the line keeps the order (Ordered): nothing of an      *)
(* earlier transfer comes behind the INIT.  The tablet may believe what it *)
(* hears once it has heard the answer to its own INIT, because until then  *)
(* it has sent no packet and nothing comes behind that answer (Opening).   *)
(***************************************************************************)
EXTENDS SetupUpload, Integers, SequenceTheorems, TLAPS

Confs == {"raw", "json"}
Byte == Nat \X Nat
Short == {q \in Seq(Byte) : Len(q) <= Payload}

\* Packets of a file of s bytes, and the bytes in the first n.
Count(s) == (s + Payload - 1) \div Payload
Held(s, n) == IF n * Payload < s THEN n * Payload ELSE s

Inits(t) == [kind : {"init"}, transfer : 1 .. t, service : Files \cup {"other"}, burst : Nat,
             packets : Nat \ {0}]
Data == [kind : {"data"}, number : Nat \ {0}, bytes : Short]
InitAcks(t) == [kind : {"initAck"}, service : Files, packets : Nat, transfer : 1 .. t]
Acks == [kind : {"ack", "nack"}, number : Nat \ {0}]
Configs == [of : Seq(Byte), correct : BOOLEAN]
Ids == [kind : {"setupId"}, of : Configs]

ToDcu(t) == Inits(t) \cup Data
ToTablet(t) == InitAcks(t) \cup Acks \cup Ids

\* The packets of transfer t of s bytes.
DataOf(t, s) == {m \in Data : m.number <= Count(s) /\ m.bytes = BytesOf(t, s, m.number)}

-----------------------------------------------------------------------------
(* Arithmetic and sequences. *)

LEMMA Multiples ==
  ASSUME NEW a \in Nat, NEW b \in Nat, NEW c \in Nat
  PROVE  /\ a * c \in Nat
         /\ a <= b => a * c <= b * c
         /\ (a + 1) * c = a * c + c
<1>1. a * c \in Nat /\ b * c \in Nat /\ (a + 1) * c = a * c + c
  BY SMT
<1>2. ASSUME a <= b PROVE a * c <= b * c
  <2>1. b - a \in Nat /\ (b - a) * c \in Nat /\ b * c = a * c + (b - a) * c
    BY <1>2, SMT
  <2>. QED
    BY <1>1, <2>1
<1>. QED
  BY <1>1, <1>2

LEMMA CountIs ==
  ASSUME NEW s \in Nat
  PROVE  /\ Count(s) \in Nat
         /\ s <= Count(s) * Payload
         /\ s > 0 => Count(s) > 0 /\ (Count(s) - 1) * Payload < s
<1>. DEFINE n == s + Payload - 1
            q == n \div Payload
            r == n % Payload
<1>1. Payload \in Nat \ {0} /\ n \in Nat
  BY SetupUploadAssumption
<1>2. q \in Nat /\ r \in 0 .. Payload - 1 /\ n = Payload * q + r
  <2>. HIDE DEF n
  <2>. QED
    BY <1>1, SMT
<1>3. q * Payload = Payload * q /\ (q - 1) * Payload = q * Payload - Payload
  <2>. HIDE DEF q
  <2>. QED
    BY <1>1, <1>2, SMT
<1>4. s > 0 => q > 0
  <2>1. q = 0 => Payload * q = 0
    <3>. HIDE DEF q
    <3>. QED
      BY <1>1
  <2>. QED
    BY <1>1, <1>2, <2>1
<1>5. Count(s) = q
  BY DEF Count
<1>. HIDE DEF q
<1>. QED
  BY <1>1, <1>2, <1>3, <1>4, <1>5

LEMMA FunctionIsSeq ==
  ASSUME NEW S, NEW n \in Nat, NEW f \in [1 .. n -> S]
  PROVE  f \in Seq(S) /\ Len(f) = n
BY SMT

LEMMA Regroup ==
  \A a, b, c \in Seq(Byte) : a \o (b \o c) = (a \o b) \o c
<1>. TAKE a, b, c \in Seq(Byte)
<1>. HIDE DEF Byte
<1>. QED
  BY ConcatAssociative

LEMMA WholeFileIs ==
  ASSUME NEW t \in Nat, NEW n \in Nat
  PROVE  /\ WholeFile(t, n) \in Seq(Byte) /\ Len(WholeFile(t, n)) = n
         /\ \A i \in 1 .. n : WholeFile(t, n)[i] = <<t, i>>
<1>1. \A i \in 1 .. n : <<t, i>> \in Byte
  BY DEF Byte
<1>2. WholeFile(t, n) \in [1 .. n -> Byte] /\ \A i \in 1 .. n : WholeFile(t, n)[i] = <<t, i>>
  BY <1>1, Zenon DEF WholeFile
<1>. QED
  BY <1>2, FunctionIsSeq

\* The bytes of the packet behind n packets, not the last ones of the file yet.
LEMMA BytesOfIs ==
  ASSUME NEW t \in Nat, NEW s \in Nat, NEW n \in Nat, n < Count(s)
  PROVE  LET q == BytesOf(t, s, n + 1) IN
         /\ n * Payload \in Nat /\ Held(s, n) = n * Payload
         /\ Held(s, n + 1) \in Nat /\ Held(s, n + 1) >= Held(s, n)
         /\ n + 1 = Count(s) => Held(s, n + 1) = s
         /\ q \in Short /\ Len(q) = Held(s, n + 1) - Held(s, n)
         /\ \A i \in 1 .. Len(q) : q[i] = <<t, Held(s, n) + i>>
<1>. DEFINE x == n * Payload
            y == (n + 1) * Payload
            last == IF y < s THEN y ELSE s
            q == BytesOf(t, s, n + 1)
<1>1. Payload \in Nat \ {0} /\ Count(s) \in Nat /\ s <= Count(s) * Payload
  BY SetupUploadAssumption, CountIs
<1>2. s > 0 /\ (Count(s) - 1) * Payload < s
  <2>1. s = 0 => Count(s) = 0
    BY <1>1 DEF Count
  <2>. QED
    BY <1>1, <2>1, CountIs
<1>3. x \in Nat /\ y = x + Payload /\ x < s
  <2>1. Count(s) - 1 \in Nat /\ n <= Count(s) - 1
    BY <1>1
  <2>2. x \in Nat /\ x <= (Count(s) - 1) * Payload /\ y = x + Payload
    BY <1>1, <2>1, Multiples
  <2>3. (Count(s) - 1) * Payload \in Int
    BY <1>1, <2>1, Multiples
  <2>. QED
    BY <1>2, <2>2, <2>3
<1>4. n + 1 = Count(s) => s <= y
  BY <1>1
<1>5. (n + 1) - 1 = n
  OBVIOUS
<1>6. q = [i \in 1 .. last - x |-> <<t, x + i>>]
  BY <1>5 DEF BytesOf
<1>7. Held(s, n) = x /\ Held(s, n + 1) = last
  BY <1>3 DEF Held
<1>. HIDE DEF x, y, q
<1>8. last \in Nat /\ last - x \in Nat /\ last - x <= Payload /\ last >= x
  BY <1>1, <1>3
<1>9. n + 1 = Count(s) => last = s
  BY <1>3, <1>1, <1>4
<1>. HIDE DEF last
<1>10. \A i \in 1 .. last - x : <<t, x + i>> \in Byte
  BY <1>3, <1>8 DEF Byte
<1>11. q \in [1 .. last - x -> Byte] /\ \A i \in 1 .. last - x : q[i] = <<t, x + i>>
  BY <1>6, <1>10, Zenon
<1>12. q \in Seq(Byte) /\ Len(q) = last - x
  BY <1>8, <1>11, FunctionIsSeq
<1>13. q \in Short
  BY <1>8, <1>12 DEF Short
<1>. QED
  BY <1>3, <1>7, <1>8, <1>9, <1>11, <1>12, <1>13 DEF q, x

LEMMA FileGrows ==
  ASSUME NEW t \in Nat, NEW s \in Nat, NEW n \in Nat, n < Count(s)
  PROVE  WholeFile(t, Held(s, n)) \o BytesOf(t, s, n + 1) = WholeFile(t, Held(s, n + 1))
<1>. DEFINE x == Held(s, n)
            y == Held(s, n + 1)
            a == WholeFile(t, x)
            b == BytesOf(t, s, n + 1)
            c == WholeFile(t, y)
<1>1. /\ x \in Nat /\ y \in Nat /\ y >= x
      /\ b \in Seq(Byte) /\ Len(b) = y - x /\ \A i \in 1 .. Len(b) : b[i] = <<t, x + i>>
  <2>1. /\ n * Payload \in Nat /\ x = n * Payload /\ y \in Nat /\ y >= x
        /\ b \in Short /\ Len(b) = y - x
        /\ \A i \in 1 .. Len(b) : b[i] = <<t, x + i>>
    BY BytesOfIs
  <2>. HIDE DEF x, y, b
  <2>2. x \in Nat /\ b \in Seq(Byte)
    BY <2>1, Zenon DEF Short
  <2>. QED
    BY <2>1, <2>2, Zenon
<1>. HIDE DEF x, y
<1>2. /\ a \in Seq(Byte) /\ Len(a) = x /\ \A i \in 1 .. x : a[i] = <<t, i>>
      /\ c \in Seq(Byte) /\ Len(c) = y /\ \A i \in 1 .. y : c[i] = <<t, i>>
  BY <1>1, WholeFileIs
<1>. HIDE DEF a, b, c
<1>3. /\ a \o b \in Seq(Byte) /\ Len(a \o b) = y
      /\ \A i \in 1 .. y : (a \o b)[i] = IF i <= x THEN a[i] ELSE b[i - x]
  <2>1. /\ a \o b \in Seq(Byte) /\ Len(a \o b) = Len(a) + Len(b)
        /\ \A i \in 1 .. Len(a) + Len(b) : (a \o b)[i] = IF i <= Len(a) THEN a[i] ELSE b[i - Len(a)]
    BY <1>1, <1>2, ConcatProperties
  <2>2. Len(a) + Len(b) = y
    BY <1>1, <1>2
  <2>. QED
    BY <1>2, <2>1, <2>2
<1>4. ASSUME NEW i \in 1 .. y PROVE (a \o b)[i] = c[i]
  <2>1. CASE i <= x
    <3>1. i \in 1 .. x
      BY <1>1, <2>1
    <3>2. a[i] = <<t, i>> /\ c[i] = <<t, i>>
      BY <1>2, <3>1, Zenon
    <3>3. (a \o b)[i] = a[i]
      BY <1>3, <2>1, Zenon
    <3>. QED
      BY <3>2, <3>3
  <2>2. CASE ~(i <= x)
    <3>1. i - x \in 1 .. Len(b) /\ x + (i - x) = i
      BY <1>1, <2>2
    <3>2. b[i - x] = <<t, x + (i - x)>>
      BY <1>1, <3>1
    <3>. QED
      BY <1>2, <1>3, <2>2, <3>1, <3>2
  <2>. QED
    BY <2>1, <2>2
<1>5. a \o b = c
  BY <1>2, <1>3, <1>4, SeqEqual
<1>. QED
  BY <1>5 DEF a, b, c, x, y

-----------------------------------------------------------------------------
(* The SD card. *)

Card(fl, st) ==
  /\ fl \in [Files -> Seq(Byte)]
  /\ st \in [Files -> {"closed", "empty", "exists"}]
  /\ st["list"] = "closed"

\* A file that is said to be empty is.
Emptied(fl, st) == \A f \in Confs : st[f] = "empty" => fl[f] = <<>>

\* What an append leaves, and when it does not fail.
LEMMA AppendedIs ==
  ASSUME Card(file, status), NEW f \in Files, NEW content \in Seq(Byte),
         NEW o \in Appended(f, content)
  PROVE  /\ o.file \in Seq(Byte) /\ o.status \in {"closed", "empty", "exists"}
         /\ o.failed \in BOOLEAN
         /\ f = "list" => o.status = "closed"
         /\ f # "list" /\ ~o.failed =>
              /\ o.file = file[f] \o content
              /\ o.status = "closed" \/ (content = <<>> /\ o.status = status[f])
<1>1. file[f] \in Seq(Byte) /\ status[f] \in {"closed", "empty", "exists"}
      /\ status["list"] = "closed"
  BY DEF Card
<1>2. ASSUME NEW n \in 0 .. Len(content) - 1 PROVE SubSeq(content, 1, n) \in Seq(Byte)
  <2>1. \A i \in 1 .. n : content[i] \in Byte
    <3>. TAKE i \in 1 .. n
    <3>1. Len(content) \in Nat
      BY LenProperties
    <3>2. i \in 1 .. Len(content)
      BY <3>1
    <3>. QED
      BY <3>2, ElementOfSeq
  <2>2. 1 \in Int /\ n \in Int
    OBVIOUS
  <2>. QED
    BY <2>1, <2>2, SubSeqProperties
<1>3. CASE content = <<>>
  <2>1. o = [file |-> file[f], status |-> status[f], failed |-> FALSE]
    BY <1>3 DEF Appended
  <2>2. file[f] \o content = file[f]
    BY <1>1, <1>3, ConcatEmptySeq
  <2>. QED
    BY <1>1, <1>3, <2>1, <2>2
<1>4. CASE content # <<>> /\ f = "list"
  <2>1. o \in ListAppended(content)
    BY <1>4 DEF Appended
  <2>2. \/ o = [file |-> content, status |-> "closed", failed |-> FALSE]
        \/ \E n \in 0 .. Len(content) - 1 :
             o = [file |-> SubSeq(content, 1, n), status |-> "closed", failed |-> TRUE]
    BY <2>1 DEF ListAppended
  <2>3. CASE o = [file |-> content, status |-> "closed", failed |-> FALSE]
    BY <1>4, <2>3
  <2>4. ASSUME NEW n \in 0 .. Len(content) - 1,
               o = [file |-> SubSeq(content, 1, n), status |-> "closed", failed |-> TRUE]
        PROVE  o.file \in Seq(Byte) /\ o.status = "closed" /\ o.failed
    BY <1>2, <2>4
  <2>. QED
    BY <1>4, <2>2, <2>3, <2>4
<1>5. CASE content # <<>> /\ f # "list"
  <2>1. o \in ConfAppended(f, content)
    BY <1>5 DEF Appended
  <2>2. \/ o = [file |-> file[f] \o content, status |-> "closed", failed |-> FALSE]
        \/ o = [file |-> file[f], status |-> "closed", failed |-> TRUE]
        \/ \E n \in 0 .. Len(content) - 1 :
             o = [file |-> file[f] \o SubSeq(content, 1, n), status |-> StatusOnAppend,
                  failed |-> TRUE]
    BY <2>1 DEF ConfAppended
  <2>3. file[f] \o content \in Seq(Byte)
    BY <1>1, ConcatProperties
  <2>4. \A n \in 0 .. Len(content) - 1 : file[f] \o SubSeq(content, 1, n) \in Seq(Byte)
    BY <1>1, <1>2, ConcatProperties
  <2>5. StatusOnAppend \in {"closed", "empty", "exists"}
    BY DEF StatusOnAppend
  <2>6. CASE o = [file |-> file[f] \o content, status |-> "closed", failed |-> FALSE]
    BY <1>5, <2>3, <2>6
  <2>7. CASE o = [file |-> file[f], status |-> "closed", failed |-> TRUE]
    BY <1>1, <1>5, <2>7
  <2>8. ASSUME NEW n \in 0 .. Len(content) - 1,
               o = [file |-> file[f] \o SubSeq(content, 1, n), status |-> StatusOnAppend,
                    failed |-> TRUE]
        PROVE  /\ o.file \in Seq(Byte) /\ o.status \in {"closed", "empty", "exists"}
               /\ o.failed
    BY <2>4, <2>5, <2>8
  <2>. QED
    BY <1>5, <2>2, <2>6, <2>7, <2>8
<1>. QED
  BY <1>3, <1>4, <1>5

\* Of a packet of at most Payload bytes the fifo takes all.
LEMMA PutIs ==
  ASSUME fifo \in Seq(Byte), Len(fifo) < DrainAt, NEW bytes \in Short
  PROVE  Put(bytes) = fifo \o bytes /\ Put(bytes) \in Seq(Byte)
<1>1. /\ DrainAt \in Nat \ {0} /\ Payload \in Nat \ {0} /\ FifoRoom \in Nat
      /\ DrainAt + Payload <= FifoRoom + 1
  BY SetupUploadAssumption
<1>2. bytes \in Seq(Byte) /\ Len(bytes) <= Payload /\ Len(bytes) \in Nat /\ Len(fifo) \in Nat
  BY LenProperties DEF Short
<1>3. fifo \o bytes \in Seq(Byte) /\ Len(fifo \o bytes) = Len(fifo) + Len(bytes)
  BY <1>2, ConcatProperties
<1>4. Len(fifo \o bytes) <= FifoRoom
  BY <1>1, <1>2, <1>3
<1>. QED
  BY <1>3, <1>4 DEF Put

\* What is stored: no byte is lost between the fifo and the file, unless a
\* write fails.
LEMMA StoreIs ==
  ASSUME Card(file, status), rx.file \in Files, NEW content \in Seq(Byte), Store(content)
  PROVE  /\ Card(file', status')
         /\ fifo' \in Seq(Byte) /\ Len(fifo') < DrainAt
         /\ failedIn \subseteq failedIn'
         /\ failedIn' = {} =>
              /\ rx.file # "list" => file'[rx.file] \o fifo' = file[rx.file] \o content
              /\ rx.file # "list" /\ IsLast => file'[rx.file] = file[rx.file] \o content
              /\ Emptied(file, status) => Emptied(file', status')
<1>1. DrainAt \in Nat \ {0} /\ file[rx.file] \in Seq(Byte)
  BY SetupUploadAssumption DEF Card
<1>2. CASE IsDue(content) \/ IsLast
  <2>1. PICK o \in Appended(rx.file, content) :
         /\ failedIn' = IF o.failed THEN failedIn \cup {opened} ELSE failedIn
         /\ fifo' = <<>>
         /\ file' = [file EXCEPT ![rx.file] = o.file]
         /\ status' = [status EXCEPT ![rx.file] =
                         IF IsLast /\ rx.file = "raw" THEN "closed" ELSE o.status]
    BY <1>2 DEF Store
  <2>2. /\ o.file \in Seq(Byte) /\ o.status \in {"closed", "empty", "exists"}
        /\ o.failed \in BOOLEAN
        /\ rx.file = "list" => o.status = "closed"
        /\ rx.file # "list" /\ ~o.failed =>
             /\ o.file = file[rx.file] \o content
             /\ o.status = "closed" \/ (content = <<>> /\ o.status = status[rx.file])
    BY AppendedIs
  <2>. DEFINE st == IF IsLast /\ rx.file = "raw" THEN "closed" ELSE o.status
  <2>3. st \in {"closed", "empty", "exists"} /\ (rx.file = "list" => st = "closed")
        /\ (st = "closed" \/ st = o.status)
    BY <2>2
  <2>4. status' = [status EXCEPT ![rx.file] = st]
    BY <2>1
  <2>. HIDE DEF st
  <2>5. /\ status' \in [Files -> {"closed", "empty", "exists"}] /\ status'[rx.file] = st
        /\ \A f \in Files : f # rx.file => status'[f] = status[f]
        /\ file' \in [Files -> Seq(Byte)] /\ file'[rx.file] = o.file
        /\ \A f \in Files : f # rx.file => file'[f] = file[f]
    BY <2>1, <2>2, <2>3, <2>4 DEF Card
  <2>6. status'["list"] = "closed"
    BY <2>3, <2>5 DEF Card, Files
  <2>7. fifo' \in Seq(Byte) /\ Len(fifo') = 0 /\ Len(fifo') < DrainAt
    BY <1>1, <2>1, EmptySeq
  <2>8. failedIn \subseteq failedIn' /\ (failedIn' = {} => ~o.failed)
    BY <2>1
  <2>9. ASSUME failedIn' = {}, rx.file # "list"
        PROVE  /\ file'[rx.file] = file[rx.file] \o content
               /\ file'[rx.file] \o fifo' = file[rx.file] \o content
    <3>1. file'[rx.file] = file[rx.file] \o content /\ file'[rx.file] \in Seq(Byte)
      BY <2>2, <2>5, <2>8, <2>9
    <3>. QED
      BY <2>1, <3>1, ConcatEmptySeq
  <2>10. ASSUME failedIn' = {}, Emptied(file, status), NEW f \in Confs, status'[f] = "empty"
         PROVE  file'[f] = <<>>
    <3>1. f \in Files /\ f # "list"
      BY DEF Confs, Files
    <3>2. CASE f # rx.file
      BY <2>5, <2>10, <3>1, <3>2 DEF Emptied
    <3>3. CASE f = rx.file
      <4>1. content = <<>> /\ status[f] = "empty"
        BY <2>2, <2>3, <2>5, <2>8, <2>10, <3>1, <3>3
      <4>2. file[f] = <<>>
        BY <2>10, <4>1 DEF Emptied
      <4>3. file'[f] = <<>> \o <<>>
        BY <2>9, <2>10, <3>1, <3>3, <4>1, <4>2
      <4>. QED
        BY <4>3, EmptySeq, ConcatEmptySeq
    <3>. QED
      BY <3>2, <3>3
  <2>. QED
    BY <2>5, <2>6, <2>7, <2>8, <2>9, <2>10 DEF Card, Emptied
<1>3. CASE ~(IsDue(content) \/ IsLast)
  <2>1. fifo' = content /\ UNCHANGED <<file, status, failedIn>>
    BY <1>3 DEF Store
  <2>2. Len(content) < DrainAt
    <3>1. Len(content) \in Nat
      BY LenProperties
    <3>. QED
      BY <1>1, <1>3, <3>1 DEF IsDue
  <2>. QED
    BY <1>3, <2>1, <2>2 DEF Card, Emptied
<1>. QED
  BY <1>2, <1>3

-----------------------------------------------------------------------------
(* The inductive invariant. *)

Tablets == [phase : {"idle", "init", "data", "done"}, transfer : Nat,
            service : {"raw", "json", "list", "other"}, size : Nat, acked : Nat,
            next : Nat \ {0}, crossed : BOOLEAN]

Receivers == [enabled : BOOLEAN, file : Files \cup {"none"}, burst : Nat, expected : Nat,
              received : Nat]

Typed ==
  /\ rx \in Receivers
  /\ fifo \in Seq(Byte) /\ Len(fifo) < DrainAt
  /\ Card(file, status)
  /\ config \in Configs
  /\ tablet \in Tablets
  /\ toDcu \in Seq(ToDcu(tablet.transfer))
  /\ toTablet \in Seq(ToTablet(tablet.transfer))
  /\ opened \in Nat /\ opened <= tablet.transfer

Awaiting(r) == r.enabled => r.received < r.expected \/ r.file = "none"

\* A tablet that has started: with a file, and data for a service that answers.
Begun(tab) ==
  /\ tab.phase # "idle" => tab.transfer > 0 /\ tab.size > 0 /\ Count(tab.size) < 65536
  /\ tab.phase \in {"data", "done"} => tab.service \in Files
  /\ tab.phase = "init" => tab.acked = 0 /\ tab.next = 1

\* What is sent in the tablet's last transfer.
Mine(tab) == {InitOf(tab)} \cup DataOf(tab.transfer, tab.size)

\* Behind the INIT of the last transfer comes nothing of an earlier one.
Ordered(q, tab) ==
  \A i \in 1 .. Len(q) : q[i].kind = "init" /\ q[i].transfer = tab.transfer =>
    /\ q[i] = InitOf(tab)
    /\ \A j \in 1 .. Len(q) : i < j => q[j] \in Mine(tab)

\* While the tablet waits for the answer to INIT t: the INIT is the last on the
\* line, and so is its answer, with nothing more on the way to the DCU.
Opening(q, d, t, op, on) ==
  /\ \A i \in 1 .. Len(q) : q[i].kind = "init" /\ q[i].transfer = t => i = Len(q)
  /\ \A i \in 1 .. Len(d) : d[i].kind = "initAck" /\ d[i].transfer = t =>
       i = Len(d) /\ q = <<>> /\ op = t /\ on

\* Answers a tablet may believe that has heard the one to its INIT; on tells
\* whether the DCU still waits for packets.
Believable(t, n, on) ==
  {m \in ToTablet(t) : /\ m.kind \in {"ack", "nack"} => m.number <= n
                       /\ m.kind = "ack" /\ m.number = n => ~on}

Following(q, d, tab, op, on) ==
  /\ op = tab.transfer
  /\ q \in Seq(DataOf(tab.transfer, tab.size))
  /\ d \in Seq(Believable(tab.transfer, Count(tab.size), on))
  /\ tab.acked <= Count(tab.size) /\ tab.next <= Count(tab.size) + 1
  /\ tab.phase = "done" => ~on

\* Once the INIT of the last transfer is handled, all that comes is of it.
Current(q, r, tab) ==
  /\ q \in Seq(Mine(tab))
  /\ tab.service \in Files /\ r.enabled => r.file = tab.service /\ r.expected = Count(tab.size)

\* What is kept of it: the packets received, then the whole setup.
Kept(r, fi, fl, cf, tab) ==
  /\ r.enabled => fl[tab.service] \o fi = WholeFile(tab.transfer, Held(tab.size, r.received))
  /\ ~r.enabled => /\ fl[tab.service] = WholeFile(tab.transfer, tab.size)
                   /\ tab.service = "raw" /\ tab.size < RawRoom => cf.of = fl["raw"]

UpInv ==
  /\ Typed /\ Awaiting(rx) /\ Begun(tablet)
  /\ Ordered(toDcu, tablet)
  /\ tablet.phase = "init" => Opening(toDcu, toTablet, tablet.transfer, opened, rx.enabled)
  /\ tablet.phase \in {"data", "done"} /\ ~tablet.crossed =>
       Following(toDcu, toTablet, tablet, opened, rx.enabled)
  /\ opened = tablet.transfer /\ opened > 0 =>
       /\ Current(toDcu, rx, tablet)
       /\ tablet.service \in Confs /\ failedIn = {} => Kept(rx, fifo, file, config, tablet)
  /\ failedIn = {} => Emptied(file, status)
  /\ rx.enabled => opened > 0

-----------------------------------------------------------------------------
(* What is taken from the line, or put on it. *)

LEMMA OrderedTaken ==
  ASSUME NEW S, NEW q \in Seq(S), q # <<>>, NEW tab, Ordered(q, tab)
  PROVE  /\ Ordered(Tail(q), tab)
         /\ Head(q).kind = "init" /\ Head(q).transfer = tab.transfer =>
              Head(q) = InitOf(tab) /\ \A j \in 1 .. Len(Tail(q)) : Tail(q)[j] \in Mine(tab)
<1>. DEFINE r == Tail(q)
<1>1. /\ Len(q) \in Nat \ {0} /\ Len(r) = Len(q) - 1 /\ Head(q) = q[1]
      /\ \A i \in 1 .. Len(r) : r[i] = q[i + 1]
  BY HeadTailProperties, EmptySeq
<1>. HIDE DEF r
<1>2. ASSUME NEW i \in 1 .. Len(r), r[i].kind = "init", r[i].transfer = tab.transfer
      PROVE  r[i] = InitOf(tab) /\ \A j \in 1 .. Len(r) : i < j => r[j] \in Mine(tab)
  <2>1. i + 1 \in 1 .. Len(q) /\ q[i + 1] = r[i]
    BY <1>1
  <2>2. q[i + 1] = InitOf(tab) /\ \A j \in 1 .. Len(q) : i + 1 < j => q[j] \in Mine(tab)
    BY <1>2, <2>1 DEF Ordered
  <2>3. ASSUME NEW j \in 1 .. Len(r), i < j PROVE r[j] \in Mine(tab)
    <3>1. j + 1 \in 1 .. Len(q) /\ i + 1 < j + 1 /\ q[j + 1] = r[j]
      BY <1>1, <2>3
    <3>. QED
      BY <2>2, <3>1
  <2>. QED
    BY <2>1, <2>2, <2>3
<1>3. ASSUME Head(q).kind = "init", Head(q).transfer = tab.transfer
      PROVE  Head(q) = InitOf(tab) /\ \A j \in 1 .. Len(r) : r[j] \in Mine(tab)
  <2>1. 1 \in 1 .. Len(q) /\ q[1].kind = "init" /\ q[1].transfer = tab.transfer
    BY <1>1, <1>3
  <2>2. q[1] = InitOf(tab) /\ \A j \in 1 .. Len(q) : 1 < j => q[j] \in Mine(tab)
    BY <2>1, Zenon DEF Ordered
  <2>3. ASSUME NEW j \in 1 .. Len(r) PROVE r[j] \in Mine(tab)
    <3>1. j + 1 \in 1 .. Len(q) /\ 1 < j + 1 /\ q[j + 1] = r[j]
      BY <1>1
    <3>. QED
      BY <2>2, <3>1
  <2>. QED
    BY <1>1, <2>2, <2>3
<1>. QED
  BY <1>2, <1>3 DEF Ordered, r

LEMMA OrderedPut ==
  ASSUME NEW S, NEW q \in Seq(S), NEW m \in S, NEW tab, Ordered(q, tab), m \in Mine(tab)
  PROVE  Ordered(Append(q, m), tab)
<1>. DEFINE r == Append(q, m)
<1>1. /\ Len(q) \in Nat /\ Len(r) = Len(q) + 1 /\ r[Len(q) + 1] = m
      /\ \A i \in 1 .. Len(q) : r[i] = q[i]
  BY AppendProperties, LenProperties
<1>. HIDE DEF r
<1>2. ASSUME NEW i \in 1 .. Len(r), r[i].kind = "init", r[i].transfer = tab.transfer
      PROVE  r[i] = InitOf(tab) /\ \A j \in 1 .. Len(r) : i < j => r[j] \in Mine(tab)
  <2>1. CASE i \in 1 .. Len(q)
    <3>1. q[i] = InitOf(tab) /\ \A j \in 1 .. Len(q) : i < j => q[j] \in Mine(tab)
      BY <1>1, <1>2, <2>1 DEF Ordered
    <3>2. ASSUME NEW j \in 1 .. Len(r), i < j PROVE r[j] \in Mine(tab)
      <4>1. j \in 1 .. Len(q) \/ j = Len(q) + 1
        BY <1>1
      <4>. QED
        BY <1>1, <3>1, <3>2, <4>1
    <3>. QED
      BY <1>1, <2>1, <3>1, <3>2
  <2>2. CASE i = Len(q) + 1
    <3>1. r[i] = m /\ m.kind = "init"
      BY <1>1, <1>2, <2>2
    <3>2. m = InitOf(tab)
      BY <3>1 DEF Mine, DataOf, Data
    <3>3. \A j \in 1 .. Len(r) : ~(i < j)
      BY <1>1, <2>2
    <3>. QED
      BY <3>1, <3>2, <3>3
  <2>. QED
    BY <1>1, <2>1, <2>2
<1>. QED
  BY <1>2 DEF Ordered, r

LEMMA OpeningTaken ==
  ASSUME NEW S, NEW q \in Seq(S), NEW D, NEW d \in Seq(D), NEW t, NEW op, NEW on,
         Opening(q, d, t, op, on)
  PROVE  /\ q # <<>> => Opening(Tail(q), d, t, op, on)
         /\ d # <<>> => Opening(q, Tail(d), t, op, on)
<1>1. Len(q) \in Nat /\ Len(d) \in Nat
  BY LenProperties
<1>2. ASSUME q # <<>> PROVE Opening(Tail(q), d, t, op, on)
  <2>1. Len(Tail(q)) = Len(q) - 1 /\ \A i \in 1 .. Len(Tail(q)) : Tail(q)[i] = q[i + 1]
    BY <1>2, HeadTailProperties
  <2>2. ASSUME NEW i \in 1 .. Len(Tail(q)), Tail(q)[i].kind = "init", Tail(q)[i].transfer = t
        PROVE  i = Len(Tail(q))
    <3>1. i + 1 \in 1 .. Len(q) /\ Tail(q)[i] = q[i + 1]
      BY <1>1, <2>1
    <3>2. i + 1 = Len(q)
      BY <2>2, <3>1 DEF Opening
    <3>. QED
      BY <1>1, <2>1, <3>2
  <2>3. ASSUME NEW i \in 1 .. Len(d), d[i].kind = "initAck", d[i].transfer = t PROVE FALSE
    BY <1>2, <2>3 DEF Opening
  <2>. QED
    BY <2>2, <2>3 DEF Opening
<1>3. ASSUME d # <<>> PROVE Opening(q, Tail(d), t, op, on)
  <2>1. Len(Tail(d)) = Len(d) - 1 /\ \A i \in 1 .. Len(Tail(d)) : Tail(d)[i] = d[i + 1]
    BY <1>3, HeadTailProperties
  <2>2. ASSUME NEW i \in 1 .. Len(Tail(d)), Tail(d)[i].kind = "initAck", Tail(d)[i].transfer = t
        PROVE  i = Len(Tail(d)) /\ q = <<>> /\ op = t /\ on
    <3>1. i + 1 \in 1 .. Len(d) /\ Tail(d)[i] = d[i + 1]
      BY <1>1, <2>1
    <3>2. i + 1 = Len(d) /\ q = <<>> /\ op = t /\ on
      BY <2>2, <3>1, Zenon DEF Opening
    <3>. QED
      BY <1>1, <2>1, <3>2
  <2>. QED
    BY <2>2 DEF Opening
<1>. QED
  BY <1>2, <1>3

\* Nothing taken from the line disturbs the invariant.
LEMMA Taken ==
  ASSUME UpInv,
         UNCHANGED <<rx, fifo, file, status, config, tablet, opened, failedIn>>,
         \/ toTablet # <<>> /\ toTablet' = Tail(toTablet) /\ toDcu' = toDcu
         \/ toDcu # <<>> /\ toDcu' = Tail(toDcu) /\ toTablet' = toTablet
  PROVE  UpInv'
<1>1. \A S : (toTablet \in Seq(S) => toTablet' \in Seq(S)) /\ (toDcu \in Seq(S) => toDcu' \in Seq(S))
  BY HeadTailProperties
<1>2. Typed'
  BY <1>1 DEF UpInv, Typed
<1>3. Ordered(toDcu', tablet)
  BY OrderedTaken DEF UpInv, Typed
<1>4. tablet.phase = "init" => Opening(toDcu', toTablet', tablet.transfer, opened, rx.enabled)
  BY OpeningTaken DEF UpInv, Typed
<1>5. tablet.phase \in {"data", "done"} /\ ~tablet.crossed =>
        Following(toDcu', toTablet', tablet, opened, rx.enabled)
  BY <1>1, Zenon DEF UpInv, Following
<1>6. opened = tablet.transfer /\ opened > 0 => Current(toDcu', rx, tablet)
  BY <1>1, Zenon DEF UpInv, Current
<1>. QED
  BY <1>2, <1>3, <1>4, <1>5, <1>6 DEF UpInv

-----------------------------------------------------------------------------
(* The steps of the tablet. *)

LEMMA SameTransfer ==
  ASSUME NEW a, NEW b, a.transfer = b.transfer, a.service = b.service, a.size = b.size
  PROVE  InitOf(a) = InitOf(b) /\ Mine(a) = Mine(b)
BY DEF InitOf, Mine

LEMMA InitIs ==
  ASSUME NEW tab \in Tablets, tab.transfer > 0, tab.size > 0
  PROVE  InitOf(tab) \in Inits(tab.transfer) /\ InitOf(tab) \in Mine(tab)
<1>1. tab.size \in Nat /\ tab.transfer \in Nat /\ tab.service \in Files \cup {"other"}
  BY DEF Tablets, Files
<1>2. Count(tab.size) \in Nat \ {0}
  BY <1>1, CountIs
<1>3. Burst \in Nat /\ tab.transfer \in 1 .. tab.transfer
  BY <1>1, SetupUploadAssumption
<1>. QED
  BY <1>1, <1>2, <1>3 DEF InitOf, Inits, Mine, Count

\* A new transfer: all that is under way belongs to earlier ones.
LEMMA StartStep == UpInv /\ TabletStarts => UpInv'
<1>. SUFFICES ASSUME UpInv, TabletStarts PROVE UpInv'
  OBVIOUS
<1>1. PICK service \in Services, s \in Sizes :
        TabletSends([phase |-> "init", transfer |-> tablet.transfer + 1, service |-> service,
                     size |-> s, acked |-> 0, next |-> 1, crossed |-> FALSE],
                    InitOf([phase |-> "init", transfer |-> tablet.transfer + 1,
                            service |-> service, size |-> s, acked |-> 0, next |-> 1,
                            crossed |-> FALSE]))
  BY Zenon DEF TabletStarts
<1>. DEFINE n == tablet.transfer
            t == [phase |-> "init", transfer |-> n + 1, service |-> service, size |-> s,
                  acked |-> 0, next |-> 1, crossed |-> FALSE]
            m == InitOf(t)
<1>2. /\ tablet' = t /\ toDcu' = Append(toDcu, m)
      /\ UNCHANGED <<rx, fifo, file, status, config, toTablet, opened, failedIn>>
  BY <1>1, Zenon DEF TabletSends
<1>3. /\ n \in Nat /\ opened \in Nat /\ opened <= n
      /\ toDcu \in Seq(ToDcu(n)) /\ toTablet \in Seq(ToTablet(n))
  BY DEF UpInv, Typed, Tablets
<1>4. /\ t \in Tablets /\ t.phase = "init" /\ t.transfer = n + 1 /\ t.size = s /\ s > 0
      /\ t.service = service /\ t.acked = 0 /\ t.next = 1 /\ Count(s) < 65536
  <2>1. s \in Nat /\ s > 0 /\ Count(s) < 65536
    BY SetupUploadAssumption DEF Count
  <2>. QED
    BY <1>3, <2>1, SetupUploadAssumption DEF Tablets
<1>. HIDE DEF t
<1>5. m \in Inits(n + 1) /\ m \in ToDcu(n + 1)
  <2>1. t.transfer > 0
    BY <1>3, <1>4
  <2>. QED
    BY <1>4, <2>1, InitIs DEF ToDcu
<1>6. toDcu \in Seq(ToDcu(n + 1)) /\ toTablet \in Seq(ToTablet(n + 1))
  <2>1. 1 .. n \subseteq 1 .. n + 1
    BY <1>3
  <2>2. ToDcu(n) \subseteq ToDcu(n + 1) /\ ToTablet(n) \subseteq ToTablet(n + 1)
    BY <2>1 DEF ToDcu, ToTablet, Inits, InitAcks
  <2>. QED
    BY <1>3, <2>2, SeqMonotonic
<1>7. /\ toDcu' \in Seq(ToDcu(n + 1)) /\ Len(toDcu) \in Nat /\ Len(toDcu') = Len(toDcu) + 1
      /\ toDcu'[Len(toDcu) + 1] = m
      /\ \A i \in 1 .. Len(toDcu) : toDcu'[i] = toDcu[i]
  BY <1>2, <1>5, <1>6, AppendProperties, LenProperties
<1>8. ASSUME NEW i \in 1 .. Len(toDcu'), toDcu'[i].kind = "init", toDcu'[i].transfer = n + 1
      PROVE  i = Len(toDcu') /\ toDcu'[i] = m
  <2>1. ASSUME i \in 1 .. Len(toDcu) PROVE FALSE
    <3>1. toDcu[i] \in ToDcu(n) /\ toDcu[i].kind = "init" /\ toDcu[i].transfer = n + 1
      BY <1>3, <1>7, <1>8, <2>1, ElementOfSeq
    <3>2. toDcu[i].transfer \in 1 .. n
      BY <3>1 DEF ToDcu, Inits, Data
    <3>. QED
      BY <1>3, <3>1, <3>2
  <2>. QED
    BY <1>7, <2>1
<1>9. Ordered(toDcu', t)
  <2>1. \A i, j \in 1 .. Len(toDcu') : i = Len(toDcu') => ~(i < j)
    BY <1>7
  <2>. QED
    BY <1>4, <1>8, <2>1 DEF Ordered
<1>10. Opening(toDcu', toTablet, n + 1, opened, rx.enabled)
  <2>1. ASSUME NEW i \in 1 .. Len(toTablet), toTablet[i].kind = "initAck",
               toTablet[i].transfer = n + 1
        PROVE  FALSE
    <3>1. toTablet[i] \in ToTablet(n)
      BY <1>3, ElementOfSeq
    <3>2. toTablet[i].transfer \in 1 .. n
      BY <2>1, <3>1 DEF ToTablet, InitAcks, Acks, Ids
    <3>. QED
      BY <1>3, <2>1, <3>2
  <2>. QED
    BY <1>8, <2>1 DEF Opening
<1>11. Typed'
  <2>1. opened' \in Nat /\ opened' <= n + 1
    BY <1>2, <1>3
  <2>. QED
    BY <1>2, <1>4, <1>6, <1>7, <2>1 DEF UpInv, Typed
<1>12. Begun(t) /\ t.phase \notin {"data", "done"} /\ opened # t.transfer
  BY <1>3, <1>4 DEF Begun
<1>. QED
  BY <1>2, <1>4, <1>9, <1>10, <1>11, <1>12 DEF UpInv

\* The number of packets of the tablet's file.
LEMMA PacketsAre ==
  ASSUME UpInv
  PROVE  /\ Packets = Count(tablet.size) /\ Packets \in Nat /\ Limit <= Packets
         /\ tablet \in Tablets /\ tablet.size \in Nat /\ tablet.transfer \in Nat
         /\ tablet.acked \in Nat /\ tablet.next \in Nat \ {0}
<1>1. tablet \in Tablets /\ tablet.size \in Nat /\ tablet.transfer \in Nat
      /\ tablet.acked \in Nat /\ tablet.next \in Nat \ {0} /\ Burst \in Nat
  BY SetupUploadAssumption DEF UpInv, Typed, Tablets
<1>2. Packets = Count(tablet.size) /\ Packets \in Nat
  BY <1>1, CountIs DEF Packets, Count
<1>. QED
  BY <1>1, <1>2 DEF Limit

\* The number of a packet of a file survives its 16 bits.
LEMMA NumberFits ==
  ASSUME NEW k \in Nat \ {0}, NEW n \in Nat, k <= n, n < 65536
  PROVE  PacketNumber(k) = k
BY DEF PacketNumber

LEMMA SendStep == UpInv /\ TabletSendsPacket => UpInv'
<1>. SUFFICES ASSUME UpInv, TabletSendsPacket PROVE UpInv'
  OBVIOUS
<1>. DEFINE n == Count(tablet.size)
            k == tablet.next
            m == [kind |-> "data", number |-> PacketNumber(k), bytes |-> BytesOf(tablet.transfer, tablet.size, k)]
            more == k + 1
<1>1. /\ tablet' = [tablet EXCEPT !.next = more] /\ toDcu' = Append(toDcu, m)
      /\ tablet.phase = "data" /\ k <= Limit
      /\ UNCHANGED <<rx, fifo, file, status, config, toTablet, opened, failedIn>>
  BY DEF TabletSendsPacket, TabletSends
<1>2. /\ n \in Nat /\ k \in Nat \ {0} /\ k <= n /\ more \in Nat \ {0} /\ more <= n + 1
      /\ tablet \in Tablets /\ tablet.size \in Nat /\ tablet.transfer \in Nat
      /\ tablet.acked \in Nat
  <2>1. /\ Packets = n /\ n \in Nat /\ Limit <= n /\ tablet \in Tablets /\ tablet.size \in Nat
        /\ tablet.transfer \in Nat /\ k \in Nat \ {0} /\ tablet.acked \in Nat /\ Burst \in Nat
    BY PacketsAre, SetupUploadAssumption
  <2>2. Limit \in Nat
    BY <2>1 DEF Limit
  <2>. QED
    BY <1>1, <2>1, <2>2
<1>3. m \in DataOf(tablet.transfer, tablet.size) /\ m \in Data
  <2>3. PacketNumber(k) = k
    <3>1. n < 65536
      BY <1>1 DEF UpInv, Begun
    <3>. QED
      BY <1>2, <3>1, NumberFits
  <2>1. k - 1 \in Nat /\ k - 1 < n /\ (k - 1) + 1 = k
    BY <1>2
  <2>2. BytesOf(tablet.transfer, tablet.size, k) \in Short
    BY <1>2, <2>1, BytesOfIs
  <2>. QED
    BY <1>2, <2>2, <2>3 DEF DataOf, Data
<1>. HIDE DEF m, more
<1>4. /\ tablet' \in Tablets /\ tablet'.transfer = tablet.transfer
      /\ tablet'.service = tablet.service /\ tablet'.size = tablet.size
      /\ tablet'.phase = tablet.phase /\ tablet'.crossed = tablet.crossed
      /\ tablet'.acked = tablet.acked /\ tablet'.next = more
  BY <1>1, <1>2 DEF Tablets
<1>5. Mine(tablet') = Mine(tablet) /\ InitOf(tablet') = InitOf(tablet) /\ m \in Mine(tablet)
  BY <1>3, <1>4, SameTransfer DEF Mine
<1>6. Typed'
  <2>1. toDcu' \in Seq(ToDcu(tablet.transfer))
    BY <1>1, <1>3, AppendProperties DEF UpInv, Typed, ToDcu
  <2>. QED
    BY <1>1, <1>4, <2>1 DEF UpInv, Typed
<1>7. Ordered(toDcu', tablet')
  <2>1. Ordered(toDcu', tablet)
    BY <1>1, <1>3, <1>5, OrderedPut DEF UpInv, Typed, ToDcu
  <2>. QED
    BY <1>4, <1>5, <2>1 DEF Ordered
<1>8. ASSUME ~tablet.crossed PROVE Following(toDcu', toTablet, tablet', opened, rx.enabled)
  <2>1. Following(toDcu, toTablet, tablet, opened, rx.enabled)
    BY <1>1, <1>8 DEF UpInv
  <2>2. toDcu' \in Seq(DataOf(tablet.transfer, tablet.size))
    BY <1>1, <1>3, <2>1, AppendProperties DEF Following
  <2>. QED
    BY <1>2, <1>4, <2>1, <2>2 DEF Following
<1>9. ASSUME opened = tablet.transfer, opened > 0
      PROVE  /\ Current(toDcu', rx, tablet')
             /\ tablet.service \in Confs /\ failedIn = {} => Kept(rx, fifo, file, config, tablet')
  <2>1. /\ Current(toDcu, rx, tablet)
        /\ tablet.service \in Confs /\ failedIn = {} => Kept(rx, fifo, file, config, tablet)
    BY <1>9 DEF UpInv
  <2>2. toDcu' \in Seq(Mine(tablet))
    BY <1>1, <1>5, <2>1, AppendProperties DEF Current
  <2>. QED
    BY <1>4, <1>5, <2>1, <2>2 DEF Current, Kept
<1>10. Begun(tablet')
  BY <1>1, <1>4 DEF UpInv, Begun
<1>. QED
  BY <1>1, <1>4, <1>6, <1>7, <1>8, <1>9, <1>10 DEF UpInv

LEMMA RepeatInitStep == UpInv /\ TabletRepeatsInit => UpInv'
<1>. SUFFICES ASSUME UpInv, TabletRepeatsInit PROVE UpInv'
  OBVIOUS
<1>. DEFINE t == tablet.transfer
            m == InitOf(tablet)
<1>1. /\ tablet' = tablet /\ toDcu' = Append(toDcu, m)
      /\ tablet.phase = "init" /\ toDcu = <<>> /\ toTablet = <<>>
      /\ UNCHANGED <<rx, fifo, file, status, config, toTablet, opened, failedIn>>
  BY DEF TabletRepeatsInit, TabletSends, Overdue
<1>2. tablet \in Tablets /\ t > 0 /\ tablet.size > 0 /\ toDcu \in Seq(ToDcu(t))
  BY <1>1 DEF UpInv, Typed, Begun
<1>3. m \in Mine(tablet) /\ m \in ToDcu(t)
  BY <1>2, InitIs DEF ToDcu
<1>. HIDE DEF m
<1>4. toDcu' \in Seq(ToDcu(t)) /\ Ordered(toDcu', tablet)
  <2>1. toDcu' \in Seq(ToDcu(t))
    BY <1>1, <1>2, <1>3, AppendProperties
  <2>2. Ordered(toDcu, tablet)
    BY DEF UpInv
  <2>. QED
    BY <1>1, <1>2, <1>3, <2>1, <2>2, OrderedPut
<1>5. Typed'
  BY <1>1, <1>4 DEF UpInv, Typed
<1>6. Opening(toDcu', toTablet', t, opened, rx.enabled)
  <2>1. Len(toDcu') = 1 /\ Len(toTablet') = 0
    BY <1>1, <1>2, <1>3, EmptySeq, AppendProperties
  <2>2. \A i \in 1 .. Len(toDcu') : i = Len(toDcu')
    BY <2>1
  <2>3. \A i \in 1 .. Len(toTablet') : FALSE
    BY <2>1
  <2>. QED
    BY <2>2, <2>3 DEF Opening
<1>7. opened = t /\ opened > 0 => Current(toDcu', rx, tablet)
  BY <1>1, <1>3, AppendProperties DEF UpInv, Current
<1>. QED
  BY <1>1, <1>4, <1>5, <1>6, <1>7 DEF UpInv

\* The tablet goes on, with the frames for it taken or not.
LEMMA TabletTurns ==
  ASSUME UpInv, UNCHANGED <<rx, fifo, file, status, config, toDcu, opened, failedIn>>,
         toTablet' = toTablet \/ (toTablet # <<>> /\ toTablet' = Tail(toTablet)),
         tablet' \in Tablets, tablet'.transfer = tablet.transfer,
         tablet'.service = tablet.service, tablet'.size = tablet.size,
         tablet.phase # "idle", tablet.service \in Files,
         tablet'.phase \in {"data", "done"},
         ~tablet'.crossed => Following(toDcu, toTablet', tablet', opened, rx.enabled)
  PROVE  UpInv'
<1>1. \A S : toTablet \in Seq(S) => toTablet' \in Seq(S)
  BY HeadTailProperties
<1>2. Typed'
  BY <1>1 DEF UpInv, Typed
<1>3. InitOf(tablet') = InitOf(tablet) /\ Mine(tablet') = Mine(tablet)
  BY SameTransfer
<1>4. Ordered(toDcu', tablet')
  BY <1>3 DEF UpInv, Ordered
<1>5. ~tablet'.crossed => Following(toDcu', toTablet', tablet', opened, rx.enabled)
  OBVIOUS
<1>6. Begun(tablet')
  BY DEF UpInv, Begun
<1>7. ASSUME opened = tablet.transfer, opened > 0
      PROVE  /\ Current(toDcu, rx, tablet')
             /\ tablet.service \in Confs /\ failedIn = {} => Kept(rx, fifo, file, config, tablet')
  <2>1. /\ Current(toDcu, rx, tablet)
        /\ tablet.service \in Confs /\ failedIn = {} => Kept(rx, fifo, file, config, tablet)
    BY <1>7 DEF UpInv
  <2>. QED
    BY <1>3, <2>1 DEF Current, Kept
<1>. QED
  BY <1>2, <1>4, <1>5, <1>6, <1>7 DEF UpInv

LEMMA RepeatBurstStep == UpInv /\ TabletRepeatsBurst => UpInv'
<1>. SUFFICES ASSUME UpInv, TabletRepeatsBurst PROVE UpInv'
  OBVIOUS
<1>. DEFINE k == tablet.acked + 1
<1>1. /\ tablet' = [tablet EXCEPT !.next = k] /\ tablet.phase = "data"
      /\ UNCHANGED <<rx, fifo, file, status, config, toTablet, toDcu, opened, failedIn>>
  BY DEF TabletRepeatsBurst
<1>2. tablet \in Tablets /\ tablet.acked \in Nat /\ k \in Nat \ {0} /\ tablet.size \in Nat
  BY PacketsAre
<1>3. tablet.acked <= Count(tablet.size) => k <= Count(tablet.size) + 1
  BY <1>2, CountIs
<1>. HIDE DEF k
<1>4. /\ tablet' \in Tablets /\ tablet'.transfer = tablet.transfer
      /\ tablet'.service = tablet.service /\ tablet'.size = tablet.size
      /\ tablet'.phase = "data" /\ tablet'.crossed = tablet.crossed
      /\ tablet'.acked = tablet.acked /\ tablet'.next = k
  BY <1>1, <1>2 DEF Tablets
<1>5. tablet.service \in Files
  BY <1>1 DEF UpInv, Begun
<1>6. ASSUME ~tablet'.crossed PROVE Following(toDcu, toTablet, tablet', opened, rx.enabled)
  <2>1. Following(toDcu, toTablet, tablet, opened, rx.enabled)
    BY <1>1, <1>4, <1>6 DEF UpInv
  <2>. QED
    BY <1>3, <1>4, <2>1 DEF Following
<1>. QED
  BY <1>1, <1>4, <1>5, <1>6, TabletTurns

LEMMA HearsStep == UpInv /\ TabletHears => UpInv'
<1>. SUFFICES ASSUME UpInv, TabletHears PROVE UpInv'
  OBVIOUS
<1>. DEFINE msg == Head(toTablet)
            t == tablet.transfer
            n == Count(tablet.size)
<1>1. /\ toTablet # <<>> /\ toTablet' = Tail(toTablet)
      /\ UNCHANGED <<rx, fifo, file, status, config, toDcu, opened, failedIn>>
  BY DEF TabletHears
<1>2. /\ tablet \in Tablets /\ tablet.size \in Nat /\ t \in Nat /\ n \in Nat /\ Packets = n
      /\ tablet.acked \in Nat /\ tablet.next \in Nat \ {0}
  BY PacketsAre
<1>3. /\ toTablet \in Seq(ToTablet(t)) /\ msg \in ToTablet(t)
      /\ Len(toTablet) \in Nat \ {0} /\ toTablet[1] = msg
      /\ Len(Tail(toTablet)) = Len(toTablet) - 1
      /\ \A S : toTablet \in Seq(S) => msg \in S /\ Tail(toTablet) \in Seq(S)
  BY <1>1, HeadTailProperties, EmptySeq DEF UpInv, Typed
<1>4. CASE msg.kind = "initAck" /\ tablet.phase = "init"
             /\ msg.service = tablet.service /\ msg.packets = Packets
  <2>. DEFINE c == msg.transfer # t
  <2>1. tablet' = [tablet EXCEPT !.phase = "data", !.crossed = c]
    BY <1>4 DEF TabletHears
  <2>2. c \in BOOLEAN
    OBVIOUS
  <2>. HIDE DEF c
  <2>3. /\ tablet' \in Tablets /\ tablet'.transfer = t /\ tablet'.service = tablet.service
        /\ tablet'.size = tablet.size /\ tablet'.phase = "data" /\ tablet'.crossed = c
        /\ tablet'.acked = tablet.acked /\ tablet'.next = tablet.next
    BY <1>2, <2>1, <2>2 DEF Tablets
  <2>4. msg \in InitAcks(t)
    BY <1>3, <1>4 DEF ToTablet, Acks, Ids
  <2>5. tablet.service \in Files
    BY <1>4, <2>4 DEF InitAcks
  <2>6. ASSUME ~tablet'.crossed
        PROVE  Following(toDcu, toTablet', tablet', opened, rx.enabled)
    <3>1. msg.transfer = t
      BY <2>3, <2>6 DEF c
    <3>2. 1 \in 1 .. Len(toTablet) /\ toTablet[1].kind = "initAck" /\ toTablet[1].transfer = t
      BY <1>3, <1>4, <3>1
    <3>3. Opening(toDcu, toTablet, t, opened, rx.enabled)
      BY <1>4 DEF UpInv
    <3>4. 1 = Len(toTablet) /\ toDcu = <<>> /\ opened = t
      BY <3>2, <3>3, Zenon DEF Opening
    <3>5. toTablet' = <<>>
      BY <1>1, <1>3, <3>4, EmptySeq
    <3>6. tablet.acked = 0 /\ tablet.next = 1
      BY <1>4 DEF UpInv, Begun
    <3>. QED
      BY <1>2, <2>3, <3>4, <3>5, <3>6, EmptySeq DEF Following
  <2>. QED
    BY <1>1, <1>4, <2>3, <2>5, <2>6, TabletTurns
<1>5. CASE msg.kind = "ack" /\ tablet.phase = "data"
  <2>. DEFINE k == msg.number
              next == IF tablet.next <= k THEN k + 1 ELSE tablet.next
              phase == IF k = Packets THEN "done" ELSE tablet.phase
  <2>1. tablet' = [tablet EXCEPT !.acked = k, !.next = next, !.phase = phase]
    BY <1>5 DEF TabletHears
  <2>2. msg \in Acks
    BY <1>3, <1>5 DEF ToTablet, InitAcks, Ids
  <2>3. k \in Nat \ {0}
    BY <2>2 DEF Acks
  <2>4. next \in Nat \ {0} /\ phase \in {"data", "done"} /\ (phase = "done" => k = n)
        /\ (k <= n /\ tablet.next <= n + 1 => next <= n + 1)
    BY <1>2, <1>5, <2>3
  <2>. HIDE DEF next, phase
  <2>5. /\ tablet' \in Tablets /\ tablet'.transfer = t /\ tablet'.service = tablet.service
        /\ tablet'.size = tablet.size /\ tablet'.phase = phase
        /\ tablet'.crossed = tablet.crossed /\ tablet'.acked = k /\ tablet'.next = next
    BY <1>2, <2>1, <2>3, <2>4 DEF Tablets
  <2>6. tablet.service \in Files
    BY <1>5 DEF UpInv, Begun
  <2>7. ASSUME ~tablet'.crossed
        PROVE  Following(toDcu, toTablet', tablet', opened, rx.enabled)
    <3>1. Following(toDcu, toTablet, tablet, opened, rx.enabled)
      BY <1>5, <2>5, <2>7 DEF UpInv
    <3>2. /\ msg \in Believable(t, n, rx.enabled)
          /\ toTablet' \in Seq(Believable(t, n, rx.enabled))
          /\ tablet.next <= n + 1
      BY <1>1, <1>3, <3>1 DEF Following
    <3>3. k <= n /\ (k = n => ~rx.enabled)
      BY <1>5, <3>2 DEF Believable
    <3>4. next <= n + 1 /\ (phase = "done" => ~rx.enabled)
      BY <2>4, <3>2, <3>3
    <3>. QED
      BY <2>5, <3>1, <3>2, <3>3, <3>4 DEF Following
  <2>. QED
    BY <1>1, <1>5, <2>4, <2>5, <2>6, <2>7, TabletTurns
<1>6. CASE msg.kind = "nack" /\ tablet.phase = "data"
  <2>. DEFINE k == msg.number
  <2>1. tablet' = [tablet EXCEPT !.next = k]
    BY <1>6 DEF TabletHears
  <2>2. msg \in Acks
    BY <1>3, <1>6 DEF ToTablet, InitAcks, Ids
  <2>3. k \in Nat \ {0}
    BY <2>2 DEF Acks
  <2>4. /\ tablet' \in Tablets /\ tablet'.transfer = t /\ tablet'.service = tablet.service
        /\ tablet'.size = tablet.size /\ tablet'.phase = "data"
        /\ tablet'.crossed = tablet.crossed /\ tablet'.acked = tablet.acked /\ tablet'.next = k
    BY <1>2, <1>6, <2>1, <2>3 DEF Tablets
  <2>5. tablet.service \in Files
    BY <1>6 DEF UpInv, Begun
  <2>6. ASSUME ~tablet'.crossed
        PROVE  Following(toDcu, toTablet', tablet', opened, rx.enabled)
    <3>1. Following(toDcu, toTablet, tablet, opened, rx.enabled)
      BY <1>6, <2>4, <2>6 DEF UpInv
    <3>2. /\ msg \in Believable(t, n, rx.enabled)
          /\ toTablet' \in Seq(Believable(t, n, rx.enabled))
      BY <1>1, <1>3, <3>1 DEF Following
    <3>3. k <= n
      BY <1>6, <3>2 DEF Believable
    <3>4. k <= n + 1
      BY <1>2, <2>3, <3>3
    <3>. QED
      BY <2>4, <3>1, <3>2, <3>4 DEF Following
  <2>. QED
    BY <1>1, <1>6, <2>4, <2>5, <2>6, TabletTurns
<1>7. CASE tablet' = tablet
  BY <1>1, <1>7, Taken
<1>. QED
  BY <1>4, <1>5, <1>6, <1>7 DEF TabletHears

-----------------------------------------------------------------------------
(* The steps of the receiver. *)

\* Frames for the tablet but for the answer to its INIT.
Others(t) == {m \in ToTablet(t) : ~(m.kind = "initAck" /\ m.transfer = t)}

\* While something is on the way to the DCU there is no such answer, nor is
\* there one when none is sent.
LEMMA OpeningQuiet ==
  ASSUME NEW S, NEW q \in Seq(S), q # <<>>, NEW t, NEW d \in Seq(ToTablet(t)),
         NEW op, NEW on, Opening(q, d, t, op, on)
  PROVE  /\ d \in Seq(Others(t))
         /\ \A e \in Seq(Others(t)) : \A op2, on2 : Opening(Tail(q), e, t, op2, on2)
<1>1. d \in Seq(Others(t))
  <2>1. Len(d) \in Nat /\ d \in [1 .. Len(d) -> ToTablet(t)]
    BY LenProperties
  <2>2. \A i \in 1 .. Len(d) : d[i] \in Others(t)
    BY <2>1 DEF Opening, Others
  <2>3. d \in [1 .. Len(d) -> Others(t)]
    BY <2>1, <2>2
  <2>. QED
    BY <2>1, <2>3, FunctionIsSeq
<1>2. Opening(Tail(q), d, t, op, on)
  BY OpeningTaken
<1>3. ASSUME NEW e \in Seq(Others(t)), NEW op2, NEW on2
      PROVE  Opening(Tail(q), e, t, op2, on2)
  <2>1. \A i \in 1 .. Len(e) : e[i] \in Others(t)
    BY ElementOfSeq
  <2>2. \A i \in 1 .. Len(e) : ~(e[i].kind = "initAck" /\ e[i].transfer = t)
    BY <2>1 DEF Others
  <2>. QED
    BY <1>2, <2>2 DEF Opening
<1>. QED
  BY <1>1, <1>3

\* The frame that has come.
LEMMA HeadIs ==
  ASSUME UpInv, toDcu # <<>>
  PROVE  /\ Head(toDcu) \in ToDcu(tablet.transfer)
         /\ toDcu \in Seq(ToDcu(tablet.transfer))
         /\ toTablet \in Seq(ToTablet(tablet.transfer))
         /\ Len(toDcu) \in Nat \ {0} /\ toDcu[1] = Head(toDcu)
         /\ Len(Tail(toDcu)) = Len(toDcu) - 1
         /\ \A S : toDcu \in Seq(S) => Head(toDcu) \in S /\ Tail(toDcu) \in Seq(S)
         /\ Ordered(Tail(toDcu), tablet)
         /\ Head(toDcu).kind = "data" => Head(toDcu) \in Data
         /\ Head(toDcu).kind = "init" => Head(toDcu) \in Inits(tablet.transfer)
<1>1. toDcu \in Seq(ToDcu(tablet.transfer)) /\ toTablet \in Seq(ToTablet(tablet.transfer))
      /\ Ordered(toDcu, tablet)
  BY DEF UpInv, Typed
<1>2. /\ Len(toDcu) \in Nat \ {0} /\ toDcu[1] = Head(toDcu)
      /\ Len(Tail(toDcu)) = Len(toDcu) - 1
      /\ \A S : toDcu \in Seq(S) => Head(toDcu) \in S /\ Tail(toDcu) \in Seq(S)
  BY <1>1, HeadTailProperties, EmptySeq
<1>3. Ordered(Tail(toDcu), tablet)
  BY <1>1, OrderedTaken
<1>4. Head(toDcu) \in ToDcu(tablet.transfer)
  BY <1>1, <1>2
<1>5. /\ Head(toDcu).kind = "data" => Head(toDcu) \in Data
      /\ Head(toDcu).kind = "init" => Head(toDcu) \in Inits(tablet.transfer)
  BY <1>4 DEF ToDcu, Inits, Data
<1>. QED
  BY <1>1, <1>2, <1>3, <1>4, <1>5

\* The answer to the INIT of the last transfer.
LEMMA OpeningAnswered ==
  ASSUME NEW S, NEW q \in Seq(S), q # <<>>, NEW t, NEW d \in Seq(ToTablet(t)),
         NEW op, NEW on, Opening(q, d, t, op, on), NEW m \in InitAcks(t),
         m.transfer = t => Head(q).kind = "init" /\ Head(q).transfer = t
  PROVE  Opening(Tail(q), Append(d, m), t, m.transfer, TRUE)
<1>1. d \in Seq(Others(t)) /\ Opening(Tail(q), d, t, m.transfer, TRUE)
  BY OpeningQuiet
<1>2. m \in ToTablet(t)
  BY DEF ToTablet
<1>3. /\ Append(d, m) \in Seq(ToTablet(t)) /\ Len(Append(d, m)) = Len(d) + 1
      /\ Append(d, m)[Len(d) + 1] = m /\ Len(d) \in Nat
      /\ \A i \in 1 .. Len(d) : Append(d, m)[i] = d[i] /\ d[i] \in Others(t)
  BY <1>1, <1>2, AppendProperties, LenProperties, ElementOfSeq
<1>4. ASSUME NEW i \in 1 .. Len(Append(d, m)),
             Append(d, m)[i].kind = "initAck", Append(d, m)[i].transfer = t
      PROVE  i = Len(Append(d, m)) /\ m.transfer = t
  <2>1. i \in 1 .. Len(d) \/ i = Len(d) + 1
    BY <1>3
  <2>2. ~(i \in 1 .. Len(d))
    BY <1>3, <1>4 DEF Others
  <2>. QED
    BY <1>3, <1>4, <2>1, <2>2
<1>5. ASSUME m.transfer = t PROVE Tail(q) = <<>>
  <2>1. /\ Len(q) \in Nat \ {0} /\ Len(Tail(q)) = Len(q) - 1 /\ q[1] = Head(q)
        /\ Tail(q) \in Seq(S)
    BY HeadTailProperties, EmptySeq
  <2>2. 1 \in 1 .. Len(q) /\ q[1].kind = "init" /\ q[1].transfer = t
    BY <1>5, <2>1
  <2>3. 1 = Len(q)
    BY <2>2, Zenon DEF Opening
  <2>4. Len(Tail(q)) = 0
    <3>. DEFINE a == Len(q)
                b == Len(Tail(q))
    <3>1. b = a - 1 /\ 1 = a
      BY <2>1, <2>3
    <3>. HIDE DEF a, b
    <3>2. b = 0
      BY <3>1
    <3>. QED
      BY <3>2 DEF b
  <2>. QED
    BY <2>1, <2>4, EmptySeq
<1>. QED
  BY <1>1, <1>4, <1>5 DEF Opening

LEMMA LoseStep == UpInv /\ Lose => UpInv'
<1>. SUFFICES ASSUME UpInv, Lose PROVE UpInv'
  OBVIOUS
<1>1. /\ UNCHANGED <<rx, fifo, file, status, config, tablet, opened, failedIn>>
      /\ \/ toTablet # <<>> /\ toTablet' = Tail(toTablet) /\ toDcu' = toDcu
         \/ toDcu # <<>> /\ toDcu' = Tail(toDcu) /\ toTablet' = toTablet
  BY DEF Lose
<1>. QED
  BY <1>1, Taken

LEMMA DroppedStep == UpInv /\ OnDataDropped => UpInv'
<1>. SUFFICES ASSUME UpInv, OnDataDropped PROVE UpInv'
  OBVIOUS
<1>1. /\ UNCHANGED <<rx, fifo, file, status, config, tablet, opened, failedIn>>
      /\ toDcu # <<>> /\ toDcu' = Tail(toDcu) /\ toTablet' = toTablet
  BY DEF OnDataDropped, Receive
<1>. QED
  BY <1>1, Taken

\* What the DCU waits for while it follows the tablet.
LEMMA Waiting ==
  ASSUME UpInv, rx.enabled, tablet.phase \in {"data", "done"}, ~tablet.crossed
  PROVE  /\ Following(toDcu, toTablet, tablet, opened, TRUE) /\ tablet.phase = "data"
         /\ rx.file = tablet.service /\ rx.file \in Files
         /\ rx.expected = Count(tablet.size) /\ rx.received < rx.expected
         /\ opened = tablet.transfer
<1>1. Following(toDcu, toTablet, tablet, opened, rx.enabled) /\ rx.enabled \in BOOLEAN
  BY DEF UpInv, Typed, Receivers
<1>2. rx.enabled = TRUE
  BY <1>1
<1>3. opened = tablet.transfer /\ opened > 0 /\ tablet.service \in Files
  BY <1>1 DEF UpInv, Following, Begun
<1>4. Current(toDcu, rx, tablet)
  BY <1>3 DEF UpInv
<1>5. rx.file = tablet.service /\ rx.expected = Count(tablet.size)
  BY <1>3, <1>4 DEF Current
<1>6. rx.received < rx.expected
  BY <1>3, <1>5 DEF UpInv, Awaiting, Files
<1>. QED
  BY <1>1, <1>2, <1>3, <1>5, <1>6 DEF Following

LEMMA AheadStep == UpInv /\ OnDataAhead => UpInv'
<1>. SUFFICES ASSUME UpInv, OnDataAhead PROVE UpInv'
  OBVIOUS
<1>. DEFINE t == tablet.transfer
            n == Count(tablet.size)
            k == rx.received + 1
            m == [kind |-> "nack", number |-> k]
<1>1. /\ toDcu # <<>> /\ toDcu' = Tail(toDcu) /\ rx.enabled
      /\ toTablet' = Append(toTablet, m)
      /\ UNCHANGED <<rx, fifo, file, status, config, tablet, opened, failedIn>>
  BY DEF OnDataAhead, Receive
<1>2. k \in Nat \ {0} /\ rx.received \in Nat /\ rx.expected \in Nat
  BY DEF UpInv, Typed, Receivers
<1>3. m \in Acks /\ m.kind = "nack" /\ m.number = k
  BY <1>2 DEF Acks
<1>. HIDE DEF m
<1>4. m \in ToTablet(t) /\ m \in Others(t)
  BY <1>3 DEF Others, ToTablet
<1>5. Typed'
  BY <1>1, <1>4, HeadIs, AppendProperties DEF UpInv, Typed
<1>6. ASSUME tablet.phase = "init" PROVE Opening(toDcu', toTablet', t, opened, rx.enabled)
  <2>1. Opening(toDcu, toTablet, t, opened, rx.enabled)
    BY <1>6 DEF UpInv
  <2>2. toTablet \in Seq(Others(t))
        /\ \A e \in Seq(Others(t)) : Opening(Tail(toDcu), e, t, opened, rx.enabled)
    BY <1>1, <2>1, HeadIs, OpeningQuiet
  <2>3. Append(toTablet, m) \in Seq(Others(t))
    BY <1>4, <2>2, AppendProperties
  <2>. QED
    BY <1>1, <2>2, <2>3
<1>7. ASSUME tablet.phase \in {"data", "done"}, ~tablet.crossed
      PROVE  Following(toDcu', toTablet', tablet, opened, rx.enabled)
  <2>1. /\ Following(toDcu, toTablet, tablet, opened, rx.enabled)
        /\ rx.received < rx.expected /\ rx.expected = n
    BY <1>1, <1>7, Waiting DEF UpInv
  <2>2. k <= n
    BY <1>2, <2>1
  <2>3. m \in Believable(t, n, rx.enabled)
    BY <1>3, <1>4, <2>2 DEF Believable
  <2>4. toTablet' \in Seq(Believable(t, n, rx.enabled))
    BY <1>1, <2>1, <2>3, AppendProperties DEF Following
  <2>5. toDcu' \in Seq(DataOf(t, tablet.size))
    BY <1>1, <2>1, HeadIs DEF Following
  <2>. QED
    BY <2>1, <2>4, <2>5 DEF Following
<1>8. opened = t /\ opened > 0 => Current(toDcu', rx, tablet)
  BY <1>1, HeadIs DEF UpInv, Current
<1>9. Ordered(toDcu', tablet)
  BY <1>1, HeadIs
<1>. QED
  BY <1>1, <1>5, <1>6, <1>7, <1>8, <1>9 DEF UpInv

\* An INIT is not followed: a tablet that follows has only packets on the line.
LEMMA NotFollowing ==
  ASSUME UpInv, toDcu # <<>>, Head(toDcu).kind = "init"
  PROVE  ~(tablet.phase \in {"data", "done"} /\ ~tablet.crossed)
<1>. SUFFICES ASSUME tablet.phase \in {"data", "done"}, ~tablet.crossed PROVE FALSE
  OBVIOUS
<1>1. toDcu \in Seq(DataOf(tablet.transfer, tablet.size))
  BY DEF UpInv, Following
<1>2. Head(toDcu) \in DataOf(tablet.transfer, tablet.size)
  BY <1>1, HeadIs
<1>. QED
  BY <1>2 DEF DataOf, Data

\* What comes behind the INIT of the last transfer.
LEMMA InitHeard ==
  ASSUME UpInv, toDcu # <<>>, Head(toDcu).kind = "init",
         Head(toDcu).transfer = tablet.transfer
  PROVE  /\ Tail(toDcu) \in Seq(Mine(tablet))
         /\ Head(toDcu).service = tablet.service
         /\ Head(toDcu).packets = Count(tablet.size)
<1>. DEFINE r == Tail(toDcu)
<1>1. Head(toDcu) = InitOf(tablet) /\ \A j \in 1 .. Len(r) : r[j] \in Mine(tablet)
  BY OrderedTaken DEF UpInv, Typed
<1>2. r \in Seq(ToDcu(tablet.transfer))
  BY HeadIs
<1>. HIDE DEF r
<1>3. Len(r) \in Nat /\ r \in [1 .. Len(r) -> ToDcu(tablet.transfer)]
  BY <1>2, LenProperties
<1>4. r \in [1 .. Len(r) -> Mine(tablet)]
  BY <1>1, <1>3
<1>5. r \in Seq(Mine(tablet))
  BY <1>3, <1>4, FunctionIsSeq
<1>6. InitOf(tablet).service = tablet.service /\ InitOf(tablet).packets = Count(tablet.size)
  BY DEF InitOf, Count
<1>. QED
  BY <1>1, <1>5, <1>6 DEF r

LEMMA InitStepOfDcu == UpInv /\ OnInit => UpInv'
<1>. SUFFICES ASSUME UpInv, OnInit PROVE UpInv'
  OBVIOUS
<1>. DEFINE t == tablet.transfer
            msg == Head(toDcu)
            f == msg.service
            m == [kind |-> "initAck", service |-> f, packets |-> msg.packets,
                  transfer |-> msg.transfer]
<1>1. /\ toDcu # <<>> /\ msg.kind = "init" /\ toDcu' = Tail(toDcu) /\ f \in Files
      /\ rx' = [enabled |-> TRUE, file |-> f, burst |-> msg.burst,
                expected |-> msg.packets, received |-> 0]
      /\ fifo' = <<>> /\ HandleNewConf(f)
      /\ toTablet' = Append(toTablet, m) /\ opened' = msg.transfer
      /\ UNCHANGED <<tablet, config, failedIn>>
  BY DEF OnInit, Receive
<1>2. /\ msg \in Inits(t) /\ toDcu \in Seq(ToDcu(t)) /\ toTablet \in Seq(ToTablet(t))
      /\ toDcu' \in Seq(ToDcu(t)) /\ Ordered(toDcu', tablet)
  BY <1>1, HeadIs
<1>3. msg.transfer \in 1 .. t /\ msg.burst \in Nat /\ msg.packets \in Nat \ {0}
  BY <1>2 DEF Inits
<1>4. t \in Nat /\ tablet.size \in Nat /\ DrainAt \in Nat \ {0}
  BY PacketsAre, SetupUploadAssumption
<1>5. m \in InitAcks(t) /\ m.kind = "initAck" /\ m.transfer = msg.transfer
  BY <1>1, <1>3 DEF InitAcks
<1>. HIDE DEF msg, m
<1>6. /\ rx' \in Receivers /\ Awaiting(rx') /\ rx'.enabled = TRUE /\ rx'.received = 0
      /\ rx'.file = f /\ rx'.expected = msg.packets
  BY <1>1, <1>3 DEF Receivers, Awaiting
<1>. HIDE DEF f
<1>7. Card(file, status) /\ (failedIn = {} => Emptied(file, status))
  BY DEF UpInv, Typed
<1>8. /\ Card(file', status')
      /\ failedIn = {} => Emptied(file', status') /\ (f \in Confs => file'[f] = <<>>)
  <2>1. CASE f = "list" \/ status[f] = "empty"
    <3>1. file' = file /\ status' = status
      BY <1>1, <2>1 DEF HandleNewConf
    <3>. QED
      BY <1>7, <2>1, <3>1 DEF Emptied, Confs
  <2>2. CASE ~(f = "list" \/ status[f] = "empty")
    <3>1. file' = [file EXCEPT ![f] = <<>>] /\ status' = [status EXCEPT ![f] = "empty"]
      BY <1>1, <2>2 DEF HandleNewConf
    <3>2. <<>> \in Seq(Byte)
      BY EmptySeq
    <3>3. /\ file' \in [Files -> Seq(Byte)] /\ file'[f] = <<>> /\ status'[f] = "empty"
          /\ status' \in [Files -> {"closed", "empty", "exists"}]
          /\ \A g \in Files : g # f => file'[g] = file[g] /\ status'[g] = status[g]
      BY <1>1, <1>7, <3>1, <3>2 DEF Card
    <3>4. status'["list"] = "closed"
      BY <1>7, <2>2, <3>3 DEF Card, Files
    <3>5. failedIn = {} => Emptied(file', status')
      BY <1>7, <3>3 DEF Emptied, Confs, Files
    <3>. QED
      BY <3>3, <3>4, <3>5 DEF Card
  <2>. QED
    BY <2>1, <2>2
<1>9. fifo' \in Seq(Byte) /\ Len(fifo') < DrainAt
  BY <1>1, <1>4, EmptySeq
<1>10. Typed'
  <2>1. m \in ToTablet(t)
    BY <1>5 DEF ToTablet
  <2>2. toTablet' \in Seq(ToTablet(t))
    BY <1>1, <1>2, <2>1, AppendProperties
  <2>3. opened' \in Nat /\ opened' <= t
    BY <1>1, <1>3, <1>4
  <2>. QED
    BY <1>1, <1>2, <1>6, <1>8, <1>9, <2>2, <2>3 DEF UpInv, Typed
<1>11. ASSUME tablet.phase = "init" PROVE Opening(toDcu', toTablet', t, opened', rx'.enabled)
  <2>1. Opening(toDcu, toTablet, t, opened, rx.enabled)
    BY <1>11 DEF UpInv
  <2>2. m.transfer = t => Head(toDcu).kind = "init" /\ Head(toDcu).transfer = t
    BY <1>1, <1>5 DEF msg
  <2>3. Opening(Tail(toDcu), Append(toTablet, m), t, m.transfer, TRUE)
    BY <1>1, <1>2, <1>5, <2>1, <2>2, OpeningAnswered
  <2>. QED
    BY <1>1, <1>5, <1>6, <2>3
<1>12. ~(tablet.phase \in {"data", "done"} /\ ~tablet.crossed)
  BY <1>1, NotFollowing DEF msg
<1>13. ASSUME opened' = t
       PROVE  /\ Current(toDcu', rx', tablet)
              /\ tablet.service \in Confs /\ failedIn = {} =>
                   Kept(rx', fifo', file', config', tablet)
  <2>1. /\ Tail(toDcu) \in Seq(Mine(tablet)) /\ f = tablet.service
        /\ msg.packets = Count(tablet.size)
    BY <1>1, <1>13, InitHeard DEF msg, f
  <2>2. Current(toDcu', rx', tablet)
    BY <1>1, <1>6, <2>1 DEF Current
  <2>3. ASSUME tablet.service \in Confs, failedIn = {}
        PROVE  file'[tablet.service] \o fifo' = WholeFile(t, Held(tablet.size, 0))
    <3>1. file'[tablet.service] = <<>>
      BY <1>8, <2>1, <2>3
    <3>2. 0 * Payload = 0 /\ Held(tablet.size, 0) = 0
      <4>1. 0 * Payload = 0
        BY SetupUploadAssumption
      <4>. QED
        BY <1>4, <4>1 DEF Held
    <3>3. WholeFile(t, 0) \in Seq(Byte) /\ Len(WholeFile(t, 0)) = 0
      BY <1>4, WholeFileIs
    <3>4. WholeFile(t, 0) = <<>>
      BY <3>3, EmptySeq
    <3>5. <<>> \o <<>> = <<>>
      BY EmptySeq, ConcatEmptySeq
    <3>. QED
      BY <1>1, <3>1, <3>2, <3>4, <3>5
  <2>. QED
    BY <1>6, <2>2, <2>3 DEF Kept
<1>14. failedIn' = {} => Emptied(file', status')
  BY <1>1, <1>8
<1>15. opened' > 0 /\ Begun(tablet)
  BY <1>1, <1>3, <1>4 DEF UpInv
<1>. QED
  BY <1>1, <1>2, <1>6, <1>10, <1>11, <1>12, <1>13, <1>14, <1>15 DEF UpInv

LEMMA UnknownInitStep == UpInv /\ OnUnknownInit => UpInv'
<1>. SUFFICES ASSUME UpInv, OnUnknownInit PROVE UpInv'
  OBVIOUS
<1>. DEFINE t == tablet.transfer
            msg == Head(toDcu)
<1>1. /\ toDcu # <<>> /\ msg.kind = "init" /\ toDcu' = Tail(toDcu)
      /\ msg.service \notin Files
      /\ rx' = [enabled |-> TRUE, file |-> rx.file, burst |-> msg.burst,
                expected |-> msg.packets, received |-> 0]
      /\ opened' = msg.transfer
      /\ UNCHANGED <<tablet, fifo, file, status, config, toTablet, failedIn>>
  BY DEF OnUnknownInit, Receive
<1>2. /\ msg \in Inits(t) /\ toDcu \in Seq(ToDcu(t)) /\ toTablet \in Seq(ToTablet(t))
      /\ toDcu' \in Seq(ToDcu(t)) /\ Ordered(toDcu', tablet)
  BY <1>1, HeadIs
<1>3. msg.transfer \in 1 .. t /\ msg.burst \in Nat /\ msg.packets \in Nat \ {0} /\ t \in Nat
      /\ rx.file \in Files \cup {"none"}
  BY <1>2, PacketsAre DEF Inits, UpInv, Typed, Receivers
<1>4. rx' \in Receivers /\ Awaiting(rx')
  BY <1>1, <1>3 DEF Receivers, Awaiting
<1>5. Typed'
  <2>1. opened' \in Nat /\ opened' <= t
    BY <1>1, <1>3
  <2>. QED
    BY <1>1, <1>2, <1>4, <2>1 DEF UpInv, Typed
<1>6. ASSUME tablet.phase = "init" PROVE Opening(toDcu', toTablet', t, opened', rx'.enabled)
  <2>1. Opening(toDcu, toTablet, t, opened, rx.enabled)
    BY <1>6 DEF UpInv
  <2>. QED
    BY <1>1, <1>2, <2>1, OpeningQuiet
<1>7. ~(tablet.phase \in {"data", "done"} /\ ~tablet.crossed)
  BY <1>1, NotFollowing
<1>8. ASSUME opened' = t PROVE Current(toDcu', rx', tablet) /\ tablet.service \notin Files
  <2>1. Tail(toDcu) \in Seq(Mine(tablet)) /\ msg.service = tablet.service
    BY <1>1, <1>8, InitHeard
  <2>. QED
    BY <1>1, <2>1 DEF Current
<1>9. Confs \subseteq Files
  BY DEF Confs, Files
<1>10. failedIn = {} => Emptied(file, status)
  BY DEF UpInv
<1>11. Begun(tablet) /\ opened' > 0
  BY <1>1, <1>3 DEF UpInv
<1>. HIDE DEF msg
<1>. QED
  BY <1>1, <1>2, <1>4, <1>5, <1>6, <1>7, <1>8, <1>9, <1>10, <1>11 DEF UpInv

\* What is answered to the packet awaited, and decoded of the last one.
LEMMA AnsweredIs ==
  ASSUME UpInv, OnNextData, Card(file', status'),
         NEW m, m = [kind |-> "ack", number |-> rx.received + 1]
  PROVE  /\ \A S : toTablet \in Seq(S) /\ m \in S /\ Ids \subseteq S => toTablet' \in Seq(S)
         /\ config' \in Configs
         /\ (IsLast /\ rx.file = "raw" /\ file'["raw"] # <<>> /\ Len(file'["raw"]) < RawRoom)
              => config'.of = file'["raw"]
<1>. DEFINE A == Acknowledged
            content == file'["raw"]
<1>1. content \in Seq(Byte) /\ config \in Configs
  BY DEF UpInv, Typed, Card, Files
<1>2. A = toTablet \/ A = Append(toTablet, m)
  BY DEF Acknowledged
<1>3. \A S : toTablet \in Seq(S) /\ m \in S => A \in Seq(S)
  BY <1>2, AppendProperties
<1>. HIDE DEF A
<1>4. CASE IsLast /\ rx.file = "raw"
  <2>1. Retrieve(content)
    BY <1>4 DEF OnNextData
  <2>. HIDE DEF content
  <2>2. PICK ok \in BOOLEAN :
          LET fits == content # <<>> /\ Len(content) < RawRoom
              new == IF fits THEN [of |-> content, correct |-> ok] ELSE config
          IN /\ config' = new
             /\ toTablet' = IF content = <<>> \/ (fits /\ ok)
                            THEN Append(A, [kind |-> "setupId", of |-> new]) ELSE A
    BY <2>1 DEF Retrieve, A
  <2>3. config' \in Configs
        /\ (content # <<>> /\ Len(content) < RawRoom => config'.of = content)
    BY <1>1, <2>2 DEF Configs
  <2>. DEFINE w == [kind |-> "setupId", of |-> config']
  <2>4. toTablet' = A \/ toTablet' = Append(A, w)
    BY <2>2
  <2>5. w \in Ids
    BY <2>3 DEF Ids
  <2>. HIDE DEF w
  <2>6. \A S : toTablet \in Seq(S) /\ m \in S /\ Ids \subseteq S => toTablet' \in Seq(S)
    BY <1>3, <2>4, <2>5, AppendProperties
  <2>. QED
    BY <2>3, <2>6 DEF content
<1>5. CASE ~(IsLast /\ rx.file = "raw")
  <2>1. toTablet' = A /\ config' = config
    BY <1>5 DEF OnNextData, A
  <2>. QED
    BY <1>1, <1>3, <1>5, <2>1
<1>. QED
  BY <1>4, <1>5

\* The packet awaited: it extends what is kept by exactly its bytes.
LEMMA NextStep == UpInv /\ OnNextData => UpInv'
<1>. SUFFICES ASSUME UpInv, OnNextData PROVE UpInv'
  OBVIOUS
<1>. DEFINE t == tablet.transfer
            n == Count(tablet.size)
            msg == Head(toDcu)
            k == rx.received + 1
            content == Put(msg.bytes)
            m == [kind |-> "ack", number |-> rx.received + 1]
<1>1. /\ toDcu # <<>> /\ msg.kind = "data" /\ toDcu' = Tail(toDcu) /\ rx.enabled
      /\ msg.number = k
      /\ IF rx.file = "none" THEN UNCHANGED <<fifo, file, status, failedIn>> ELSE Store(content)
      /\ rx' = IF IsLast /\ rx.file # "none" THEN Idle ELSE [rx EXCEPT !.received = k]
      /\ UNCHANGED <<tablet, opened>>
  BY DEF OnNextData, Receive, IsNext
<1>2. /\ msg \in Data /\ toDcu \in Seq(ToDcu(t)) /\ toTablet \in Seq(ToTablet(t))
      /\ toDcu' \in Seq(ToDcu(t)) /\ Ordered(toDcu', tablet)
      /\ \A S : toDcu \in Seq(S) => msg \in S /\ toDcu' \in Seq(S)
  BY <1>1, HeadIs
<1>3. /\ rx \in Receivers /\ rx.received \in Nat /\ rx.expected \in Nat /\ k \in Nat \ {0}
      /\ rx.file \in Files \cup {"none"}
      /\ rx.received < rx.expected \/ rx.file = "none"
      /\ IsLast <=> k = rx.expected
  BY <1>1 DEF UpInv, Typed, Receivers, Awaiting, IsLast
<1>4. content = fifo \o msg.bytes /\ content \in Seq(Byte) /\ msg.bytes \in Short
  <2>1. msg.bytes \in Short
    BY <1>2 DEF Data
  <2>. HIDE DEF msg
  <2>. QED
    BY <2>1, PutIs DEF UpInv, Typed
<1>5. m \in Acks /\ m.kind = "ack" /\ m.number = k
  BY <1>3 DEF Acks
<1>. HIDE DEF msg, content
<1>6. rx.file # "none" =>
        /\ Card(file', status') /\ fifo' \in Seq(Byte) /\ Len(fifo') < DrainAt
        /\ failedIn \subseteq failedIn'
        /\ failedIn' = {} =>
             /\ rx.file # "list" => file'[rx.file] \o fifo' = file[rx.file] \o content
             /\ rx.file # "list" /\ IsLast => file'[rx.file] = file[rx.file] \o content
             /\ Emptied(file, status) => Emptied(file', status')
  <2>. SUFFICES ASSUME rx.file # "none"
                PROVE  /\ Card(file', status') /\ fifo' \in Seq(Byte) /\ Len(fifo') < DrainAt
                       /\ failedIn \subseteq failedIn'
                       /\ failedIn' = {} =>
                            /\ rx.file # "list" =>
                                 file'[rx.file] \o fifo' = file[rx.file] \o content
                            /\ rx.file # "list" /\ IsLast =>
                                 file'[rx.file] = file[rx.file] \o content
                            /\ Emptied(file, status) => Emptied(file', status')
    OBVIOUS
  <2>1. Card(file, status) /\ rx.file \in Files /\ Store(content)
    BY <1>1, <1>3 DEF UpInv, Typed
  <2>. QED
    BY <1>4, <2>1, StoreIs
<1>7. /\ Card(file', status') /\ fifo' \in Seq(Byte) /\ Len(fifo') < DrainAt
      /\ failedIn \subseteq failedIn'
      /\ failedIn' = {} => Emptied(file', status')
  <2>1. CASE rx.file = "none"
    BY <1>1, <2>1 DEF UpInv, Typed, Card, Emptied
  <2>2. CASE rx.file # "none"
    <3>1. failedIn' = {} => Emptied(file, status)
      BY <1>6, <2>2 DEF UpInv
    <3>. QED
      BY <1>6, <2>2, <3>1
  <2>. QED
    BY <2>1, <2>2
<1>8. /\ \A S : toTablet \in Seq(S) /\ m \in S /\ Ids \subseteq S => toTablet' \in Seq(S)
      /\ config' \in Configs
      /\ (IsLast /\ rx.file = "raw" /\ file'["raw"] # <<>> /\ Len(file'["raw"]) < RawRoom)
           => config'.of = file'["raw"]
  BY <1>7, AnsweredIs
<1>. HIDE DEF m
<1>9. /\ rx' \in Receivers /\ Awaiting(rx')
      /\ rx'.enabled <=> ~(IsLast /\ rx.file # "none")
      /\ rx'.enabled => rx'.file = rx.file /\ rx'.expected = rx.expected /\ rx'.received = k
  <2>1. CASE IsLast /\ rx.file # "none"
    <3>1. rx' = Idle
      BY <1>1, <2>1
    <3>. QED
      BY <2>1, <3>1 DEF Idle, Receivers, Awaiting
  <2>2. CASE ~(IsLast /\ rx.file # "none")
    <3>1. rx' = [rx EXCEPT !.received = k]
      BY <1>1, <2>2
    <3>2. /\ rx' \in Receivers /\ rx'.enabled = rx.enabled /\ rx'.file = rx.file
          /\ rx'.expected = rx.expected /\ rx'.received = k
      BY <1>3, <3>1 DEF Receivers
    <3>3. k < rx.expected \/ rx.file = "none"
      BY <1>3, <2>2
    <3>. QED
      BY <1>1, <2>2, <3>2, <3>3 DEF Awaiting
  <2>. QED
    BY <2>1, <2>2
<1>10. Typed'
  <2>1. m \in ToTablet(t) /\ Ids \subseteq ToTablet(t)
    BY <1>5 DEF ToTablet
  <2>2. toTablet' \in Seq(ToTablet(t))
    BY <1>2, <1>8, <2>1
  <2>. QED
    BY <1>1, <1>2, <1>7, <1>8, <1>9, <2>2 DEF UpInv, Typed
<1>11. ASSUME tablet.phase = "init" PROVE Opening(toDcu', toTablet', t, opened', rx'.enabled)
  <2>1. Opening(toDcu, toTablet, t, opened, rx.enabled)
    BY <1>11 DEF UpInv
  <2>2. toTablet \in Seq(Others(t))
        /\ \A e \in Seq(Others(t)) : \A op2, on2 : Opening(Tail(toDcu), e, t, op2, on2)
    BY <1>1, <1>2, <2>1, OpeningQuiet
  <2>3. m \in Others(t) /\ Ids \subseteq Others(t)
    BY <1>5 DEF Others, ToTablet, Ids
  <2>4. toTablet' \in Seq(Others(t))
    BY <1>8, <2>2, <2>3
  <2>. QED
    BY <1>1, <2>2, <2>4
<1>12. ASSUME tablet.phase \in {"data", "done"}, ~tablet.crossed
       PROVE  Following(toDcu', toTablet', tablet, opened, rx'.enabled)
  <2>1. /\ Following(toDcu, toTablet, tablet, opened, TRUE) /\ tablet.phase = "data"
        /\ rx.file \in Files /\ rx.expected = n /\ rx.received < rx.expected
    BY <1>1, <1>12, Waiting
  <2>2. k <= n /\ (k = n => ~rx'.enabled)
    BY <1>3, <1>9, <2>1 DEF Files
  <2>3. m \in Believable(t, n, rx'.enabled) /\ Ids \subseteq Believable(t, n, rx'.enabled)
    <3>1. m \in Believable(t, n, rx'.enabled)
      BY <1>5, <2>2 DEF Believable, ToTablet
    <3>2. Ids \subseteq Believable(t, n, rx'.enabled)
      BY DEF Believable, ToTablet, Ids
    <3>. QED
      BY <3>1, <3>2
  <2>4. Believable(t, n, TRUE) \subseteq Believable(t, n, rx'.enabled)
    BY DEF Believable
  <2>5. toTablet \in Seq(Believable(t, n, rx'.enabled))
    BY <2>1, <2>4, SeqMonotonic DEF Following
  <2>6. toTablet' \in Seq(Believable(t, n, rx'.enabled))
    BY <1>8, <2>3, <2>5
  <2>7. toDcu' \in Seq(DataOf(t, tablet.size))
    BY <1>2, <2>1 DEF Following
  <2>. QED
    BY <2>1, <2>6, <2>7 DEF Following
<1>13. ASSUME opened = t, opened > 0
       PROVE  /\ Current(toDcu', rx', tablet)
              /\ tablet.service \in Confs /\ failedIn' = {} =>
                   Kept(rx', fifo', file', config', tablet)
  <2>1. /\ Current(toDcu, rx, tablet)
        /\ tablet.service \in Confs /\ failedIn = {} => Kept(rx, fifo, file, config, tablet)
    BY <1>13 DEF UpInv
  <2>2. msg \in Mine(tablet) /\ toDcu' \in Seq(Mine(tablet))
    BY <1>2, <2>1 DEF Current
  <2>3. Current(toDcu', rx', tablet)
    BY <1>1, <1>9, <2>1, <2>2 DEF Current
  <2>4. ASSUME tablet.service \in Confs, failedIn' = {}
        PROVE  Kept(rx', fifo', file', config', tablet)
    <3>. DEFINE s == tablet.size
                f == tablet.service
    <3>1. /\ failedIn = {} /\ f \in Files /\ f # "list" /\ f # "none"
      BY <1>7, <2>4 DEF Confs, Files
    <3>2. rx.file = f /\ rx.expected = n
      BY <1>1, <2>1, <3>1 DEF Current
    <3>3. file[f] \o fifo = WholeFile(t, Held(s, rx.received))
      BY <1>1, <2>1, <2>4, <3>1 DEF Kept
    <3>4. msg.bytes = BytesOf(t, s, k)
      <4>1. msg.kind # "init"
        BY <1>1 DEF msg
      <4>2. msg \in DataOf(t, s)
        BY <2>2, <4>1 DEF Mine, InitOf
      <4>. QED
        BY <1>1, <4>2 DEF DataOf
    <3>5. t \in Nat /\ s \in Nat /\ rx.received \in Nat /\ rx.received < n
      BY <1>3, <3>1, <3>2, PacketsAre
    <3>6. file[f] \in Seq(Byte) /\ fifo \in Seq(Byte) /\ msg.bytes \in Seq(Byte)
      BY <1>4, <3>1 DEF UpInv, Typed, Card, Short
    <3>7. file[f] \o content = WholeFile(t, Held(s, k))
      <4>1. WholeFile(t, Held(s, rx.received)) \o BytesOf(t, s, k) = WholeFile(t, Held(s, k))
        BY <3>5, FileGrows
      <4>2. file[f] \o (fifo \o msg.bytes) = (file[f] \o fifo) \o msg.bytes
        BY <3>6, Regroup, Zenon
      <4>. QED
        BY <1>4, <3>3, <3>4, <4>1, <4>2
    <3>8. CASE ~IsLast
      <4>1. file'[f] \o fifo' = WholeFile(t, Held(s, k))
        BY <1>6, <2>4, <3>1, <3>2, <3>7
      <4>. QED
        BY <1>9, <3>8, <4>1 DEF Kept
    <3>9. CASE IsLast
      <4>1. ~rx'.enabled
        BY <1>9, <3>1, <3>2, <3>9
      <4>2. Held(s, k) = s
        <5>1. rx.received + 1 = n
          BY <1>3, <3>2, <3>9
        <5>. QED
          BY <3>5, <5>1, BytesOfIs
      <4>3. file'[f] = WholeFile(t, s)
        BY <1>6, <2>4, <3>1, <3>2, <3>7, <3>9, <4>2
      <4>4. ASSUME f = "raw", s < RawRoom PROVE config'.of = file'["raw"]
        <5>1. s # 0
          <6>1. s = 0 => n = 0
            BY <3>5, SetupUploadAssumption DEF Count
          <6>. QED
            BY <3>5, <6>1
        <5>2. Len(file'["raw"]) = s
          <6>1. Len(WholeFile(t, s)) = s
            BY <3>5, WholeFileIs
          <6>. QED
            BY <4>3, <4>4, <6>1, Zenon
        <5>3. file'["raw"] # <<>>
          BY <5>1, <5>2, EmptySeq
        <5>. QED
          BY <1>8, <3>2, <3>9, <4>4, <5>2, <5>3
      <4>. QED
        BY <4>1, <4>3, <4>4 DEF Kept
    <3>. QED
      BY <3>8, <3>9
  <2>. QED
    BY <2>3, <2>4
<1>14. Begun(tablet)
  BY DEF UpInv
<1>. QED
  BY <1>1, <1>2, <1>7, <1>9, <1>10, <1>11, <1>12, <1>13, <1>14 DEF UpInv

-----------------------------------------------------------------------------
(* The theorems. *)

LEMMA UpInit == Init => UpInv
<1>. SUFFICES ASSUME Init PROVE UpInv
  OBVIOUS
<1>1. DrainAt \in Nat \ {0}
  BY SetupUploadAssumption
<1>2. /\ fifo \in Seq(Byte) /\ Len(fifo) < DrainAt /\ config \in Configs
      /\ toDcu \in Seq(ToDcu(0)) /\ toTablet \in Seq(ToTablet(0))
  BY <1>1, EmptySeq DEF Init, Configs
<1>3. rx \in Receivers /\ ~rx.enabled
  BY DEF Init, Idle, Receivers
<1>4. Card(file, status) /\ Emptied(file, status)
  <2>1. <<>> \in Seq(Byte)
    BY EmptySeq
  <2>2. file \in [Files -> Seq(Byte)]
    BY <2>1 DEF Init
  <2>3. status \in [Files -> {"closed", "empty", "exists"}] /\ \A f \in Files : status[f] = "closed"
    BY DEF Init
  <2>4. "list" \in Files /\ Confs \subseteq Files
    BY DEF Files, Confs
  <2>. QED
    BY <2>2, <2>3, <2>4 DEF Card, Emptied
<1>5. /\ tablet \in Tablets /\ tablet.phase = "idle" /\ tablet.transfer = 0
      /\ opened = 0
  BY DEF Init, Tablets
<1>6. Typed
  BY <1>2, <1>3, <1>4, <1>5 DEF Typed
<1>7. Ordered(toDcu, tablet)
  <2>1. \A i \in 1 .. Len(toDcu) : FALSE
    BY EmptySeq DEF Init
  <2>. QED
    BY <2>1 DEF Ordered
<1>8. Awaiting(rx) /\ Begun(tablet)
  BY <1>3, <1>5 DEF Awaiting, Begun
<1>. QED
  BY <1>3, <1>4, <1>5, <1>6, <1>7, <1>8 DEF UpInv

LEMMA UpNext == UpInv /\ [Next]_vars => UpInv'
<1>. SUFFICES ASSUME UpInv, [Next]_vars PROVE UpInv'
  OBVIOUS
<1>1. CASE UNCHANGED vars
  BY <1>1 DEF vars, UpInv, Typed
<1>2. CASE Receiver
  BY <1>2, InitStepOfDcu, UnknownInitStep, NextStep, AheadStep, DroppedStep DEF Receiver
<1>3. CASE Tablet
  BY <1>3, StartStep, SendStep, RepeatInitStep, RepeatBurstStep, HearsStep DEF Tablet
<1>4. CASE Lose
  BY <1>4, LoseStep
<1>. QED
  BY <1>1, <1>2, <1>3, <1>4 DEF Next

LEMMA UpAlways == Spec => []UpInv
<1>. QED
  BY UpInit, UpNext, PTL DEF Spec

\* The receiver waits for a packet it can still get, the fifo is below its
\* threshold between packets (app_tablet_com.c, fifo_pointer.c), and the tablet
\* stays within its file.
THEOREM TypeCorrect == Spec => []TypeOK
<1>1. ASSUME UpInv PROVE TypeOK
  <2>1. rx.file \in Files \cup {"none"} /\ Len(fifo) < DrainAt /\ Card(file, status)
    BY <1>1 DEF UpInv, Typed, Receivers
  <2>2. rx.enabled => rx.received < rx.expected \/ rx.file = "none"
    BY <1>1 DEF UpInv, Awaiting
  <2>3. tablet.next \in 1 .. Packets + 1 \/ tablet.phase = "idle" \/ tablet.crossed
    <3>1. /\ Packets = Count(tablet.size) /\ Packets \in Nat /\ tablet \in Tablets
          /\ tablet.next \in Nat \ {0}
      BY <1>1, PacketsAre
    <3>2. tablet.phase \in {"idle", "init", "data", "done"}
      BY <3>1 DEF Tablets
    <3>3. CASE tablet.phase = "init"
      BY <1>1, <3>1, <3>3 DEF UpInv, Begun
    <3>4. CASE tablet.phase \in {"data", "done"} /\ ~tablet.crossed
      <4>1. tablet.next <= Packets + 1
        BY <1>1, <3>1, <3>4 DEF UpInv, Following
      <4>. QED
        BY <3>1, <4>1
    <3>. QED
      BY <3>2, <3>3, <3>4
  <2>. QED
    BY <2>1, <2>2, <2>3 DEF TypeOK, Card
<1>. QED
  BY <1>1, UpAlways, PTL

\* While a setup comes in, card and fifo together hold exactly the packets
\* received (OnNextData: fc callbacks, fifo and file), unless a write has failed.
THEOREM InOrder == Spec => []StoredInOrder
<1>1. ASSUME UpInv PROVE StoredInOrder
  <2>. SUFFICES ASSUME rx.enabled, rx.file \in Confs, opened = tablet.transfer,
                       tablet.service = rx.file, failedIn = {}
                PROVE  file[rx.file] \o fifo = WholeFile(opened, Held(tablet.size, rx.received))
    BY DEF StoredInOrder, Confs, Held
  <2>1. opened > 0 /\ tablet.service \in Confs
    BY <1>1 DEF UpInv
  <2>2. Kept(rx, fifo, file, config, tablet)
    BY <1>1, <2>1 DEF UpInv
  <2>. QED
    BY <2>2 DEF Kept
<1>. QED
  BY <1>1, UpAlways, PTL

\* A setup the tablet has been told has come is whole on the card, and a raw one
\* with room is what was decoded last (rawConfFile_RetrieveConf), unless a write has
\* failed or an answer to an earlier INIT was taken for that to the last.
THEOREM DoneIsStored == Spec => []DoneMeansStored
<1>1. ASSUME UpInv PROVE DoneMeansStored
  <2>. SUFFICES ASSUME tablet.phase = "done", ~tablet.crossed, tablet.service # "list",
                       failedIn = {}
                PROVE  /\ file[tablet.service] = WholeFile(tablet.transfer, tablet.size)
                       /\ tablet.service = "raw" /\ tablet.size < RawRoom =>
                            config.of = file["raw"]
    BY DEF DoneMeansStored
  <2>1. /\ Following(toDcu, toTablet, tablet, opened, rx.enabled)
        /\ tablet.transfer > 0 /\ tablet.service \in Files
    BY <1>1 DEF UpInv, Begun
  <2>2. opened = tablet.transfer /\ opened > 0 /\ ~rx.enabled
    BY <2>1 DEF Following
  <2>3. tablet.service \in Confs
    BY <2>1 DEF Files, Confs
  <2>4. Kept(rx, fifo, file, config, tablet)
    BY <1>1, <2>2, <2>3 DEF UpInv
  <2>. QED
    BY <2>2, <2>4 DEF Kept
<1>. QED
  BY <1>1, UpAlways, PTL

=============================================================================
