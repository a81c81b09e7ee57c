--------------------------- MODULE FlowControlTx ---------------------------
(***************************************************************************)
(* Sending the JSON setup to the tablet: fc_tx.c, driven by the tablet     *)
(* thread (cpl_ServiceHandler).  The file is cut into packets, sent in     *)
(* bursts; each burst waits for the acknowledgement of its last packet.    *)
(* There is no timeout: a new request starts the transfer again.           *)
(*                                                                         *)
(* A byte of the file is its position, from 1.  The tablet is external: it *)
(* answers as the DCU's own receiver does (app/app_tablet_com.c:914), and  *)
(* its parser takes the bytes up to the end delimiter for the data.        *)
(***************************************************************************)
EXTENDS Naturals, Sequences, FiniteSets

CONSTANTS Payload,      \* payloadSize (243)
          Burst,        \* burstSize (5)
          DestRoom,     \* bytes that fit dest[512] around the frame
          Sizes,        \* sizes of the JSON file
          BurstBytes,   \* the low bytes the address &fictiveBurstSize can have
          Reads,        \* outcomes of reading the file
          MaxRequests,  \* bound: requests by the tablet
          MaxLosses     \* bound: frames lost

ASSUME FlowControlAssumption ==
  /\ Payload \in Nat \ {0} /\ Burst \in Nat \ {0}
  /\ DestRoom \in Nat /\ DestRoom >= Payload
  /\ Sizes \subseteq Nat
  /\ Reads \subseteq BOOLEAN
  /\ BurstBytes \subseteq 0 .. 255
  /\ MaxRequests \in Nat /\ MaxLosses \in Nat

VARIABLES
  size,      \* what fs_get_JsonConfFile_size returns (see SetupUpload)
  tx,        \* fcTxHandler
  buffer,    \* its buffer
  toTablet, toDcu,  \* UART3, both ways
  tablet,    \* the tablet's receiver
  unread,    \* a read of the file has failed
  begun,     \* history: transfers begun
  crossed,   \* history: the answer to an earlier INIT was taken for the last one's
  requests, losses

vars == <<size, tx, buffer, toTablet, toDcu, tablet, unread, begun, crossed, requests, losses>>

\* Bytes that are none of the file's.
Zero == 0
Checksum == size + 1

Fresh == [i \in 1 .. Burst * Payload |-> Zero]

Init ==
  /\ size \in Sizes
  /\ tx = [state |-> "init", packets |-> 0, burstSent |-> 0, packetSent |-> 0,
           pending |-> 0, start |-> 0, bytes |-> 0]
  /\ buffer = Fresh
  /\ toTablet = <<>>
  /\ toDcu = <<>>
  /\ tablet = [enabled |-> FALSE, expected |-> 0, every |-> 0, received |-> 0, file |-> <<>>]
  /\ unread = FALSE
  /\ begun = 0 /\ crossed = FALSE
  /\ requests = 0
  /\ losses = 0

-----------------------------------------------------------------------------
(* The sender. *)

\* cpl_msg_t keeps the packet number of an acknowledgement in 16 bits.
PacketNumber(number) == number % 65536

\* Mutant of Pending: the last burst is one packet short.
PendingShort(remaining) ==
  IF remaining < Burst THEN Burst % remaining
  ELSE IF remaining = Burst THEN Burst ELSE Burst % remaining

Pending(remaining) ==
  IF remaining < Burst THEN (Burst % remaining) + 1
  ELSE IF remaining = Burst THEN Burst ELSE Burst % remaining

\* fc_tx_calculate_burst_size
WithBurst(t) ==
  LET remaining == t.packets - t.packetSent
      start == t.burstSent * Burst * Payload
      end == IF remaining <= Burst THEN size ELSE (t.burstSent + 1) * Burst * Payload
  IN  [t EXCEPT !.pending = Pending(remaining), !.start = start, !.bytes = end - start]

\* refreshData: the file's bytes, over the first bytes of the buffer, which
\* stays as it was where nothing is read.
Refreshed(t) ==
  [i \in DOMAIN buffer |-> IF i <= t.bytes THEN t.start + i ELSE buffer[i]]

\* Mutant of PacketSize: the last packet of a burst is as long as the others.
PacketSizeFull(t, i) == Payload

\* Only a burst of another length than burstSize has a short last packet.
PacketSize(t, i) ==
  IF t.pending # Burst /\ i = t.pending THEN t.bytes - (i - 1) * Payload ELSE Payload

\* fc_parse_one_packet: the checksum takes the place of the last byte.
Packet(t, content, i) ==
  [kind |-> "data", number |-> t.packetSent + i,
   bytes |-> [j \in 1 .. PacketSize(t, i) |->
                IF j = PacketSize(t, i) THEN Checksum ELSE content[(i - 1) * Payload + j]]]

\* How many packets of the burst a parser finds the end of: the length byte of
\* one longer than Payload wraps.  Only the last can be longer.
Readable(t) == IF PacketSize(t, t.pending) <= Payload THEN t.pending ELSE t.pending - 1

\* fc_send_one_burst of t, with dest overrun if a packet is too long for it.
SendBurst(t, content) ==
  IF \A i \in 1 .. t.pending : PacketSize(t, i) <= DestRoom
  THEN /\ toTablet' = toTablet \o [i \in 1 .. Readable(t) |-> Packet(t, content, i)]
       /\ tx' = [t EXCEPT !.state = "burst"]
  ELSE /\ tx' = [t EXCEPT !.state = "fault"]
       /\ UNCHANGED toTablet

\* That the file could not be read stops nothing.
NextBurst(t) ==
  LET b == WithBurst(t) IN
  \E ok \in Reads :
    LET content == IF ok THEN Refreshed(b) ELSE buffer IN
    /\ buffer' = content
    /\ unread' = (unread \/ ~ok)
    /\ SendBurst(b, content)

Receive(kinds) ==
  /\ tx.state # "fault"
  /\ toDcu # <<>>
  /\ Head(toDcu).kind \in kinds
  /\ toDcu' = Tail(toDcu)
  /\ UNCHANGED <<size, tablet, requests, losses>>

NoFile ==
  /\ Receive({"request"})
  /\ size = 0
  /\ UNCHANGED <<tx, buffer, toTablet, unread, begun, crossed>>

\* SERVICE_REQUEST_GET_JSON_SETUP: the answer that precedes the transfer is
\* left out; memset, then fc_tx_init, which announces a
\* byte of the address of the burst size.
OnRequest ==
  /\ Receive({"request"})
  /\ size > 0
  /\ tx' = [state |-> "wait", packets |-> (size + Payload - 1) \div Payload,
            burstSent |-> 0, packetSent |-> 0, pending |-> 0, start |-> 0, bytes |-> 0]
  /\ buffer' = Fresh
  /\ unread' = FALSE
  /\ begun' = begun + 1 /\ crossed' = FALSE
  /\ \E b \in BurstBytes :
       toTablet' = Append(toTablet, [kind |-> "init", packets |-> tx'.packets, burst |-> b,
                                     transfer |-> begun'])

\* The answer to an INIT does not say which one it is for.
OnInitAck ==
  /\ Receive({"initAck"})
  /\ tx.state = "wait"
  /\ NextBurst(tx)
  /\ crossed' = (Head(toDcu).transfer # begun)
  /\ UNCHANGED begun

\* Mutant of IsAwaited: the number is not compared (the Todo in the code).
IsAwaitedAny(number) == TRUE

IsAwaited(number) == PacketNumber(number) = tx.packetSent + tx.pending

\* An acknowledgement while a burst is out; a negative one raises FC_BURST_ACK
\* as well, with the number of the packet that is missing.  The branch for
\* more packets sent than there are is left out: TypeOK excludes it.
OnBurstAck ==
  LET t == [tx EXCEPT !.burstSent = @ + 1, !.packetSent = @ + tx.pending] IN
  /\ Receive({"ack", "nack"})
  /\ tx.state = "burst"
  /\ IsAwaited(Head(toDcu).number)
  /\ IF t.packetSent = t.packets
     THEN tx' = [t EXCEPT !.state = "over"] /\ UNCHANGED <<buffer, toTablet, unread>>
     ELSE NextBurst(t)
  /\ UNCHANGED <<begun, crossed>>

\* What the state does not expect is read and dropped.
OnUnexpected ==
  /\ Receive({"initAck", "ack", "nack"})
  /\ CASE Head(toDcu).kind = "initAck" -> tx.state # "wait"
       [] OTHER -> tx.state # "burst" \/ ~IsAwaited(Head(toDcu).number)
  /\ UNCHANGED <<tx, buffer, toTablet, unread, begun, crossed>>

Sender == NoFile \/ OnRequest \/ OnInitAck \/ OnBurstAck \/ OnUnexpected

-----------------------------------------------------------------------------
(* The tablet and the line. *)

Answer(msg) == toDcu' = Append(toDcu, msg)

TabletRequests ==
  /\ requests < MaxRequests
  /\ requests' = requests + 1
  /\ Answer([kind |-> "request"])
  /\ UNCHANGED <<size, tx, buffer, toTablet, tablet, unread, begun, crossed, losses>>

TabletReceives(kind) ==
  /\ toTablet # <<>>
  /\ Head(toTablet).kind = kind
  /\ toTablet' = Tail(toTablet)
  /\ UNCHANGED <<size, tx, buffer, unread, begun, crossed, requests, losses>>

TabletOnInit ==
  /\ TabletReceives("init")
  /\ tablet' = [enabled |-> TRUE, expected |-> Head(toTablet).packets,
                every |-> Head(toTablet).burst, received |-> 0, file |-> <<>>]
  /\ Answer([kind |-> "initAck", transfer |-> Head(toTablet).transfer])

\* In order: kept, acknowledged at every burst and at the end.  Ahead: the
\* number awaited is reported missing.  Behind: dropped.
TabletOnData ==
  LET msg == Head(toTablet)
      rec == tablet.received + 1
  IN
  /\ TabletReceives("data")
  /\ IF tablet.enabled /\ msg.number = rec
     THEN /\ tablet' = [tablet EXCEPT !.received = rec, !.file = @ \o msg.bytes,
                                      !.enabled = rec # tablet.expected]
          /\ IF rec = tablet.expected \/ (tablet.every > 0 /\ rec % tablet.every = 0)
             THEN Answer([kind |-> "ack", number |-> rec])
             ELSE UNCHANGED toDcu
     ELSE /\ UNCHANGED tablet
          /\ IF tablet.enabled /\ msg.number > rec
             THEN Answer([kind |-> "nack", number |-> rec])
             ELSE UNCHANGED toDcu

Lose ==
  /\ losses < MaxLosses
  /\ losses' = losses + 1
  /\ \/ toTablet # <<>> /\ toTablet' = Tail(toTablet) /\ UNCHANGED toDcu
     \/ toDcu # <<>> /\ toDcu' = Tail(toDcu) /\ UNCHANGED toTablet
  /\ UNCHANGED <<size, tx, buffer, tablet, unread, begun, crossed, requests>>

Next == Sender \/ TabletRequests \/ TabletOnInit \/ TabletOnData \/ Lose

Spec == Init /\ [][Next]_vars

\* Both sides handle what reaches them; the tablet asks at least once.
FairSpec ==
  /\ Spec
  /\ WF_vars(Sender) /\ WF_vars(TabletOnInit \/ TabletOnData)
  /\ WF_vars(requests = 0 /\ TabletRequests)

-----------------------------------------------------------------------------
TypeOK ==
  /\ tx \in [state : {"init", "wait", "burst", "over", "fault"}, packets : Nat,
             burstSent : Nat, packetSent : Nat, pending : Nat, start : Nat, bytes : Nat]
  /\ tx.packetSent <= tx.packets
  /\ tx.state = "burst" => tx.pending \in 1 .. Burst
  /\ \A i \in 1 .. Burst * Payload : buffer[i] \in 0 .. size
  /\ tablet.received \in 0 .. tablet.expected

\* The sender never believes more than is true: while it waits for a burst to
\* be acknowledged, the tablet holds every packet the sender counts as sent,
\* whatever was lost and although requests start the transfer over - unless
\* the answer to an earlier INIT was taken for that to the last.  With three
\* requests in a row it can be (see README).
NeverAhead ==
  tx.state \in {"burst", "over"} /\ ~crossed => tablet.received >= tx.packetSent

\* When the transfer is over, no read has failed and no answer was taken for
\* another, the tablet holds the whole file, each byte in its place but for
\* those the checksums have replaced.  It holds nothing more, unless the last
\* burst was a full one: its last packet is as long as the others and brings
\* old bytes of the buffer.
WholeFileWhenOver ==
  tx.state = "over" /\ ~unread /\ ~crossed =>
    /\ Len(tablet.file) >= size
    /\ \A i \in 1 .. size : tablet.file[i] \in {i, Checksum}
    /\ tx.packets % Burst # 0 => Len(tablet.file) = size

\* "Size of the payload in one packet" (fc_tx.h, payloadSize): no packet is
\* longer.
PacketsFit == tx.state # "fault"

\* A transfer that was asked for comes to its end, for every length of the file
\* and though the tablet asks again meanwhile, if the burst announced is the
\* burst sent, no frame is lost and no packet is too long.
Completes ==
  (requests > 0 /\ size > 0)
    ~> \/ tx.state = "over" \/ losses > 0
       \/ tablet.enabled /\ tablet.every # Burst
       \/ \E i \in 1 .. tx.pending : PacketSize(tx, i) > Payload

=============================================================================
