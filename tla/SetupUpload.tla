---------------------------- MODULE SetupUpload ----------------------------
(***************************************************************************)
(* Receiving files from the tablet: the INIT and DATA packets of the flow  *)
(* control (cpl_ServiceHandler), the callbacks that put the data into the  *)
(* fifo and from there into a file of the SD card (interface_sd.c), and    *)
(* the decoding of a setup that has come in whole.                         *)
(*                                                                         *)
(* A byte is <<transfer, position>>.  The tablet is external: it repeats   *)
(* an INIT or the unacknowledged burst when an answer is overdue, and      *)
(* goes back to the packet a NACK names.                                   *)
(***************************************************************************)
EXTENDS Naturals, Sequences, FiniteSets

CONSTANTS Services,     \* services the tablet opens a transfer for
          Sizes,        \* sizes of the files it sends
          Payload,      \* bytes of a packet
          Burst,        \* packets the tablet sends between acknowledgements
          DrainAt,      \* the fifo is emptied into the file from here (1024)
          FifoRoom,     \* what the fifo holds (FIFOSIZE - 1)
          RawRoom,      \* RAW_CONFIG_BUFFER_SIZE
          MaxTransfers, \* bound: transfers the tablet opens
          MaxLosses,    \* bound: frames lost
          MaxFailures   \* bound: transfers with a failing write

ASSUME SetupUploadAssumption ==
  /\ Services \subseteq {"raw", "json", "list", "other"}
  /\ Sizes \subseteq Nat \ {0}
  /\ Payload \in Nat \ {0} /\ Burst \in Nat \ {0}
  /\ DrainAt \in Nat \ {0} /\ FifoRoom \in Nat /\ DrainAt + Payload <= FifoRoom + 1
  /\ \A size \in Sizes : (size + Payload - 1) \div Payload < 65536
  /\ RawRoom \in Nat
  /\ MaxTransfers \in Nat /\ MaxLosses \in Nat /\ MaxFailures \in Nat

VARIABLES
  rx,        \* pflowControlRx; "file" stands for the callbacks
  fifo,      \* fifo_pointer.c
  file,      \* what the SD card holds for each service
  status,    \* rawConfigFileStatus, jsonConfigFileStatus (the list has none)
  config,    \* decodedConfig: the bytes last decoded, and whether that succeeded;
             \* if not, there is no setup
  tablet,    \* the tablet's sender; "crossed" is history: it has taken the answer
             \* to an earlier INIT for that to its last
  toTablet, toDcu,
  opened,    \* history: the transfer of the last INIT handled
  failedIn,  \* history: transfers in which a write has failed
  losses, ackLost

vars == <<rx, fifo, file, status, config, tablet, toTablet, toDcu, opened, failedIn,
          losses, ackLost>>

Files == {"raw", "json", "list"}

\* The bytes of packet n of a transfer, and of all its packets.
BytesOf(t, size, n) ==
  LET last == IF n * Payload < size THEN n * Payload ELSE size
  IN  [i \in 1 .. last - (n - 1) * Payload |-> <<t, (n - 1) * Payload + i>>]
WholeFile(t, size) == [i \in 1 .. size |-> <<t, i>>]

Idle == [enabled |-> FALSE, file |-> "none", burst |-> 0, expected |-> 0, received |-> 0]

Init ==
  /\ rx = Idle
  /\ fifo = <<>>
  /\ file = [f \in Files |-> <<>>]
  /\ status = [f \in Files |-> "closed"]
  /\ config = [of |-> <<>>, correct |-> FALSE]
  /\ tablet = [phase |-> "idle", transfer |-> 0, service |-> "raw", size |-> 0,
               acked |-> 0, next |-> 1, crossed |-> FALSE]
  /\ toTablet = <<>> /\ toDcu = <<>>
  /\ opened = 0 /\ failedIn = {}
  /\ losses = 0 /\ ackLost = FALSE

-----------------------------------------------------------------------------
(* The SD card. *)

\* Opening to append notes whether the file has bytes, before the write; for
\* the JSON file it asks the raw file.
StatusOnAppend == IF file["raw"] = <<>> THEN "empty" ELSE "exists"

\* What rawConfFile_Append and jsonConfFile_Append leave.  An error writes
\* nothing; a full card takes less than it is given, and the file stays open.
ConfAppended(f, content) ==
  {[file |-> file[f] \o content, status |-> "closed", failed |-> FALSE],
   [file |-> file[f], status |-> "closed", failed |-> TRUE]}
  \cup {[file |-> file[f] \o SubSeq(content, 1, n), status |-> StatusOnAppend, failed |-> TRUE]
          : n \in 0 .. Len(content) - 1}

\* measurement_list_file_append: a file that is there is created anew.
ListAppended(content) ==
  {[file |-> content, status |-> "closed", failed |-> FALSE]}
  \cup {[file |-> SubSeq(content, 1, n), status |-> "closed", failed |-> TRUE]
          : n \in 0 .. Len(content) - 1}

\* Nobody looks at the result.
Appended(f, content) ==
  IF content = <<>> THEN {[file |-> file[f], status |-> status[f], failed |-> FALSE]}
  ELSE IF f = "list" THEN ListAppended(content) ELSE ConfAppended(f, content)

\* Mutant of HandleNewConf: the old setup stays.
KeepOldConf(f) == UNCHANGED <<file, status>>

\* rawConfFile_HandleNewConf, jsonConfFile_HandleNewConf
HandleNewConf(f) ==
  IF f = "list" \/ status[f] = "empty" THEN UNCHANGED <<file, status>>
  ELSE /\ file' = [file EXCEPT ![f] = <<>>]
       /\ status' = [status EXCEPT ![f] = "empty"]

-----------------------------------------------------------------------------
(* The receiver. *)

Receive(kind) ==
  /\ toDcu # <<>>
  /\ Head(toDcu).kind = kind
  /\ toDcu' = Tail(toDcu)
  /\ UNCHANGED <<tablet, losses, ackLost>>

\* FLOW_CONTROL_FUNCTION_CODE_INIT
OnInit ==
  LET msg == Head(toDcu) IN
  /\ Receive("init")
  /\ msg.service \in Files
  /\ rx' = [enabled |-> TRUE, file |-> msg.service, burst |-> msg.burst,
            expected |-> msg.packets, received |-> 0]
  /\ fifo' = <<>>
  /\ HandleNewConf(msg.service)
  /\ toTablet' = Append(toTablet, [kind |-> "initAck", service |-> msg.service,
                                  packets |-> msg.packets, transfer |-> msg.transfer])
  /\ opened' = msg.transfer
  /\ UNCHANGED <<config, failedIn>>

\* A service it does not know: the callbacks stay, no answer is given.
OnUnknownInit ==
  LET msg == Head(toDcu) IN
  /\ Receive("init")
  /\ msg.service \notin Files
  /\ rx' = [enabled |-> TRUE, file |-> rx.file, burst |-> msg.burst,
            expected |-> msg.packets, received |-> 0]
  /\ opened' = msg.transfer
  /\ UNCHANGED <<fifo, file, status, config, toTablet, failedIn>>

\* What fifo_pt_put does not take is gone.
Put(bytes) ==
  LET all == fifo \o bytes IN IF Len(all) <= FifoRoom THEN all ELSE SubSeq(all, 1, FifoRoom)

\* Mutant of IsDue: the fifo is emptied one packet later.
IsDueLate(content) == Len(content) >= DrainAt + Payload
IsDue(content) == Len(content) >= DrainAt

\* Mutant of IsNext: a packet further on will do.
IsNextOrLater(number) == number > rx.received
IsNext(number) == number = rx.received + 1

IsLast == rx.received + 1 = rx.expected

\* Mutant of Acknowledged: bursts only.
BurstsAcknowledged ==
  LET n == rx.received + 1 IN
  IF n % rx.burst = 0 THEN Append(toTablet, [kind |-> "ack", number |-> n]) ELSE toTablet

\* An acknowledgement every burst, and of the last packet.
Acknowledged ==
  LET n == rx.received + 1 IN
  IF n % rx.burst = 0 \/ IsLast THEN Append(toTablet, [kind |-> "ack", number |-> n])
  ELSE toTablet

\* The data callbacks: acknowledged, put into the fifo, and all of it written
\* when enough is there or, by the completion callback, at the end.
Store(content) ==
  IF IsDue(content) \/ IsLast
  THEN \E o \in Appended(rx.file, content) :
         /\ o.failed => Cardinality(failedIn) < MaxFailures
         /\ failedIn' = IF o.failed THEN failedIn \cup {opened} ELSE failedIn
         /\ fifo' = <<>>
         /\ file' = [file EXCEPT ![rx.file] = o.file]
         /\ status' = [status EXCEPT ![rx.file] =
                         IF IsLast /\ rx.file = "raw" THEN "closed" ELSE o.status]
  ELSE /\ fifo' = content
       /\ UNCHANGED <<file, status, failedIn>>

\* rawConfFile_RetrieveConf of the file as it is now: what is decoded from it,
\* and the setup ID sent unless its result is 0.  It is 2 for an empty file.
\* Decoding clears the setup there was, and fails for what is no setup.
Retrieve(content) ==
  \E ok \in BOOLEAN :
    LET fits == content # <<>> /\ Len(content) < RawRoom
        new == IF fits THEN [of |-> content, correct |-> ok] ELSE config
    IN
    /\ config' = new
    /\ toTablet' = IF content = <<>> \/ (fits /\ ok)
                   THEN Append(Acknowledged, [kind |-> "setupId", of |-> new])
                   ELSE Acknowledged

\* FLOW_CONTROL_FUNCTION_CODE_DATA: the packet awaited.  Without callbacks it
\* is acknowledged and counted, even beyond the last, and not stored.
OnNextData ==
  /\ Receive("data")
  /\ rx.enabled
  /\ IsNext(Head(toDcu).number)
  /\ IF rx.file = "none" THEN UNCHANGED <<fifo, file, status, failedIn>>
     ELSE Store(Put(Head(toDcu).bytes))
  /\ IF IsLast /\ rx.file = "raw" THEN Retrieve(file'["raw"])
     ELSE toTablet' = Acknowledged /\ UNCHANGED config
  /\ rx' = IF IsLast /\ rx.file # "none" THEN Idle ELSE [rx EXCEPT !.received = @ + 1]
  /\ UNCHANGED opened

\* A packet further on: the one awaited is asked for.
OnDataAhead ==
  /\ Receive("data")
  /\ rx.enabled
  /\ ~IsNext(Head(toDcu).number)
  /\ Head(toDcu).number > rx.received + 1
  /\ toTablet' = Append(toTablet, [kind |-> "nack", number |-> rx.received + 1])
  /\ UNCHANGED <<rx, fifo, file, status, config, opened, failedIn>>

\* A packet it has, or one of no transfer.
OnDataDropped ==
  /\ Receive("data")
  /\ rx.enabled => Head(toDcu).number <= rx.received
  /\ UNCHANGED <<rx, fifo, file, status, config, toTablet, opened, failedIn>>

Receiver == OnInit \/ OnUnknownInit \/ OnNextData \/ OnDataAhead \/ OnDataDropped

-----------------------------------------------------------------------------
(* The tablet and the line. *)

Packets == (tablet.size + Payload - 1) \div Payload
Limit == IF tablet.acked + Burst <= Packets THEN tablet.acked + Burst ELSE Packets

TabletSends(t, msg) ==
  /\ tablet' = t
  /\ toDcu' = Append(toDcu, msg)
  /\ UNCHANGED <<rx, fifo, file, status, config, toTablet, opened, failedIn, losses, ackLost>>

InitOf(t) ==
  [kind |-> "init", transfer |-> t.transfer, service |-> t.service, burst |-> Burst,
   packets |-> (t.size + Payload - 1) \div Payload]

TabletStarts ==
  /\ tablet.transfer < MaxTransfers
  /\ \E service \in Services, size \in Sizes :
       LET t == [phase |-> "init", transfer |-> tablet.transfer + 1, service |-> service,
                 size |-> size, acked |-> 0, next |-> 1, crossed |-> FALSE]
       IN TabletSends(t, InitOf(t))

\* cpl_msg_t keeps the packet number in 16 bits.
PacketNumber(number) == number % 65536

TabletSendsPacket ==
  /\ tablet.phase = "data" /\ tablet.next <= Limit
  /\ TabletSends([tablet EXCEPT !.next = @ + 1],
                 [kind |-> "data", number |-> PacketNumber(tablet.next),
                  bytes |-> BytesOf(tablet.transfer, tablet.size, tablet.next)])

\* The answer is overdue: nothing is on the way any more.
Overdue == toDcu = <<>> /\ toTablet = <<>>

TabletRepeatsInit ==
  /\ Overdue /\ tablet.phase = "init" /\ tablet.service \in Files
  /\ TabletSends(tablet, InitOf(tablet))

TabletRepeatsBurst ==
  /\ Overdue /\ tablet.phase = "data" /\ tablet.next > Limit
  /\ tablet' = [tablet EXCEPT !.next = tablet.acked + 1]
  /\ UNCHANGED <<rx, fifo, file, status, config, toTablet, toDcu, opened, failedIn, losses, ackLost>>

TabletHears ==
  LET msg == Head(toTablet) IN
  /\ toTablet # <<>>
  /\ toTablet' = Tail(toTablet)
  /\ tablet' =
       IF msg.kind = "initAck" /\ tablet.phase = "init"
            /\ msg.service = tablet.service /\ msg.packets = Packets
       THEN [tablet EXCEPT !.phase = "data", !.crossed = msg.transfer # tablet.transfer]
       ELSE IF msg.kind = "ack" /\ tablet.phase = "data"
       THEN [tablet EXCEPT !.acked = msg.number,
                           !.next = IF @ <= msg.number THEN msg.number + 1 ELSE @,
                           !.phase = IF msg.number = Packets THEN "done" ELSE @]
       ELSE IF msg.kind = "nack" /\ tablet.phase = "data"
       THEN [tablet EXCEPT !.next = msg.number]
       ELSE tablet
  /\ UNCHANGED <<rx, fifo, file, status, config, toDcu, opened, failedIn, losses, ackLost>>

Lose ==
  /\ losses < MaxLosses
  /\ losses' = losses + 1
  /\ \/ /\ toDcu # <<>> /\ toDcu' = Tail(toDcu)
        /\ UNCHANGED <<toTablet, ackLost>>
     \/ /\ toTablet # <<>> /\ toTablet' = Tail(toTablet)
        /\ ackLost' = (ackLost \/ Head(toTablet).kind = "ack")
        /\ UNCHANGED toDcu
  /\ UNCHANGED <<rx, fifo, file, status, config, tablet, opened, failedIn>>

Tablet == TabletStarts \/ TabletSendsPacket \/ TabletRepeatsInit \/ TabletRepeatsBurst
            \/ TabletHears

Next == Receiver \/ Tablet \/ Lose

Spec == Init /\ [][Next]_vars

\* Both sides work on what reaches them, and the tablet's timers go off.
FairSpec ==
  /\ Spec
  /\ WF_vars(Receiver) /\ WF_vars(TabletHears)
  /\ WF_vars(TabletSendsPacket) /\ WF_vars(TabletRepeatsInit) /\ WF_vars(TabletRepeatsBurst)

-----------------------------------------------------------------------------
TypeOK ==
  /\ rx.file \in Files \cup {"none"}
  /\ rx.enabled => rx.received < rx.expected \/ rx.file = "none"
  /\ Len(fifo) < DrainAt
  /\ \A f \in Files : status[f] \in {"closed", "empty", "exists"}
  /\ status["list"] = "closed"
  /\ tablet.next \in 1 .. Packets + 1 \/ tablet.phase = "idle" \/ tablet.crossed

\* While a setup comes in, what is on the card and what waits in the fifo are
\* together the packets received, each once and in their order, and nothing of
\* an earlier transfer - if no write has failed.  It is what the fifo's
\* threshold, the rule for the next packet and the emptying of the old file
\* achieve together.
StoredInOrder ==
  (rx.enabled /\ rx.file \in {"raw", "json"} /\ opened = tablet.transfer
     /\ tablet.service = rx.file /\ failedIn = {}) =>
    file[rx.file] \o fifo =
      WholeFile(opened, IF rx.received * Payload < tablet.size THEN rx.received * Payload
                        ELSE tablet.size)

\* When the tablet has been told that all its packets have come, the setup is
\* whole on the card - if no write has failed - and a raw setup that has room
\* in the configuration buffer is what was decoded last, with or without success:
\* no older setup is in use.  Nothing in an answer says
\* which transfer it is for: a tablet that took the answer to an earlier INIT
\* for that to its last may believe the acknowledgements that follow it.
DoneMeansStored ==
  (tablet.phase = "done" /\ ~tablet.crossed /\ tablet.service # "list" /\ failedIn = {}) =>
    /\ file[tablet.service] = WholeFile(tablet.transfer, tablet.size)
    /\ tablet.service = "raw" /\ tablet.size < RawRoom => config.of = file["raw"]

\* A transfer of the tablet comes to its end, whichever other frames are lost
\* and writes fail, if no acknowledgement is lost and no answer is taken for
\* another.  A burst received twice is dropped without an answer, so the tablet
\* never learns of it (see README).
CompletesUnlessAckLost ==
  (tablet.phase = "data")
    ~> (tablet.phase = "done" \/ ackLost \/ tablet.crossed \/ tablet.service = "other")

=============================================================================
