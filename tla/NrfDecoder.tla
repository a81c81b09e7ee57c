----------------------------- MODULE NrfDecoder -----------------------------
(***************************************************************************)
(* nRF52_prot_decoder finds the frames of the coprocessor in the ring that *)
(* the UART4 interrupt fills (app_nRF52_com.c).  A frame is the start      *)
(* delimiter, its length, type, command, data and checksum.                *)
(*                                                                         *)
(* A byte is its value, the frame it belongs to, the length of that frame  *)
(* and its position there; noise makes it a byte of frame 0.  A call of    *)
(* the ring is a step, so that the interrupt may push the oldest byte out  *)
(* between any two of them; what it does within one, RingBufferIsr models. *)
(***************************************************************************)
EXTENDS Naturals, Sequences

CONSTANTS RingSize,   \* bytes the ring holds
          Sizes,      \* lengths of the frames the coprocessor sends
          Commands,   \* the commands, or sensor numbers, in them
          Values,     \* values of the other bytes
          MaxFrames,  \* bound: frames sent
          MaxNoise,   \* bound: bytes changed or lost, and checksums that fit by accident
          MaxTimeouts \* bound: times nRF52_TimedOut returns 1

Start == 115 \* 0x73

Lengths == {7, 13, 30, 32, 53, 84}

\* Lengths of the quaternions and of the raw data, which are of type 1.
DataLengths == {30, 32}

ASSUME NrfDecoderAssumption ==
  /\ RingSize \in Nat
  /\ Sizes \subseteq {n \in Lengths : n <= RingSize}
  /\ Commands \subseteq 0 .. 13
  /\ Values \subseteq 0 .. 255
  /\ MaxFrames \in Nat /\ MaxNoise \in Nat /\ MaxTimeouts \in Nat

VARIABLES
  ring,      \* nRF52RingbufRx
  state,     \* nRF52State, and the next call of the ring
  msg,       \* nRF52RxMsg: length, type, and the frames they and the command
             \* are from; of DU the bytes copied, the frame of the first one,
             \* and whether they are that frame so far
  sent,      \* frames begun
  size, at,  \* length of the frame being sent, and its bytes already sent
  delivered, \* history: frames found correct, in their order
  hit,       \* history: frames hit by noise, a full ring or a timeout
  lone,      \* history: frames whose delimiter was removed while alone
  shifted,   \* history: a byte was pushed out since the decoder looked at the first
  slipped,   \* history: frames that lost bytes the decoder had not looked at, or
             \* were handed over under the header of another
  noise, timeouts

line == <<sent, size, at>>
vars == <<ring, state, msg, line, delivered, hit, lone, shifted, slipped, noise, timeouts>>

NoMsg == [length |-> 0, type |-> 0, from |-> {}, copied |-> 0, of |-> 0, whole |-> TRUE]

Init ==
  /\ ring = <<>>
  /\ state = "idle" /\ msg = NoMsg
  /\ sent = 0 /\ size = 0 /\ at = 0
  /\ delivered = <<>> /\ hit = {} /\ lone = {} /\ shifted = FALSE /\ slipped = {}
  /\ noise = 0 /\ timeouts = 0

-----------------------------------------------------------------------------
(* The coprocessor and the interrupt. *)

Begin ==
  /\ at = size /\ sent < MaxFrames
  /\ sent' = sent + 1 /\ at' = 0
  /\ size' \in Sizes
  /\ UNCHANGED <<ring, state, msg, delivered, hit, lone, shifted, slipped, noise, timeouts>>

TypeOf(n) == IF n \in DataLengths THEN 1 ELSE 2

\* What byte i of a frame of n bytes can be.
ValuesAt(i, n) ==
  CASE i = 1 -> {Start}
    [] i = 2 -> {n}
    [] i = 3 -> {TypeOf(n)}
    [] i = 4 -> {c \in Commands : n \in DataLengths => c < 7}
    [] i > 4 -> Values

\* Mutant of Queued: the bytes that do not fit are kept.
QueuedAnyway(byte) == Append(ring, byte)

\* The oldest byte goes when the ring is full.
Queued(byte) == IF Len(ring) < RingSize THEN Append(ring, byte) ELSE Append(Tail(ring), byte)

PushedOut == IF Len(ring) < RingSize THEN {} ELSE {Head(ring).of}

Receive(byte, changed) ==
  /\ at' = at + 1
  /\ ring' = Queued(byte)
  /\ hit' = hit \cup PushedOut \cup changed
  /\ shifted' = (shifted \/ (state # "idle" /\ PushedOut # {}))
  /\ UNCHANGED <<state, msg, sent, size, delivered, lone, slipped, timeouts>>

RxIsr ==
  /\ at < size
  /\ \E v \in ValuesAt(at + 1, size) :
       Receive([of |-> sent, size |-> size, at |-> at + 1, value |-> v], {})
  /\ UNCHANGED noise

ByteChanges ==
  /\ at < size /\ noise < MaxNoise
  /\ noise' = noise + 1
  /\ \E v \in Values : Receive([of |-> 0, size |-> 0, at |-> 0, value |-> v], {sent})

ByteLost ==
  /\ at < size /\ noise < MaxNoise
  /\ noise' = noise + 1 /\ at' = at + 1
  /\ hit' = hit \cup {sent}
  /\ UNCHANGED <<ring, state, msg, sent, size, delivered, lone, shifted, slipped, timeouts>>

-----------------------------------------------------------------------------
(* nRF52_prot_decoder: a call that looks into the ring is a step together  *)
(* with what depends on it.  That the ring is not empty, or holds as many  *)
(* bytes as are waited for, is one with the peek behind it: the interrupt  *)
(* makes neither untrue.                                                   *)

Goto(place) == state' = place /\ UNCHANGED <<line, ring, delivered, slipped>>

\* Back to nRF52_IDLE, where nothing of the last message is used any more.
GotoIdle == state' = "idle" /\ msg' = NoMsg /\ shifted' = FALSE /\ UNCHANGED <<line, lone, timeouts>>

\* nRF52_FindSdByte.
FindSdByte ==
  /\ state = "idle" /\ ring # <<>>
  /\ Goto(IF Head(ring).value = Start THEN "second" ELSE "dequeue")
  /\ UNCHANGED <<msg, hit, lone, shifted, noise, timeouts>>

\* The peek behind a delimiter that is alone in the ring fails and leaves the
\* delimiter in rxdByte, where it passes for a second one.
SecondMissing ==
  /\ state = "second" /\ Len(ring) = 1
  /\ Goto("dequeue")
  /\ lone' = lone \cup {Head(ring).of}
  /\ UNCHANGED <<msg, hit, shifted, noise, timeouts>>

\* Mutant of IsLength: whatever follows a delimiter is a length.
IsAnyLength(v) == v # Start

IsLength(v) == v \in Lengths

SecondByte ==
  /\ state = "second" /\ Len(ring) > 1
  /\ ring[2].value = Start \/ IsLength(ring[2].value)
  /\ Goto(IF ring[2].value = Start THEN "dequeue" ELSE "header")
  /\ UNCHANGED <<msg, hit, lone, shifted, noise, timeouts>>

\* A delimiter followed by neither stays where it is: the loop turns until the
\* interrupt has pushed it out.
SecondOther ==
  /\ state = "second" /\ Len(ring) > 1
  /\ ring[2].value # Start /\ ~IsLength(ring[2].value)
  /\ GotoIdle
  /\ UNCHANGED <<ring, delivered, hit, slipped, noise>>

HeaderPartPresent == Len(ring) > 4

PeekLength ==
  /\ state = "header" /\ HeaderPartPresent
  /\ msg' = [msg EXCEPT !.length = ring[2].value, !.from = {ring[2].of}]
  /\ Goto("type")
  /\ UNCHANGED <<hit, lone, shifted, noise, timeouts>>

PeekType ==
  /\ state = "type"
  /\ msg' = [msg EXCEPT !.type = ring[3].value, !.from = @ \cup {ring[3].of}]
  /\ Goto("command")
  /\ UNCHANGED <<hit, lone, shifted, noise, timeouts>>

HeaderIsValid(command) ==
  \/ msg.type = 1 /\ msg.length \in DataLengths /\ command < 7
  \/ msg.type = 2 /\ msg.length < 86 /\ command < 14

PeekCommand ==
  /\ state = "command"
  /\ msg' = [msg EXCEPT !.from = @ \cup {ring[4].of}]
  /\ Goto(IF HeaderIsValid(ring[4].value) THEN "body" ELSE "dequeue")
  /\ UNCHANGED <<hit, lone, shifted, noise, timeouts>>

\* Mutant of Dequeued: a second delimiter goes with the first.
DequeuedBoth == SubSeq(ring, 3, Len(ring))

Dequeued == Tail(ring)

Slips(frames) == slipped' = IF shifted THEN slipped \cup frames ELSE slipped

\* A stray byte, a delimiter before another, and the first byte of a header
\* that is invalid or came too late go the same way.
Dequeue ==
  /\ state = "dequeue"
  /\ ring' = Dequeued
  /\ Slips({Head(ring).of})
  /\ GotoIdle
  /\ UNCHANGED <<delivered, hit, noise>>

BodyPartPresent == Len(ring) >= msg.length

\* nRF52_TimedOut increments the pointer, not the counter, and compares what
\* lies behind the counter.
TimedOut ==
  /\ \/ state = "header" /\ ~HeaderPartPresent
     \/ state = "body" /\ ~BodyPartPresent
  /\ timeouts < MaxTimeouts
  /\ timeouts' = timeouts + 1
  /\ hit' = hit \cup {Head(ring).of}
  /\ Goto("dequeue")
  /\ UNCHANGED <<msg, lone, shifted, noise>>

\* nRF52_BuildBody.  DU[length - 1] is used by nobody; the last peek is CS's.
PeekBody ==
  /\ state = "body" /\ BodyPartPresent /\ msg.copied < msg.length
  /\ LET b == ring[msg.copied + 1]
     IN  msg' = [msg EXCEPT !.copied = @ + 1,
                            !.of = IF msg.copied = 0 THEN b.of ELSE @,
                            !.whole = /\ @ /\ b.of # 0 /\ b.at = msg.copied + 1
                                      /\ b.size = msg.length
                                      /\ msg.copied = 0 \/ b.of = msg.of]
  /\ Goto("body")
  /\ UNCHANGED <<hit, lone, shifted, noise, timeouts>>

BodyBuilt == state = "body" /\ BodyPartPresent /\ msg.copied = msg.length

\* nRF52_csCorrect: the bytes copied are one frame.
CsCorrect == BodyBuilt /\ msg.whole /\ msg.length # 0

\* Mutant of Taken: the frame stays.
TakenNothing == ring

\* length - 3 bytes are removed, whichever they are by now.
Taken == SubSeq(ring, msg.length - 2, Len(ring))

TakenFrom == {ring[i].of : i \in 1 .. msg.length - 3}

CorrectFrame ==
  /\ CsCorrect /\ msg.from = {msg.of}
  /\ ring' = Taken
  /\ delivered' = Append(delivered, msg.of)
  /\ Slips(TakenFrom \ {msg.of})
  /\ GotoIdle
  /\ UNCHANGED <<hit, noise>>

\* The frame at the head of the ring is no longer the one of the header.
MixedFrame ==
  /\ CsCorrect /\ msg.from # {msg.of}
  /\ ring' = Taken
  /\ Slips(TakenFrom \cup {msg.of})
  /\ GotoIdle
  /\ UNCHANGED <<delivered, hit, noise>>

\* Nothing is removed: the frame is found again.
IncorrectFrame ==
  /\ BodyBuilt /\ ~CsCorrect /\ msg.length # 0
  /\ GotoIdle
  /\ UNCHANGED <<ring, delivered, hit, slipped, noise>>

AccidentalFit ==
  /\ BodyBuilt /\ ~CsCorrect /\ msg.length > 2
  /\ noise < MaxNoise
  /\ noise' = noise + 1
  /\ ring' = Taken
  /\ hit' = hit \cup TakenFrom
  /\ GotoIdle
  /\ UNCHANGED <<delivered, slipped>>

\* length - 1 of no bytes is the largest unsigned number, and the checksum runs
\* through the memory; length - 3 of one or two, when the checksum fits, takes
\* the tail back.  The decoder is not followed any further.
Wraps ==
  /\ BodyBuilt /\ msg.length < 3
  /\ Goto("wrapped")
  /\ UNCHANGED <<msg, hit, lone, shifted, noise, timeouts>>

Next ==
  \/ Begin \/ RxIsr \/ ByteChanges \/ ByteLost
  \/ FindSdByte \/ SecondMissing \/ SecondByte \/ SecondOther \/ Dequeue
  \/ PeekLength \/ PeekType \/ PeekCommand \/ TimedOut \/ PeekBody
  \/ CorrectFrame \/ MixedFrame \/ IncorrectFrame \/ AccidentalFit \/ Wraps

Spec == Init /\ [][Next]_vars

-----------------------------------------------------------------------------
States == {"idle", "second", "dequeue", "header", "type", "command", "body", "wrapped"}

\* The types of the variables, and the ring within its bounds.
TypeOK ==
  /\ ring \in Seq([of : 0 .. sent, size : 0 .. 84, at : 0 .. 84, value : 0 .. 255])
  /\ Len(ring) <= RingSize
  /\ state \in States
  /\ msg \in [length : 0 .. 255, type : 0 .. 255, from : SUBSET (0 .. sent),
             copied : 0 .. 255, of : 0 .. sent, whole : BOOLEAN]
  /\ msg.copied <= msg.length
  /\ sent \in 0 .. MaxFrames /\ at \in 0 .. size
  /\ hit \cup lone \cup slipped \subseteq 0 .. sent
  /\ shifted \in BOOLEAN
  /\ Len(delivered) <= sent

\* Frames are handed over in their order and none twice, although nRF52_csCorrect
\* leaves the last three bytes of each in the ring, and whatever the interrupt
\* pushes out while a frame is read.
InOrderAndOnce == \A i, j \in DOMAIN delivered : i < j => delivered[i] < delivered[j]

\* A frame is lost only when noise, the full ring or the timeout hit one of its
\* bytes, when the decoder came by between its first byte and its second, or
\* when the full ring moved on between the decoder's look and its removal, which
\* then took one of its bytes.  Whatever else nRF52_prot_decoder does to get past
\* a broken frame, or past the three bytes left of a good one, costs none of
\* those behind.
LostOnlyWhenHit ==
  \A f \in 1 .. sent :
    \/ \E i \in DOMAIN delivered : delivered[i] = f
    \/ f \in hit \cup lone \cup slipped
    \/ \E i \in DOMAIN ring : ring[i].of = f /\ ring[i].at = 1
    \/ f = sent /\ at = 0

\* nRF52_FindSdByte lets no length pass that the subtractions of nRF52_csCorrect
\* would wrap at: only a ring that moves on before nRF52_BuildHeader reads the
\* length again brings one there.
WrapsOnlyWhenShifted == state = "wrapped" => shifted

\* "sometimes, a second start delimiter occurs. Check next byte and if also
\* start delimiter, remove" (app_nRF52_com.c:1318): nRF52_FindSdByte removes
\* no delimiter that has none behind it.
OnlySecondRemoved == lone = {}

=============================================================================
