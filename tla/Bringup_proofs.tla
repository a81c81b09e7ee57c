--------------------------- MODULE Bringup_proofs ---------------------------
(***************************************************************************)
(* For any number of modules, losses, repeated links, dropped sensors and  *)
(* uploaded setups: nRF52ComManagerThread numbers the modules 1, 2, ...    *)
(* with no gap and no repetition; as long as no connect status is lost or  *)
(* speaks of a module that never linked and the setup stays, in the order  *)
(* in which they linked; and initThread starts the measurement only when   *)
(* the coprocessor has what it sent and has reported every module.         *)
(***************************************************************************)
EXTENDS Bringup, SequenceTheorems, FiniteSetTheorems, TLAPS

Answered == {"list", "rate", "type"}

Message ==
  [kind : {"ok"}, of : Answered] \cup [kind : {"connect"}, module : Modules, up : BOOLEAN]
    \cup [kind : {"calibrate"}, module : Modules, stage : Stages]

\* What the numbering rests on: connect statuses speak of modules that exist,
\* and a number is given to a module in the step that marks it connected.
NumberingOK ==
  /\ connected \in [Modules -> BOOLEAN]
  /\ sequence \in [Modules -> Nat]
  /\ nextSequence \in Nat \ {0}
  /\ \A k \in Modules : connected[k] => sequence[k] \in 1 .. nextSequence - 1
  /\ \A k \in Modules : ~connected[k] => sequence[k] = 0
  /\ \A s \in 1 .. nextSequence - 1 : \E k \in Modules : connected[k] /\ sequence[k] = s
  /\ \A j, k \in Modules : connected[j] /\ connected[k] /\ sequence[j] = sequence[k] => j = k

IInv == n \in 0 .. MaxModules /\ toDcu \in Seq(Message) /\ NumberingOK

numbering == <<connected, sequence, nextSequence>>

\* The initial state satisfies the inductive invariant.
LEMMA InitInv == Init => IInv
<1> SUFFICES ASSUME Init PROVE IInv
  OBVIOUS
<1>1. n \in 0 .. MaxModules
  BY DEF Init
<1>2. toDcu \in Seq(Message)
  BY EmptySeq DEF Init
<1>3. NumberingOK
  <2>1. \A k \in Modules : connected[k] = FALSE
    BY DEF Init
  <2>2. connected \in [Modules -> BOOLEAN]
    BY DEF Init
  <2>3. sequence \in [Modules -> Nat]
    BY DEF Init
  <2>4. nextSequence = 1
    BY DEF Init
  <2>5. 1 .. nextSequence - 1 = {}
    BY <2>4
  <2>6. \A k \in Modules : sequence[k] = 0
    BY DEF Init
  <2> QED
    BY <2>1, <2>2, <2>3, <2>4, <2>5, <2>6 DEF NumberingOK
<1> QED
  BY <1>1, <1>2, <1>3 DEF IInv

\* The numbering is kept by a step that does not touch it.
LEMMA NumberingUnchanged == NumberingOK /\ UNCHANGED numbering => NumberingOK'
  BY DEF NumberingOK, numbering

\* The line keeps its type when a message is taken from it or put on it.
LEMMA LineTaken == ASSUME toDcu \in Seq(Message), toDcu # <<>>
                   PROVE  Tail(toDcu) \in Seq(Message) /\ Head(toDcu) \in Message
  BY HeadTailProperties

LEMMA LineSent == ASSUME toDcu \in Seq(Message), NEW msg \in Message, SendToDcu(msg)
                  PROVE  toDcu' \in Seq(Message)
  BY AppendProperties DEF SendToDcu

\* A connect status handled: the module is new and gets the next number, or
\* nothing is numbered.
LEMMA ConnectNumbers == IInv /\ HandleConnect => NumberingOK'
<1> SUFFICES ASSUME IInv, HandleConnect PROVE NumberingOK'
  OBVIOUS
<1> DEFINE k == Head(toDcu).module
<1>1. k \in Modules
  <2>1. toDcu # <<>> /\ Head(toDcu).kind = "connect"
    BY DEF HandleConnect, Handle
  <2>2. Head(toDcu) \in Message
    BY <2>1, LineTaken DEF IInv
  <2> QED
    BY <2>1, <2>2 DEF Message
<1>2. NumberingOK
  BY DEF IInv
<1>3. CASE ~IsNew(k)
  <2>1. UNCHANGED numbering
    BY <1>3 DEF HandleConnect, numbering
  <2> QED
    BY <2>1, <1>2, NumberingUnchanged
<1>4. CASE IsNew(k)
  <2> HIDE DEF k
  <2>1. /\ connected' = [connected EXCEPT ![k] = TRUE]
        /\ sequence' = [sequence EXCEPT ![k] = nextSequence]
        /\ nextSequence' = nextSequence + 1
    BY <1>4 DEF HandleConnect, SequenceOf, k
  <2>2. ~connected[k]
    BY <1>4 DEF IsNew
  <2>3. connected' \in [Modules -> BOOLEAN]
    BY <1>2, <2>1, Zenon DEF NumberingOK
  <2>4. sequence' \in [Modules -> Nat] /\ nextSequence' \in Nat \ {0}
    <3>1. nextSequence \in Nat /\ sequence \in [Modules -> Nat]
      BY <1>2 DEF NumberingOK
    <3>2. sequence' \in [Modules -> Nat]
      BY <2>1, <3>1
    <3>3. nextSequence' \in Nat \ {0}
      BY <2>1, <3>1
    <3> QED
      BY <3>2, <3>3
  <2>5. ASSUME NEW j \in Modules, connected'[j] PROVE sequence'[j] \in 1 .. nextSequence' - 1
    BY <1>1, <1>2, <2>1, <2>5 DEF NumberingOK
  <2>6. ASSUME NEW s \in 1 .. nextSequence' - 1
        PROVE  \E j \in Modules : connected'[j] /\ sequence'[j] = s
    <3>1. CASE s = nextSequence
      BY <1>1, <1>2, <2>1, <3>1 DEF NumberingOK
    <3>2. CASE s # nextSequence
      <4>1. s \in 1 .. nextSequence - 1
        BY <1>2, <2>1, <3>2 DEF NumberingOK
      <4>2. PICK j \in Modules : connected[j] /\ sequence[j] = s
        BY <1>2, <4>1 DEF NumberingOK
      <4>3. j # k
        BY <4>2, <2>2
      <4> QED
        BY <1>2, <2>1, <4>2, <4>3 DEF NumberingOK
    <3> QED
      BY <3>1, <3>2
  <2>7. ASSUME NEW i \in Modules, NEW j \in Modules,
               connected'[i], connected'[j], sequence'[i] = sequence'[j]
        PROVE  i = j
    <3>1. CASE i # k /\ j # k
      BY <1>2, <2>1, <2>7, <3>1 DEF NumberingOK
    <3>2. ASSUME NEW m \in Modules, m # k, connected'[m] PROVE sequence'[m] # sequence'[k]
      BY <1>1, <1>2, <2>1, <3>2 DEF NumberingOK
    <3> QED
      BY <1>1, <2>7, <3>1, <3>2
  <2>8. ASSUME NEW j \in Modules, ~connected'[j] PROVE sequence'[j] = 0
    BY <1>1, <1>2, <2>1, <2>8 DEF NumberingOK
  <2> QED
    BY <2>3, <2>4, <2>5, <2>6, <2>7, <2>8 DEF NumberingOK
<1> QED
  BY <1>3, <1>4

\* Every step preserves the invariant.
LEMMA NextInv == IInv /\ [Next]_vars => IInv'
<1> SUFFICES ASSUME IInv, [Next]_vars PROVE IInv'
  OBVIOUS
<1>1. n \in 0 .. MaxModules /\ toDcu \in Seq(Message) /\ NumberingOK
  BY DEF IInv
<1>2. ASSUME UNCHANGED <<n, toDcu, connected, sequence, nextSequence>> PROVE IInv'
  BY <1>1, <1>2, NumberingUnchanged DEF IInv, numbering
<1>3. ASSUME UNCHANGED <<n, connected, sequence, nextSequence>>,
             toDcu # <<>>, toDcu' = Tail(toDcu)
      PROVE  IInv'
  BY <1>1, <1>3, LineTaken, NumberingUnchanged DEF IInv, numbering
<1>4. ASSUME UNCHANGED <<n, connected, sequence, nextSequence>>,
             NEW msg \in Message, SendToDcu(msg)
      PROVE  IInv'
  BY <1>1, <1>4, LineSent, NumberingUnchanged DEF IInv, numbering
<1>5. CASE UNCHANGED vars
  BY <1>2, <1>5 DEF vars, dcuVars
<1>6. CASE InitThread
  BY <1>2, <1>6
  DEF InitThread, SendPhaseCommand, AllPhasesPassed, TabletTimeSeen, StartMeasurement, dcuVars
<1>7. CASE HandleOk
  BY <1>3, <1>7 DEF HandleOk, Handle
<1>8. CASE HandleConnect
  <2>1. UNCHANGED n /\ toDcu' \in Seq(Message)
    BY <1>1, <1>8, LineTaken DEF HandleConnect, Handle
  <2> QED
    BY <1>1, <1>8, <2>1, ConnectNumbers DEF IInv
<1>9. CASE HandleCalibrate
  BY <1>3, <1>9 DEF HandleCalibrate, Handle
<1>10. CASE DelayEnds
  BY <1>2, <1>10 DEF DelayEnds
<1>11. CASE ButtonPressed \/ TabletSetsTime
  BY <1>2, <1>11 DEF ButtonPressed, TabletSetsTime, dcuVars
<1>12. CASE SetupUploaded
  <2>1. n' \in 0 .. MaxModules
    BY <1>12, BringupAssumption DEF SetupUploaded, Modules
  <2> QED
    BY <1>1, <1>12, <2>1, NumberingUnchanged DEF IInv, SetupUploaded, numbering
<1>13. CASE CpReceive
  <2>1. CASE UNCHANGED toDcu
    BY <1>2, <1>13, <2>1 DEF CpReceive, dcuVars
  <2>2. CASE Head(toCp) \in {"list", "rate", "type"}
    <3>1. [kind |-> "ok", of |-> Head(toCp)] \in Message
      BY <2>2 DEF Message, Answered
    <3> QED
      BY <1>4, <1>13, <2>2, <3>1 DEF CpReceive, dcuVars
  <2> QED
    BY <1>13, <2>1, <2>2 DEF CpReceive
<1>14. CASE Lose
  BY <1>2, <1>3, <1>14 DEF Lose, dcuVars
<1>15. ASSUME NEW k \in Modules,
              SensorLinks(k) \/ SensorLinksAgain(k) \/ SensorNotConnected(k)
       PROVE  IInv'
  <2>1. \A b \in BOOLEAN : [kind |-> "connect", module |-> k, up |-> b] \in Message
    BY DEF Message
  <2> QED
    BY <1>4, <1>15, <2>1 DEF SensorLinks, SensorLinksAgain, SensorNotConnected, dcuVars
<1>16. ASSUME NEW k \in Modules, SensorCalibrates(k) PROVE IInv'
  <2>1. \A s \in Stages : [kind |-> "calibrate", module |-> k, stage |-> s] \in Message
    BY DEF Message
  <2>2. (IF cp.stage[k] = "none" THEN "busy" ELSE "done") \in Stages
    BY DEF Stages
  <2> QED
    BY <1>4, <1>16, <2>1, <2>2 DEF SensorCalibrates, dcuVars
<1> QED
  BY <1>5, <1>6, <1>7, <1>8, <1>9, <1>10, <1>11, <1>12, <1>13, <1>14, <1>15, <1>16
  DEF Next, NrfThread

\* For any setup, and however the line behaves, no connecting sequence is
\* given twice or left out: the lookup of DU[3]+1 finds at most one module.
THEOREM DenseNumbering == Spec => []SequencesAreDense
<1>1. ASSUME NumberingOK PROVE SequencesAreDense
  <2> DEFINE numbers == {sequence[k] : k \in {j \in Modules : connected[j]}}
  <2>1. ASSUME NEW s \in numbers PROVE s \in 1 .. nextSequence - 1
    <3>1. PICK k \in Modules : connected[k] /\ s = sequence[k]
      BY <2>1
    <3> QED
      BY <1>1, <3>1 DEF NumberingOK
  <2>2. ASSUME NEW s \in 1 .. nextSequence - 1 PROVE s \in numbers
    BY <1>1, Zenon DEF NumberingOK
  <2>3. numbers = 1 .. nextSequence - 1
    BY <2>1, <2>2
  <2>4. \A j, k \in Modules : connected[j] /\ connected[k] /\ sequence[j] = sequence[k] => j = k
    BY <1>1 DEF NumberingOK
  <2> QED
    BY <2>3, <2>4 DEF SequencesAreDense
<1>2. IInv => SequencesAreDense
  BY <1>1 DEF IInv
<1> QED
  BY <1>2, InitInv, NextInv, PTL DEF Spec

-----------------------------------------------------------------------------
(* What the variables range over. *)

Counters == {"list", "connected", "calibrated", "rate", "type"}

Typed ==
  /\ boot \in 0 .. MaxModules /\ n \in 0 .. MaxModules
  /\ init \in {"loop", "tablet", "start", "done"}
  /\ nrf \in {"decode", "delay"}
  /\ count \in [list : 0 .. MaxModules, connected : 0 .. MaxModules,
                calibrated : 0 .. MaxModules, rate : 0 .. MaxModules, type : 0 .. MaxModules]
  /\ calibrated \in [Modules -> Stages]
  /\ typeGiven \in BOOLEAN /\ calibrateIMUs \in BOOLEAN /\ tabletTime \in BOOLEAN
  /\ toCp \in Seq(Commands)
  /\ toDcu \in Seq(Message) /\ Len(toDcu) <= LineLen
  /\ cp \in [given : SUBSET Commands, order : Seq(Modules), down : SUBSET Modules,
             missing : SUBSET Modules, started : BOOLEAN,
             stage : [Modules -> Stages]]
  /\ lost \subseteq Commands \cup {"ok", "connect"}
  /\ relinks \in Nat /\ drops \in Nat /\ uploads \in Nat

-----------------------------------------------------------------------------
(* The order of the connect statuses on the line. *)

\* The i-th message of line q says that module k is linked.
Says(q, i, k) == q[i].kind = "connect" /\ q[i].module = k

\* Of the modules in the coprocessor's order o, those from the s-th on are
\* announced on line q, and each of them after those that linked before it.
Announces(q, o, s) ==
  /\ \A i \in 1 .. Len(q) : q[i].kind = "connect" =>
       \E p \in 1 .. Len(o) :
         /\ q[i].module = o[p]
         /\ \A r \in s .. p - 1 : \E j \in 1 .. i - 1 : Says(q, j, o[r])
  /\ \A r \in s .. Len(o) : \E j \in 1 .. Len(q) : Says(q, j, o[r])

\* As long as no connect status is lost or speaks of a module that never linked,
\* and the setup stays: the modules numbered so far are the first of the order, the line announces the others.
OrderKept ==
  /\ n = boot
  /\ \A p \in 1 .. Len(cp.order) : cp.order[p] \in 1 .. boot
  /\ \A p, r \in 1 .. Len(cp.order) : cp.order[p] = cp.order[r] => p = r
  /\ nextSequence <= Len(cp.order) + 1
  /\ \A k \in Modules : connected[k] => cp.order[sequence[k]] = k
  /\ Announces(toDcu, cp.order, nextSequence)

OrderInv == "connect" \notin lost /\ cp.missing = {} /\ uploads = 0 => OrderKept

-----------------------------------------------------------------------------
(* The counters and what they stand for. *)

\* What a report on the line says is so.
Truthful(msg) ==
  /\ msg.kind = "ok" => msg.of \in cp.given
  /\ msg.kind = "connect" => msg.module \in Reported

LineTruthful == \A i \in 1 .. Len(toDcu) : Truthful(toDcu[i])

\* As long as the setup stays, a counter that has reached numberOfModules
\* speaks of something the coprocessor has done, and so does a report on the
\* line, whatever the line loses.
CountersTrue ==
  /\ n = boot
  /\ \A c \in Answered : n > 0 /\ count[c] = n => c \in cp.given
  /\ n > 0 => (count.connected = n <=> AllOfThem(connected))
  /\ \A k \in Modules : connected[k] => k \in Reported
  /\ LineTruthful
  /\ init # "loop" => n > 0 /\ \A c \in Counters : count[c] = n

CountersInv == uploads = 0 => CountersTrue

\* Nothing of the calibration has begun.
Fresh ==
  /\ "calibrate" \notin cp.given
  /\ \A k \in Modules : calibrated[k] # "done"
  /\ \A i \in 1 .. Len(toDcu) : toDcu[i].kind # "calibrate"
  /\ count.calibrated # n

Asked == \E i \in 1 .. Len(toCp) : toCp[i] = "calibrate"

AskedOnce ==
  \A i, j \in 1 .. Len(toCp) : toCp[i] = "calibrate" /\ toCp[j] = "calibrate" => i = j

\* The line announces a module once, and before it is connected.
NoRepeat ==
  \A i, j \in 1 .. Len(toDcu) :
    toDcu[i].kind = "connect" /\ Says(toDcu, j, toDcu[i].module) => i = j

AnnouncedOnce ==
  /\ \A i \in 1 .. Len(toDcu) : toDcu[i].kind = "connect" => ~connected[toDcu[i].module]
  /\ NoRepeat

\* A module reported as calibrated is, and when the button was pressed so is
\* one that counts as calibrated.
DoneIsDone ==
  /\ \A i \in 1 .. Len(toDcu) :
       toDcu[i].kind = "calibrate" /\ toDcu[i].stage = "done" => cp.stage[toDcu[i].module] = "done"
  /\ calibrateIMUs =>
       /\ \A k \in Modules : calibrated[k] = "done" => cp.stage[k] = "done"
       /\ count.calibrated = n => \A k \in 1 .. n : cp.stage[k] = "done"

\* As long as no sensor links again or drops either, the calibration is asked for once,
\* when every module is connected, and a module that counts as calibrated is.
CalibrationTrue ==
  /\ AnnouncedOnce
  /\ nrf = "delay" => AllOfThem(connected)
  /\ ~AllOfThem(connected) \/ nrf = "delay" => Fresh /\ ~Asked
  /\ Asked => Fresh
  /\ AskedOnce
  /\ DoneIsDone

CalibrationInv == uploads = 0 /\ relinks = 0 /\ drops = 0 /\ n > 0 => CalibrationTrue

\* The sensors reported are modules of the setup, and linked if none dropped.
Listed == Linked \subseteq 1 .. boot /\ (drops = 0 => cp.missing = {})

-----------------------------------------------------------------------------
(* Taking a message from a line and putting one on it, element by element. *)

LEMMA TailAt ==
  ASSUME NEW S, NEW q \in Seq(S), q # <<>>
  PROVE  /\ Tail(q) \in Seq(S) /\ Head(q) = q[1] /\ Head(q) \in S
         /\ Len(q) \in Nat /\ 1 \in 1 .. Len(q) /\ Len(Tail(q)) = Len(q) - 1
         /\ \A i \in 1 .. Len(Tail(q)) : i + 1 \in 1 .. Len(q) /\ Tail(q)[i] = q[i + 1]
<1>1. /\ Tail(q) \in Seq(S) /\ Head(q) = q[1] /\ Head(q) \in S
      /\ Len(Tail(q)) = Len(q) - 1
      /\ \A i \in 1 .. Len(Tail(q)) : Tail(q)[i] = q[i + 1]
  BY HeadTailProperties
<1>2. Len(q) \in Nat /\ Len(q) # 0
  BY LenProperties, EmptySeq
<1>3. 1 \in 1 .. Len(q) /\ \A i \in 1 .. Len(q) - 1 : i + 1 \in 1 .. Len(q)
  BY <1>2
<1> QED
  BY <1>1, <1>2, <1>3

LEMMA AppendAt ==
  ASSUME NEW S, NEW q \in Seq(S), NEW x \in S
  PROVE  /\ Append(q, x) \in Seq(S)
         /\ Len(q) \in Nat /\ Len(Append(q, x)) = Len(q) + 1
         /\ \A i \in 1 .. Len(q) : i \in 1 .. Len(Append(q, x)) /\ Append(q, x)[i] = q[i]
         /\ Len(q) + 1 \in 1 .. Len(Append(q, x)) /\ Append(q, x)[Len(q) + 1] = x
<1>1. /\ Append(q, x) \in Seq(S) /\ Len(Append(q, x)) = Len(q) + 1
      /\ \A i \in 1 .. Len(q) : Append(q, x)[i] = q[i]
      /\ Append(q, x)[Len(q) + 1] = x
  BY AppendProperties
<1>2. Len(q) \in Nat
  BY LenProperties
<1>3. Len(q) + 1 \in 1 .. Len(q) + 1 /\ \A i \in 1 .. Len(q) : i \in 1 .. Len(q) + 1
  BY <1>2
<1> QED
  BY <1>1, <1>2, <1>3

\* What is sent to the manager thread is a message, and the line has room.
LEMMA Sent ==
  ASSUME Typed, NEW msg \in Message, SendToDcu(msg)
  PROVE  toDcu' \in Seq(Message) /\ Len(toDcu') <= LineLen
<1>1. toDcu' = Append(toDcu, msg) /\ Len(toDcu) < LineLen
  BY DEF SendToDcu
<1>2. toDcu' \in Seq(Message) /\ Len(toDcu') = Len(toDcu) + 1 /\ Len(toDcu) \in Nat
  BY <1>1, AppendAt DEF Typed
<1> QED
  BY <1>1, <1>2, BringupAssumption

LEMMA Taken ==
  ASSUME Typed, toDcu # <<>>
  PROVE  /\ Tail(toDcu) \in Seq(Message) /\ Len(Tail(toDcu)) <= LineLen
         /\ Head(toDcu) \in Message
<1>1. /\ Tail(toDcu) \in Seq(Message) /\ Head(toDcu) \in Message
      /\ Len(Tail(toDcu)) = Len(toDcu) - 1 /\ Len(toDcu) \in Nat /\ Len(toDcu) <= LineLen
  BY TailAt DEF Typed
<1> QED
  BY <1>1, BringupAssumption

LEMMA Commanded ==
  ASSUME Typed, NEW c \in Commands, SendToCp(c)
  PROVE  toCp' \in Seq(Commands)
  BY AppendAt DEF Typed, SendToCp

LEMMA CommandTaken ==
  ASSUME Typed, toCp # <<>>
  PROVE  Tail(toCp) \in Seq(Commands) /\ Head(toCp) \in Commands
  BY TailAt DEF Typed

\* What a message of each kind carries.
LEMMA MessageFields ==
  ASSUME NEW msg \in Message
  PROVE  /\ msg.kind \in {"ok", "connect", "calibrate"}
         /\ msg.kind = "ok" => msg.of \in Answered
         /\ msg.kind = "connect" => msg.module \in Modules
         /\ msg.kind = "calibrate" => msg.module \in Modules /\ msg.stage \in Stages
  BY DEF Message

LEMMA TypedInit == Init => Typed
<1> SUFFICES ASSUME Init PROVE Typed
  OBVIOUS
<1> USE DEF Init
<1>1. toCp \in Seq(Commands) /\ toDcu \in Seq(Message) /\ Len(toDcu) = 0
  BY EmptySeq
<1>2. calibrated \in [Modules -> Stages] /\ [k \in Modules |-> "none"] \in [Modules -> Stages]
  BY DEF Stages
<1>3. cp \in [given : SUBSET Commands, order : Seq(Modules), down : SUBSET Modules,
             missing : SUBSET Modules, started : BOOLEAN,
              stage : [Modules -> Stages]]
  BY <1>2, EmptySeq
<1>4. /\ count \in [list : 0 .. MaxModules, connected : 0 .. MaxModules,
                    calibrated : 0 .. MaxModules, rate : 0 .. MaxModules, type : 0 .. MaxModules]
      /\ boot \in 0 .. MaxModules /\ n \in 0 .. MaxModules
  BY BringupAssumption
<1>5. typeGiven \in BOOLEAN /\ calibrateIMUs \in BOOLEAN /\ tabletTime \in BOOLEAN
  OBVIOUS
<1>6. /\ init \in {"loop", "tablet", "start", "done"} /\ nrf \in {"decode", "delay"}
      /\ lost \subseteq Commands \cup {"ok", "connect"}
      /\ relinks \in Nat /\ drops \in Nat /\ uploads \in Nat /\ Len(toDcu) <= LineLen
  BY <1>1, BringupAssumption
<1> QED
  BY <1>1, <1>2, <1>3, <1>4, <1>5, <1>6 DEF Typed

CountTypes ==
  [list : 0 .. MaxModules, connected : 0 .. MaxModules,
   calibrated : 0 .. MaxModules, rate : 0 .. MaxModules, type : 0 .. MaxModules]

\* A counter set to numberOfModules stays in range.
LEMMA CountTyped ==
  ASSUME Typed, NEW c \in Counters
  PROVE  [count EXCEPT ![c] = n] \in CountTypes
  BY DEF Typed, Counters, CountTypes

\* The handlers of nRF52ComManagerThread keep the types.
LEMMA TypedHandlers == Typed /\ NrfThread => Typed'
<1> SUFFICES ASSUME Typed, NrfThread PROVE Typed'
  OBVIOUS
<1>1. ASSUME NEW kind, Handle(kind)
      PROVE  /\ toDcu' \in Seq(Message) /\ Len(toDcu') <= LineLen
             /\ Head(toDcu) \in Message /\ Head(toDcu).kind = kind
             /\ UNCHANGED <<boot, init, calibrateIMUs, tabletTime, toCp, cp, lost, relinks, drops,
                           uploads>>
  BY <1>1, Taken DEF Handle
<1>2. CASE HandleOk
  <2>1. Head(toDcu).of \in Answered
    BY <1>1, <1>2, MessageFields DEF HandleOk
  <2>2. count' = [count EXCEPT ![Head(toDcu).of] = n]
    BY <1>2 DEF HandleOk
  <2>3. typeGiven' \in BOOLEAN
    BY <1>2 DEF HandleOk
  <2>4. count' \in CountTypes
    BY <2>1, <2>2, CountTyped DEF Answered, Counters
  <2>5. UNCHANGED <<nrf, n, connected, sequence, nextSequence, calibrated>>
    BY <1>2 DEF HandleOk
  <2> QED
    BY <1>1, <1>2, <2>3, <2>4, <2>5 DEF HandleOk, Typed, CountTypes
<1>3. CASE HandleConnect
  <2>1. nrf' \in {"decode", "delay"}
    BY <1>3 DEF HandleConnect, Typed
  <2>2. count' = count \/ count' = [count EXCEPT !.connected = n]
    BY <1>3 DEF HandleConnect
  <2>3. count' \in CountTypes
    BY <2>2, CountTyped DEF Typed, Counters, CountTypes
  <2> QED
    BY <1>1, <1>3, <2>1, <2>3 DEF HandleConnect, Typed, CountTypes
<1>4. CASE HandleCalibrate
  <2>1. Head(toDcu).module \in Modules /\ Head(toDcu).stage \in Stages
    BY <1>1, <1>4, MessageFields DEF HandleCalibrate
  <2>2. calibrated' \in [Modules -> Stages]
    BY <1>4, <2>1 DEF HandleCalibrate, Typed
  <2>3. count' = count \/ count' = [count EXCEPT !.calibrated = n]
    BY <1>4 DEF HandleCalibrate
  <2>4. count' \in CountTypes
    BY <2>3, CountTyped DEF Typed, Counters, CountTypes
  <2> QED
    BY <1>1, <1>4, <2>2, <2>4 DEF HandleCalibrate, Typed, CountTypes
<1>5. CASE DelayEnds
  <2>1. toCp' \in Seq(Commands)
    BY <1>5, Commanded DEF DelayEnds, Commands, Typed
  <2>2. calibrated' \in [Modules -> Stages]
    BY <1>5 DEF DelayEnds, Typed, Stages
  <2>3. count' = count \/ count' = [count EXCEPT !.calibrated = n]
    BY <1>5 DEF DelayEnds
  <2>4. count' \in CountTypes
    BY <2>3, CountTyped DEF Typed, Counters, CountTypes
  <2> QED
    BY <1>5, <2>1, <2>2, <2>4 DEF DelayEnds, Typed, CountTypes
<1> QED
  BY <1>2, <1>3, <1>4, <1>5 DEF NrfThread

CpType ==
  [given : SUBSET Commands, order : Seq(Modules), down : SUBSET Modules,
   missing : SUBSET Modules, started : BOOLEAN, stage : [Modules -> Stages]]

\* A sensor's report, whatever the coprocessor makes of it, keeps the types.
LEMMA TypedReport ==
  ASSUME Typed, toDcu' \in Seq(Message), Len(toDcu') <= LineLen, cp' \in CpType,
         relinks' \in Nat, drops' \in Nat,
         UNCHANGED <<boot, init, nrf, dcuVars, calibrateIMUs, tabletTime, toCp, lost, uploads>>
  PROVE  Typed'
  BY DEF Typed, CpType, dcuVars

\* The coprocessor keeps the types.
LEMMA TypedCoprocessor ==
  ASSUME Typed,
         \/ CpReceive
         \/ \E k \in Modules : \/ SensorLinks(k) \/ SensorLinksAgain(k)
                                \/ SensorNotConnected(k) \/ SensorCalibrates(k)
  PROVE  Typed'
<1>1. CASE CpReceive
  <2>1. toCp' \in Seq(Commands) /\ Head(toCp) \in Commands
    BY <1>1, CommandTaken DEF CpReceive
  <2>2. CASE Head(toCp) \in Answered
    <3>1. /\ cp' = [cp EXCEPT !.given = @ \cup {Head(toCp)}]
          /\ SendToDcu([kind |-> "ok", of |-> Head(toCp)])
      BY <1>1, <2>2 DEF CpReceive, Answered
    <3>2. [kind |-> "ok", of |-> Head(toCp)] \in Message
      BY <2>2 DEF Message
    <3>3. toDcu' \in Seq(Message) /\ Len(toDcu') <= LineLen
      BY <3>1, <3>2, Sent
    <3>4. cp' \in CpType
      BY <2>1, <3>1 DEF CpType, Typed
    <3> QED
      BY <1>1, <2>1, <3>3, <3>4 DEF CpReceive, Typed, dcuVars, CpType
  <2>3. CASE Head(toCp) \notin Answered
    <3>1. [k \in Modules |-> "none"] \in [Modules -> Stages]
      BY DEF Stages
    <3>2. /\ UNCHANGED toDcu
          /\ \/ cp' = [cp EXCEPT !.started = TRUE]
             \/ cp' = [cp EXCEPT !.stage = [k \in Modules |-> "none"],
                                 !.given = @ \cup {Head(toCp)}]
      BY <1>1, <2>3 DEF CpReceive, Answered
    <3>3. [cp EXCEPT !.started = TRUE] \in CpType
      BY DEF CpType, Typed
    <3>4. [cp EXCEPT !.stage = [k \in Modules |-> "none"],
                     !.given = @ \cup {Head(toCp)}] \in CpType
      <4> DEFINE none == [k \in Modules |-> "none"]
      <4> HIDE DEF none
      <4>1. none \in [Modules -> Stages]
        BY <3>1 DEF none
      <4>2. [cp EXCEPT !.stage = none, !.given = @ \cup {Head(toCp)}] \in CpType
        BY <2>1, <4>1 DEF CpType, Typed
      <4> QED
        BY <4>2 DEF none
    <3>5. cp' \in CpType
      BY <3>2, <3>3, <3>4
    <3> QED
      BY <1>1, <2>1, <3>2, <3>5 DEF CpReceive, Typed, dcuVars, CpType
  <2> QED
    BY <2>2, <2>3
<1>2. ASSUME NEW k \in Modules, SensorLinks(k) PROVE Typed'
  <2>1. toDcu' \in Seq(Message) /\ Len(toDcu') <= LineLen
    BY <1>2, Sent DEF SensorLinks, Message
  <2>2. Append(cp.order, k) \in Seq(Modules)
    BY AppendAt DEF Typed
  <2>3. cp' \in CpType
    BY <1>2, <2>2 DEF CpType, SensorLinks, Typed
  <2> QED
    BY <1>2, <2>1, <2>3 DEF SensorLinks, Typed, dcuVars, CpType
<1>3. ASSUME NEW k \in Modules, SensorLinksAgain(k) PROVE Typed'
  <2>1. toDcu' \in Seq(Message) /\ Len(toDcu') <= LineLen
    BY <1>3, Sent DEF SensorLinksAgain, Message
  <2>2. cp' \in CpType
    <3>1. cp \in CpType /\ cp.down \ {k} \in SUBSET Modules
      BY DEF Typed, CpType
    <3>2. cp' = [cp EXCEPT !.down = cp.down \ {k}]
      BY <1>3 DEF SensorLinksAgain
    <3> QED
      BY <3>1, <3>2 DEF CpType
  <2>3. relinks' \in Nat /\ drops' \in Nat
    BY <1>3 DEF SensorLinksAgain, Typed
  <2> QED
    BY <1>3, <2>1, <2>2, <2>3, TypedReport DEF SensorLinksAgain
<1>4. ASSUME NEW k \in Modules, SensorCalibrates(k) PROVE Typed'
  <2> DEFINE stage == IF cp.stage[k] = "none" THEN "busy" ELSE "done"
  <2>1. stage \in Stages
    BY DEF Stages
  <2>2. /\ cp' = [cp EXCEPT !.stage[k] = stage]
        /\ SendToDcu([kind |-> "calibrate", module |-> k, stage |-> stage])
    BY <1>4 DEF SensorCalibrates
  <2> HIDE DEF stage
  <2>3. [kind |-> "calibrate", module |-> k, stage |-> stage] \in Message
    BY <2>1 DEF Message
  <2>4. toDcu' \in Seq(Message) /\ Len(toDcu') <= LineLen
    BY <2>2, <2>3, Sent
  <2>5. cp' \in CpType
    BY <2>1, <2>2 DEF CpType, Typed
  <2> QED
    BY <1>4, <2>4, <2>5 DEF SensorCalibrates, Typed, dcuVars, CpType
<1>5. ASSUME NEW k \in Modules, SensorNotConnected(k) PROVE Typed'
  <2>1. toDcu' \in Seq(Message) /\ Len(toDcu') <= LineLen
    BY <1>5, Sent DEF SensorNotConnected, Message
  <2>2. cp' \in CpType
    <3>1. \/ cp' = [cp EXCEPT !.down = @ \cup {k}]
          \/ cp' = [cp EXCEPT !.missing = @ \cup {k}]
      BY <1>5 DEF SensorNotConnected
    <3>2. /\ cp \in CpType /\ cp.down \cup {k} \in SUBSET Modules
          /\ cp.missing \cup {k} \in SUBSET Modules
      BY DEF Typed, CpType
    <3> QED
      BY <3>1, <3>2 DEF CpType
  <2>3. relinks' \in Nat /\ drops' \in Nat
    BY <1>5 DEF SensorNotConnected, Typed
  <2> QED
    BY <1>5, <2>1, <2>2, <2>3, TypedReport DEF SensorNotConnected
<1> QED
  BY <1>1, <1>2, <1>3, <1>4, <1>5

LEMMA TypedNext == Typed /\ [Next]_vars => Typed'
<1> SUFFICES ASSUME Typed, [Next]_vars PROVE Typed'
  OBVIOUS
<1>1. CASE InitThread
  <2>1. toCp' \in Seq(Commands)
    BY <1>1, Commanded
    DEF InitThread, SendPhaseCommand, AllPhasesPassed, TabletTimeSeen, StartMeasurement,
        Commands, Typed
  <2>2. init' \in {"loop", "tablet", "start", "done"} /\ tabletTime' \in BOOLEAN
    BY <1>1 DEF InitThread, SendPhaseCommand, AllPhasesPassed, TabletTimeSeen,
                StartMeasurement, Typed
  <2>3. UNCHANGED <<boot, nrf, dcuVars, calibrateIMUs, toDcu, cp, lost, relinks, drops, uploads>>
    BY <1>1 DEF InitThread, SendPhaseCommand, AllPhasesPassed, TabletTimeSeen, StartMeasurement
  <2> QED
    BY <2>1, <2>2, <2>3 DEF Typed, dcuVars
<1>2. CASE NrfThread
  BY <1>2, TypedHandlers
<1>3. CASE ButtonPressed \/ TabletSetsTime
  BY <1>3 DEF ButtonPressed, TabletSetsTime, Typed, dcuVars
<1>4. CASE SetupUploaded
  <2>1. n' \in 0 .. MaxModules /\ uploads' \in Nat
    BY <1>4, BringupAssumption DEF SetupUploaded, Modules, Typed
  <2> QED
    BY <1>4, <2>1 DEF SetupUploaded, Typed
<1>5. CASE Lose
  <2>1. CASE toCp # <<>> /\ toCp' = Tail(toCp) /\ lost' = lost \cup {Head(toCp)} /\ UNCHANGED toDcu
    BY <1>5, <2>1, CommandTaken DEF Lose, Typed, dcuVars
  <2>2. CASE /\ toDcu # <<>> /\ toDcu' = Tail(toDcu)
             /\ lost' = lost \cup {Head(toDcu).kind} /\ UNCHANGED toCp
    <3>1. Head(toDcu).kind \in Commands \cup {"ok", "connect"}
      BY <2>2, Taken, MessageFields DEF Commands
    <3> QED
      BY <1>5, <2>2, <3>1, Taken DEF Lose, Typed, dcuVars
  <2> QED
    BY <1>5, <2>1, <2>2 DEF Lose
<1>6. CASE \/ CpReceive
           \/ \E k \in Modules : \/ SensorLinks(k) \/ SensorLinksAgain(k)
                                  \/ SensorNotConnected(k) \/ SensorCalibrates(k)
  BY <1>6, TypedCoprocessor
<1>7. CASE UNCHANGED vars
  BY <1>7 DEF vars, dcuVars, Typed
<1> QED
  BY <1>1, <1>2, <1>3, <1>4, <1>5, <1>6, <1>7 DEF Next

\* No more numbers are given than there are modules.
LEMMA NumberingFits == NumberingOK => nextSequence <= MaxModules + 1
<1> SUFFICES ASSUME NumberingOK PROVE nextSequence <= MaxModules + 1
  OBVIOUS
<1> DEFINE holder == [s \in 1 .. nextSequence - 1 |->
                        CHOOSE k \in Modules : connected[k] /\ sequence[k] = s]
<1>1. ASSUME NEW s \in 1 .. nextSequence - 1
      PROVE  holder[s] \in Modules /\ sequence[holder[s]] = s
  <2>1. \E k \in Modules : connected[k] /\ sequence[k] = s
    BY DEF NumberingOK
  <2> QED
    BY <2>1
<1>2. holder \in [1 .. nextSequence - 1 -> Modules]
  BY <1>1
<1>3. \A s, t \in 1 .. nextSequence - 1 : holder[s] = holder[t] => s = t
  BY <1>1
<1> HIDE DEF holder
<1>4. holder \in Injection(1 .. nextSequence - 1, Modules)
  BY <1>2, <1>3 DEF Injection, IsInjective
<1>5. nextSequence \in Nat /\ nextSequence > 0 /\ MaxModules \in Nat
  BY BringupAssumption DEF NumberingOK
<1>6. /\ IsFiniteSet(Modules) /\ Cardinality(Modules) = MaxModules
      /\ Cardinality(1 .. nextSequence - 1) = nextSequence - 1
  BY <1>5, FS_Interval DEF Modules
<1>7. Cardinality(1 .. nextSequence - 1) <= Cardinality(Modules)
  BY <1>4, <1>6, FS_Injection
<1> QED
  BY <1>5, <1>6, <1>7

\* Every variable keeps its type, for every setup, line and number of losses.
THEOREM TypeCorrect == Spec => []TypeOK
<1>1. ASSUME Typed, IInv PROVE TypeOK
  <2>1. nextSequence \in 1 .. MaxModules + 1
    BY <1>1, NumberingFits, BringupAssumption DEF IInv, NumberingOK
  <2>2. ASSUME NEW k \in Modules PROVE sequence[k] \in 0 .. MaxModules
    <3>1. connected[k] => sequence[k] \in 1 .. nextSequence - 1
      BY <1>1 DEF IInv, NumberingOK
    <3>2. ~connected[k] => sequence[k] = 0
      BY <1>1 DEF IInv, NumberingOK
    <3> QED
      BY <2>1, <3>1, <3>2, BringupAssumption
  <2>3. sequence \in [Modules -> 0 .. MaxModules]
    BY <1>1, <2>2 DEF IInv, NumberingOK
  <2> QED
    BY <1>1, <2>1, <2>3 DEF Typed, IInv, NumberingOK, TypeOK
<1>2. Typed /\ IInv => TypeOK
  BY <1>1
<1> QED
  BY <1>2, TypedInit, TypedNext, InitInv, NextInv, PTL DEF Spec

-----------------------------------------------------------------------------
(* The line announces the modules in the order in which they linked. *)

\* Taking a message from the line, when it is not the announcement of a module
\* that is still to be numbered.
LEMMA AnnouncesTail ==
  ASSUME NEW q \in Seq(Message), q # <<>>, NEW o \in Seq(Modules),
         NEW s \in Nat, NEW s1 \in {s, s + 1}, Announces(q, o, s),
         \A r \in s1 .. Len(o) : ~Says(q, 1, o[r])
  PROVE  Announces(Tail(q), o, s1)
<1> DEFINE t == Tail(q)
<1>1. /\ Len(q) \in Nat /\ Len(t) = Len(q) - 1 /\ Len(o) \in Nat
      /\ \A i \in 1 .. Len(t) : i + 1 \in 1 .. Len(q) /\ t[i] = q[i + 1]
  BY TailAt, LenProperties
<1> HIDE DEF t
<1>2. ASSUME NEW j \in 2 .. Len(q) PROVE j - 1 \in 1 .. Len(t) /\ t[j - 1] = q[j]
  BY <1>1
<1>3. ASSUME NEW i \in 1 .. Len(t), t[i].kind = "connect"
      PROVE  \E p \in 1 .. Len(o) :
               /\ t[i].module = o[p]
               /\ \A r \in s1 .. p - 1 : \E j \in 1 .. i - 1 : Says(t, j, o[r])
  <2>1. i + 1 \in 1 .. Len(q) /\ t[i] = q[i + 1] /\ (i + 1) - 1 = i
    BY <1>1
  <2>2. PICK p \in 1 .. Len(o) :
          /\ q[i + 1].module = o[p]
          /\ \A r \in s .. p - 1 : \E j \in 1 .. i : Says(q, j, o[r])
    BY <1>3, <2>1 DEF Announces
  <2>3. ASSUME NEW r \in s1 .. p - 1 PROVE \E j \in 1 .. i - 1 : Says(t, j, o[r])
    <3>1. r \in s .. p - 1 /\ r \in s1 .. Len(o)
      BY <1>1
    <3>2. PICK j \in 1 .. i : Says(q, j, o[r])
      BY <2>2, <3>1
    <3>3. j # 1
      BY <3>1, <3>2
    <3>4. j \in 2 .. Len(q) /\ j - 1 \in 1 .. i - 1
      BY <1>1, <3>3
    <3> QED
      BY <1>2, <3>2, <3>4 DEF Says
  <2> QED
    BY <2>1, <2>2, <2>3
<1>4. ASSUME NEW r \in s1 .. Len(o) PROVE \E j \in 1 .. Len(t) : Says(t, j, o[r])
  <2>1. r \in s .. Len(o)
    BY <1>1
  <2>2. PICK j \in 1 .. Len(q) : Says(q, j, o[r])
    BY <2>1 DEF Announces
  <2>3. j \in 2 .. Len(q)
    BY <2>2
  <2> QED
    BY <1>2, <2>2, <2>3 DEF Says
<1> QED
  BY <1>3, <1>4 DEF Announces, t

\* Putting a message on the line that announces no module, or one that the
\* order already holds.
LEMMA AnnouncesAppend ==
  ASSUME NEW q \in Seq(Message), NEW o \in Seq(Modules), NEW s \in Nat,
         NEW msg \in Message, Announces(q, o, s), s > 0,
         msg.kind = "connect" => \E p \in 1 .. Len(o) : msg.module = o[p]
  PROVE  Announces(Append(q, msg), o, s)
<1> DEFINE a == Append(q, msg)
<1>1. /\ Len(q) \in Nat /\ Len(a) = Len(q) + 1 /\ Len(o) \in Nat
      /\ \A i \in 1 .. Len(q) : i \in 1 .. Len(a) /\ a[i] = q[i]
      /\ a[Len(q) + 1] = msg
  BY AppendAt, LenProperties
<1> HIDE DEF a
<1>2. ASSUME NEW r \in s .. Len(o) PROVE \E j \in 1 .. Len(q) : Says(a, j, o[r])
  <2>1. PICK j \in 1 .. Len(q) : Says(q, j, o[r])
    BY DEF Announces
  <2> QED
    BY <1>1, <2>1 DEF Says
<1>3. ASSUME NEW i \in 1 .. Len(a), a[i].kind = "connect"
      PROVE  \E p \in 1 .. Len(o) :
               /\ a[i].module = o[p]
               /\ \A r \in s .. p - 1 : \E j \in 1 .. i - 1 : Says(a, j, o[r])
  <2>1. CASE i \in 1 .. Len(q)
    <3>1. a[i] = q[i] /\ \A j \in 1 .. i - 1 : a[j] = q[j]
      BY <1>1, <2>1
    <3>2. PICK p \in 1 .. Len(o) :
            /\ q[i].module = o[p]
            /\ \A r \in s .. p - 1 : \E j \in 1 .. i - 1 : Says(q, j, o[r])
      BY <1>3, <2>1, <3>1 DEF Announces
    <3>3. ASSUME NEW r \in s .. p - 1 PROVE \E j \in 1 .. i - 1 : Says(a, j, o[r])
      <4>1. PICK j \in 1 .. i - 1 : Says(q, j, o[r])
        BY <3>2
      <4> QED
        BY <3>1, <4>1 DEF Says
    <3> QED
      BY <3>1, <3>2, <3>3
  <2>2. CASE i = Len(q) + 1
    <3>1. PICK p \in 1 .. Len(o) : a[i].module = o[p]
      BY <1>1, <1>3, <2>2
    <3>2. \A r \in s .. p - 1 : r \in s .. Len(o)
      BY <1>1
    <3>3. 1 .. i - 1 = 1 .. Len(q)
      BY <1>1, <2>2
    <3> QED
      BY <1>2, <3>1, <3>2, <3>3
  <2>3. i \in 1 .. Len(q) \/ i = Len(q) + 1
    BY <1>1
  <2> QED
    BY <2>1, <2>2, <2>3
<1>4. ASSUME NEW r \in s .. Len(o) PROVE \E j \in 1 .. Len(a) : Says(a, j, o[r])
  BY <1>1, <1>2
<1> QED
  BY <1>3, <1>4 DEF Announces, a

\* A module links: it is the last of the order and the last announced.
LEMMA AnnouncesLink ==
  ASSUME NEW q \in Seq(Message), NEW o \in Seq(Modules), NEW s \in Nat, s > 0,
         NEW k \in Modules, Announces(q, o, s), s <= Len(o) + 1
  PROVE  Announces(Append(q, [kind |-> "connect", module |-> k, up |-> TRUE]), Append(o, k), s)
<1> DEFINE msg == [kind |-> "connect", module |-> k, up |-> TRUE]
           a == Append(q, msg)
           b == Append(o, k)
<1>0. msg \in Message /\ msg.kind = "connect" /\ msg.module = k
  BY DEF Message
<1> HIDE DEF msg
<1>1. /\ Len(q) \in Nat /\ Len(a) = Len(q) + 1
      /\ \A i \in 1 .. Len(q) : i \in 1 .. Len(a) /\ a[i] = q[i]
      /\ a[Len(q) + 1] = msg /\ Len(q) + 1 \in 1 .. Len(a)
  BY <1>0, AppendAt
<1>2. /\ Len(o) \in Nat /\ Len(b) = Len(o) + 1
      /\ \A i \in 1 .. Len(o) : i \in 1 .. Len(b) /\ b[i] = o[i]
      /\ b[Len(o) + 1] = k /\ Len(o) + 1 \in 1 .. Len(b)
  BY AppendAt
<1> HIDE DEF a, b
<1>3. ASSUME NEW r \in s .. Len(o) PROVE \E j \in 1 .. Len(q) : Says(a, j, b[r])
  <2>1. PICK j \in 1 .. Len(q) : Says(q, j, o[r])
    BY DEF Announces
  <2>2. r \in 1 .. Len(o)
    BY <1>2
  <2>3. a[j] = q[j] /\ b[r] = o[r]
    BY <1>1, <1>2, <2>2
  <2> QED
    BY <2>1, <2>3 DEF Says
<1>4. ASSUME NEW i \in 1 .. Len(a), a[i].kind = "connect"
      PROVE  \E p \in 1 .. Len(b) :
               /\ a[i].module = b[p]
               /\ \A r \in s .. p - 1 : \E j \in 1 .. i - 1 : Says(a, j, b[r])
  <2>1. CASE i \in 1 .. Len(q)
    <3>1. a[i] = q[i] /\ \A j \in 1 .. i - 1 : a[j] = q[j]
      BY <1>1, <2>1
    <3>2. PICK p \in 1 .. Len(o) :
            /\ q[i].module = o[p]
            /\ \A r \in s .. p - 1 : \E j \in 1 .. i - 1 : Says(q, j, o[r])
      BY <1>4, <2>1, <3>1 DEF Announces
    <3>3. p \in 1 .. Len(b) /\ b[p] = o[p] /\ \A r \in s .. p - 1 : b[r] = o[r]
      BY <1>2
    <3>4. ASSUME NEW r \in s .. p - 1 PROVE \E j \in 1 .. i - 1 : Says(a, j, b[r])
      <4>1. PICK j \in 1 .. i - 1 : Says(q, j, o[r])
        BY <3>2
      <4> QED
        BY <3>1, <3>3, <4>1 DEF Says
    <3>5. a[i].module = b[p]
      BY <3>1, <3>2, <3>3
    <3> QED
      BY <3>3, <3>4, <3>5
  <2>2. CASE i = Len(q) + 1
    <3>1. PICK e \in 1 .. Len(b) : e = Len(o) + 1
      BY <1>2
    <3>2. a[i].module = b[e]
      BY <1>0, <1>1, <1>2, <2>2, <3>1
    <3>3. s .. e - 1 = s .. Len(o) /\ 1 .. i - 1 = 1 .. Len(q)
      BY <1>1, <1>2, <2>2, <3>1
    <3>4. \A r \in s .. e - 1 : \E j \in 1 .. i - 1 : Says(a, j, b[r])
      BY <1>3, <3>3
    <3> QED
      BY <3>2, <3>4
  <2>3. i \in 1 .. Len(q) \/ i = Len(q) + 1
    BY <1>1
  <2> QED
    BY <2>1, <2>2, <2>3
<1>5. ASSUME NEW r \in s .. Len(b) PROVE \E j \in 1 .. Len(a) : Says(a, j, b[r])
  <2>1. CASE r \in s .. Len(o)
    BY <1>1, <1>3, <2>1
  <2>2. CASE r = Len(o) + 1
    BY <1>0, <1>1, <1>2, <2>2 DEF Says
  <2> QED
    BY <1>2, <2>1, <2>2
<1> QED
  BY <1>4, <1>5 DEF Announces, a, b, msg

\* A connect status at the head of the line: its module is new exactly when it
\* is the next one of the order.
LEMMA HeadIsNext ==
  ASSUME Typed, NumberingOK, OrderKept, toDcu # <<>>, Head(toDcu).kind = "connect",
         NEW k \in Modules, k = Head(toDcu).module, ~connected[k]
  PROVE  nextSequence \in 1 .. Len(cp.order) /\ cp.order[nextSequence] = k
<1>1. toDcu[1] = Head(toDcu) /\ 1 \in 1 .. Len(toDcu) /\ Len(cp.order) \in Nat
  BY TailAt, LenProperties DEF Typed
<1>2. PICK p \in 1 .. Len(cp.order) :
        /\ k = cp.order[p]
        /\ \A r \in nextSequence .. p - 1 : \E j \in 1 .. 1 - 1 : Says(toDcu, j, cp.order[r])
  BY <1>1 DEF OrderKept, Announces
<1>3. nextSequence \in Nat /\ nextSequence > 0
  BY DEF NumberingOK
<1>4. ~(p > nextSequence)
  <2>1. SUFFICES ASSUME p > nextSequence PROVE FALSE
    OBVIOUS
  <2>2. nextSequence \in nextSequence .. p - 1
    BY <1>3, <2>1
  <2>3. 1 .. 1 - 1 = {}
    OBVIOUS
  <2> QED
    BY <1>2, <2>2, <2>3
<1>5. ~(p < nextSequence)
  <2>1. SUFFICES ASSUME p < nextSequence PROVE FALSE
    OBVIOUS
  <2>2. p \in 1 .. nextSequence - 1
    BY <1>3, <2>1
  <2>3. PICK m \in Modules : connected[m] /\ sequence[m] = p
    BY <2>2 DEF NumberingOK
  <2>4. cp.order[p] = m
    BY <2>3 DEF OrderKept
  <2> QED
    BY <1>2, <2>3, <2>4
<1>6. p = nextSequence
  BY <1>1, <1>3, <1>4, <1>5
<1> QED
  BY <1>2, <1>6

\* nRF52ComManagerThread handles a connect status.
LEMMA OrderConnect == Typed /\ NumberingOK /\ OrderKept /\ HandleConnect => OrderKept'
<1> SUFFICES ASSUME Typed, NumberingOK, OrderKept, HandleConnect PROVE OrderKept'
  OBVIOUS
<1> DEFINE k == Head(toDcu).module
<1>1. /\ toDcu # <<>> /\ Head(toDcu).kind = "connect" /\ toDcu' = Tail(toDcu)
      /\ UNCHANGED <<n, boot, cp>>
  BY DEF HandleConnect, Handle
<1>2. /\ toDcu \in Seq(Message) /\ cp.order \in Seq(Modules)
      /\ nextSequence \in Nat /\ nextSequence > 0 /\ Len(cp.order) \in Nat
      /\ toDcu[1] = Head(toDcu) /\ Head(toDcu) \in Message /\ 1 \in 1 .. Len(toDcu)
  BY <1>1, TailAt, LenProperties DEF Typed, NumberingOK
<1>3. k \in Modules
  BY <1>1, <1>2, MessageFields
<1>4. PICK at \in 1 .. Len(cp.order) : k = cp.order[at]
  BY <1>1, <1>2 DEF OrderKept, Announces
<1>5. k <= n
  BY <1>4 DEF OrderKept
<1> HIDE DEF k
<1>6. CASE connected[k]
  <2>1. UNCHANGED <<connected, sequence, nextSequence>>
    BY <1>6 DEF HandleConnect, IsNew, k
  <2>2. sequence[k] \in 1 .. nextSequence - 1 /\ cp.order[sequence[k]] = k
    BY <1>3, <1>6 DEF NumberingOK, OrderKept
  <2>3. ASSUME NEW r \in nextSequence .. Len(cp.order), Says(toDcu, 1, cp.order[r])
        PROVE  FALSE
    <3>1. cp.order[r] = k
      BY <1>2, <2>3 DEF Says, k
    <3>2. /\ r \in 1 .. Len(cp.order) /\ sequence[k] \in 1 .. Len(cp.order)
          /\ r # sequence[k]
      BY <1>2, <2>2 DEF OrderKept
    <3> QED
      BY <2>2, <3>1, <3>2 DEF OrderKept
  <2>4. Announces(Tail(toDcu), cp.order, nextSequence)
    BY <1>1, <1>2, <2>3, AnnouncesTail DEF OrderKept
  <2> QED
    BY <1>1, <2>1, <2>4 DEF OrderKept
<1>7. CASE ~connected[k]
  <2>1. /\ connected' = [connected EXCEPT ![k] = TRUE]
        /\ sequence' = [sequence EXCEPT ![k] = nextSequence]
        /\ nextSequence' = nextSequence + 1
    BY <1>5, <1>7 DEF HandleConnect, IsNew, SequenceOf, k
  <2>2. nextSequence \in 1 .. Len(cp.order) /\ cp.order[nextSequence] = k
    BY <1>1, <1>3, <1>7, HeadIsNext DEF k
  <2>3. ASSUME NEW r \in nextSequence + 1 .. Len(cp.order), Says(toDcu, 1, cp.order[r])
        PROVE  FALSE
    <3>1. cp.order[r] = k
      BY <1>2, <2>3 DEF Says, k
    <3>2. r \in 1 .. Len(cp.order) /\ r # nextSequence
      BY <1>2
    <3> QED
      BY <2>2, <3>1, <3>2 DEF OrderKept
  <2>4. Announces(Tail(toDcu), cp.order, nextSequence + 1)
    BY <1>1, <1>2, <2>3, AnnouncesTail DEF OrderKept
  <2>5. ASSUME NEW m \in Modules, connected'[m] PROVE cp.order[sequence'[m]] = m
    <3>1. CASE m = k
      BY <1>3, <2>1, <2>2, <3>1 DEF NumberingOK
    <3>2. CASE m # k
      BY <1>3, <2>1, <2>5, <3>2 DEF NumberingOK, OrderKept
    <3> QED
      BY <3>1, <3>2
  <2>6. nextSequence' <= Len(cp.order) + 1
    BY <1>2, <2>1, <2>2
  <2> QED
    BY <1>1, <2>1, <2>4, <2>5, <2>6 DEF OrderKept
<1> QED
  BY <1>6, <1>7

\* A message that is no connect status leaves the line, handled or lost.
LEMMA OrderTail ==
  ASSUME Typed, NumberingOK, OrderKept, toDcu # <<>>, Head(toDcu).kind # "connect",
         toDcu' = Tail(toDcu), UNCHANGED <<n, boot, cp, connected, sequence, nextSequence>>
  PROVE  OrderKept'
<1>1. /\ toDcu \in Seq(Message) /\ cp.order \in Seq(Modules) /\ nextSequence \in Nat
      /\ toDcu[1] = Head(toDcu)
  BY TailAt DEF Typed, NumberingOK
<1>2. \A r \in nextSequence .. Len(cp.order) : ~Says(toDcu, 1, cp.order[r])
  BY <1>1 DEF Says
<1>3. Announces(Tail(toDcu), cp.order, nextSequence)
  BY <1>1, <1>2, AnnouncesTail DEF OrderKept
<1> QED
  BY <1>3 DEF OrderKept

\* A message is put on the line that announces no new module.
LEMMA OrderAppend ==
  ASSUME Typed, NumberingOK, OrderKept, NEW msg \in Message, SendToDcu(msg),
         msg.kind = "connect" => msg.module \in Linked,
         UNCHANGED <<n, boot, connected, sequence, nextSequence>>, cp'.order = cp.order
  PROVE  OrderKept'
<1>1. /\ toDcu \in Seq(Message) /\ cp.order \in Seq(Modules)
      /\ nextSequence \in Nat /\ nextSequence > 0
  BY DEF Typed, NumberingOK
<1>2. msg.kind = "connect" => \E p \in 1 .. Len(cp.order) : msg.module = cp.order[p]
  BY <1>1, LenProperties DEF Linked
<1>3. toDcu' = Append(toDcu, msg)
  BY DEF SendToDcu
<1>4. Announces(toDcu', cp.order, nextSequence)
  BY <1>1, <1>2, <1>3, AnnouncesAppend DEF OrderKept
<1> QED
  BY <1>4 DEF OrderKept

\* A module links for the first time.
LEMMA OrderLink ==
  ASSUME Typed, NumberingOK, OrderKept, NEW k \in Modules, SensorLinks(k)
  PROVE  OrderKept'
<1> DEFINE o == cp.order
           b == Append(o, k)
<1>1. /\ toDcu \in Seq(Message) /\ o \in Seq(Modules)
      /\ nextSequence \in Nat /\ nextSequence > 0
  BY DEF Typed, NumberingOK
<1>2. /\ cp'.order = b /\ k <= boot /\ k \notin Linked
      /\ toDcu' = Append(toDcu, [kind |-> "connect", module |-> k, up |-> TRUE])
      /\ UNCHANGED <<n, boot, connected, sequence, nextSequence>>
  BY DEF SensorLinks, SendToDcu, dcuVars, Typed
<1>3. Announces(toDcu', b, nextSequence)
  BY <1>1, <1>2, AnnouncesLink DEF OrderKept
<1>4. /\ Len(o) \in Nat /\ Len(b) = Len(o) + 1 /\ b[Len(o) + 1] = k
      /\ \A p \in 1 .. Len(o) : b[p] = o[p]
  BY <1>1, AppendAt
<1>5. \A p \in 1 .. Len(o) : o[p] # k
  BY <1>1, <1>2, LenProperties DEF Linked
<1>6. k \in 1 .. boot
  BY <1>2 DEF Modules, Typed
<1>7. /\ \A p \in 1 .. Len(o) : o[p] \in 1 .. boot
      /\ \A p, r \in 1 .. Len(o) : o[p] = o[r] => p = r
      /\ nextSequence <= Len(o) + 1
      /\ \A m \in Modules : connected[m] => o[sequence[m]] = m
  BY DEF OrderKept
<1> HIDE DEF o, b
<1>8. \A p \in 1 .. Len(b) : p \in 1 .. Len(o) \/ p = Len(o) + 1
  BY <1>4
<1>9. \A p \in 1 .. Len(b) : b[p] \in 1 .. boot
  BY <1>4, <1>6, <1>7, <1>8
<1>10. ASSUME NEW p \in 1 .. Len(b), NEW r \in 1 .. Len(b), b[p] = b[r] PROVE p = r
  BY <1>4, <1>5, <1>7, <1>8, <1>10
<1>11. nextSequence <= Len(b) + 1
  BY <1>1, <1>4, <1>7
<1>12. ASSUME NEW m \in Modules, connected[m] PROVE b[sequence[m]] = m
  <2>1. sequence[m] \in 1 .. nextSequence - 1
    BY <1>12 DEF NumberingOK
  <2>2. sequence[m] \in 1 .. Len(o)
    BY <1>1, <1>4, <1>7, <2>1
  <2> QED
    BY <1>4, <1>7, <1>12, <2>2
<1>13. n = boot
  BY DEF OrderKept
<1> QED
  BY <1>2, <1>3, <1>9, <1>10, <1>11, <1>12, <1>13 DEF OrderKept

\* The steps that leave the line to the DCU and the numbering alone.
LEMMA OrderUntouched ==
  ASSUME OrderKept, UNCHANGED <<n, boot, toDcu, connected, sequence, nextSequence>>,
         cp'.order = cp.order
  PROVE  OrderKept'
  BY DEF OrderKept

\* The handlers of the manager thread.
LEMMA OrderHandlers == Typed /\ NumberingOK /\ OrderKept /\ NrfThread => OrderKept'
<1> SUFFICES ASSUME Typed, NumberingOK, OrderKept, NrfThread PROVE OrderKept'
  OBVIOUS
<1>1. CASE HandleConnect
  BY <1>1, OrderConnect
<1>2. CASE HandleOk
  <2>1. toDcu # <<>> /\ Head(toDcu).kind # "connect" /\ toDcu' = Tail(toDcu)
    BY <1>2 DEF HandleOk, Handle
  <2> QED
    BY <1>2, <2>1, OrderTail DEF HandleOk, Handle
<1>3. CASE HandleCalibrate
  <2>1. toDcu # <<>> /\ Head(toDcu).kind # "connect" /\ toDcu' = Tail(toDcu)
    BY <1>3 DEF HandleCalibrate, Handle
  <2> QED
    BY <1>3, <2>1, OrderTail DEF HandleCalibrate, Handle
<1>4. CASE DelayEnds
  BY <1>4, OrderUntouched DEF DelayEnds
<1> QED
  BY <1>1, <1>2, <1>3, <1>4 DEF NrfThread

\* The coprocessor, which puts messages on the line.
LEMMA OrderCoprocessor ==
  ASSUME Typed, NumberingOK, OrderKept,
         cp'.missing = {},
         \/ CpReceive
         \/ \E k \in Modules : \/ SensorLinks(k) \/ SensorLinksAgain(k)
                                \/ SensorNotConnected(k) \/ SensorCalibrates(k)
  PROVE  OrderKept'
<1>1. CASE CpReceive
  <2>1. cp'.order = cp.order /\ UNCHANGED <<n, boot, connected, sequence, nextSequence>>
    BY <1>1 DEF CpReceive, Typed, dcuVars
  <2>2. CASE UNCHANGED toDcu
    BY <2>1, <2>2, OrderUntouched
  <2>3. CASE Head(toCp) \in Answered
    <3>1. [kind |-> "ok", of |-> Head(toCp)] \in Message
      BY <2>3 DEF Message
    <3>2. SendToDcu([kind |-> "ok", of |-> Head(toCp)])
      BY <1>1, <2>3 DEF CpReceive, Answered
    <3> QED
      BY <2>1, <3>1, <3>2, OrderAppend
  <2> QED
    BY <1>1, <2>2, <2>3 DEF CpReceive, Answered
<1>2. ASSUME NEW k \in Modules, SensorLinks(k) PROVE OrderKept'
  BY <1>2, OrderLink
<1>3. ASSUME NEW k \in Modules, SensorLinksAgain(k) PROVE OrderKept'
  <2> DEFINE msg == [kind |-> "connect", module |-> k, up |-> TRUE]
  <2>1. msg \in Message /\ msg.module = k
    BY DEF Message
  <2>2. /\ SendToDcu(msg) /\ k \in Linked /\ cp'.order = cp.order
        /\ UNCHANGED <<n, boot, connected, sequence, nextSequence>>
    BY <1>3 DEF SensorLinksAgain, Typed, dcuVars
  <2> HIDE DEF msg
  <2> QED
    BY <2>1, <2>2, OrderAppend
<1>5. ASSUME NEW k \in Modules, SensorNotConnected(k) PROVE OrderKept'
  <2> DEFINE msg == [kind |-> "connect", module |-> k, up |-> FALSE]
  <2>1. msg \in Message /\ msg.module = k
    BY DEF Message
  <2>2. /\ SendToDcu(msg) /\ UNCHANGED <<n, boot, connected, sequence, nextSequence>>
        /\ cp' = IF k \in Linked THEN [cp EXCEPT !.down = @ \cup {k}]
                 ELSE [cp EXCEPT !.missing = @ \cup {k}]
    BY <1>5 DEF SensorNotConnected, dcuVars
  <2>3. k \in Linked /\ cp'.order = cp.order
    BY <2>2 DEF Typed
  <2> HIDE DEF msg
  <2> QED
    BY <2>1, <2>2, <2>3, OrderAppend
<1>4. ASSUME NEW k \in Modules, SensorCalibrates(k) PROVE OrderKept'
  <2> DEFINE stage == IF cp.stage[k] = "none" THEN "busy" ELSE "done"
             msg == [kind |-> "calibrate", module |-> k, stage |-> stage]
  <2>1. msg \in Message /\ msg.kind # "connect"
    BY DEF Message, Stages
  <2>2. /\ SendToDcu(msg) /\ UNCHANGED <<n, boot, connected, sequence, nextSequence>>
        /\ cp' = [cp EXCEPT !.stage[k] = stage]
    BY <1>4 DEF SensorCalibrates, dcuVars
  <2> HIDE DEF stage
  <2>3. cp'.order = cp.order
    BY <2>2 DEF Typed
  <2> HIDE DEF msg
  <2> QED
    BY <2>1, <2>2, <2>3, OrderAppend
<1> QED
  BY <1>1, <1>2, <1>3, <1>4, <1>5

\* What the coprocessor has been given, who has linked and who was reported
\* missing only grows.
GrowsTo == cp.given \subseteq cp'.given /\ Linked \subseteq Linked' /\ cp.missing \subseteq cp'.missing

LEMMA Grows == Typed /\ [Next]_vars => GrowsTo
<1> SUFFICES ASSUME Typed, [Next]_vars PROVE GrowsTo
  OBVIOUS
<1>1. ASSUME cp'.given = cp.given \/ \E c : cp'.given = cp.given \cup {c}, cp'.order = cp.order,
             cp.missing \subseteq cp'.missing
      PROVE  GrowsTo
  BY <1>1 DEF Linked, GrowsTo
<1>2. CASE UNCHANGED cp
  BY <1>1, <1>2
<1>3. CASE CpReceive
  <2>1. /\ cp'.order = cp.order /\ cp'.missing = cp.missing
        /\ cp'.given = cp.given \/ \E c : cp'.given = cp.given \cup {c}
    BY <1>3 DEF CpReceive, Typed
  <2> QED
    BY <1>1, <2>1
<1>4. ASSUME NEW k \in Modules, SensorLinks(k)
      PROVE  GrowsTo
  <2>1. cp'.given = cp.given /\ cp'.order = Append(cp.order, k) /\ cp'.missing = cp.missing
    BY <1>4 DEF SensorLinks, Typed
  <2>2. /\ Len(cp.order) \in Nat /\ cp'.order \in Seq(Modules)
        /\ \A i \in 1 .. Len(cp.order) : i \in 1 .. Len(cp'.order) /\ cp'.order[i] = cp.order[i]
    BY <2>1, AppendAt DEF Typed
  <2>3. DOMAIN cp.order = 1 .. Len(cp.order) /\ DOMAIN cp'.order = 1 .. Len(cp'.order)
    BY <2>2, LenProperties DEF Typed
  <2> QED
    BY <2>1, <2>2, <2>3 DEF Linked, GrowsTo
<1>5. ASSUME NEW k \in Modules, SensorLinksAgain(k) \/ SensorCalibrates(k)
      PROVE  GrowsTo
  <2>1. cp'.given = cp.given /\ cp'.order = cp.order /\ cp'.missing = cp.missing
    BY <1>5 DEF SensorLinksAgain, SensorCalibrates, Typed
  <2> QED
    BY <1>1, <2>1
<1>6. ASSUME NEW k \in Modules, SensorNotConnected(k)
      PROVE  GrowsTo
  <2>1. \/ cp' = [cp EXCEPT !.down = @ \cup {k}]
        \/ cp' = [cp EXCEPT !.missing = @ \cup {k}]
    BY <1>6 DEF SensorNotConnected
  <2>2. cp'.given = cp.given /\ cp'.order = cp.order /\ cp.missing \subseteq cp'.missing
    BY <2>1 DEF Typed
  <2> QED
    BY <1>1, <2>2
<1> QED
  BY <1>2, <1>3, <1>4, <1>5, <1>6
  DEF Next, InitThread, SendPhaseCommand, AllPhasesPassed, TabletTimeSeen, StartMeasurement,
      NrfThread, HandleOk, HandleConnect, HandleCalibrate, DelayEnds, Handle,
      ButtonPressed, TabletSetsTime, SetupUploaded, Lose, vars

LEMMA OrderNext == Typed /\ IInv /\ OrderInv /\ [Next]_vars => OrderInv'
<1> SUFFICES ASSUME Typed, NumberingOK, OrderInv, [Next]_vars,
                    "connect" \notin lost', cp'.missing = {}, uploads' = 0
             PROVE  OrderKept'
  BY DEF IInv, OrderInv
<1>0. cp.missing = {}
  BY Grows DEF GrowsTo
<1>1. CASE InitThread
  <2>1. UNCHANGED <<n, boot, toDcu, connected, sequence, nextSequence, cp, lost, uploads>>
    BY <1>1 DEF InitThread, SendPhaseCommand, AllPhasesPassed, TabletTimeSeen,
                StartMeasurement, dcuVars
  <2> QED
    BY <1>0, <2>1, OrderUntouched DEF OrderInv
<1>2. CASE NrfThread
  <2>1. UNCHANGED <<lost, uploads>>
    BY <1>2 DEF NrfThread, HandleOk, HandleConnect, HandleCalibrate, DelayEnds, Handle
  <2> QED
    BY <1>0, <1>2, <2>1, OrderHandlers DEF OrderInv
<1>3. CASE ButtonPressed \/ TabletSetsTime
  BY <1>0, <1>3, OrderUntouched DEF ButtonPressed, TabletSetsTime, dcuVars, OrderInv
<1>4. CASE SetupUploaded
  BY <1>4 DEF SetupUploaded, Typed
<1>5. CASE Lose
  <2>1. /\ UNCHANGED <<n, boot, connected, sequence, nextSequence, cp, uploads>>
        /\ "connect" \notin lost
    BY <1>5 DEF Lose, dcuVars
  <2>2. CASE UNCHANGED toDcu
    BY <1>0, <1>5, <2>1, <2>2, OrderUntouched DEF Lose, OrderInv
  <2>3. CASE toDcu # <<>> /\ toDcu' = Tail(toDcu) /\ lost' = lost \cup {Head(toDcu).kind}
    BY <1>0, <1>5, <2>1, <2>3, OrderTail DEF Lose, OrderInv
  <2> QED
    BY <1>5, <2>2, <2>3 DEF Lose
<1>6. CASE \/ CpReceive
           \/ \E k \in Modules : \/ SensorLinks(k) \/ SensorLinksAgain(k)
                                  \/ SensorNotConnected(k) \/ SensorCalibrates(k)
  <2>1. UNCHANGED <<lost, uploads>>
    BY <1>6 DEF CpReceive, SensorLinks, SensorLinksAgain, SensorNotConnected, SensorCalibrates
  <2> QED
    BY <1>0, <1>6, <2>1, OrderCoprocessor DEF OrderInv
<1>7. CASE UNCHANGED vars
  BY <1>0, <1>7, OrderUntouched DEF vars, dcuVars, OrderInv
<1> QED
  BY <1>1, <1>2, <1>3, <1>4, <1>5, <1>6, <1>7 DEF Next

LEMMA OrderInit == Init => OrderInv
<1> SUFFICES ASSUME Init PROVE OrderKept
  BY DEF OrderInv
<1>1. Len(cp.order) = 0 /\ Len(toDcu) = 0 /\ nextSequence = 1 /\ n = boot
  BY EmptySeq DEF Init
<1>2. \A k \in Modules : connected[k] = FALSE
  BY DEF Init
<1>3. Announces(toDcu, cp.order, nextSequence)
  BY <1>1 DEF Announces
<1> QED
  BY <1>1, <1>2, <1>3 DEF OrderKept

\* For every number of modules, repeated links, dropped sensors and losses: as
\* long as no connect status is lost or speaks of a module that has not linked,
\* and the setup stays, the number a module was given is its place in the
\* coprocessor's order, so DU[3] finds the right module.
THEOREM FiledRight == Spec => []FiledRightUnlessLost
<1>1. ASSUME Typed, IInv, OrderInv PROVE FiledRightUnlessLost
  <2> SUFFICES ASSUME "connect" \notin lost, cp.missing = {}, uploads = 0,
                      NEW k \in Modules, connected[k]
               PROVE  sequence[k] \in DOMAIN cp.order /\ cp.order[sequence[k]] = k
    BY DEF FiledRightUnlessLost
  <2>1. OrderKept /\ NumberingOK
    BY <1>1 DEF OrderInv, IInv
  <2>2. DOMAIN cp.order = 1 .. Len(cp.order) /\ Len(cp.order) \in Nat
    BY <1>1, LenProperties DEF Typed
  <2>3. sequence[k] \in 1 .. nextSequence - 1 /\ nextSequence \in Nat
    BY <2>1 DEF NumberingOK
  <2>4. nextSequence <= Len(cp.order) + 1 /\ cp.order[sequence[k]] = k
    BY <2>1 DEF OrderKept
  <2> QED
    BY <2>2, <2>3, <2>4
<1>2. Typed /\ IInv /\ OrderInv => FiledRightUnlessLost
  BY <1>1
<1> QED
  BY <1>2, TypedInit, TypedNext, InitInv, NextInv, OrderInit, OrderNext, PTL DEF Spec

-----------------------------------------------------------------------------
(* The counters tell the truth about the coprocessor. *)

LEMMA CountSet ==
  ASSUME Typed, NEW c \in Counters, count' = [count EXCEPT ![c] = n]
  PROVE  \A d \in Counters : count'[d] = IF d = c THEN n ELSE count[d]
  BY DEF Typed, Counters

\* The line stays truthful when messages leave it, and when a true one is put on.
LEMMA LineStaysTruthful ==
  ASSUME Typed, LineTruthful, cp.given \subseteq cp'.given, Reported \subseteq Reported',
         \/ UNCHANGED toDcu
         \/ toDcu # <<>> /\ toDcu' = Tail(toDcu)
         \/ \E msg \in Message : SendToDcu(msg) /\ Truthful(msg)'
  PROVE  LineTruthful'
<1>1. \A m : Truthful(m) => (/\ m.kind = "ok" => m.of \in cp'.given
                             /\ m.kind = "connect" => m.module \in Reported')
  BY DEF Truthful
<1>2. CASE UNCHANGED toDcu
  BY <1>1, <1>2 DEF LineTruthful, Truthful
<1>3. CASE toDcu # <<>> /\ toDcu' = Tail(toDcu)
  <2>1. \A i \in 1 .. Len(toDcu') : i + 1 \in 1 .. Len(toDcu) /\ toDcu'[i] = toDcu[i + 1]
    BY <1>3, TailAt DEF Typed
  <2> QED
    BY <1>1, <2>1 DEF LineTruthful, Truthful
<1>4. ASSUME NEW msg \in Message, SendToDcu(msg), Truthful(msg)'
      PROVE  LineTruthful'
  <2>1. toDcu' = Append(toDcu, msg)
    BY <1>4 DEF SendToDcu
  <2>2. /\ Len(toDcu) \in Nat /\ Len(toDcu') = Len(toDcu) + 1
        /\ \A i \in 1 .. Len(toDcu) : toDcu'[i] = toDcu[i]
        /\ toDcu'[Len(toDcu) + 1] = msg
    BY <2>1, AppendAt DEF Typed
  <2>3. \A i \in 1 .. Len(toDcu') : i \in 1 .. Len(toDcu) \/ toDcu'[i] = msg
    BY <2>2
  <2> QED
    BY <1>1, <1>4, <2>2, <2>3 DEF LineTruthful, Truthful
<1> QED
  BY <1>2, <1>3, <1>4

\* When initThread finds all the phases behind it, every counter is full.
LEMMA AllPhases == Typed /\ AtPhase(6) => n > 0 /\ \A c \in Counters : count[c] = n
<1> SUFFICES ASSUME Typed, AtPhase(6) PROVE n > 0 /\ \A c \in Counters : count[c] = n
  OBVIOUS
<1>1. n > 0 /\ \A j \in 1 .. 5 : count[Phases[j]] = n
  BY DEF AtPhase
<1>2. /\ Phases[1] = "list" /\ Phases[2] = "connected" /\ Phases[3] = "calibrated"
      /\ Phases[4] = "rate" /\ Phases[5] = "type"
  BY DEF Phases
<1>3. /\ count["list"] = n /\ count["connected"] = n /\ count["calibrated"] = n
      /\ count["rate"] = n /\ count["type"] = n
  BY <1>1, <1>2
<1> QED
  BY <1>1, <1>3 DEF Counters

\* The part of CountersTrue that is about numbers kept by the DCU.
LEMMA CountersUntouched ==
  ASSUME Typed, CountersTrue, UNCHANGED <<n, boot, count, connected>>,
         cp.given \subseteq cp'.given, Reported \subseteq Reported', LineTruthful',
         init' # "loop" => n > 0 /\ \A c \in Counters : count[c] = n
  PROVE  CountersTrue'
<1>1. AllOfThem(connected)' = AllOfThem(connected)
  BY DEF AllOfThem
<1> QED
  BY <1>1 DEF CountersTrue

LEMMA CountersHandlers ==
  ASSUME Typed, connected \in [Modules -> BOOLEAN], CountersTrue, NrfThread,
         cp.given \subseteq cp'.given, Reported \subseteq Reported'
  PROVE  CountersTrue'
<1>1. /\ UNCHANGED <<n, boot, cp, init>>
      /\ UNCHANGED toDcu \/ (toDcu # <<>> /\ toDcu' = Tail(toDcu))
  BY DEF NrfThread, HandleOk, HandleConnect, HandleCalibrate, DelayEnds, Handle
<1>2. LineTruthful'
  BY <1>1, LineStaysTruthful DEF CountersTrue
<1>3. n \in Nat /\ Reported' = Reported
  BY <1>1, BringupAssumption DEF Typed, Linked, Reported
<1>4. ASSUME NEW kind, Handle(kind)
      PROVE  Head(toDcu) \in Message /\ Head(toDcu).kind = kind /\ Truthful(Head(toDcu))
  <2>1. toDcu # <<>> /\ Head(toDcu).kind = kind
    BY <1>4 DEF Handle
  <2>2. Head(toDcu) = toDcu[1] /\ 1 \in 1 .. Len(toDcu) /\ Head(toDcu) \in Message
    BY <2>1, TailAt DEF Typed
  <2> QED
    BY <2>1, <2>2 DEF CountersTrue, LineTruthful
\* A counter set to n, which the modules' flags do not speak of.
<1>5. ASSUME NEW c \in Counters \ {"connected"}, count' = [count EXCEPT ![c] = n],
             UNCHANGED connected, c \in Answered => c \in cp.given
      PROVE  CountersTrue'
  <2>1. \A d \in Counters : count'[d] = IF d = c THEN n ELSE count[d]
    BY <1>5, CountSet
  <2>2. count'["connected"] = count["connected"]
    BY <1>5, <2>1 DEF Counters
  <2>3. count'.connected = count.connected
    BY <2>2
  <2>4. AllOfThem(connected)' = AllOfThem(connected)
    BY <1>1, <1>5 DEF AllOfThem
  <2>5. \A d \in Answered : n > 0 /\ count'[d] = n => d \in cp.given
    BY <1>5, <2>1 DEF CountersTrue, Answered, Counters
  <2>6. init # "loop" => n > 0 /\ \A d \in Counters : count'[d] = n
    BY <2>1 DEF CountersTrue
  <2>7. \A k \in Modules : connected'[k] => k \in Reported
    BY <1>5 DEF CountersTrue
  <2>8. n > 0 => (count'.connected = n <=> AllOfThem(connected)')
    BY <2>3, <2>4 DEF CountersTrue
  <2> QED
    BY <1>1, <1>2, <1>3, <2>5, <2>6, <2>7, <2>8 DEF CountersTrue
<1>6. CASE HandleOk
  <2>1. Head(toDcu).of \in Answered /\ Head(toDcu).of \in cp.given
    BY <1>4, <1>6, MessageFields DEF HandleOk, Truthful
  <2> QED
    BY <1>5, <1>6, <2>1 DEF HandleOk, Answered, Counters
<1>7. CASE HandleCalibrate
  <2>1. count' = count \/ count' = [count EXCEPT !.calibrated = n]
    BY <1>7 DEF HandleCalibrate
  <2>2. CASE count' = count
    BY <1>1, <1>2, <1>3, <1>7, <2>2, CountersUntouched DEF HandleCalibrate, CountersTrue
  <2> QED
    BY <1>5, <1>7, <2>1, <2>2 DEF HandleCalibrate, Answered, Counters
<1>8. CASE DelayEnds
  <2>1. count' = count \/ count' = [count EXCEPT !.calibrated = n]
    BY <1>8 DEF DelayEnds
  <2>2. CASE count' = count
    BY <1>1, <1>2, <1>3, <1>8, <2>2, CountersUntouched DEF DelayEnds, CountersTrue
  <2> QED
    BY <1>5, <1>8, <2>1, <2>2 DEF DelayEnds, Answered, Counters
<1>9. CASE HandleConnect
  <2> DEFINE k == Head(toDcu).module
  <2>1. k \in Modules /\ k \in Reported
    BY <1>4, <1>9, MessageFields DEF HandleConnect, Truthful
  <2>2. /\ connected' = connected \/ connected' = [connected EXCEPT ![k] = TRUE]
        /\ AllOfThem(connected') => count' = [count EXCEPT !.connected = n]
        /\ ~AllOfThem(connected') => count' = count
        /\ connected' = connected \/ ~connected[k]
    BY <1>9 DEF HandleConnect, IsNew
  <2> HIDE DEF k
  <2>3. \A m \in Modules : connected'[m] => m \in Reported
    BY <2>1, <2>2 DEF CountersTrue
  <2>4. \A m \in Modules : connected[m] => connected'[m]
    BY <2>2
  <2>5. n > 0 => (count'.connected = n <=> AllOfThem(connected'))
    <3>1. CASE AllOfThem(connected')
      <4>1. count'["connected"] = n
        BY <2>2, <3>1, CountSet DEF Counters
      <4> QED
        BY <3>1, <4>1
    <3>2. CASE ~AllOfThem(connected')
      <4>1. ~AllOfThem(connected)
        <5>1. \A m \in 1 .. n : m \in Modules
          <6>1. n \in Nat /\ n <= MaxModules /\ MaxModules \in Nat
            BY BringupAssumption DEF Typed
          <6> QED
            BY <6>1 DEF Modules
        <5> QED
          BY <2>4, <3>2, <5>1 DEF AllOfThem
      <4> QED
        BY <2>2, <3>2, <4>1 DEF CountersTrue
    <3> QED
      BY <3>1, <3>2
  <2>6. \A c \in Counters : count'[c] = count[c] \/ (c = "connected" /\ count'[c] = n)
    BY <2>2, CountSet DEF Counters
  <2>7. \A c \in Answered : n > 0 /\ count'[c] = n => c \in cp.given
    BY <2>6 DEF CountersTrue, Answered, Counters
  <2>8. init # "loop" => n > 0 /\ \A c \in Counters : count'[c] = n
    BY <2>6 DEF CountersTrue
  <2>9. AllOfThem(connected)' = AllOfThem(connected')
    BY <1>1 DEF AllOfThem
  <2> QED
    BY <1>1, <1>2, <1>3, <2>3, <2>5, <2>7, <2>8, <2>9 DEF CountersTrue
<1> QED
  BY <1>6, <1>7, <1>8, <1>9 DEF NrfThread

LEMMA CountersNext == Typed /\ IInv /\ CountersInv /\ [Next]_vars => CountersInv'
<1> SUFFICES ASSUME Typed, NumberingOK, CountersInv, [Next]_vars, uploads' = 0
             PROVE  CountersTrue'
  BY DEF IInv, CountersInv
<1>1. CASE SetupUploaded
  BY <1>1 DEF SetupUploaded, Typed
<1>2. CASE ~SetupUploaded
  <2>1. uploads = 0
    BY <1>2 DEF Next, InitThread, SendPhaseCommand, AllPhasesPassed, TabletTimeSeen,
                StartMeasurement, NrfThread, HandleOk, HandleConnect, HandleCalibrate,
                DelayEnds, Handle, ButtonPressed, TabletSetsTime, CpReceive, Lose,
                SensorLinks, SensorLinksAgain, SensorNotConnected, SensorCalibrates, vars
  <2>2. CountersTrue /\ cp.given \subseteq cp'.given /\ Reported \subseteq Reported'
    BY <2>1, Grows DEF CountersInv, GrowsTo, Reported
  <2>3. ASSUME UNCHANGED <<n, boot, count, connected, init>>, LineTruthful' PROVE CountersTrue'
    BY <2>2, <2>3, CountersUntouched DEF CountersTrue
  <2>4. ASSUME \/ UNCHANGED toDcu
               \/ toDcu # <<>> /\ toDcu' = Tail(toDcu)
        PROVE  LineTruthful'
    BY <2>2, <2>4, LineStaysTruthful DEF CountersTrue
  <2>5. ASSUME NEW msg \in Message, SendToDcu(msg), Truthful(msg)' PROVE LineTruthful'
    BY <2>2, <2>5, LineStaysTruthful DEF CountersTrue
  <2>6. CASE InitThread
    <3>1. UNCHANGED <<n, boot, count, connected, toDcu>>
      BY <2>6 DEF InitThread, SendPhaseCommand, AllPhasesPassed, TabletTimeSeen,
                  StartMeasurement, dcuVars
    <3>2. init' # "loop" => init # "loop" \/ AtPhase(6)
      BY <2>6 DEF InitThread, SendPhaseCommand, AllPhasesPassed, TabletTimeSeen,
                  StartMeasurement
    <3>3. init' # "loop" => n > 0 /\ \A c \in Counters : count[c] = n
      BY <2>2, <3>2, AllPhases DEF CountersTrue
    <3> QED
      BY <2>2, <2>4, <3>1, <3>3, CountersUntouched
  <2>7. CASE NrfThread
    BY <2>2, <2>7, CountersHandlers DEF NumberingOK
  <2>8. CASE ButtonPressed \/ TabletSetsTime \/ Lose \/ UNCHANGED vars
    <3>1. UNCHANGED <<n, boot, count, connected, init>>
      BY <2>8 DEF ButtonPressed, TabletSetsTime, Lose, vars, dcuVars
    <3>2. UNCHANGED toDcu \/ (toDcu # <<>> /\ toDcu' = Tail(toDcu))
      BY <2>8 DEF ButtonPressed, TabletSetsTime, Lose, vars, dcuVars
    <3> QED
      BY <2>3, <2>4, <3>1, <3>2
  <2>9. CASE CpReceive
    <3>1. UNCHANGED <<n, boot, count, connected, init>>
      BY <2>9 DEF CpReceive, dcuVars
    <3>2. CASE UNCHANGED toDcu
      BY <2>3, <2>4, <3>1, <3>2
    <3>3. CASE Head(toCp) \in Answered
      <4> DEFINE msg == [kind |-> "ok", of |-> Head(toCp)]
      <4>1. /\ msg \in Message /\ SendToDcu(msg)
            /\ cp' = [cp EXCEPT !.given = @ \cup {Head(toCp)}]
        BY <2>9, <3>3 DEF CpReceive, Answered, Message
      <4>2. Head(toCp) \in cp'.given
        BY <4>1 DEF Typed
      <4>3. ASSUME NEW m, m = msg PROVE Truthful(m)'
        BY <4>2, <4>3 DEF Truthful
      <4>4. PICK m \in Message : m = msg
        BY <4>1
      <4> HIDE DEF msg
      <4>5. LineTruthful'
        BY <2>5, <4>1, <4>3, <4>4
      <4> QED
        BY <2>3, <3>1, <4>5
    <3> QED
      BY <2>9, <3>2, <3>3 DEF CpReceive, Answered
  <2>10. ASSUME NEW k \in Modules,
                SensorLinks(k) \/ SensorLinksAgain(k) \/ SensorNotConnected(k)
         PROVE  CountersTrue'
    <3>1. PICK b \in BOOLEAN : SendToDcu([kind |-> "connect", module |-> k, up |-> b])
      BY <2>10 DEF SensorLinks, SensorLinksAgain, SensorNotConnected
    <3> DEFINE msg == [kind |-> "connect", module |-> k, up |-> b]
    <3>2. msg \in Message /\ SendToDcu(msg) /\ UNCHANGED <<n, boot, count, connected, init>>
      BY <2>10, <3>1 DEF SensorLinks, SensorLinksAgain, SensorNotConnected, Message, dcuVars
    <3>3. k \in Reported'
      <4>1. CASE SensorLinksAgain(k)
        BY <2>2, <4>1 DEF SensorLinksAgain, Reported
      <4>2. CASE SensorLinks(k)
        <5>1. cp'.order = Append(cp.order, k)
          BY <4>2 DEF SensorLinks, Typed
        <5>2. /\ cp'.order[Len(cp.order) + 1] = k /\ cp'.order \in Seq(Modules)
              /\ Len(cp.order) + 1 \in 1 .. Len(cp'.order)
          BY <5>1, AppendAt DEF Typed
        <5>3. Len(cp.order) + 1 \in DOMAIN cp'.order
          BY <5>2, LenProperties
        <5> QED
          BY <5>2, <5>3 DEF Linked, Reported
      <4>3. CASE SensorNotConnected(k)
        <5>1. CASE k \in Linked
          BY <2>2, <5>1 DEF Reported
        <5>2. CASE k \notin Linked
          <6>1. cp' = [cp EXCEPT !.missing = @ \cup {k}]
            BY <4>3, <5>2 DEF SensorNotConnected
          <6>2. k \in cp'.missing
            BY <6>1 DEF Typed
          <6> QED
            BY <6>2 DEF Reported
        <5> QED
          BY <5>1, <5>2
      <4> QED
        BY <2>10, <4>1, <4>2, <4>3
    <3>4. Truthful(msg)'
      BY <3>3 DEF Truthful
    <3> QED
      BY <2>3, <2>5, <3>2, <3>4
  <2>11. ASSUME NEW k \in Modules, SensorCalibrates(k) PROVE CountersTrue'
    <3> DEFINE stage == IF cp.stage[k] = "none" THEN "busy" ELSE "done"
               msg == [kind |-> "calibrate", module |-> k, stage |-> stage]
    <3>1. msg \in Message /\ SendToDcu(msg) /\ UNCHANGED <<n, boot, count, connected, init>>
      BY <2>11 DEF SensorCalibrates, Message, Stages, dcuVars
    <3>2. ASSUME NEW m, m = msg PROVE Truthful(m)'
      BY <3>2 DEF Truthful
    <3>3. PICK m \in Message : m = msg
      BY <3>1
    <3> HIDE DEF stage, msg
    <3>4. LineTruthful'
      BY <2>5, <3>1, <3>2, <3>3
    <3> QED
      BY <2>3, <3>1, <3>4
  <2> QED
    BY <1>2, <2>6, <2>7, <2>8, <2>9, <2>10, <2>11 DEF Next
<1> QED
  BY <1>1, <1>2

LEMMA CountersInit == Init => CountersInv
<1> SUFFICES ASSUME Init PROVE CountersTrue
  BY DEF CountersInv
<1>1. /\ Len(toDcu) = 0 /\ n = boot /\ init = "loop"
      /\ \A c \in Counters : count[c] = 0
      /\ \A k \in Modules : connected[k] = FALSE
  BY EmptySeq DEF Init, Counters
<1>2. n \in 0 .. MaxModules
  BY DEF Init
<1>3. n > 0 => count.connected # n /\ ~AllOfThem(connected)
  <2> SUFFICES ASSUME n > 0 PROVE count.connected # n /\ ~AllOfThem(connected)
    OBVIOUS
  <2>1. 1 \in 1 .. n /\ 1 \in Modules
    BY <1>2, BringupAssumption DEF Modules
  <2>2. count.connected = 0
    BY DEF Init
  <2> QED
    BY <1>1, <2>1, <2>2 DEF AllOfThem
<1>4. \A c \in Answered : ~(n > 0 /\ count[c] = n)
  BY <1>1, <1>2 DEF Answered, Counters
<1>5. LineTruthful
  BY <1>1 DEF LineTruthful
<1> QED
  BY <1>1, <1>3, <1>4, <1>5 DEF CountersTrue

-----------------------------------------------------------------------------
(* The calibration is asked for once, and its counter tells the truth. *)

LEMMA ListedInit == Init => Listed
<1> SUFFICES ASSUME Init PROVE Listed
  OBVIOUS
<1>1. cp.order = <<>> /\ cp.missing = {}
  BY DEF Init
<1>2. DOMAIN cp.order = {}
  BY <1>1
<1> QED
  BY <1>1, <1>2 DEF Listed, Linked

LEMMA ListedNext == Typed /\ Listed /\ [Next]_vars => Listed'
<1> SUFFICES ASSUME Typed, Listed, [Next]_vars PROVE Listed'
  OBVIOUS
<1>1. ASSUME cp'.order = cp.order, cp'.missing = cp.missing, UNCHANGED <<boot, drops>> PROVE Listed'
  BY <1>1 DEF Listed, Linked
<1>2. CASE UNCHANGED <<cp, boot, drops>>
  BY <1>1, <1>2
<1>3. CASE CpReceive
  BY <1>1, <1>3 DEF CpReceive, Typed
<1>4. ASSUME NEW k \in Modules, SensorLinks(k) PROVE Listed'
  <2>1. cp'.order = Append(cp.order, k) /\ k \in 1 .. boot /\ UNCHANGED <<boot, drops>>
        /\ cp'.missing = cp.missing
    BY <1>4 DEF SensorLinks, Typed, Modules
  <2>2. /\ Len(cp.order) \in Nat /\ cp'.order \in Seq(Modules)
        /\ Len(cp'.order) = Len(cp.order) + 1
        /\ \A i \in 1 .. Len(cp.order) : cp'.order[i] = cp.order[i]
        /\ cp'.order[Len(cp.order) + 1] = k
    BY <2>1, AppendAt DEF Typed
  <2>3. DOMAIN cp.order = 1 .. Len(cp.order) /\ DOMAIN cp'.order = 1 .. Len(cp'.order)
    BY <2>2, LenProperties DEF Typed
  <2>4. ASSUME NEW i \in DOMAIN cp'.order PROVE cp'.order[i] \in 1 .. boot
    <3>1. i \in DOMAIN cp.order \/ i = Len(cp.order) + 1
      BY <2>2, <2>3
    <3> QED
      BY <2>1, <2>2, <2>3, <3>1 DEF Listed, Linked
  <2> QED
    BY <2>1, <2>4 DEF Listed, Linked
<1>5. ASSUME NEW k \in Modules, SensorCalibrates(k) \/ SensorLinksAgain(k) PROVE Listed'
  <2>1. cp'.order = cp.order /\ cp'.missing = cp.missing /\ UNCHANGED <<boot, drops>>
    BY <1>5 DEF SensorCalibrates, SensorLinksAgain, Typed
  <2> QED
    BY <1>1, <2>1
<1>6. ASSUME NEW k \in Modules, SensorNotConnected(k) PROVE Listed'
  <2>1. cp'.order = cp.order /\ UNCHANGED boot /\ drops' = drops + 1
    <3>1. \/ cp' = [cp EXCEPT !.down = @ \cup {k}]
          \/ cp' = [cp EXCEPT !.missing = @ \cup {k}]
      BY <1>6 DEF SensorNotConnected
    <3> QED
      BY <1>6, <3>1 DEF SensorNotConnected, Typed
  <2>2. drops' # 0
    BY <2>1 DEF Typed
  <2> QED
    BY <2>1, <2>2 DEF Listed, Linked
<1> QED
  BY <1>2, <1>3, <1>4, <1>5, <1>6
  DEF Next, InitThread, SendPhaseCommand, AllPhasesPassed, TabletTimeSeen, StartMeasurement,
      NrfThread, HandleOk, HandleConnect, HandleCalibrate, DelayEnds, Handle,
      ButtonPressed, TabletSetsTime, SetupUploaded, Lose, vars

\* The commands under way, when one is taken from the line or put on it.
LEMMA AskedTail ==
  ASSUME Typed, AskedOnce, toCp # <<>>, toCp' = Tail(toCp)
  PROVE  /\ AskedOnce' /\ (Asked' => Asked)
         /\ Head(toCp) = "calibrate" => Asked /\ ~Asked'
<1>1. /\ toCp[1] = Head(toCp) /\ 1 \in 1 .. Len(toCp)
      /\ \A i \in 1 .. Len(toCp') : i + 1 \in 1 .. Len(toCp) /\ toCp'[i] = toCp[i + 1]
  BY TailAt DEF Typed
<1>2. AskedOnce'
  BY <1>1 DEF AskedOnce
<1>3. Asked' => Asked
  BY <1>1 DEF Asked
<1>4. ASSUME Head(toCp) = "calibrate", NEW i \in 1 .. Len(toCp'), toCp'[i] = "calibrate"
      PROVE  FALSE
  <2>1. i + 1 = 1
    BY <1>1, <1>4 DEF AskedOnce
  <2> QED
    BY <2>1
<1> QED
  BY <1>1, <1>2, <1>3, <1>4 DEF Asked

LEMMA AskedAppend ==
  ASSUME Typed, AskedOnce, NEW c \in Commands, SendToCp(c), c = "calibrate" => ~Asked
  PROVE  AskedOnce' /\ (c # "calibrate" /\ Asked' => Asked)
<1>1. /\ Len(toCp) \in Nat /\ Len(toCp') = Len(toCp) + 1
      /\ \A i \in 1 .. Len(toCp) : toCp'[i] = toCp[i]
      /\ toCp'[Len(toCp) + 1] = c
  BY AppendAt DEF Typed, SendToCp
<1>2. \A i \in 1 .. Len(toCp') : i \in 1 .. Len(toCp) \/ i = Len(toCp) + 1
  BY <1>1
<1>3. ASSUME NEW i \in 1 .. Len(toCp'), NEW j \in 1 .. Len(toCp'),
             toCp'[i] = "calibrate", toCp'[j] = "calibrate"
      PROVE  i = j
  <2>1. CASE c = "calibrate"
    BY <1>1, <1>2, <1>3, <2>1 DEF Asked
  <2>2. CASE c # "calibrate"
    BY <1>1, <1>2, <1>3, <2>2 DEF AskedOnce
  <2> QED
    BY <2>1, <2>2
<1>4. ASSUME c # "calibrate", NEW i \in 1 .. Len(toCp'), toCp'[i] = "calibrate" PROVE Asked
  BY <1>1, <1>2, <1>4 DEF Asked
<1> QED
  BY <1>3, <1>4 DEF AskedOnce, Asked

\* Before the calibration there is nothing that could count as done.
LEMMA FreshIsDone == Fresh => DoneIsDone
  BY DEF Fresh, DoneIsDone

\* Taking a message from the line repeats none.
LEMMA NoRepeatTail ==
  ASSUME Typed, NoRepeat, toDcu # <<>>, toDcu' = Tail(toDcu)
  PROVE  NoRepeat'
<1>1. \A i \in 1 .. Len(toDcu') : i + 1 \in 1 .. Len(toDcu) /\ toDcu'[i] = toDcu[i + 1]
  BY TailAt DEF Typed
<1>2. ASSUME NEW i \in 1 .. Len(toDcu'), NEW j \in 1 .. Len(toDcu'),
             toDcu'[i].kind = "connect", Says(toDcu', j, toDcu'[i].module)
      PROVE  i = j
  <2>1. i + 1 \in 1 .. Len(toDcu) /\ toDcu'[i] = toDcu[i + 1]
    BY <1>1
  <2>2. j + 1 \in 1 .. Len(toDcu) /\ toDcu'[j] = toDcu[j + 1]
    BY <1>1
  <2>3. toDcu[i + 1].kind = "connect" /\ Says(toDcu, j + 1, toDcu[i + 1].module)
    BY <1>2, <2>1, <2>2 DEF Says
  <2>4. i + 1 = j + 1
    BY <2>1, <2>2, <2>3 DEF NoRepeat
  <2> QED
    BY <2>4
<1> QED
  BY <1>2 DEF NoRepeat

\* The steps that at most take messages from the lines.
LEMMA CalibrationShorter ==
  ASSUME Typed, CalibrationTrue,
         UNCHANGED toDcu \/ (toDcu # <<>> /\ toDcu' = Tail(toDcu)),
         UNCHANGED <<n, connected, nrf, calibrated, calibrateIMUs, cp>>,
         count'.calibrated = count.calibrated, AskedOnce', Asked' => Asked
  PROVE  CalibrationTrue'
<1>1. CASE UNCHANGED toDcu
  BY <1>1 DEF CalibrationTrue, AnnouncedOnce, NoRepeat, Fresh, DoneIsDone, AllOfThem, Says
<1>2. CASE toDcu # <<>> /\ toDcu' = Tail(toDcu)
  <2>1. \A i \in 1 .. Len(toDcu') : i + 1 \in 1 .. Len(toDcu) /\ toDcu'[i] = toDcu[i + 1]
    BY <1>2, TailAt DEF Typed
  <2>2. AnnouncedOnce'
    <3>1. ASSUME NEW i \in 1 .. Len(toDcu'), toDcu'[i].kind = "connect"
          PROVE  ~connected[toDcu'[i].module]
      BY <2>1, <3>1 DEF CalibrationTrue, AnnouncedOnce
    <3>2. NoRepeat'
      BY <1>2, NoRepeatTail DEF CalibrationTrue, AnnouncedOnce
    <3> QED
      BY <3>1, <3>2 DEF AnnouncedOnce
  <2>3. Fresh => Fresh'
    BY <2>1 DEF Fresh
  <2>4. DoneIsDone'
    BY <2>1 DEF CalibrationTrue, DoneIsDone
  <2>5. AllOfThem(connected)' = AllOfThem(connected)
    BY DEF AllOfThem
  <2> QED
    BY <2>2, <2>3, <2>4, <2>5 DEF CalibrationTrue
<1> QED
  BY <1>1, <1>2

\* A message at the end of the line to the DCU.
LEMMA LineAppend ==
  ASSUME Typed, NEW msg \in Message, SendToDcu(msg)
  PROVE  /\ Len(toDcu) \in Nat /\ Len(toDcu') = Len(toDcu) + 1
         /\ \A i \in 1 .. Len(toDcu) : toDcu'[i] = toDcu[i]
         /\ toDcu'[Len(toDcu) + 1] = msg
         /\ \A i \in 1 .. Len(toDcu') : i \in 1 .. Len(toDcu) \/ i = Len(toDcu) + 1
<1>1. toDcu' = Append(toDcu, msg)
  BY DEF SendToDcu
<1>2. /\ Len(toDcu) \in Nat /\ Len(toDcu') = Len(toDcu) + 1
      /\ \A i \in 1 .. Len(toDcu) : toDcu'[i] = toDcu[i]
      /\ toDcu'[Len(toDcu) + 1] = msg
  BY <1>1, AppendAt DEF Typed
<1>3. \A i \in 1 .. Len(toDcu') : i \in 1 .. Len(toDcu) \/ i = Len(toDcu) + 1
  BY <1>2
<1> QED
  BY <1>2, <1>3

\* nRF52ComManagerThread handles a connect status: the last module to connect
\* finds nothing of the calibration begun.
LEMMA CalibrationConnect ==
  ASSUME Typed, NumberingOK, Listed, CountersTrue, CalibrationTrue, n > 0, drops = 0, HandleConnect
  PROVE  CalibrationTrue'
<1> DEFINE k == Head(toDcu).module
<1>1. /\ toDcu # <<>> /\ Head(toDcu).kind = "connect" /\ toDcu' = Tail(toDcu)
      /\ nrf = "decode" /\ UNCHANGED <<n, boot, cp, toCp, calibrated, calibrateIMUs>>
  BY DEF HandleConnect, Handle
<1>2. /\ toDcu[1] = Head(toDcu) /\ 1 \in 1 .. Len(toDcu) /\ Head(toDcu) \in Message
      /\ \A i \in 1 .. Len(toDcu') : i + 1 \in 1 .. Len(toDcu) /\ toDcu'[i] = toDcu[i + 1]
  BY <1>1, TailAt DEF Typed
<1>3. k \in Modules
  BY <1>1, <1>2, MessageFields
<1>4. ~connected[k] /\ k \in Linked
  BY <1>1, <1>2 DEF CalibrationTrue, AnnouncedOnce, CountersTrue, LineTruthful, Truthful,
                    Listed, Reported
<1>5. k \in 1 .. n
  BY <1>4 DEF Listed, CountersTrue
<1>6. /\ connected' = [connected EXCEPT ![k] = TRUE]
      /\ nrf' = "delay" => AllOfThem(connected')
      /\ count'.calibrated = count.calibrated
  <2>1. connected' = [connected EXCEPT ![k] = TRUE]
    BY <1>4, <1>5 DEF HandleConnect, IsNew
  <2>2. nrf' = "delay" => AllOfThem(connected')
    BY <1>1 DEF HandleConnect
  <2>3. count' = count \/ count' = [count EXCEPT !.connected = n]
    BY DEF HandleConnect
  <2>4. count'.calibrated = count.calibrated
    BY <2>3 DEF Typed
  <2> QED
    BY <2>1, <2>2, <2>4
<1>7. Fresh /\ ~Asked
  BY <1>4, <1>5 DEF CalibrationTrue, AllOfThem
<1>8. Fresh'
  BY <1>1, <1>2, <1>6, <1>7 DEF Fresh
<1>9. ~Asked' /\ AskedOnce'
  BY <1>1, <1>7 DEF Asked, AskedOnce
<1>10. ASSUME NEW i \in 1 .. Len(toDcu'), toDcu'[i].kind = "connect"
       PROVE  ~connected'[toDcu'[i].module]
  <2>1. i + 1 \in 1 .. Len(toDcu) /\ toDcu[i + 1] = toDcu'[i] /\ i + 1 # 1
    BY <1>2
  <2>2. toDcu[i + 1].module # k
    <3>1. SUFFICES ASSUME toDcu[i + 1].module = k PROVE FALSE
      OBVIOUS
    <3>2. Says(toDcu, i + 1, toDcu[1].module)
      BY <1>2, <1>10, <2>1, <3>1 DEF Says
    <3>3. 1 = i + 1
      BY <1>1, <1>2, <2>1, <3>2 DEF CalibrationTrue, AnnouncedOnce, NoRepeat
    <3> QED
      BY <2>1, <3>3
  <2>3. ~connected[toDcu[i + 1].module]
    BY <1>10, <2>1 DEF CalibrationTrue, AnnouncedOnce
  <2>4. toDcu[i + 1].module \in Modules
    <3>1. toDcu[i + 1] \in Message
      BY <2>1, ElementOfSeq DEF Typed
    <3> QED
      BY <1>10, <2>1, <3>1, MessageFields
  <2> HIDE DEF k
  <2> QED
    BY <1>6, <2>1, <2>2, <2>3, <2>4 DEF NumberingOK
<1>11. NoRepeat'
  BY <1>1, NoRepeatTail DEF CalibrationTrue, AnnouncedOnce
<1>12. AnnouncedOnce'
  BY <1>10, <1>11 DEF AnnouncedOnce
<1>13. DoneIsDone'
  BY <1>8, FreshIsDone DEF Fresh, DoneIsDone
<1>14. nrf' = "delay" => AllOfThem(connected)'
  BY <1>1, <1>6 DEF AllOfThem
<1> QED
  BY <1>8, <1>9, <1>12, <1>13, <1>14 DEF CalibrationTrue

\* After the delay the calibration is asked for, or every module counts as done.
LEMMA CalibrationDelay ==
  ASSUME Typed, CalibrationTrue, DelayEnds
  PROVE  CalibrationTrue'
<1>1. /\ nrf' = "decode" /\ UNCHANGED <<n, connected, toDcu, cp, calibrateIMUs>>
      /\ AllOfThem(connected) /\ Fresh /\ ~Asked /\ AskedOnce
  BY DEF DelayEnds, CalibrationTrue
<1>2. AllOfThem(connected)' /\ AnnouncedOnce'
  BY <1>1 DEF AllOfThem, CalibrationTrue, AnnouncedOnce, NoRepeat, Says
<1>3. CASE calibrateIMUs
  <2>1. SendToCp("calibrate") /\ UNCHANGED <<calibrated, count>>
    BY <1>3 DEF DelayEnds
  <2>2. AskedOnce'
    BY <1>1, <2>1, AskedAppend DEF Commands
  <2>3. Fresh' /\ DoneIsDone'
    BY <1>1, <2>1 DEF Fresh, DoneIsDone
  <2> QED
    BY <1>1, <1>2, <2>2, <2>3 DEF CalibrationTrue
<1>4. CASE ~calibrateIMUs
  <2>1. UNCHANGED toCp
    BY <1>4 DEF DelayEnds
  <2>2. ~Asked' /\ AskedOnce'
    BY <1>1, <2>1 DEF Asked, AskedOnce
  <2>3. DoneIsDone'
    BY <1>1, <1>4 DEF Fresh, DoneIsDone
  <2> QED
    BY <1>1, <1>2, <2>2, <2>3 DEF CalibrationTrue
<1> QED
  BY <1>3, <1>4

\* A report of the calibration: it was asked for, and the report is true.
LEMMA CalibrationReported ==
  ASSUME Typed, CalibrationTrue, HandleCalibrate
  PROVE  CalibrationTrue'
<1> DEFINE msg == Head(toDcu)
<1>1. /\ toDcu # <<>> /\ msg.kind = "calibrate" /\ toDcu' = Tail(toDcu)
      /\ UNCHANGED <<n, nrf, connected, cp, toCp, calibrateIMUs>>
      /\ calibrated' = [calibrated EXCEPT ![msg.module] = msg.stage]
  BY DEF HandleCalibrate, Handle
<1>2. /\ toDcu[1] = msg /\ 1 \in 1 .. Len(toDcu) /\ msg \in Message
      /\ \A i \in 1 .. Len(toDcu') : i + 1 \in 1 .. Len(toDcu) /\ toDcu'[i] = toDcu[i + 1]
  BY <1>1, TailAt DEF Typed
<1>3. ~Fresh
  BY <1>1, <1>2 DEF Fresh
<1>4. AllOfThem(connected) /\ nrf # "delay" /\ ~Asked /\ AskedOnce
  BY <1>3 DEF CalibrationTrue
<1>5. AllOfThem(connected)' /\ ~Asked' /\ AskedOnce' /\ nrf' # "delay"
  BY <1>1, <1>4 DEF AllOfThem, Asked, AskedOnce
<1>6. AnnouncedOnce'
  <2>1. ASSUME NEW i \in 1 .. Len(toDcu'), toDcu'[i].kind = "connect"
        PROVE  ~connected[toDcu'[i].module]
    BY <1>2, <2>1 DEF CalibrationTrue, AnnouncedOnce
  <2>2. NoRepeat'
    BY <1>1, NoRepeatTail DEF CalibrationTrue, AnnouncedOnce
  <2> QED
    BY <1>1, <2>1, <2>2 DEF AnnouncedOnce
<1>7. msg.module \in Modules /\ msg.stage = "done" => cp.stage[msg.module] = "done"
  BY <1>1, <1>2 DEF CalibrationTrue, DoneIsDone
<1>8. msg.module \in Modules
  BY <1>1, <1>2, MessageFields
<1> HIDE DEF msg
<1>9. \A k \in Modules : calibrated'[k] = "done" =>
        calibrated[k] = "done" \/ cp.stage[k] = "done"
  BY <1>1, <1>7, <1>8 DEF Typed
<1>10. ASSUME calibrateIMUs, NEW k \in Modules, calibrated'[k] = "done"
       PROVE  cp.stage[k] = "done"
  BY <1>9, <1>10 DEF CalibrationTrue, DoneIsDone
<1>11. ASSUME calibrateIMUs, count'.calibrated = n, NEW k \in 1 .. n
       PROVE  cp.stage[k] = "done"
  <2>1. k \in Modules
    BY BringupAssumption DEF Modules, Typed
  <2>2. CASE AllOfThem([m \in Modules |-> calibrated'[m] = "done"])
    <3>1. calibrated'[k] = "done"
      BY <2>1, <2>2 DEF AllOfThem
    <3> QED
      BY <1>10, <1>11, <2>1, <3>1
  <2>3. CASE ~AllOfThem([m \in Modules |-> calibrated'[m] = "done"])
    <3>1. count' = count
      BY <2>3 DEF HandleCalibrate
    <3> QED
      BY <1>11, <3>1 DEF CalibrationTrue, DoneIsDone
  <2> QED
    BY <2>2, <2>3
<1>12. \A i \in 1 .. Len(toDcu') :
         toDcu'[i].kind = "calibrate" /\ toDcu'[i].stage = "done" =>
           cp.stage[toDcu'[i].module] = "done"
  BY <1>2 DEF CalibrationTrue, DoneIsDone
<1>13. DoneIsDone'
  BY <1>1, <1>10, <1>11, <1>12 DEF DoneIsDone
<1> QED
  BY <1>5, <1>6, <1>13 DEF CalibrationTrue

\* The coprocessor takes a command.
LEMMA CalibrationCommand ==
  ASSUME Typed, CalibrationTrue, CpReceive
  PROVE  CalibrationTrue'
<1> DEFINE c == Head(toCp)
<1>1. /\ toCp # <<>> /\ toCp' = Tail(toCp)
      /\ UNCHANGED <<n, nrf, connected, calibrated, calibrateIMUs, count>>
  BY DEF CpReceive, dcuVars
<1>2. c \in Commands
  BY <1>1, TailAt DEF Typed
<1>3. AskedOnce' /\ (Asked' => Asked) /\ (c = "calibrate" => Asked /\ ~Asked')
  BY <1>1, AskedTail DEF CalibrationTrue
<1>4. AllOfThem(connected)' = AllOfThem(connected)
  BY <1>1 DEF AllOfThem
<1>5. CASE c \in Answered
  <2> DEFINE msg == [kind |-> "ok", of |-> c]
  <2>1. /\ msg \in Message /\ msg.kind = "ok" /\ SendToDcu(msg)
        /\ cp' = [cp EXCEPT !.given = @ \cup {c}]
    BY <1>5 DEF CpReceive, Answered, Message
  <2>2. cp'.given = cp.given \cup {c} /\ cp'.stage = cp.stage /\ c # "calibrate"
    BY <1>5, <2>1 DEF Typed, Answered
  <2> HIDE DEF msg
  <2>3. /\ Len(toDcu) \in Nat
        /\ \A i \in 1 .. Len(toDcu) : toDcu'[i] = toDcu[i]
        /\ toDcu'[Len(toDcu) + 1].kind = "ok"
        /\ \A i \in 1 .. Len(toDcu') : i \in 1 .. Len(toDcu) \/ i = Len(toDcu) + 1
    BY <2>1, LineAppend
  <2>4. AnnouncedOnce'
    BY <1>1, <2>3 DEF CalibrationTrue, AnnouncedOnce, NoRepeat, Says
  <2>5. Fresh => Fresh'
    BY <1>1, <2>2, <2>3 DEF Fresh
  <2>6. DoneIsDone'
    BY <1>1, <2>2, <2>3 DEF CalibrationTrue, DoneIsDone
  <2> QED
    BY <1>1, <1>3, <1>4, <2>4, <2>5, <2>6 DEF CalibrationTrue
<1>6. CASE c = "start"
  <2>1. UNCHANGED toDcu /\ cp' = [cp EXCEPT !.started = TRUE]
    BY <1>6 DEF CpReceive
  <2>2. cp'.given = cp.given /\ cp'.stage = cp.stage
    BY <2>1 DEF Typed
  <2>3. AnnouncedOnce' /\ (Fresh => Fresh') /\ DoneIsDone'
    BY <1>1, <2>1, <2>2 DEF CalibrationTrue, AnnouncedOnce, NoRepeat, Says, Fresh, DoneIsDone
  <2> QED
    BY <1>1, <1>3, <1>4, <2>3 DEF CalibrationTrue
<1>7. CASE c = "calibrate"
  <2>1. UNCHANGED toDcu
    BY <1>7 DEF CpReceive
  <2>2. Asked /\ ~Asked' /\ Fresh /\ AllOfThem(connected) /\ nrf # "delay"
    BY <1>3, <1>7 DEF CalibrationTrue
  <2>3. AnnouncedOnce' /\ DoneIsDone'
    BY <1>1, <2>1, <2>2 DEF CalibrationTrue, AnnouncedOnce, NoRepeat, Says, Fresh, DoneIsDone
  <2> QED
    BY <1>1, <1>3, <1>4, <2>2, <2>3 DEF CalibrationTrue
<1> QED
  BY <1>2, <1>5, <1>6, <1>7 DEF Commands, Answered

\* A sensor links: it is announced for the first time.
LEMMA CalibrationLink ==
  ASSUME Typed, Listed, drops = 0, CountersTrue, CalibrationTrue,
         NEW k \in Modules, SensorLinks(k)
  PROVE  CalibrationTrue'
<1> DEFINE msg == [kind |-> "connect", module |-> k, up |-> TRUE]
<1>1. /\ UNCHANGED <<n, nrf, connected, calibrated, calibrateIMUs, count, toCp>>
      /\ k \notin Linked /\ SendToDcu(msg) /\ msg \in Message
      /\ msg.kind = "connect" /\ msg.module = k
      /\ cp' = [cp EXCEPT !.order = Append(@, k)]
  BY DEF SensorLinks, dcuVars, Message
<1>2. cp'.given = cp.given /\ cp'.stage = cp.stage
  BY <1>1 DEF Typed
<1> HIDE DEF msg
<1>3. /\ Len(toDcu) \in Nat
      /\ \A i \in 1 .. Len(toDcu) : toDcu'[i] = toDcu[i]
      /\ toDcu'[Len(toDcu) + 1] = msg
      /\ \A i \in 1 .. Len(toDcu') : i \in 1 .. Len(toDcu) \/ i = Len(toDcu) + 1
  BY <1>1, LineAppend
<1>0. k \notin Reported
  BY <1>1 DEF Listed, Reported
<1>4. ~connected[k]
  BY <1>0 DEF CountersTrue
<1>5. \A i \in 1 .. Len(toDcu) : ~Says(toDcu, i, k)
  BY <1>0 DEF CountersTrue, LineTruthful, Truthful, Says
<1>6. ASSUME NEW i \in 1 .. Len(toDcu'), toDcu'[i].kind = "connect"
      PROVE  ~connected[toDcu'[i].module]
  BY <1>1, <1>3, <1>4, <1>6 DEF CalibrationTrue, AnnouncedOnce
<1>7. ASSUME NEW i \in 1 .. Len(toDcu'), NEW j \in 1 .. Len(toDcu'),
             toDcu'[i].kind = "connect", Says(toDcu', j, toDcu'[i].module)
      PROVE  i = j
  <2>1. CASE i \in 1 .. Len(toDcu) /\ j \in 1 .. Len(toDcu)
    BY <1>3, <1>7, <2>1 DEF CalibrationTrue, AnnouncedOnce, NoRepeat, Says
  <2>2. CASE i \in 1 .. Len(toDcu) /\ j = Len(toDcu) + 1
    <3>1. Says(toDcu, i, k)
      BY <1>1, <1>3, <1>7, <2>2 DEF Says
    <3> QED
      BY <1>5, <2>2, <3>1
  <2>3. CASE i = Len(toDcu) + 1 /\ j \in 1 .. Len(toDcu)
    <3>1. Says(toDcu, j, k)
      BY <1>1, <1>3, <1>7, <2>3 DEF Says
    <3> QED
      BY <1>5, <2>3, <3>1
  <2> QED
    BY <1>3, <2>1, <2>2, <2>3
<1>8. AnnouncedOnce'
  BY <1>1, <1>6, <1>7 DEF AnnouncedOnce, NoRepeat
<1>9. Fresh => Fresh'
  BY <1>1, <1>2, <1>3 DEF Fresh
<1>10. DoneIsDone'
  BY <1>1, <1>2, <1>3 DEF CalibrationTrue, DoneIsDone
<1>11. /\ AllOfThem(connected)' = AllOfThem(connected)
       /\ (Asked' <=> Asked) /\ (AskedOnce' <=> AskedOnce)
  BY <1>1 DEF AllOfThem, Asked, AskedOnce
<1> QED
  BY <1>1, <1>8, <1>9, <1>10, <1>11 DEF CalibrationTrue

\* A sensor comes a stage further: it was asked to.
LEMMA CalibrationStage ==
  ASSUME Typed, CalibrationTrue, NEW k \in Modules, SensorCalibrates(k)
  PROVE  CalibrationTrue'
<1> DEFINE stage == IF cp.stage[k] = "none" THEN "busy" ELSE "done"
           msg == [kind |-> "calibrate", module |-> k, stage |-> stage]
<1>1. /\ UNCHANGED <<n, nrf, connected, calibrated, calibrateIMUs, count, toCp>>
      /\ "calibrate" \in cp.given /\ cp.stage[k] # "done" /\ SendToDcu(msg)
      /\ cp' = [cp EXCEPT !.stage[k] = stage]
  BY DEF SensorCalibrates, dcuVars
<1>2. /\ msg \in Message /\ msg.kind = "calibrate" /\ msg.module = k /\ msg.stage = stage
  BY DEF Message, Stages
<1> HIDE DEF msg, stage
<1>3. cp'.given = cp.given /\ cp'.stage = [cp.stage EXCEPT ![k] = stage]
  BY <1>1 DEF Typed
<1>4. cp.stage \in [Modules -> Stages]
  BY DEF Typed
<1>5. /\ Len(toDcu) \in Nat
      /\ \A i \in 1 .. Len(toDcu) : toDcu'[i] = toDcu[i]
      /\ toDcu'[Len(toDcu) + 1] = msg
      /\ \A i \in 1 .. Len(toDcu') : i \in 1 .. Len(toDcu) \/ i = Len(toDcu) + 1
  BY <1>1, <1>2, LineAppend
<1>6. ~Fresh
  BY <1>1 DEF Fresh
<1>7. AllOfThem(connected) /\ nrf # "delay" /\ ~Asked
  BY <1>6 DEF CalibrationTrue
<1>8. AnnouncedOnce'
  BY <1>1, <1>2, <1>5 DEF CalibrationTrue, AnnouncedOnce, NoRepeat, Says
<1>9. \A m \in Modules : cp.stage[m] = "done" => cp'.stage[m] = "done"
  BY <1>1, <1>3, <1>4
<1>10. cp'.stage[k] = stage
  BY <1>3, <1>4
<1>11. ASSUME NEW i \in 1 .. Len(toDcu'), toDcu'[i].kind = "calibrate", toDcu'[i].stage = "done"
       PROVE  cp'.stage[toDcu'[i].module] = "done"
  <2>1. CASE i = Len(toDcu) + 1
    BY <1>2, <1>5, <1>10, <1>11, <2>1
  <2>2. CASE i \in 1 .. Len(toDcu)
    <3>1. toDcu[i].module \in Modules
      <4>1. toDcu[i] \in Message
        BY <2>2, ElementOfSeq DEF Typed
      <4> QED
        BY <1>5, <1>11, <2>2, <4>1, MessageFields
    <3>2. cp.stage[toDcu[i].module] = "done"
      BY <1>5, <1>11, <2>2 DEF CalibrationTrue, DoneIsDone
    <3> QED
      BY <1>5, <1>9, <2>2, <3>1, <3>2
  <2> QED
    BY <1>5, <2>1, <2>2
<1>12. \A m \in 1 .. n : m \in Modules
  BY BringupAssumption DEF Modules, Typed
<1>13. DoneIsDone'
  <2>1. ASSUME calibrateIMUs, NEW m \in Modules, calibrated[m] = "done"
        PROVE  cp'.stage[m] = "done"
    BY <1>9, <2>1 DEF CalibrationTrue, DoneIsDone
  <2>2. ASSUME calibrateIMUs, count.calibrated = n, NEW m \in 1 .. n
        PROVE  cp'.stage[m] = "done"
    BY <1>9, <1>12, <2>2 DEF CalibrationTrue, DoneIsDone
  <2> QED
    BY <1>1, <1>11, <2>1, <2>2 DEF DoneIsDone
<1>14. AllOfThem(connected)' /\ ~Asked' /\ AskedOnce' /\ nrf' # "delay"
  BY <1>1, <1>7 DEF AllOfThem, Asked, AskedOnce, CalibrationTrue
<1> QED
  BY <1>8, <1>13, <1>14 DEF CalibrationTrue

LEMMA CalibrationNext ==
  Typed /\ IInv /\ Listed /\ CountersInv /\ CalibrationInv /\ [Next]_vars => CalibrationInv'
<1> SUFFICES ASSUME Typed, NumberingOK, Listed, CountersInv, CalibrationInv, [Next]_vars,
                    uploads' = 0, relinks' = 0, drops' = 0, n' > 0
             PROVE  CalibrationTrue'
  BY DEF IInv, CalibrationInv
<1>1. CASE SetupUploaded
  BY <1>1 DEF SetupUploaded, Typed
<1>2. ASSUME NEW k \in Modules, SensorLinksAgain(k) \/ SensorNotConnected(k)
      PROVE  CalibrationTrue'
  <2>1. relinks' = relinks + 1 \/ drops' = drops + 1
    BY <1>2 DEF SensorLinksAgain, SensorNotConnected
  <2> QED
    BY <2>1 DEF Typed
<1>3. ASSUME UNCHANGED <<n, uploads, relinks, drops>>
      PROVE  CountersTrue /\ CalibrationTrue /\ n > 0 /\ drops = 0
  BY <1>3 DEF CountersInv, CalibrationInv
<1>4. CASE InitThread
  <2>1. UNCHANGED <<n, connected, nrf, calibrated, calibrateIMUs, count, cp, toDcu,
                    uploads, relinks, drops>>
    BY <1>4 DEF InitThread, SendPhaseCommand, AllPhasesPassed, TabletTimeSeen,
                StartMeasurement, dcuVars
  <2>2. CalibrationTrue
    BY <1>3, <2>1
  <2>3. \/ UNCHANGED toCp
        \/ \E c \in Commands \ {"calibrate"} : SendToCp(c)
    BY <1>4 DEF InitThread, SendPhaseCommand, AllPhasesPassed, TabletTimeSeen,
                StartMeasurement, Commands
  <2>4. AskedOnce' /\ (Asked' => Asked)
    <3>1. CASE UNCHANGED toCp
      BY <2>2, <3>1 DEF CalibrationTrue, AskedOnce, Asked
    <3>2. CASE \E c \in Commands \ {"calibrate"} : SendToCp(c)
      BY <2>2, <3>2, AskedAppend DEF CalibrationTrue
    <3> QED
      BY <2>3, <3>1, <3>2
  <2> QED
    BY <2>1, <2>2, <2>4, CalibrationShorter
<1>5. CASE HandleOk
  <2>1. /\ toDcu # <<>> /\ toDcu' = Tail(toDcu)
        /\ UNCHANGED <<n, connected, nrf, calibrated, calibrateIMUs, cp, toCp, uploads, relinks, drops>>
    BY <1>5 DEF HandleOk, Handle
  <2>2. Head(toDcu).of \in Answered
    BY <1>5, Taken, MessageFields DEF HandleOk, Handle
  <2>3. count' = [count EXCEPT ![Head(toDcu).of] = n]
    BY <1>5 DEF HandleOk
  <2>4. count'["calibrated"] = count["calibrated"]
    BY <2>2, <2>3, CountSet DEF Answered, Counters
  <2>5. CalibrationTrue
    BY <1>3, <2>1
  <2>6. AskedOnce' /\ (Asked' => Asked)
    BY <2>1, <2>5 DEF CalibrationTrue, AskedOnce, Asked
  <2> QED
    BY <2>1, <2>4, <2>5, <2>6, CalibrationShorter
<1>6. CASE HandleConnect
  <2>1. UNCHANGED <<n, uploads, relinks, drops>>
    BY <1>6 DEF HandleConnect, Handle
  <2> QED
    BY <1>3, <1>6, <2>1, CalibrationConnect
<1>7. CASE HandleCalibrate
  <2>1. UNCHANGED <<n, uploads, relinks, drops>>
    BY <1>7 DEF HandleCalibrate, Handle
  <2> QED
    BY <1>3, <1>7, <2>1, CalibrationReported
<1>8. CASE DelayEnds
  <2>1. UNCHANGED <<n, uploads, relinks, drops>>
    BY <1>8 DEF DelayEnds
  <2> QED
    BY <1>3, <1>8, <2>1, CalibrationDelay
<1>9. CASE ButtonPressed
  <2>1. /\ count.connected # n
        /\ UNCHANGED <<n, nrf, connected, calibrated, count, cp, toCp, toDcu, uploads, relinks, drops>>
    BY <1>9 DEF ButtonPressed, dcuVars
  <2>2. CountersTrue /\ CalibrationTrue /\ n > 0
    BY <1>3, <2>1
  <2>3. ~AllOfThem(connected)
    BY <2>1, <2>2 DEF CountersTrue
  <2>4. Fresh /\ ~Asked
    BY <2>2, <2>3 DEF CalibrationTrue
  <2>5. Fresh' /\ DoneIsDone'
    BY <2>1, <2>4 DEF Fresh, DoneIsDone
  <2>6. AnnouncedOnce' /\ AskedOnce' /\ ~Asked'
    BY <2>1, <2>2, <2>4 DEF CalibrationTrue, AnnouncedOnce, NoRepeat, Says, AskedOnce, Asked
  <2>7. nrf' = "delay" => AllOfThem(connected)'
    BY <2>1, <2>2 DEF CalibrationTrue, AllOfThem
  <2> QED
    BY <2>5, <2>6, <2>7 DEF CalibrationTrue
<1>10. CASE TabletSetsTime \/ UNCHANGED vars
  <2>1. UNCHANGED <<n, connected, nrf, calibrated, calibrateIMUs, count, cp, toCp, toDcu,
                    uploads, relinks, drops>>
    BY <1>10 DEF TabletSetsTime, dcuVars, vars
  <2>2. CalibrationTrue
    BY <1>3, <2>1
  <2>3. AskedOnce' /\ (Asked' => Asked)
    BY <2>1, <2>2 DEF CalibrationTrue, AskedOnce, Asked
  <2> QED
    BY <2>1, <2>2, <2>3, CalibrationShorter
<1>11. CASE Lose
  <2>1. /\ UNCHANGED <<n, connected, nrf, calibrated, calibrateIMUs, count, cp, uploads, relinks, drops>>
        /\ UNCHANGED toDcu \/ (toDcu # <<>> /\ toDcu' = Tail(toDcu))
        /\ UNCHANGED toCp \/ (toCp # <<>> /\ toCp' = Tail(toCp))
    BY <1>11 DEF Lose, dcuVars
  <2>2. CalibrationTrue
    BY <1>3, <2>1
  <2>3. AskedOnce' /\ (Asked' => Asked)
    <3>1. CASE UNCHANGED toCp
      BY <2>2, <3>1 DEF CalibrationTrue, AskedOnce, Asked
    <3>2. CASE toCp # <<>> /\ toCp' = Tail(toCp)
      BY <2>2, <3>2, AskedTail DEF CalibrationTrue
    <3> QED
      BY <2>1, <3>1, <3>2
  <2> QED
    BY <2>1, <2>2, <2>3, CalibrationShorter
<1>12. CASE CpReceive
  <2>1. UNCHANGED <<n, uploads, relinks, drops>>
    BY <1>12 DEF CpReceive, dcuVars
  <2> QED
    BY <1>3, <1>12, <2>1, CalibrationCommand
<1>13. ASSUME NEW k \in Modules, SensorLinks(k) PROVE CalibrationTrue'
  <2>1. UNCHANGED <<n, uploads, relinks, drops>>
    BY <1>13 DEF SensorLinks, dcuVars
  <2> QED
    BY <1>3, <1>13, <2>1, CalibrationLink
<1>14. ASSUME NEW k \in Modules, SensorCalibrates(k) PROVE CalibrationTrue'
  <2>1. UNCHANGED <<n, uploads, relinks, drops>>
    BY <1>14 DEF SensorCalibrates, dcuVars
  <2> QED
    BY <1>3, <1>14, <2>1, CalibrationStage
<1> QED
  BY <1>1, <1>2, <1>4, <1>5, <1>6, <1>7, <1>8, <1>9, <1>10, <1>11, <1>12, <1>13, <1>14
  DEF Next, NrfThread

LEMMA CalibrationInit == Init => CalibrationInv
<1> SUFFICES ASSUME Init, n > 0 PROVE CalibrationTrue
  BY DEF CalibrationInv
<1>1. Len(toDcu) = 0 /\ Len(toCp) = 0 /\ nrf = "decode" /\ calibrateIMUs = FALSE
  BY EmptySeq DEF Init
<1>2. /\ cp.given = {} /\ count.calibrated = 0
      /\ \A k \in Modules : calibrated[k] = "none"
  BY DEF Init
<1>3. Fresh
  BY <1>1, <1>2 DEF Fresh
<1>4. ~Asked /\ AskedOnce /\ AnnouncedOnce
  BY <1>1 DEF Asked, AskedOnce, AnnouncedOnce, NoRepeat
<1> QED
  BY <1>1, <1>3, <1>4, FreshIsDone DEF CalibrationTrue

\* For every setup that stays, whatever the line loses and however often sensors
\* drop and link again: when initThread starts the measurement the coprocessor
\* has the list, the rate and the data type, and has sent a connect status about
\* every module of the setup.  If none of them said "not connected" every module
\* has linked, and if each module was reported once it has been calibrated when
\* the button asked for it.
THEOREM StartIsReady == Spec => StartsReady
<1>1. ASSUME Typed, IInv, Listed, CountersInv, CalibrationInv, [Next]_vars,
             init' = "done", init # "done", uploads = 0
      PROVE  Ready
  <2>1. init = "start"
    BY <1>1 DEF Next, InitThread, SendPhaseCommand, AllPhasesPassed, TabletTimeSeen,
                StartMeasurement, NrfThread, HandleOk, HandleConnect, HandleCalibrate,
                DelayEnds, Handle, ButtonPressed, TabletSetsTime, SetupUploaded, CpReceive,
                Lose, SensorLinks, SensorLinksAgain, SensorNotConnected, SensorCalibrates, vars
  <2>2. CountersTrue /\ n > 0 /\ \A c \in Counters : count[c] = n
    BY <1>1, <2>1 DEF CountersInv, CountersTrue
  <2>3. relinks = 0 /\ drops = 0 => CalibrationTrue
    BY <1>1, <2>2 DEF CalibrationInv
  <2>4. {"list", "rate", "type"} \subseteq cp.given
    BY <2>2 DEF CountersTrue, Answered, Counters
  <2>5. 1 .. n \subseteq Reported
    <3>1. count["connected"] = n
      BY <2>2 DEF Counters
    <3>2. AllOfThem(connected)
      BY <2>2, <3>1 DEF CountersTrue
    <3>3. \A k \in 1 .. n : k \in Modules
      BY <1>1, BringupAssumption DEF Modules, Typed
    <3> QED
      BY <2>2, <3>2, <3>3 DEF AllOfThem, CountersTrue
  <2>6. relinks = 0 /\ drops = 0 /\ calibrateIMUs => \A k \in 1 .. n : cp.stage[k] = "done"
    <3>1. count["calibrated"] = n
      BY <2>2 DEF Counters
    <3> QED
      BY <2>3, <3>1 DEF CalibrationTrue, DoneIsDone
  <2>7. drops = 0 => 1 .. n \subseteq Linked
    BY <1>1, <2>5 DEF Listed, Reported
  <2> QED
    BY <2>4, <2>5, <2>6, <2>7 DEF Ready
<1>2. Typed /\ IInv /\ Listed /\ CountersInv /\ CalibrationInv /\ [Next]_vars =>
        [init' = "done" /\ init # "done" /\ uploads = 0 => Ready]_vars
  BY <1>1
<1> QED
  BY <1>2, TypedInit, TypedNext, InitInv, NextInv, ListedInit, ListedNext,
     CountersInit, CountersNext, CalibrationInit, CalibrationNext, PTL DEF Spec, StartsReady

=============================================================================
