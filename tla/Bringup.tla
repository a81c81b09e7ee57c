------------------------------ MODULE Bringup ------------------------------
(***************************************************************************)
(* Bringing the sensors up: initThread (app/app_init.c) walks through the  *)
(* phases, nRF52ComManagerThread (app/app_nRF52_com.c) keeps the score of  *)
(* what the nRF52 coprocessor reports, the tablet supplies the time, a     *)
(* button asks for a calibration.  The two processors talk over UART4;     *)
(* a frame with a wrong checksum is dropped, and HAL_UART_Transmit, which  *)
(* two threads call with no lock, sends nothing when it finds the UART     *)
(* busy: messages get lost, and only some of the commands are repeated.    *)
(*                                                                         *)
(* The coprocessor is external: it answers a command with COMM_CMD_OK,     *)
(* reports a sensor that links or is not connected, and numbers sensors in  *)
(* the order in which they linked (the comment at app/app_nRF52_com.c:157). *)
(***************************************************************************)
EXTENDS Naturals, Sequences, FiniteSets

CONSTANTS MaxModules,  \* sensors a setup may list
          LineLen,     \* bound: messages on their way to the DCU
          MaxLosses,   \* bound: messages lost
          MaxChanges   \* bound: sensors that link twice, drop or are not found, and
                       \* setups uploaded while the sensors come up

ASSUME BringupAssumption ==
  /\ MaxModules \in Nat \ {0} /\ LineLen \in Nat \ {0}
  /\ MaxLosses \in Nat /\ MaxChanges \in Nat

Modules == 1 .. MaxModules

VARIABLES
  boot,          \* modules whose MAC initThread copied; 0: no raw file
  n,             \* numberOfModules
  init,          \* where initThread is
  nrf,           \* where nRF52ComManagerThread is
  count,         \* the counters numberOfModules{MACAddressAvailable, ...}
  typeGiven,     \* imu_array[0]->outputDataTypeGiven
  connected,     \* per module: connected
  sequence,      \* per module: connectingSequence
  nextSequence,  \* moduleConnectingSequence
  calibrated,    \* per module: is_calibrated
  calibrateIMUs, \* the button was pressed in time
  tabletTime,    \* tablet_time_received
  toCp, toDcu,   \* UART4, both ways
  cp,            \* the coprocessor
  losses, lost,  \* messages lost; history: their kinds
  relinks, drops, uploads

dcuVars == <<n, count, typeGiven, connected, sequence, nextSequence, calibrated>>
vars == <<boot, init, nrf, dcuVars, calibrateIMUs, tabletTime, toCp, toDcu, cp,
          losses, lost, relinks, drops, uploads>>

Init ==
  /\ boot \in 0 .. MaxModules
  /\ n = boot
  /\ init = "loop"
  /\ nrf = "decode"
  /\ count = [list |-> 0, connected |-> 0, calibrated |-> 0, rate |-> 0, type |-> 0]
  /\ typeGiven = FALSE
  /\ connected = [k \in Modules |-> FALSE]
  /\ sequence = [k \in Modules |-> 0]
  /\ nextSequence = 1
  /\ calibrated = [k \in Modules |-> "none"]
  /\ calibrateIMUs = FALSE
  /\ tabletTime = FALSE
  /\ toCp = <<>>
  /\ toDcu = <<>>
  /\ cp = [given |-> {}, order |-> <<>>, down |-> {}, missing |-> {}, started |-> FALSE,
           stage |-> [k \in Modules |-> "none"]]
  /\ losses = 0
  /\ lost = {}
  /\ relinks = 0
  /\ drops = 0
  /\ uploads = 0

-----------------------------------------------------------------------------
SendToCp(c) == toCp' = Append(toCp, c)

SendToDcu(msg) == Len(toDcu) < LineLen /\ toDcu' = Append(toDcu, msg)

(* initThread.  One turn of its loop ends in at most one command, and begins
   200 ms after the turn before it, when the line has taken that command. *)

\* The phases in the order the nested tests try them; the turn is at phase p
\* when every earlier counter has reached numberOfModules and p's has not.
Phases == <<"list", "connected", "calibrated", "rate", "type">>

AtPhase(i) ==
  /\ init = "loop" /\ boot > 0 /\ n > 0 /\ toCp = <<>>
  /\ \A j \in 1 .. i - 1 : count[Phases[j]] = n
  /\ i <= Len(Phases) => count[Phases[i]] # n

\* comm_set_mac_addr, then comm_set_frequency, are sent again every turn until
\* the counter moves; comm_set_data_type as long as the first module's flag is
\* clear.  In the phases between them initThread only shows a text.
SendPhaseCommand ==
  /\ \/ AtPhase(1) /\ SendToCp("list")
     \/ AtPhase(4) /\ SendToCp("rate")
     \/ AtPhase(5) /\ ~typeGiven /\ SendToCp("type")
  /\ UNCHANGED <<boot, init, nrf, dcuVars, calibrateIMUs, tabletTime, toDcu, cp,
                 losses, lost, relinks, drops, uploads>>

AllPhasesPassed ==
  /\ AtPhase(6)
  /\ init' = "tablet"
  /\ UNCHANGED <<boot, nrf, dcuVars, calibrateIMUs, tabletTime, toCp, toDcu, cp,
                 losses, lost, relinks, drops, uploads>>

\* while (tablet_get_time_received() == 0); then tablet_set_time_received(0).
TabletTimeSeen ==
  /\ init = "tablet"
  /\ tabletTime
  /\ tabletTime' = FALSE
  /\ init' = "start"
  /\ UNCHANGED <<boot, nrf, dcuVars, calibrateIMUs, toCp, toDcu, cp, losses, lost,
                 relinks, drops, uploads>>

\* comm_start_meas_w_time, then the thread terminates itself.
StartMeasurement ==
  /\ init = "start"
  /\ SendToCp("start")
  /\ init' = "done"
  /\ UNCHANGED <<boot, nrf, dcuVars, calibrateIMUs, tabletTime, toDcu, cp, losses,
                 lost, relinks, drops, uploads>>

-----------------------------------------------------------------------------
(* nRF52ComManagerThread: the handlers of the coprocessor's messages. *)

Handle(kind) ==
  /\ nrf = "decode"
  /\ toDcu # <<>>
  /\ Head(toDcu).kind = kind
  /\ toDcu' = Tail(toDcu)
  /\ UNCHANGED <<boot, init, calibrateIMUs, tabletTime, toCp, cp, losses, lost,
                 relinks, drops, uploads>>


\* COMM_CMD_OK answers the list, the frequency or the data type.
HandleOk ==
  /\ Handle("ok")
  /\ LET c == Head(toDcu).of
     IN  /\ count' = [count EXCEPT ![c] = n]
         /\ typeGiven' = (typeGiven \/ c = "type")
  /\ UNCHANGED <<nrf, n, connected, sequence, nextSequence, calibrated>>

\* Mutant of IsNew: a sensor that links again is numbered again.
IsNewAlways(k) == k <= n

\* The MAC address is one of the setup's, and its first connect status.
IsNew(k) == k <= n /\ ~connected[k]

\* Mutant of SequenceOf: the module's place in the setup.
SequenceInSetup(k) == k

SequenceOf(k) == nextSequence

\* Mutant of AllOfThem: one module is enough.
AnyOfThem(flag) == \E j \in 1 .. n : flag[j]

\* The loops that compare timesFound with numberOfModules.
AllOfThem(flag) == \A j \in 1 .. n : flag[j]

\* COMM_CMD_SENSOR_CONNECT_STATUS, up to osDelay(2000) when all are connected.
\* The status byte DU[5], here `up`, is not looked at.
HandleConnect ==
  LET k == Head(toDcu).module IN
  /\ Handle("connect")
  /\ IF IsNew(k)
     THEN /\ connected' = [connected EXCEPT ![k] = TRUE]
          /\ sequence' = [sequence EXCEPT ![k] = SequenceOf(k)]
          /\ nextSequence' = nextSequence + 1
     ELSE UNCHANGED <<connected, sequence, nextSequence>>
  /\ IF AllOfThem(connected')
     THEN count' = [count EXCEPT !.connected = n] /\ nrf' = "delay"
     ELSE UNCHANGED <<count, nrf>>
  /\ UNCHANGED <<n, typeGiven, calibrated>>

\* After the delay: comm_calibrate if the button was pressed, otherwise every
\* module counts as calibrated.
DelayEnds ==
  /\ nrf = "delay"
  /\ nrf' = "decode"
  /\ IF calibrateIMUs
     THEN SendToCp("calibrate") /\ UNCHANGED <<calibrated, count>>
     ELSE /\ calibrated' = [k \in Modules |-> IF k <= n THEN "done" ELSE calibrated[k]]
          /\ count' = [count EXCEPT !.calibrated = n]
          /\ UNCHANGED toCp
  /\ UNCHANGED <<boot, init, n, typeGiven, connected, sequence, nextSequence,
                 calibrateIMUs, tabletTime, toDcu, cp, losses, lost, relinks, drops, uploads>>

\* COMM_CMD_CALIBRATE: the stage a module is in.
HandleCalibrate ==
  /\ Handle("calibrate")
  /\ calibrated' = [calibrated EXCEPT ![Head(toDcu).module] = Head(toDcu).stage]
  /\ IF AllOfThem([k \in Modules |-> calibrated'[k] = "done"])
     THEN count' = [count EXCEPT !.calibrated = n]
     ELSE UNCHANGED count
  /\ UNCHANGED <<nrf, n, typeGiven, connected, sequence, nextSequence>>

NrfThread == HandleOk \/ HandleConnect \/ HandleCalibrate \/ DelayEnds

-----------------------------------------------------------------------------
(* The other threads. *)

MayChange == relinks + drops + uploads < MaxChanges

\* IMUCalibrationTask: the button counts only before all are connected.
ButtonPressed ==
  /\ count.connected # n
  /\ ~calibrateIMUs
  /\ calibrateIMUs' = TRUE
  /\ UNCHANGED <<boot, init, nrf, dcuVars, tabletTime, toCp, toDcu, cp, losses, lost,
                 relinks, drops, uploads>>

\* The tablet thread on SET_RTC_TIME.
TabletSetsTime ==
  /\ ~tabletTime /\ init # "done"
  /\ tabletTime' = TRUE
  /\ UNCHANGED <<boot, init, nrf, dcuVars, calibrateIMUs, toCp, toDcu, cp, losses, lost,
                 relinks, drops, uploads>>

\* The tablet thread stores a new setup: decode_config sets numberOfModules.
SetupUploaded ==
  /\ MayChange
  /\ n' \in Modules
  /\ uploads' = uploads + 1
  /\ UNCHANGED <<boot, init, nrf, count, typeGiven, connected, sequence, nextSequence,
                 calibrated, calibrateIMUs, tabletTime, toCp, toDcu, cp, losses, lost, relinks,
                 drops>>

-----------------------------------------------------------------------------
(* The coprocessor and the line. *)

\* The modules that have linked, and those a connect status was sent about:
\* cp.missing was reported as not connected before it had linked, cp.down has
\* dropped since it did.
Linked == {cp.order[i] : i \in DOMAIN cp.order}

Reported == Linked \cup cp.missing

CpReceive ==
  /\ toCp # <<>>
  /\ toCp' = Tail(toCp)
  /\ LET c == Head(toCp) IN
     IF c \in {"list", "rate", "type"}
     THEN /\ cp' = [cp EXCEPT !.given = @ \cup {c}]
          /\ SendToDcu([kind |-> "ok", of |-> c])
     ELSE /\ cp' = IF c = "start" THEN [cp EXCEPT !.started = TRUE]
                   ELSE [cp EXCEPT !.stage = [k \in Modules |-> "none"],
                                   !.given = @ \cup {c}]
          /\ UNCHANGED toDcu
  /\ UNCHANGED <<boot, init, nrf, dcuVars, calibrateIMUs, tabletTime, losses, lost,
                 relinks, drops, uploads>>

SensorLinks(k) ==
  /\ "list" \in cp.given /\ k <= boot /\ k \notin Linked
  /\ cp' = [cp EXCEPT !.order = Append(@, k)]
  /\ SendToDcu([kind |-> "connect", module |-> k, up |-> TRUE])
  /\ UNCHANGED <<boot, init, nrf, dcuVars, calibrateIMUs, tabletTime, toCp, losses,
                 lost, relinks, drops, uploads>>

\* One that has dropped may come back beyond the bound.
SensorLinksAgain(k) ==
  /\ MayChange \/ k \in cp.down
  /\ k \in Linked
  /\ relinks' = relinks + 1
  /\ cp' = [cp EXCEPT !.down = @ \ {k}]
  /\ SendToDcu([kind |-> "connect", module |-> k, up |-> TRUE])
  /\ UNCHANGED <<boot, init, nrf, dcuVars, calibrateIMUs, tabletTime, toCp, losses, lost,
                 drops, uploads>>

\* A sensor of the list drops, or is not found.
SensorNotConnected(k) ==
  /\ MayChange
  /\ "list" \in cp.given /\ k <= boot
  /\ drops' = drops + 1
  /\ cp' = IF k \in Linked THEN [cp EXCEPT !.down = @ \cup {k}]
           ELSE [cp EXCEPT !.missing = @ \cup {k}]
  /\ SendToDcu([kind |-> "connect", module |-> k, up |-> FALSE])
  /\ UNCHANGED <<boot, init, nrf, dcuVars, calibrateIMUs, tabletTime, toCp, losses, lost,
                 relinks, uploads>>

SensorCalibrates(k) ==
  LET stage == IF cp.stage[k] = "none" THEN "busy" ELSE "done" IN
  /\ "calibrate" \in cp.given /\ k \in Linked \ cp.down /\ cp.stage[k] # "done"
  /\ cp' = [cp EXCEPT !.stage[k] = stage]
  /\ SendToDcu([kind |-> "calibrate", module |-> k, stage |-> stage])
  /\ UNCHANGED <<boot, init, nrf, dcuVars, calibrateIMUs, tabletTime, toCp, losses,
                 lost, relinks, drops, uploads>>

Lose ==
  /\ losses < MaxLosses
  /\ losses' = losses + 1
  /\ \/ /\ toCp # <<>>
        /\ toCp' = Tail(toCp)
        /\ lost' = lost \cup {Head(toCp)}
        /\ UNCHANGED toDcu
     \/ /\ toDcu # <<>>
        /\ toDcu' = Tail(toDcu)
        /\ lost' = lost \cup {Head(toDcu).kind}
        /\ UNCHANGED toCp
  /\ UNCHANGED <<boot, init, nrf, dcuVars, calibrateIMUs, tabletTime, cp, relinks, drops,
                 uploads>>

InitThread == SendPhaseCommand \/ AllPhasesPassed \/ TabletTimeSeen \/ StartMeasurement

Next ==
  \/ InitThread \/ NrfThread
  \/ ButtonPressed \/ TabletSetsTime \/ SetupUploaded
  \/ CpReceive \/ Lose
  \/ \E k \in Modules : \/ SensorLinks(k) \/ SensorLinksAgain(k)
                         \/ SensorNotConnected(k) \/ SensorCalibrates(k)

Spec == Init /\ [][Next]_vars

\* The threads run, the coprocessor answers, every sensor links and finishes
\* its calibration, and the tablet sends the time.  Messages may be lost (a
\* bounded number of them), the button may or may not be pressed.
FairSpec ==
  /\ Spec
  /\ WF_vars(InitThread) /\ WF_vars(NrfThread) /\ WF_vars(CpReceive)
  /\ WF_vars(TabletSetsTime)
  /\ \A k \in Modules : WF_vars(SensorLinks(k)) /\ WF_vars(SensorCalibrates(k))

-----------------------------------------------------------------------------
Commands == {"list", "rate", "type", "calibrate", "start"}

Stages == {"none", "busy", "done"}

TypeOK ==
  /\ boot \in 0 .. MaxModules /\ n \in 0 .. MaxModules
  /\ init \in {"loop", "tablet", "start", "done"}
  /\ nrf \in {"decode", "delay"}
  /\ count \in [list : 0 .. MaxModules, connected : 0 .. MaxModules,
                calibrated : 0 .. MaxModules, rate : 0 .. MaxModules, type : 0 .. MaxModules]
  /\ connected \in [Modules -> BOOLEAN]
  /\ sequence \in [Modules -> 0 .. MaxModules]
  /\ nextSequence \in 1 .. MaxModules + 1
  /\ calibrated \in [Modules -> Stages]
  /\ {typeGiven, calibrateIMUs, tabletTime} \subseteq BOOLEAN
  /\ toCp \in Seq(Commands) /\ Len(toDcu) <= LineLen
  /\ cp.given \subseteq Commands /\ cp.order \in Seq(Modules)
  /\ cp.down \subseteq Modules /\ cp.missing \subseteq Modules
  /\ lost \subseteq Commands \cup {"ok", "connect"}

\* The connecting sequences of the connected modules are 1, 2, ... without a
\* gap or a repetition, however often a sensor links and whatever is lost:
\* nRF52ComManagerThread's search for DU[3]+1 finds at most one module.
SequencesAreDense ==
  /\ {sequence[k] : k \in {j \in Modules : connected[j]}} = 1 .. nextSequence - 1
  /\ \A j, k \in Modules : connected[j] /\ connected[k] /\ sequence[j] = sequence[k] => j = k

\* A module's sequence is its place in the coprocessor's order, so its data is
\* filed under the module, unless a connect status was lost or spoke of a module
\* that had not linked, or the setup was replaced.
FiledRightUnlessLost ==
  "connect" \notin lost /\ cp.missing = {} /\ uploads = 0 =>
    \A k \in Modules : connected[k] =>
      sequence[k] \in DOMAIN cp.order /\ cp.order[sequence[k]] = k

\* "if we search this in the table, then we have the right sensor nr"
\* (app/app_nRF52_com.c:161): as FiledRightUnlessLost, with nothing excepted.
DataFindsItsModule ==
  \A k \in Modules : connected[k] =>
    sequence[k] \in DOMAIN cp.order /\ cp.order[sequence[k]] = k

\* When initThread starts the measurement, the coprocessor has been given the
\* list, the rate and the data type, and has sent a connect status about every
\* module of the setup, whatever the line has lost: the counters tell no more
\* than that about the other processor.  A module may have dropped since it
\* linked, and one reported as not connected counts like one that linked.  If
\* the button asked for it every module has been calibrated, unless a connect
\* status came twice: numberOfModulesCalibrated is never taken back.  Excepted
\* is a setup replaced on the way.
Ready ==
  /\ {"list", "rate", "type"} \subseteq cp.given
  /\ 1 .. n \subseteq Reported
  /\ drops = 0 => 1 .. n \subseteq Linked
  /\ relinks = 0 /\ drops = 0 /\ calibrateIMUs => \A k \in 1 .. n : cp.stage[k] = "done"

StartsReady == [][init' = "done" /\ init # "done" /\ uploads = 0 => Ready]_vars


=============================================================================
