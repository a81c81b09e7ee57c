--------------------------- MODULE StreamControl ---------------------------
(***************************************************************************)
(* Turning the data stream on and off.  The tablet thread and the watchdog *)
(* timer set the global streamMsgEnabled, which the interrupt and the      *)
(* sensor threads read, and post a copy of it to the streamer thread,      *)
(* which keeps the state of the port (app_tablet_com.c, app_streamer.c).   *)
(*                                                                         *)
(* The streamer and, below it, the timer task run while the tablet thread  *)
(* is idle or waits for a place in the queue.  Two loops that do not block *)
(* keep them from it: initThread's wait for the time of the tablet, as     *)
(* high as the tablet thread, and between streamer and timer a sensor      *)
(* thread's look at its empty queue.  Times are what the code tells apart: *)
(* 0, within the timeout and beyond it.                                    *)
(***************************************************************************)
EXTENDS Naturals, Sequences

CONSTANTS Slots,       \* length of the streamer's service queue (20)
          MaxMessages  \* bound: messages of the tablet

ASSUME StreamControlAssumption == Slots \in Nat \ {0} /\ MaxMessages \in Nat

VARIABLES
  online,    \* androidTabLinkHandler.isOnline
  last,      \* tLastWatchdogMsg
  action,    \* streamMsgEnabled.action
  queue,     \* the streamer's service queue
  port,      \* USB_Android_Port_Handler.state is streamingPort_ENABLED
  posting,   \* what the tablet thread is posting
  timer,     \* watchdogTimerCallback: where it is, its copy of the message and
             \* whether timewithoutWatchdog reaches the timeout
  initWaits, \* initThread has come to its wait for the time
  told,      \* tablet_time_received
  spinning,  \* a sensor thread has found its queue empty and looks again
  messages,  \* bound: messages handled
  raced      \* history: the posts may have changed their order, or one was dropped

looping == <<initWaits, told, spinning>>
vars == <<online, last, action, queue, port, posting, timer, looping, messages, raced>>

Switches == {"enable", "disable"}

\* Mutant of Full: one message more.
FullLate == Len(queue) > Slots
Full == Len(queue) = Slots

Idle == [at |-> "idle", msg |-> "none", late |-> FALSE]

Init ==
  /\ online = FALSE /\ last = "zero"
  /\ action = "disable"
  /\ queue = <<>> /\ port = FALSE
  /\ posting = "none"
  /\ timer = Idle
  /\ initWaits = FALSE /\ told = FALSE /\ spinning = FALSE
  /\ messages = 0 /\ raced = FALSE

-----------------------------------------------------------------------------
(* The tablet thread. *)

Hear ==
  /\ posting = "none"
  /\ messages < MaxMessages
  /\ messages' = messages + 1
  /\ UNCHANGED <<port, initWaits, spinning>>

\* watchdogUsbRxCallback.  A timer that has just read the tick subtracts this
\* time from it: the same tick, or a later one and the difference wraps around.
Heard ==
  /\ last' = "recent"
  /\ timer' \in IF timer.at = "tick" THEN {[timer EXCEPT !.late = b] : b \in BOOLEAN}
                ELSE {timer}

\* streamer_service_post: into the queue, or wait for a place.
Post(msg) ==
  IF Full THEN posting' = msg /\ raced' = TRUE /\ UNCHANGED queue
  ELSE /\ queue' = Append(queue, msg)
       /\ UNCHANGED posting
       /\ raced' = (raced \/ (msg \in Switches /\ timer.at = "post"))

ComesOnline ==
  /\ Hear
  /\ online' = TRUE
  /\ UNCHANGED <<last, action, queue, posting, timer, told, raced>>

\* SERVICE_REQUEST_CONNECTION_CHECK; the address it hands out is left out.
HearConnectionCheck == ComesOnline

\* SERVICE_RESPONSE_SETUP_ID, SERVICE_RESPONSE_NO_SETUP_ID
HearSetupId == ComesOnline

\* SERVICE_SOFTWARE_WATCHDOG
HearWatchdog ==
  /\ Hear /\ Heard
  /\ UNCHANGED <<online, action, queue, posting, told, raced>>

\* SERVICE_RESPONSE_PACKET_DATA_STREAM
HearAck ==
  /\ Hear /\ Heard
  /\ Post("ack")
  /\ UNCHANGED <<online, action, told>>

\* Mutant of Switch: a message of its own, and not streamMsgEnabled.
SwitchLocal(to) == Post(to) /\ UNCHANGED action
Switch(to) == action' = to /\ Post(to)

\* SERVICE_REQUEST_START_DATA_STREAM, SERVICE_REQUEST_STOP_DATA_STREAM
HearStart == Hear /\ Switch("enable") /\ UNCHANGED <<online, last, timer, told>>
HearStop  == Hear /\ Switch("disable") /\ UNCHANGED <<online, last, timer, told>>

\* SET_RTC_TIME
HearTime ==
  /\ Hear
  /\ told' = TRUE
  /\ UNCHANGED <<online, last, action, queue, posting, timer, raced>>

\* The post gets the place that has come free.
PostWaited ==
  /\ posting # "none" /\ ~Full
  /\ queue' = Append(queue, posting)
  /\ posting' = "none"
  /\ UNCHANGED <<online, last, action, port, timer, looping, messages, raced>>

\* After 10 ticks the message is dropped.
PostDropped ==
  /\ posting # "none" /\ Full
  /\ posting' = "none"
  /\ UNCHANGED <<online, last, action, queue, port, timer, looping, messages, raced>>

Tablet == HearConnectionCheck \/ HearSetupId \/ HearWatchdog \/ HearAck
            \/ HearStart \/ HearStop \/ HearTime \/ PostWaited \/ PostDropped

-----------------------------------------------------------------------------
(* The streamer thread. *)

LetsRun == posting = "none" \/ Full

\* initThread is in its loop, which nothing below its priority interrupts.
InitLoops == initWaits /\ ~told

\* The timer task gets no time.
Starved == spinning \/ InitLoops

StreamerReceives ==
  /\ LetsRun /\ ~InitLoops
  /\ queue # <<>>
  /\ queue' = Tail(queue)
  /\ port' = CASE Head(queue) = "enable"  -> TRUE
               [] Head(queue) = "disable" -> FALSE
               [] OTHER -> port
  /\ UNCHANGED <<online, last, action, posting, timer, looping, messages, raced>>

-----------------------------------------------------------------------------
(* watchdogTimerCallback, and time. *)

TimerAt(place) == LetsRun /\ ~Starved /\ timer.at = place

TimerGoes(from, to) == TimerAt(from) /\ timer' = [timer EXCEPT !.at = to]

\* timewithoutWatchdog: xTaskGetTickCount is read, and then tLastWatchdogMsg.
TimerReadsTick ==
  /\ TimerAt("idle")
  /\ timer' = [timer EXCEPT !.at = "tick", !.late = last # "recent"]
  /\ UNCHANGED <<online, last, action, queue, port, posting, looping, messages, raced>>

TimerReadsLast ==
  /\ TimerGoes("tick", "first?")
  /\ UNCHANGED <<online, last, action, queue, port, posting, looping, messages, raced>>

\* The first if.  tLastWatchdogMsg is read once more.
TimerTestsFirst ==
  /\ TimerGoes("first?", IF online /\ ~port /\ last = "zero" THEN "first" ELSE "late?")
  /\ UNCHANGED <<online, last, action, queue, port, posting, looping, messages, raced>>

\* Mutant of FirstSeen: the time is not initialized.
FirstSeenForgets == UNCHANGED last
FirstSeen == last' = "recent"

TimerInitializes ==
  /\ TimerAt("first")
  /\ FirstSeen
  /\ timer' = Idle
  /\ UNCHANGED <<online, action, queue, port, posting, looping, messages, raced>>

\* The else if: isOnline is read once more, the difference is the one above.
TimerTestsLate ==
  /\ TimerAt("late?")
  /\ timer' = IF online /\ timer.late THEN [timer EXCEPT !.at = "offline"] ELSE Idle
  /\ UNCHANGED <<online, last, action, queue, port, posting, looping, messages, raced>>

TimerSetsOffline ==
  /\ TimerGoes("offline", "clear")
  /\ online' = FALSE
  /\ UNCHANGED <<last, action, queue, port, posting, looping, messages, raced>>

TimerClears ==
  /\ TimerGoes("clear", "streaming?")
  /\ last' = "zero"
  /\ UNCHANGED <<online, action, queue, port, posting, looping, messages, raced>>

\* Mutant of AfterClear: the stream goes on.
AfterClearIdle == Idle
AfterClear == IF port THEN [timer EXCEPT !.at = "switch"] ELSE Idle

TimerTestsStream ==
  /\ TimerAt("streaming?")
  /\ timer' = AfterClear
  /\ UNCHANGED <<online, last, action, queue, port, posting, looping, messages, raced>>

\* tablet_com_disable_streaming: the message is set, copied as it then is,
\* and posted.
TimerSwitches ==
  /\ TimerGoes("switch", "copy")
  /\ action' = "disable"
  /\ UNCHANGED <<online, last, queue, port, posting, looping, messages, raced>>

TimerCopies ==
  /\ TimerAt("copy")
  /\ timer' = [timer EXCEPT !.at = "post", !.msg = action]
  /\ UNCHANGED <<online, last, action, queue, port, posting, looping, messages, raced>>

TimerPosts ==
  /\ TimerAt("post") /\ ~Full
  /\ queue' = Append(queue, timer.msg)
  /\ timer' = Idle
  /\ UNCHANGED <<online, last, action, port, posting, looping, messages, raced>>

TimerDrops ==
  /\ TimerAt("post") /\ Full
  /\ timer' = Idle
  /\ raced' = TRUE
  /\ UNCHANGED <<online, last, action, queue, port, posting, looping, messages>>

Timer == TimerReadsTick \/ TimerReadsLast \/ TimerTestsFirst \/ TimerInitializes
           \/ TimerTestsLate \/ TimerSetsOffline \/ TimerClears \/ TimerTestsStream
           \/ TimerSwitches \/ TimerCopies \/ TimerPosts \/ TimerDrops

\* The timeout passes.
Elapse ==
  /\ last = "recent"
  /\ last' = "old"
  /\ UNCHANGED <<online, action, queue, port, posting, timer, looping, messages, raced>>

-----------------------------------------------------------------------------
(* The threads that loop without blocking. *)

\* The modules are ready: initThread waits for the time, once.
InitComes ==
  /\ ~initWaits
  /\ initWaits' = TRUE
  /\ UNCHANGED <<online, last, action, queue, port, posting, timer, told, spinning, messages, raced>>

\* A sensor thread is back from its osDelay and there is no sample.
RunsDry ==
  /\ ~spinning
  /\ spinning' = TRUE
  /\ UNCHANGED <<online, last, action, queue, port, posting, timer, initWaits, told, messages, raced>>

\* Samples come.  While the stream is off, none is passed on.
Fed ==
  /\ spinning /\ action = "enable"
  /\ spinning' = FALSE
  /\ UNCHANGED <<online, last, action, queue, port, posting, timer, initWaits, told, messages, raced>>

Next == Tablet \/ StreamerReceives \/ Timer \/ Elapse \/ InitComes \/ RunsDry \/ Fed

Spec == Init /\ [][Next]_vars

\* Time passes, and a thread that can run again and again does: the streamer
\* and the timer, whose 50 ticks are over by then, are kept waiting by the loops
\* above.  Nothing makes a loop end or the tablet send.
FairSpec ==
  /\ Spec
  /\ WF_vars(PostWaited \/ PostDropped) /\ WF_vars(Elapse)
  /\ SF_vars(StreamerReceives) /\ SF_vars(Timer)

-----------------------------------------------------------------------------
TypeOK ==
  /\ online \in BOOLEAN /\ port \in BOOLEAN
  /\ raced \in BOOLEAN
  /\ last \in {"zero", "recent", "old"}
  /\ action \in Switches
  /\ queue \in Seq(Switches \cup {"ack"}) /\ Len(queue) <= Slots
  /\ posting \in Switches \cup {"ack", "none"}
  /\ timer \in [at : {"idle", "tick", "first?", "first", "late?", "offline", "clear",
                      "streaming?", "switch", "copy", "post"},
                msg : Switches \cup {"none"}, late : BOOLEAN]
  /\ initWaits \in BOOLEAN /\ told \in BOOLEAN /\ spinning \in BOOLEAN
  /\ messages \in 0 .. MaxMessages

\* No switch is under way.
Quiet == /\ \A i \in DOMAIN queue : queue[i] \notin Switches
         /\ posting = "none"
         /\ timer.at \notin {"copy", "post"}

\* The two records of whether the stream is on, the global that interrupt and
\* sensor threads read and the state of the streamer's port, agree when no
\* switch is under way, whoever switched and in whatever order - unless a post
\* met a full queue or the timer was preempted with a copy in its hands.
AgreeUnlessRaced == Quiet /\ ~raced => port = (action = "enable")

\* When the tablet falls silent, the link is down in the end - unless from some
\* time on the timer never gets to run,
SilenceEndsLink ==
  []<>~Starved => ((messages = MaxMessages) ~> ~online)

\* and a stream that was on while it was up stops - unless the switch was lost.
SilenceStopsStream ==
  []<>~Starved => ((messages = MaxMessages /\ online /\ port) ~> (~port \/ raced))

=============================================================================
