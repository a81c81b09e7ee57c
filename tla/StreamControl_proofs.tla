------------------------ MODULE StreamControl_proofs ------------------------
(***************************************************************************)
(* For any length of the service queue and any number of messages:         *)
(* streamMsgEnabled and the streamer's port agree whenever no switch is    *)
(* under way, unless a post met a full queue or overtook the timer's.      *)
(***************************************************************************)
EXTENDS StreamControl, SequenceTheorems, TLAPS

Messages == Switches \cup {"ack"}
Idling   == {"idle", "tick", "first?", "first", "late?", "offline", "clear",
             "streaming?", "switch"}
Places   == Idling \cup {"copy", "post"}
Timers   == [at : Places, msg : Switches \cup {"none"}, late : BOOLEAN]

\* The queue ends in the switch to a, or in acknowledgements that follow it.
EndsIn(q, a) ==
  \E i \in 1 .. Len(q) : q[i] = a /\ \A j \in i + 1 .. Len(q) : q[j] = "ack"

\* Once the streamer has taken what is in the queue, the port is as a says.
Settles(q, p, a) ==
  \/ EndsIn(q, a)
  \/ (\A i \in 1 .. Len(q) : q[i] = "ack") /\ p = (a = "enable")

\* Until a race: nothing waits for a place in the queue, the timer's copy is
\* still the message, and the queue settles the port - except from the moment
\* the timer has set the message until it posts it.
InOrder ==
  /\ posting = "none"
  /\ timer.at = "post" => timer.msg = action
  /\ timer.at \in Idling => Settles(queue, port, action)

\* The types InOrder needs.
Typed ==
  /\ action \in Switches /\ port \in BOOLEAN /\ raced \in BOOLEAN
  /\ queue \in Seq(Messages) /\ posting \in Messages \cup {"none"}
  /\ timer \in Timers
  /\ timer.at = "post" => timer.msg \in Switches

IInv == Typed /\ (~raced => InOrder)

\* What has happened is not undone by a message at the end of the queue.
LEMMA AckSettles ==
  ASSUME NEW q \in Seq(Messages), NEW p \in BOOLEAN, NEW a \in Switches, Settles(q, p, a)
  PROVE  Settles(Append(q, "ack"), p, a)
<1> DEFINE r == Append(q, "ack")
<1>1. Len(q) \in Nat /\ Len(r) = Len(q) + 1 /\ r[Len(q) + 1] = "ack"
        /\ \A i \in 1 .. Len(q) : r[i] = q[i]
  BY AppendProperties, LenProperties DEF Messages
<1> HIDE DEF r
<1>2. CASE EndsIn(q, a)
  <2>1. PICK i \in 1 .. Len(q) : q[i] = a /\ \A j \in i + 1 .. Len(q) : q[j] = "ack"
    BY <1>2 DEF EndsIn
  <2>2. i \in 1 .. Len(r) /\ r[i] = a
    BY <1>1, <2>1
  <2>3. \A j \in i + 1 .. Len(r) : r[j] = "ack"
    BY <1>1, <2>1
  <2>4. EndsIn(r, a)
    BY <2>2, <2>3 DEF EndsIn
  <2> QED
    BY <2>4 DEF Settles, r
<1>3. CASE (\A i \in 1 .. Len(q) : q[i] = "ack") /\ p = (a = "enable")
  <2>1. \A i \in 1 .. Len(r) : r[i] = "ack"
    BY <1>1, <1>3
  <2> QED
    BY <2>1, <1>3 DEF Settles, r
<1> QED
  BY <1>2, <1>3 DEF Settles

\* A switch at the end of the queue settles the port as it says.
LEMMA SwitchSettles ==
  ASSUME NEW q \in Seq(Messages), NEW p \in BOOLEAN, NEW a \in Switches
  PROVE  Settles(Append(q, a), p, a)
<1> DEFINE r == Append(q, a)
<1>1. Len(q) \in Nat /\ Len(r) = Len(q) + 1 /\ r[Len(q) + 1] = a
  BY AppendProperties, LenProperties DEF Messages
<1> HIDE DEF r
<1>2. Len(r) \in 1 .. Len(r) /\ r[Len(r)] = a /\ \A j \in Len(r) + 1 .. Len(r) : r[j] = "ack"
  BY <1>1
<1> QED
  BY <1>2 DEF Settles, EndsIn, r

\* The streamer takes a message and does what it says.
LEMMA TakenSettles ==
  ASSUME NEW q \in Seq(Messages), q # <<>>, NEW p \in BOOLEAN, NEW pNew \in BOOLEAN,
         NEW a \in Switches, Settles(q, p, a),
         Head(q) = "enable" => pNew = TRUE,
         Head(q) = "disable" => pNew = FALSE,
         Head(q) = "ack" => pNew = p
  PROVE  Settles(Tail(q), pNew, a)
<1> DEFINE r == Tail(q)
<1>1. Len(q) \in Nat /\ Len(q) > 0 /\ Len(r) = Len(q) - 1 /\ Head(q) = q[1]
        /\ \A i \in 1 .. Len(r) : r[i] = q[i + 1]
  BY HeadTailProperties, LenProperties, EmptySeq DEF Messages
<1> HIDE DEF r
<1>2. CASE EndsIn(q, a)
  <2>1. PICK i \in 1 .. Len(q) : q[i] = a /\ \A j \in i + 1 .. Len(q) : q[j] = "ack"
    BY <1>2 DEF EndsIn
  <2>2. CASE i = 1
    <3>1. \A j \in 1 .. Len(r) : r[j] = "ack"
      BY <1>1, <2>1, <2>2
    <3>2. Head(q) = a
      BY <1>1, <2>1, <2>2
    <3>3. CASE a = "enable"
      <4>1. pNew = TRUE
        BY <3>2, <3>3
      <4> QED
        BY <3>1, <3>3, <4>1 DEF Settles, r
    <3>4. CASE a = "disable"
      <4>1. pNew = FALSE /\ (a = "enable") = FALSE
        BY <3>2, <3>4
      <4> QED
        BY <3>1, <4>1 DEF Settles, r
    <3> QED
      BY <3>3, <3>4 DEF Switches
  <2>3. CASE i # 1
    <3>1. i - 1 \in 1 .. Len(r) /\ r[i - 1] = a
      BY <1>1, <2>1, <2>3
    <3>2. \A j \in (i - 1) + 1 .. Len(r) : r[j] = "ack"
      BY <1>1, <2>1, <2>3
    <3>3. EndsIn(r, a)
      BY <3>1, <3>2 DEF EndsIn
    <3> QED
      BY <3>3 DEF Settles, r
  <2> QED
    BY <2>2, <2>3
<1>3. CASE (\A i \in 1 .. Len(q) : q[i] = "ack") /\ p = (a = "enable")
  <2>1. \A i \in 1 .. Len(r) : r[i] = "ack"
    BY <1>1, <1>3
  <2>2. Head(q) = "ack"
    BY <1>1, <1>3
  <2>3. pNew = p
    BY <2>2
  <2> QED
    BY <1>3, <2>1, <2>3 DEF Settles, r
<1> QED
  BY <1>2, <1>3 DEF Settles

-----------------------------------------------------------------------------
\* The initial state satisfies the inductive invariant.
LEMMA InitInv == Init => IInv
<1> SUFFICES ASSUME Init PROVE IInv
  OBVIOUS
<1>1. queue \in Seq(Messages) /\ Len(queue) = 0
  BY EmptySeq, LenProperties DEF Init
<1>2. action \in Switches /\ port \in BOOLEAN /\ raced \in BOOLEAN
  BY DEF Init, Switches
<1>3. timer \in Timers /\ timer.at \in Idling
  BY DEF Init, Idle, Timers, Places, Idling
<1>4. (\A i \in 1 .. Len(queue) : queue[i] = "ack") /\ port = (action = "enable")
  <2>1. port = FALSE /\ (action = "enable") = FALSE
    BY DEF Init
  <2>2. \A i \in 1 .. Len(queue) : queue[i] = "ack"
    BY <1>1
  <2> QED
    BY <2>1, <2>2
<1>5. Settles(queue, port, action)
  BY <1>4 DEF Settles
<1>6. InOrder
  BY <1>5 DEF Init, Idle, InOrder
<1> QED
  BY <1>1, <1>2, <1>3, <1>6 DEF IInv, Typed, InOrder, Idling

\* The steps that touch neither the queue, the port nor the message, while the
\* timer stays where it is, with the message it holds, or goes on to a place
\* before the copy.
LEMMA Untouched ==
  ASSUME IInv, UNCHANGED <<action, queue, port, posting, raced>>, timer' \in Timers,
         \/ timer'.at = timer.at /\ timer'.msg = timer.msg
         \/ timer.at \in Idling /\ timer'.at \in Idling
  PROVE  IInv'
<1>1. CASE timer'.at = timer.at /\ timer'.msg = timer.msg
  BY <1>1 DEF IInv, Typed, InOrder
<1>2. CASE timer.at \in Idling /\ timer'.at \in Idling
  <2>1. timer'.at # "post"
    BY <1>2 DEF Idling
  <2> QED
    BY <1>2, <2>1 DEF IInv, Typed, InOrder
<1> QED
  BY <1>1, <1>2

\* The tablet's sign of life touches only the difference the timer computes.
LEMMA HeardTimer ==
  ASSUME Typed, Heard
  PROVE  timer' \in Timers /\ timer'.at = timer.at /\ timer'.msg = timer.msg
<1>1. CASE timer.at = "tick"
  <2>1. PICK b \in BOOLEAN : timer' = [timer EXCEPT !.late = b]
    BY <1>1 DEF Heard
  <2> QED
    BY <2>1 DEF Typed, Timers
<1>2. CASE timer.at # "tick"
  BY <1>2 DEF Heard, Typed
<1> QED
  BY <1>1, <1>2

\* A post by the tablet thread keeps the types.
LEMMA PostTyped ==
  ASSUME Typed, NEW msg \in Messages, Post(msg), UNCHANGED port, action' \in Switches,
         timer' \in Timers, timer'.at = timer.at, timer'.msg = timer.msg
  PROVE  Typed'
<1>1. queue' \in Seq(Messages)
  BY AppendProperties DEF Typed, Post
<1>2. raced' \in BOOLEAN /\ posting' \in Messages \cup {"none"}
  BY DEF Typed, Post
<1> QED
  BY <1>1, <1>2 DEF Typed

\* SERVICE_RESPONSE_PACKET_DATA_STREAM
LEMMA AckInv == IInv /\ HearAck => IInv'
<1> SUFFICES ASSUME IInv, HearAck PROVE IInv'
  OBVIOUS
<1>1. /\ Post("ack") /\ UNCHANGED <<action, port>>
      /\ timer' \in Timers /\ timer'.at = timer.at /\ timer'.msg = timer.msg
  BY HeardTimer DEF HearAck, Hear, IInv
<1>2. Typed'
  BY <1>1, PostTyped DEF IInv, Typed, Messages
<1>3. SUFFICES ASSUME ~raced' PROVE InOrder'
  BY <1>2 DEF IInv
<1>4. ~raced /\ queue' = Append(queue, "ack") /\ UNCHANGED posting
  BY <1>1, <1>3 DEF Post
<1>5. timer.at \in Idling => Settles(queue', port, action)
  BY <1>4, AckSettles DEF IInv, Typed, InOrder
<1> QED
  BY <1>1, <1>4, <1>5 DEF IInv, InOrder

\* SERVICE_REQUEST_START_DATA_STREAM and SERVICE_REQUEST_STOP_DATA_STREAM
LEMMA SwitchInv ==
  ASSUME IInv, NEW to \in Switches, Switch(to), UNCHANGED <<port, timer>>
  PROVE  IInv'
<1>1. Post(to) /\ action' = to
  BY DEF Switch
<1>2. Typed'
  <2>1. timer' \in Timers /\ timer'.at = timer.at /\ timer'.msg = timer.msg
    BY DEF IInv, Typed
  <2> QED
    BY <1>1, <2>1, PostTyped DEF IInv, Messages
<1>3. SUFFICES ASSUME ~raced' PROVE InOrder'
  BY <1>2 DEF IInv
<1>4. ~raced /\ queue' = Append(queue, to) /\ UNCHANGED posting /\ timer.at # "post"
  BY <1>1, <1>3 DEF Post
<1>5. Settles(queue', port, to)
  BY <1>4, SwitchSettles DEF IInv, Typed
<1> QED
  BY <1>1, <1>4, <1>5 DEF IInv, InOrder

\* The post that waited: something was raced then.
LEMMA WaitedInv == IInv /\ (PostWaited \/ PostDropped) => IInv'
<1> SUFFICES ASSUME IInv, PostWaited \/ PostDropped PROVE IInv'
  OBVIOUS
<1>1. raced /\ raced'
  BY DEF IInv, InOrder, PostWaited, PostDropped
<1>2. Typed'
  <2>1. CASE PostDropped
    BY <2>1 DEF IInv, Typed, PostDropped
  <2>2. CASE PostWaited
    <3>1. posting \in Messages /\ posting' = "none" /\ queue' = Append(queue, posting)
            /\ UNCHANGED <<action, port, raced, timer>>
      BY <2>2 DEF PostWaited, IInv, Typed
    <3> QED
      BY <3>1, AppendProperties DEF IInv, Typed
  <2> QED
    BY <2>1, <2>2
<1> QED
  BY <1>1, <1>2 DEF IInv

\* The streamer takes a message.
LEMMA TakenInv == IInv /\ StreamerReceives => IInv'
<1> SUFFICES ASSUME IInv, StreamerReceives PROVE IInv'
  OBVIOUS
<1>1. queue # <<>> /\ queue' = Tail(queue) /\ UNCHANGED <<action, posting, timer, raced>>
  BY DEF StreamerReceives
<1>2. queue \in Seq(Messages) /\ queue' \in Seq(Messages) /\ Head(queue) \in Messages
  BY <1>1, HeadTailProperties DEF IInv, Typed
<1>3. /\ Head(queue) = "enable" => port' = TRUE
      /\ Head(queue) = "disable" => port' = FALSE
      /\ Head(queue) = "ack" => port' = port
  BY DEF StreamerReceives
<1>4. port' \in BOOLEAN
  BY <1>2, <1>3 DEF IInv, Typed, Messages, Switches
<1>5. Typed'
  BY <1>1, <1>2, <1>4 DEF IInv, Typed
<1>6. ASSUME Settles(queue, port, action) PROVE Settles(queue', port', action)
  <2>1. action \in Switches /\ port \in BOOLEAN
    BY DEF IInv, Typed
  <2>2. Settles(Tail(queue), port', action)
    BY <1>1, <1>2, <1>3, <1>4, <1>6, <2>1, TakenSettles
  <2> QED
    BY <1>1, <2>2
<1> QED
  BY <1>1, <1>5, <1>6 DEF IInv, InOrder

\* The timer's switch: the message is set, copied and posted.
LEMMA TimerInv == IInv /\ (TimerSwitches \/ TimerCopies \/ TimerPosts \/ TimerDrops) => IInv'
<1> SUFFICES ASSUME IInv, TimerSwitches \/ TimerCopies \/ TimerPosts \/ TimerDrops PROVE IInv'
  OBVIOUS
<1>1. CASE TimerSwitches
  <2>1. timer'.at = "copy"
    BY <1>1 DEF TimerSwitches, TimerGoes, IInv, Typed, Timers
  <2>2. Typed'
    BY <1>1 DEF TimerSwitches, TimerGoes, IInv, Typed, Timers, Places, Switches
  <2> QED
    BY <1>1, <2>1, <2>2 DEF TimerSwitches, TimerGoes, IInv, InOrder, Idling
<1>2. CASE TimerCopies
  <2>1. timer'.at = "post" /\ timer'.msg = action
    BY <1>2 DEF TimerCopies, IInv, Typed, Timers
  <2>2. Typed'
    BY <1>2 DEF TimerCopies, IInv, Typed, Timers, Places
  <2> QED
    BY <1>2, <2>1, <2>2 DEF TimerCopies, IInv, InOrder, Idling
<1>3. CASE TimerPosts
  <2>1. /\ timer'.at = "idle" /\ timer'.at \in Idling
        /\ queue' = Append(queue, timer.msg)
        /\ UNCHANGED <<action, port, posting, raced>>
    BY <1>3 DEF TimerPosts, Idle, Idling
  <2>2. ~raced => timer.msg = action
    BY <1>3 DEF IInv, InOrder, TimerPosts, TimerAt
  <2>3. timer.msg \in Messages
    BY <1>3 DEF TimerPosts, TimerAt, IInv, Typed, Timers, Messages
  <2>4. Typed'
    <3>1. queue' \in Seq(Messages)
      BY <2>1, <2>3, AppendProperties DEF IInv, Typed
    <3>2. timer' \in Timers
      BY <1>3 DEF TimerPosts, Idle, Timers, Places, Idling
    <3> QED
      BY <2>1, <3>1, <3>2 DEF IInv, Typed
  <2>5. ~raced => Settles(queue', port, action)
    BY <2>1, <2>2, SwitchSettles DEF IInv, Typed
  <2> QED
    BY <2>1, <2>4, <2>5 DEF IInv, InOrder
<1>4. CASE TimerDrops
  <2>1. Typed'
    BY <1>4 DEF TimerDrops, IInv, Typed, Idle, Timers, Places, Idling
  <2> QED
    BY <1>4, <2>1 DEF TimerDrops, IInv
<1> QED
  BY <1>1, <1>2, <1>3, <1>4

\* The timer's tests, and its steps up to the switch.
LEMMA ReadsInv ==
  ASSUME IInv,
         \/ TimerReadsTick \/ TimerReadsLast \/ TimerTestsFirst \/ TimerInitializes
         \/ TimerTestsLate \/ TimerSetsOffline \/ TimerClears \/ TimerTestsStream
  PROVE  IInv'
<1>1. timer \in Timers
  BY DEF IInv, Typed
<1>2. UNCHANGED <<action, queue, port, posting, raced>>
  BY DEF TimerReadsTick, TimerReadsLast, TimerTestsFirst, TimerInitializes, TimerTestsLate,
         TimerSetsOffline, TimerClears, TimerTestsStream
<1>3. timer' \in Timers /\ timer.at \in Idling /\ timer'.at \in Idling
  <2>1. CASE TimerReadsTick
    BY <1>1, <2>1 DEF TimerReadsTick, TimerAt, Timers, Places, Idling
  <2>2. CASE TimerReadsLast
    BY <1>1, <2>2 DEF TimerReadsLast, TimerGoes, TimerAt, Timers, Places, Idling
  <2>3. CASE TimerTestsFirst
    BY <1>1, <2>3 DEF TimerTestsFirst, TimerGoes, TimerAt, Timers, Places, Idling
  <2>4. CASE TimerInitializes
    BY <1>1, <2>4 DEF TimerInitializes, TimerAt, Idle, Timers, Places, Idling
  <2>5. CASE TimerTestsLate
    BY <1>1, <2>5 DEF TimerTestsLate, TimerAt, Idle, Timers, Places, Idling
  <2>6. CASE TimerSetsOffline
    BY <1>1, <2>6 DEF TimerSetsOffline, TimerGoes, TimerAt, Timers, Places, Idling
  <2>7. CASE TimerClears
    BY <1>1, <2>7 DEF TimerClears, TimerGoes, TimerAt, Timers, Places, Idling
  <2>8. CASE TimerTestsStream
    BY <1>1, <2>8 DEF TimerTestsStream, TimerAt, AfterClear, Idle, Timers, Places, Idling
  <2> QED
    BY <2>1, <2>2, <2>3, <2>4, <2>5, <2>6, <2>7, <2>8
<1> QED
  BY <1>2, <1>3, Untouched

\* Every step keeps the inductive invariant.
LEMMA NextInv == IInv /\ [Next]_vars => IInv'
<1> SUFFICES ASSUME IInv, [Next]_vars PROVE IInv'
  OBVIOUS
<1>1. CASE \/ HearConnectionCheck \/ HearSetupId \/ HearTime \/ Elapse
           \/ InitComes \/ RunsDry \/ Fed \/ UNCHANGED vars
  <2>1. UNCHANGED <<action, queue, port, posting, timer, raced>>
    BY <1>1 DEF HearConnectionCheck, HearSetupId, ComesOnline, HearTime, Hear, Elapse,
                InitComes, RunsDry, Fed, vars
  <2> QED
    BY <2>1, Untouched DEF IInv, Typed
<1>2. CASE HearAck
  BY <1>2, AckInv
<1>3. CASE HearStart
  BY <1>3, SwitchInv DEF HearStart, Hear, Switches
<1>4. CASE HearStop
  BY <1>4, SwitchInv DEF HearStop, Hear, Switches
<1>5. CASE PostWaited \/ PostDropped
  BY <1>5, WaitedInv
<1>6. CASE StreamerReceives
  BY <1>6, TakenInv
<1>7. CASE HearWatchdog
  <2>1. UNCHANGED <<action, queue, port, posting, raced>>
    BY <1>7 DEF HearWatchdog, Hear
  <2> QED
    BY <1>7, <2>1, HeardTimer, Untouched DEF HearWatchdog, IInv
<1>8. CASE \/ TimerReadsTick \/ TimerReadsLast \/ TimerTestsFirst \/ TimerInitializes
           \/ TimerTestsLate \/ TimerSetsOffline \/ TimerClears \/ TimerTestsStream
  BY <1>8, ReadsInv
<1>9. CASE TimerSwitches \/ TimerCopies \/ TimerPosts \/ TimerDrops
  BY <1>9, TimerInv
<1> QED
  BY <1>1, <1>2, <1>3, <1>4, <1>5, <1>6, <1>7, <1>8, <1>9 DEF Next, Tablet, Timer

\* With no switch under way, what the queue settles is what the port is.
LEMMA InvAgree == IInv => AgreeUnlessRaced
<1> SUFFICES ASSUME IInv, Quiet, ~raced PROVE port = (action = "enable")
  BY DEF AgreeUnlessRaced
<1>1. timer.at \in Idling
  BY DEF IInv, Typed, Timers, Places, Quiet
<1>2. Settles(queue, port, action)
  BY <1>1 DEF IInv, InOrder
<1>3. ~EndsIn(queue, action)
  <2>1. action \in Switches /\ Len(queue) \in Nat /\ DOMAIN queue = 1 .. Len(queue)
    BY LenProperties DEF IInv, Typed
  <2> QED
    BY <2>1 DEF EndsIn, Quiet
<1> QED
  BY <1>2, <1>3 DEF Settles

\* For every length of the queue and number of messages, in every interleaving
\* of the tablet thread, the streamer and the timer, streamMsgEnabled and the
\* port agree when no switch is under way, unless the switches were raced.
THEOREM Agree == Spec => []AgreeUnlessRaced
<1>1. Init => IInv
  BY InitInv
<1>2. IInv /\ [Next]_vars => IInv'
  BY NextInv
<1>3. IInv => AgreeUnlessRaced
  BY InvAgree
<1> QED
  BY <1>1, <1>2, <1>3, PTL DEF Spec

-----------------------------------------------------------------------------
\* What TypeOK asks beyond Typed.
Bounded ==
  /\ online \in BOOLEAN /\ last \in {"zero", "recent", "old"}
  /\ Len(queue) <= Slots
  /\ messages \in 0 .. MaxMessages
  /\ initWaits \in BOOLEAN /\ told \in BOOLEAN /\ spinning \in BOOLEAN

\* A message put into a queue that is not full fits.
LEMMA AppendFits ==
  ASSUME NEW q \in Seq(Messages), Len(q) <= Slots, Len(q) # Slots, NEW msg \in Messages
  PROVE  Len(Append(q, msg)) <= Slots
<1>1. Len(q) \in Nat /\ Len(Append(q, msg)) = Len(q) + 1
  BY LenProperties, AppendProperties
<1> QED
  BY <1>1, StreamControlAssumption

\* The queue never holds more than its slots, whoever posts.
LEMMA BoundedNext == IInv /\ Bounded /\ [Next]_vars => Bounded'
<1> SUFFICES ASSUME IInv, Bounded, [Next]_vars PROVE Bounded'
  OBVIOUS
<1>1. ASSUME Hear PROVE messages' \in 0 .. MaxMessages
  BY <1>1, StreamControlAssumption DEF Hear, Bounded
<1>2. ASSUME NEW msg \in Messages, Post(msg) PROVE Len(queue') <= Slots
  BY <1>2, AppendFits DEF Post, Full, IInv, Typed, Bounded
<1>3. CASE HearConnectionCheck \/ HearSetupId \/ HearWatchdog \/ HearTime
  BY <1>1, <1>3 DEF HearConnectionCheck, HearSetupId, ComesOnline, HearWatchdog, Heard,
                    HearTime, Hear, Bounded
<1>4. CASE HearAck
  BY <1>1, <1>2, <1>4 DEF HearAck, Heard, Hear, Bounded, Messages
<1>5. CASE HearStart \/ HearStop
  BY <1>1, <1>2, <1>5 DEF HearStart, HearStop, Hear, Switch, Bounded, Messages, Switches
<1>6. CASE PostWaited
  BY <1>6, AppendFits DEF PostWaited, looping, Full, IInv, Typed, Bounded
<1>7. CASE StreamerReceives
  <2>1. Len(Tail(queue)) = Len(queue) - 1 /\ Len(queue) \in Nat
    BY <1>7, HeadTailProperties, LenProperties DEF StreamerReceives, IInv, Typed
  <2> QED
    BY <1>7, <2>1, StreamControlAssumption DEF StreamerReceives, looping, Bounded
<1>8. CASE TimerPosts
  <2>1. timer.msg \in Messages
    BY <1>8 DEF TimerPosts, TimerAt, IInv, Typed, Timers, Messages
  <2> QED
    BY <1>8, <2>1, AppendFits DEF TimerPosts, looping, Full, IInv, Typed, Bounded
<1>9. CASE \/ TimerReadsTick \/ TimerReadsLast \/ TimerTestsFirst \/ TimerInitializes
           \/ TimerTestsLate \/ TimerSetsOffline \/ TimerClears \/ TimerTestsStream
           \/ TimerSwitches \/ TimerCopies \/ TimerDrops
  BY <1>9 DEF TimerReadsTick, TimerReadsLast, TimerTestsFirst, TimerInitializes, FirstSeen,
              TimerTestsLate, TimerSetsOffline, TimerClears, TimerTestsStream,
              TimerSwitches, TimerCopies, TimerDrops, looping, Bounded
<1>10. CASE PostDropped \/ Elapse \/ InitComes \/ RunsDry \/ Fed \/ UNCHANGED vars
  BY <1>10 DEF PostDropped, Elapse, InitComes, RunsDry, Fed, vars, looping, Bounded
<1> QED
  BY <1>3, <1>4, <1>5, <1>6, <1>7, <1>8, <1>9, <1>10 DEF Next, Tablet, Timer

\* Every variable keeps its type, and the service queue its length, for every
\* length of the queue and number of messages.
THEOREM TypeCorrect == Spec => []TypeOK
<1>1. Init => Bounded
  <2> SUFFICES ASSUME Init PROVE Bounded
    OBVIOUS
  <2>1. Len(queue) = 0 /\ messages = 0
    BY EmptySeq DEF Init
  <2>2. /\ online \in BOOLEAN /\ last \in {"zero", "recent", "old"}
        /\ initWaits \in BOOLEAN /\ told \in BOOLEAN /\ spinning \in BOOLEAN
    BY DEF Init
  <2> QED
    BY <2>1, <2>2, StreamControlAssumption DEF Bounded
<1>2. IInv /\ Bounded => TypeOK
  BY DEF IInv, Typed, Bounded, TypeOK, Messages, Timers, Places, Idling
<1> QED
  BY <1>1, <1>2, InitInv, NextInv, BoundedNext, PTL DEF Spec

=============================================================================
