----------------------------- MODULE Uart3Write -----------------------------
(***************************************************************************)
(* UART3_WriteBytes of pinterface/pUART.c, the one way out to the tablet,  *)
(* called by the streamer thread and by the tablet thread.  A mutex keeps  *)
(* the callers apart; the buffer is sent by interrupt straight from the    *)
(* caller's memory, and the caller waits for the end on a binary semaphore *)
(* that the interrupt gives.  Both waits end after 400 ticks.  The line    *)
(* has RTS/CTS flow control, so the tablet decides when a transmission     *)
(* ends, or that it never does.                                            *)
(***************************************************************************)
EXTENDS Naturals

CONSTANTS Threads,  \* the threads that call UART3_WriteBytes
          None      \* no thread

ASSUME NoneAssumption == None \notin Threads

VARIABLES
  pc,       \* what each thread does: "out" of the call, or its place in it
  mutex,    \* the thread that holds xUART3_TxMutex
  sem,      \* the count of xUART3_TxSemaphore
  wire,     \* the thread whose buffer the UART sends; None is gState READY
  result,   \* what each thread's last call returned
  sent,     \* history: the last buffer of each thread has left
  late      \* history: a caller gave up on a transmission that went on

vars == <<pc, mutex, sem, wire, result, sent, late>>

\* UART3_Init_Protection: the semaphore is created empty, the mutex free.
Init ==
  /\ pc = [t \in Threads |-> "out"]
  /\ mutex = None
  /\ sem = 0
  /\ wire = None
  /\ result = [t \in Threads |-> 1]
  /\ sent = [t \in Threads |-> TRUE]
  /\ late = FALSE

-----------------------------------------------------------------------------
Goto(t, from, to) == pc[t] = from /\ pc' = [pc EXCEPT ![t] = to]

Return(t, from, r) == Goto(t, from, "out") /\ result' = [result EXCEPT ![t] = r]

Call(t) ==
  /\ Goto(t, "out", "mutex")
  /\ UNCHANGED <<mutex, sem, wire, result, sent, late>>

\* Mutant of TakeMutex: the result of UART3_TakeMutex is not looked at.
TakeMutexAnyway(t) ==
  /\ Goto(t, "mutex", "transmit")
  /\ mutex' = t
  /\ UNCHANGED <<sem, wire, result, sent, late>>

TakeMutex(t) ==
  /\ mutex = None
  /\ Goto(t, "mutex", "transmit")
  /\ mutex' = t
  /\ UNCHANGED <<sem, wire, result, sent, late>>

MutexTimeout(t) ==
  /\ mutex # None
  /\ Return(t, "mutex", 0)
  /\ UNCHANGED <<mutex, sem, wire, sent, late>>

\* HAL_UART_Transmit_IT returns HAL_OK: the interrupt sends the buffer.
TransmitOk(t) ==
  /\ wire = None
  /\ Goto(t, "transmit", "semaphore")
  /\ wire' = t
  /\ sent' = [sent EXCEPT ![t] = FALSE]
  /\ UNCHANGED <<mutex, sem, result, late>>

\* Mutant of TransmitBusy: the error path forgets the mutex.
TransmitBusyKeeps(t) ==
  /\ wire # None
  /\ Return(t, "transmit", 0)
  /\ UNCHANGED <<mutex, sem, wire, sent, late>>

\* It returns HAL_BUSY: an earlier transmission has not ended.
TransmitBusy(t) ==
  /\ wire # None
  /\ Return(t, "transmit", 0)
  /\ mutex' = None
  /\ UNCHANGED <<sem, wire, sent, late>>

TakeSem(t) ==
  /\ sem = 1
  /\ Return(t, "semaphore", 1)
  /\ sem' = 0
  /\ mutex' = None
  /\ UNCHANGED <<wire, sent, late>>

\* Mutant of SemTimeout: the semaphore is waited for without a limit.
SemTimeoutNever(t) == FALSE /\ UNCHANGED vars

SemTimeout(t) ==
  /\ sem = 0
  /\ Return(t, "semaphore", 0)
  /\ mutex' = None
  /\ late' = TRUE
  /\ UNCHANGED <<sem, wire, sent>>

\* Mutant of TxCplt: the semaphore is given when the last byte is loaded.
TxCpltEarly ==
  /\ wire # None
  /\ sem' = 1
  /\ wire' \in {wire, None}
  /\ sent' = [sent EXCEPT ![wire] = (wire' = None)]
  /\ UNCHANGED <<pc, mutex, result, late>>

\* Mutant of TxCplt: the semaphore counts.
TxCpltCounts ==
  /\ wire # None
  /\ wire' = None
  /\ sent' = [sent EXCEPT ![wire] = TRUE]
  /\ sem' = sem + 1
  /\ UNCHANGED <<pc, mutex, result, late>>

\* The interrupt after the last byte: UART_EndTransmit_IT sets gState, then
\* HAL_UART_TxCpltCallback gives the semaphore (which stays 1 if it was).
TxCplt ==
  /\ wire # None
  /\ wire' = None
  /\ sent' = [sent EXCEPT ![wire] = TRUE]
  /\ sem' = 1
  /\ UNCHANGED <<pc, mutex, result, late>>

InCall(t) ==
  \/ TakeMutex(t) \/ MutexTimeout(t)
  \/ TransmitOk(t) \/ TransmitBusy(t)
  \/ TakeSem(t) \/ SemTimeout(t)

Next == TxCplt \/ \E t \in Threads : Call(t) \/ InCall(t)

Spec == Init /\ [][Next]_vars

\* The kernel runs a ready thread and ends a wait at its timeout.  Nothing is
\* assumed of TxCplt: the tablet may never let the line go on.
FairSpec == Spec /\ \A t \in Threads : WF_vars(InCall(t))

-----------------------------------------------------------------------------
TypeOK ==
  /\ pc \in [Threads -> {"out", "mutex", "transmit", "semaphore"}]
  /\ mutex \in Threads \cup {None}
  /\ sem \in 0 .. 1
  /\ wire \in Threads \cup {None}
  /\ result \in [Threads -> 0 .. 1]
  /\ sent \in [Threads -> BOOLEAN]
  /\ late \in BOOLEAN

\* Until a caller has given up on a transmission, the interrupt only reads the
\* memory of a caller that is still waiting for it (the buffers are on the
\* callers' stacks), and no caller finds the UART busy.
BufferLivesUnlessLate ==
  ~late =>
    /\ wire # None => pc[wire] = "semaphore"
    /\ \A t \in Threads : pc[t] = "transmit" => wire = None

\* Until then, a call of UART3_WriteBytes that returned 1 has sent its bytes.
SentUnlessLate ==
  ~late => \A t \in Threads : pc[t] = "out" /\ result[t] = 1 => sent[t]

\* "The semaphore is given in the UART interruption at the end of the
\* transmission" (the comment on the wait for it): success means sent.
SuccessMeansSent ==
  \A t \in Threads : pc[t] = "out" /\ result[t] = 1 => sent[t]

\* A caller gives the mutex back on every path, whatever the tablet does.
MutexComesBack == \A t \in Threads : mutex = t ~> mutex # t

\* Every call of UART3_WriteBytes returns, whatever the tablet does.
CallReturns == \A t \in Threads : pc[t] # "out" ~> pc[t] = "out"

=============================================================================
