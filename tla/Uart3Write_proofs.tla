-------------------------- MODULE Uart3Write_proofs --------------------------
(***************************************************************************)
(* For any set of calling threads: the typing of Uart3Write and its two    *)
(* safety properties, from one inductive invariant.                        *)
(***************************************************************************)
EXTENDS Uart3Write, TLAPS

\* The mutex is held by the one thread between taking and giving it back.
HolderInside == \A t \in Threads : mutex = t <=> pc[t] \in {"transmit", "semaphore"}

\* Until a wait has timed out, the UART, the semaphore and the history all
\* speak of the write of the thread that waits: either its bytes are on the
\* wire, or they have left and the semaphore says so.
InStep ==
  ~late =>
    /\ wire # None => pc[wire] = "semaphore" /\ sem = 0
    /\ sem = 1 => wire = None /\ \E t \in Threads : pc[t] = "semaphore"
    /\ \A t \in Threads : wire # t => sent[t]

IInv == TypeOK /\ HolderInside /\ InStep

\* The initial state satisfies the inductive invariant.
LEMMA InitInv == Init => IInv
<1> SUFFICES ASSUME Init PROVE IInv
  OBVIOUS
<1>1. TypeOK
  <2>1. pc \in [Threads -> {"out", "mutex", "transmit", "semaphore"}]
    BY DEF Init
  <2>2. /\ mutex \in Threads \cup {None}
        /\ sem \in 0 .. 1
        /\ wire \in Threads \cup {None}
    BY DEF Init
  <2>3. result \in [Threads -> 0 .. 1]
    BY DEF Init
  <2>4. sent \in [Threads -> BOOLEAN]
    BY DEF Init
  <2>5. late \in BOOLEAN
    BY Zenon DEF Init
  <2> QED
    BY <2>1, <2>2, <2>3, <2>4, <2>5 DEF TypeOK
<1>2. HolderInside
  BY NoneAssumption DEF Init, HolderInside
<1>3. InStep
  BY DEF Init, InStep
<1> QED
  BY <1>1, <1>2, <1>3 DEF IInv

\* Every step of a thread and of the interrupt preserves it.
LEMMA NextInv == IInv /\ [Next]_vars => IInv'
<1> SUFFICES ASSUME IInv, [Next]_vars PROVE IInv'
  OBVIOUS
<1> USE NoneAssumption DEF IInv, TypeOK, HolderInside, InStep
<1>1. CASE UNCHANGED vars
  BY <1>1 DEF vars
<1>2. CASE TxCplt
  BY <1>2 DEF TxCplt
<1>3. ASSUME NEW t \in Threads, Call(t) PROVE IInv'
  BY <1>3 DEF Call, Goto
<1>4. ASSUME NEW t \in Threads, TakeMutex(t) PROVE IInv'
  BY <1>4 DEF TakeMutex, Goto
<1>5. ASSUME NEW t \in Threads, MutexTimeout(t) PROVE IInv'
  BY <1>5 DEF MutexTimeout, Return, Goto
<1>6. ASSUME NEW t \in Threads, TransmitOk(t) PROVE IInv'
  BY <1>6 DEF TransmitOk, Goto
<1>7. ASSUME NEW t \in Threads, TransmitBusy(t) PROVE IInv'
  BY <1>7 DEF TransmitBusy, Return, Goto
<1>8. ASSUME NEW t \in Threads, TakeSem(t) PROVE IInv'
  BY <1>8 DEF TakeSem, Return, Goto
<1>9. ASSUME NEW t \in Threads, SemTimeout(t) PROVE IInv'
  BY <1>9 DEF SemTimeout, Return, Goto
<1> QED
  BY <1>1, <1>2, <1>3, <1>4, <1>5, <1>6, <1>7, <1>8, <1>9 DEF Next, InCall

\* Every reachable state satisfies it.
LEMMA Invariance == Spec => []IInv
<1> QED
  BY InitInv, NextInv, PTL DEF Spec

\* The variables keep their types for any set of threads.
THEOREM TypeCorrect == Spec => []TypeOK
<1>1. IInv => TypeOK
  BY DEF IInv
<1> QED
  BY <1>1, Invariance, PTL

\* For any number of callers, as long as no wait has timed out the interrupt
\* only reads the buffer of a caller that waits, and nobody meets a busy UART.
THEOREM BufferLives == Spec => []BufferLivesUnlessLate
<1>1. IInv => BufferLivesUnlessLate
  <2> SUFFICES ASSUME IInv, ~late,
                      NEW t \in Threads, pc[t] = "transmit", wire # None
               PROVE FALSE
    BY DEF BufferLivesUnlessLate, IInv, InStep
  <2>1. wire \in Threads /\ pc[wire] = "semaphore"
    BY DEF IInv, TypeOK, InStep
  <2>2. mutex = t /\ mutex = wire
    BY <2>1 DEF IInv, HolderInside
  <2> QED
    BY <2>1, <2>2
<1> QED
  BY <1>1, Invariance, PTL

\* For any number of callers, as long as no wait has timed out a call that
\* returned 1 has sent its bytes.
THEOREM Sent == Spec => []SentUnlessLate
<1>1. IInv => SentUnlessLate
  BY NoneAssumption DEF IInv, InStep, SentUnlessLate, TypeOK
<1> QED
  BY <1>1, Invariance, PTL

=============================================================================
