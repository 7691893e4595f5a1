------------------------- MODULE CommandQueueProofs -------------------------
(***************************************************************************)
(* Theorems about CommandQueue, for every set of callers and requests.     *)
(***************************************************************************)
EXTENDS CommandQueue, SequenceTheorems, TLAPS

WorkerHolds == {"test", "drain", "send", "callback", "pop", "aborted"}
CallerHolds == {"push", "set", "notify", "unlock"}

\* The owner of cs_queue is the thread that is in its critical section.
MutexInv == /\ wpc \in WorkerHolds <=> holder = Worker
            /\ \A c \in Callers : pc[c] \in CallerHolds <=> holder = c

\* A command in the queue has been announced, and an announced command does
\* not leave the worker asleep, except on the way through executeCommand.
FlagInv == /\ queue # <<>> /\ ~notified => \E c \in Callers : pc[c] = "set"
           /\ wpc = "waiting" /\ notified => \E c \in Callers : pc[c] = "notify"

\* The locals of the two thread functions.
LocalsInv == /\ wpc \in {"send", "callback", "pop"}
                  => queue # <<>> /\ cur = Head(queue)
             /\ wpc = "callback" => result \in Outcomes
             /\ \A c \in Callers : pc[c] \in {"lock", "push"} => req[c] \in Requests

\* No identity is used twice among the calls in flight.
DistinctInv == /\ \A i, j \in 1..Len(queue) : queue[i] = queue[j] => i = j
               /\ \A c \in Callers : pc[c] \in {"lock", "push"}
                    => \A i \in 1..Len(queue) : queue[i] # req[c]
               /\ \A c, d \in Callers :
                    /\ pc[c] \in {"lock", "push"}
                    /\ pc[d] \in {"lock", "push"}
                    /\ req[c] = req[d]
                    => c = d

\* A queued command has not been called back, the one about to be popped has.
ReplyInv == \A i \in 1..Len(queue) :
              (wpc = "pop" /\ i = 1) \/ reply[queue[i]] = NoReply

IInv == TypeOK /\ MutexInv /\ FlagInv /\ LocalsInv /\ DistinctInv /\ ReplyInv
-----------------------------------------------------------------------------
LEMMA QueueTypes ==
    ASSUME TypeOK
    PROVE  /\ Len(queue) \in Nat
           /\ DOMAIN queue = 1..Len(queue)
           /\ \A i \in 1..Len(queue) : queue[i] \in Requests
  BY LenProperties, ElementOfSeq DEF TypeOK

LEMMA OutcomeTypes ==
    ASSUME NEW sent \in SendResults, NEW decrypted \in BOOLEAN
    PROVE  /\ EncryptedOutcome(sent, decrypted) \in Outcomes
           /\ PlainOutcome(sent) \in Outcomes
  BY DEF SendResults, EncryptedOutcome, PlainOutcome, Outcomes, Outputs, Statuses

LEMMA InitInv == Init => IInv
  <1> SUFFICES ASSUME Init PROVE IInv
    OBVIOUS
  <1> USE DEF Init
  <1>1. TypeOK
    BY EmptySeq DEF TypeOK, WorkerStates, CallerStates
  <1>2. MutexInv
    BY ThreadAssumption DEF MutexInv, WorkerHolds, CallerHolds
  <1>3. FlagInv /\ LocalsInv /\ DistinctInv /\ ReplyInv
    BY DEF FlagInv, LocalsInv, DistinctInv, ReplyInv
  <1> QED
    BY <1>1, <1>2, <1>3 DEF IInv

\* The steps of a thread that does not own the mutex, or leaves the queue alone.
LEMMA CallerInv ==
    ASSUME IInv, NEW c \in Callers,
           (\E r \in Requests : Call(c, r)) \/ CallerStep(c)
    PROVE  IInv'
  <1> USE DEF IInv
  <1>q. /\ Len(queue) \in Nat
        /\ DOMAIN queue = 1..Len(queue)
        /\ \A i \in 1..Len(queue) : queue[i] \in Requests
    BY QueueTypes
  <1>1. ASSUME NEW r \in Requests, Call(c, r)
        PROVE  IInv'
    <2> USE <1>1 DEF Call
    <2>1. TypeOK'
      BY DEF TypeOK, CallerStates
    <2>2. MutexInv'
      BY DEF TypeOK, MutexInv, CallerHolds
    <2>3. FlagInv' /\ ReplyInv'
      BY DEF TypeOK, FlagInv, ReplyInv
    <2>4. LocalsInv'
      BY DEF TypeOK, LocalsInv
    <2>5. DistinctInv'
      BY <1>q DEF TypeOK, DistinctInv, Queued, Posting
    <2> QED
      BY <2>1, <2>2, <2>3, <2>4, <2>5
  <1>2. CASE Lock(c)
    <2> USE <1>2 DEF Lock
    <2>1. TypeOK'
      BY DEF TypeOK, CallerStates
    <2>2. MutexInv'
      BY ThreadAssumption DEF TypeOK, MutexInv, WorkerHolds, CallerHolds
    <2>3. FlagInv' /\ ReplyInv'
      BY DEF TypeOK, FlagInv, ReplyInv
    <2>4. LocalsInv' /\ DistinctInv'
      BY DEF TypeOK, LocalsInv, DistinctInv
    <2> QED
      BY <2>1, <2>2, <2>3, <2>4
  <1>3. CASE Push(c)
    <2> USE <1>3 DEF Push
    <2>r. req[c] \in Requests
      BY DEF LocalsInv
    <2>a. /\ queue' \in Seq(Requests)
          /\ Len(queue') = Len(queue) + 1
          /\ queue' # <<>>
          /\ \A i \in 1..Len(queue) : queue'[i] = queue[i]
          /\ queue'[Len(queue) + 1] = req[c]
      BY <2>r, AppendProperties DEF TypeOK
    <2>w. wpc \notin WorkerHolds
      BY ThreadAssumption DEF MutexInv, CallerHolds
    <2>1. TypeOK'
      BY <2>a, <2>r DEF TypeOK, CallerStates
    <2>2. MutexInv'
      BY DEF TypeOK, MutexInv, CallerHolds
    <2>3. FlagInv'
      BY DEF TypeOK, FlagInv
    <2>4. LocalsInv'
      BY <2>w DEF TypeOK, LocalsInv, WorkerHolds
    <2>5. DistinctInv'
      BY <1>q, <2>a DEF TypeOK, DistinctInv
    <2>6. ReplyInv'
      BY <1>q, <2>a, <2>r, <2>w DEF TypeOK, ReplyInv, DistinctInv, WorkerHolds
    <2> QED
      BY <2>1, <2>2, <2>3, <2>4, <2>5, <2>6
  <1>4. CASE SetNotified(c)
    <2> USE <1>4 DEF SetNotified
    <2>1. TypeOK' /\ MutexInv'
      BY DEF TypeOK, MutexInv, CallerStates, CallerHolds
    <2>2. FlagInv' /\ LocalsInv' /\ DistinctInv' /\ ReplyInv'
      BY DEF TypeOK, FlagInv, LocalsInv, DistinctInv, ReplyInv
    <2> QED
      BY <2>1, <2>2
  <1>5. CASE NotifyOne(c)
    <2> USE <1>5 DEF NotifyOne
    <2>1. TypeOK' /\ MutexInv'
      BY DEF TypeOK, MutexInv, WorkerStates, CallerStates, WorkerHolds, CallerHolds
    <2>2. FlagInv'
      BY DEF TypeOK, FlagInv
    <2>3. LocalsInv' /\ DistinctInv' /\ ReplyInv'
      BY DEF TypeOK, LocalsInv, DistinctInv, ReplyInv
    <2> QED
      BY <2>1, <2>2, <2>3
  <1>6. CASE Unlock(c)
    <2> USE <1>6 DEF Unlock
    <2>1. TypeOK'
      BY DEF TypeOK, CallerStates
    <2>2. MutexInv'
      BY ThreadAssumption DEF TypeOK, MutexInv, WorkerHolds, CallerHolds
    <2>3. FlagInv' /\ LocalsInv' /\ DistinctInv' /\ ReplyInv'
      BY DEF TypeOK, FlagInv, LocalsInv, DistinctInv, ReplyInv
    <2> QED
      BY <2>1, <2>2, <2>3
  <1> QED
    BY <1>1, <1>2, <1>3, <1>4, <1>5, <1>6 DEF CallerStep

LEMMA WorkerInv ==
    ASSUME IInv, WorkerStep \/ SpuriousWakeup
    PROVE  IInv'
  <1> USE DEF IInv
  <1>q. /\ Len(queue) \in Nat
        /\ DOMAIN queue = 1..Len(queue)
        /\ \A i \in 1..Len(queue) : queue[i] \in Requests
    BY QueueTypes
  <1>1. CASE WorkerLock
    <2> USE <1>1 DEF WorkerLock
    <2>1. TypeOK' /\ MutexInv'
      BY ThreadAssumption DEF TypeOK, MutexInv, WorkerStates, WorkerHolds, CallerHolds, callerVars
    <2>2. FlagInv' /\ LocalsInv' /\ DistinctInv' /\ ReplyInv'
      BY DEF FlagInv, LocalsInv, DistinctInv, ReplyInv, callerVars
    <2> QED
      BY <2>1, <2>2
  <1>2. CASE TestNotified
    <2> USE <1>2 DEF TestNotified
    <2>1. TypeOK' /\ MutexInv'
      BY ThreadAssumption DEF TypeOK, MutexInv, WorkerStates, WorkerHolds, CallerHolds, callerVars
    <2>2. FlagInv' /\ LocalsInv' /\ DistinctInv' /\ ReplyInv'
      BY DEF FlagInv, LocalsInv, DistinctInv, ReplyInv, callerVars
    <2> QED
      BY <2>1, <2>2
  <1>3. CASE Front
    <2> USE <1>3 DEF Front
    <2>1. TypeOK' /\ MutexInv'
      BY HeadTailProperties DEF TypeOK, MutexInv, WorkerStates, WorkerHolds, callerVars
    <2>2. FlagInv' /\ LocalsInv' /\ DistinctInv' /\ ReplyInv'
      BY DEF FlagInv, LocalsInv, DistinctInv, ReplyInv, callerVars
    <2> QED
      BY <2>1, <2>2
  <1>4. CASE SendEncrypted \/ SendPlain
    <2> USE <1>4 DEF SendEncrypted, SendPlain
    <2>r. /\ wpc = "send"
          /\ \/ wpc' = "callback" /\ result' \in Outcomes
             \/ wpc' = "aborted" /\ result' = result
          /\ UNCHANGED <<queue, notified, holder, cur, callerVars, reply>>
      BY OutcomeTypes
    <2>1. TypeOK' /\ MutexInv'
      BY <2>r DEF TypeOK, MutexInv, WorkerStates, WorkerHolds, callerVars
    <2>2. FlagInv' /\ LocalsInv' /\ DistinctInv' /\ ReplyInv'
      BY <2>r DEF FlagInv, LocalsInv, DistinctInv, ReplyInv, callerVars
    <2> QED
      BY <2>1, <2>2
  <1>5. CASE Callback
    <2> USE <1>5 DEF Callback
    <2>1. TypeOK' /\ MutexInv'
      BY DEF TypeOK, MutexInv, WorkerStates, WorkerHolds, LocalsInv, callerVars
    <2>2. FlagInv' /\ LocalsInv' /\ DistinctInv'
      BY DEF FlagInv, LocalsInv, DistinctInv, callerVars
    <2>3. ReplyInv'
      BY <1>q DEF TypeOK, ReplyInv, LocalsInv, DistinctInv
    <2> QED
      BY <2>1, <2>2, <2>3
  <1>6. CASE Pop
    <2> USE <1>6 DEF Pop
    <2>t. /\ queue # <<>>
          /\ queue' \in Seq(Requests)
          /\ Len(queue') = Len(queue) - 1
          /\ \A i \in 1..Len(queue') : queue'[i] = queue[i + 1]
      BY HeadTailProperties DEF TypeOK, LocalsInv
    <2>n. Len(queue') \in Nat
      BY <2>t, LenProperties
    <2>1. TypeOK' /\ MutexInv'
      BY <2>t DEF TypeOK, MutexInv, WorkerStates, WorkerHolds, callerVars
    <2>2. FlagInv' /\ LocalsInv'
      BY <2>t DEF FlagInv, LocalsInv, callerVars
    <2>3. DistinctInv' /\ ReplyInv'
      BY <1>q, <2>t, <2>n DEF DistinctInv, ReplyInv, callerVars
    <2> QED
      BY <2>1, <2>2, <2>3
  <1>7. CASE Drained
    <2> USE <1>7 DEF Drained
    <2>1. TypeOK' /\ MutexInv'
      BY DEF TypeOK, MutexInv, WorkerStates, WorkerHolds, callerVars
    <2>2. FlagInv' /\ LocalsInv' /\ DistinctInv' /\ ReplyInv'
      BY DEF FlagInv, LocalsInv, DistinctInv, ReplyInv, callerVars
    <2> QED
      BY <2>1, <2>2
  <1>8. CASE SpuriousWakeup
    <2> USE <1>8 DEF SpuriousWakeup
    <2>1. TypeOK' /\ MutexInv'
      BY DEF TypeOK, MutexInv, WorkerStates, WorkerHolds, callerVars
    <2>2. FlagInv' /\ LocalsInv' /\ DistinctInv' /\ ReplyInv'
      BY DEF FlagInv, LocalsInv, DistinctInv, ReplyInv, callerVars
    <2> QED
      BY <2>1, <2>2
  <1> QED
    BY <1>1, <1>2, <1>3, <1>4, <1>5, <1>6, <1>7, <1>8 DEF WorkerStep

LEMMA NextInv == IInv /\ [Next]_vars => IInv'
  <1>1. ASSUME IInv, UNCHANGED vars
        PROVE  IInv'
    BY <1>1 DEF IInv, TypeOK, MutexInv, FlagInv, LocalsInv, DistinctInv, ReplyInv, vars
  <1> QED
    BY <1>1, CallerInv, WorkerInv DEF Next, Terminated

LEMMA Invariance == Spec => []IInv
  BY InitInv, NextInv, PTL DEF Spec, SafeSpec
-----------------------------------------------------------------------------
\* The variables of the queue keep their types: in particular the worker's
\* copy of the front and the argument of every callback are well formed.
THEOREM TypeCorrect == Spec => []TypeOK
  BY Invariance, PTL DEF IInv

\* executeCommand and the wait of cmdThread never lose a wakeup, whatever the
\* number of posting threads and of commands.
THEOREM NeverSleepsOnWork == Spec => []NoLostWakeup
  <1>1. IInv => NoLostWakeup
    <2> SUFFICES ASSUME IInv, wpc = "waiting", queue # <<>>
                 PROVE  \E c \in Callers : pc[c] \in {"set", "notify"}
      BY DEF NoLostWakeup
    <2> QED
      BY DEF IInv, TypeOK, FlagInv
  <1> QED
    BY <1>1, Invariance, PTL

\* The worker carries out, answers and pops one and the same command.
THEOREM AlwaysExecutesFront == Spec => []ExecutesFront
  <1>1. IInv => ExecutesFront
    <2> SUFFICES ASSUME IInv, wpc \in {"send", "callback", "pop"}
                 PROVE  /\ queue # <<>>
                        /\ cur = Head(queue)
                        /\ \A i \in 2..Len(queue) : queue[i] # cur
      BY DEF ExecutesFront
    <2>1. queue # <<>> /\ cur = Head(queue)
      BY DEF IInv, LocalsInv
    <2>2. Len(queue) \in Nat \ {0} /\ Head(queue) = queue[1]
      BY <2>1, EmptySeq DEF IInv, TypeOK
    <2>3. \A i \in 2..Len(queue) : queue[i] # cur
      BY <2>1, <2>2 DEF IInv, DistinctInv
    <2> QED
      BY <2>1, <2>3
  <1> QED
    BY <1>1, Invariance, PTL
-----------------------------------------------------------------------------
(***************************************************************************)
(* The safety part of ImplementsService: every step of the threads is a    *)
(* step of the abstract service, or leaves it unchanged.                   *)
(***************************************************************************)
LEMMA InitRefines == Init => Service!Init
  BY DEF Init, Service!Init

LEMMA CallerRefines ==
    ASSUME IInv, NEW c \in Callers, wpc # "aborted",
           (\E r \in Requests : Call(c, r)) \/ CallerStep(c)
    PROVE  [Service!Next]_(Service!vars)
  <1> USE DEF IInv
  <1>1. ASSUME NEW r \in Requests, Call(c, r)
        PROVE  UNCHANGED Service!vars
    BY <1>1 DEF Call, Service!vars
  <1>2. CASE Lock(c) \/ SetNotified(c) \/ Unlock(c)
    BY <1>2 DEF Lock, SetNotified, Unlock, Service!vars
  <1>3. CASE NotifyOne(c)
    BY <1>3 DEF NotifyOne, Service!vars
  <1>4. CASE Push(c)
    <2> USE <1>4 DEF Push
    <2>1. wpc # "pop"
      BY ThreadAssumption DEF MutexInv, WorkerHolds, CallerHolds
    <2>2. req[c] \in Requests
      BY DEF LocalsInv
    <2>3. req[c] \notin {queue[i] : i \in DOMAIN queue}
      BY QueueTypes DEF DistinctInv
    <2>4. Service!Submit(req[c])
      BY <2>1, <2>3 DEF Service!Submit, Service!Pending
    <2> QED
      BY <2>2, <2>4 DEF Service!Next
  <1> QED
    BY <1>1, <1>2, <1>3, <1>4 DEF CallerStep

LEMMA WorkerRefines ==
    ASSUME IInv, WorkerStep \/ SpuriousWakeup
    PROVE  [Service!Next]_(Service!vars)
  <1> USE DEF IInv, callerVars
  <1>1. CASE WorkerLock \/ TestNotified \/ Front \/ Drained \/ SpuriousWakeup
    BY <1>1 DEF WorkerLock, TestNotified, Front, Drained, SpuriousWakeup, Service!vars
  <1>2. CASE SendEncrypted
    BY <1>2 DEF SendEncrypted, Service!vars
  <1>3. CASE SendPlain
    <2> USE <1>3 DEF SendPlain
    <2>1. CASE wpc' = "aborted"
      <3>1. Service!Terminate
        BY <2>1 DEF LocalsInv, Service!Terminate
      <3> QED
        BY <3>1 DEF Service!Next
    <2>2. CASE wpc' = "callback"
      BY <2>2 DEF Service!vars
    <2> QED
      BY <2>1, <2>2
  <1>4. CASE Callback
    <2> USE <1>4 DEF Callback
    <2>1. /\ queue # <<>>
          /\ cur = Head(queue)
          /\ result \in Outcomes
      BY DEF LocalsInv
    <2>2. Len(queue) \in Nat \ {0} /\ Head(queue) = queue[1]
      BY <2>1, EmptySeq DEF TypeOK
    <2>3. reply[Head(queue)] = NoReply
      BY <2>2 DEF ReplyInv
    <2>4. Service!Deliver(result)
      BY <2>1, <2>3 DEF Service!Deliver
    <2> QED
      BY <2>1, <2>4 DEF Service!Next
  <1>5. CASE Pop
    BY <1>5 DEF Pop, Service!vars
  <1> QED
    BY <1>1, <1>2, <1>3, <1>4, <1>5 DEF WorkerStep

\* Whatever the threads do, each accepted command is called back exactly once
\* and in the order of acceptance.
THEOREM ServiceImplemented == Spec => Service!SafeSpec
  <1>1. IInv /\ [Next]_vars => [Service!Next]_(Service!vars)
    <2>1. ASSUME UNCHANGED vars
          PROVE  UNCHANGED Service!vars
      BY <2>1 DEF vars, Service!vars
    <2> QED
      BY <2>1, CallerRefines, WorkerRefines DEF Next, Terminated
  <1> QED
    BY <1>1, InitRefines, Invariance, PTL DEF Spec, SafeSpec, Service!SafeSpec
=============================================================================
