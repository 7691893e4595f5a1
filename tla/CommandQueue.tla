---------------------------- MODULE CommandQueue ----------------------------
(***************************************************************************)
(* The command queue of src/src/dbb_app.cpp.  executeCommand, called by    *)
(* the GUI thread and by the HTTP thread, pushes a command under the mutex *)
(* cs_queue, sets notified and signals queueCondVar.  The worker cmdThread *)
(* waits on queueCondVar, drains the queue - keeping the mutex while it    *)
(* talks to the device and while it runs the callback - and clears         *)
(* notified.                                                               *)
(*                                                                         *)
(* A request stands for one call of executeCommand: a command, a password  *)
(* (empty or not: set Encrypted) and a callback.  Its identity is free for *)
(* another call as soon as the request has left the queue, so behaviours   *)
(* are infinite although the set of requests is finite.                    *)
(***************************************************************************)
EXTENDS Naturals, Sequences

CONSTANTS Callers,    \* the threads that call executeCommand
          Worker,     \* cmdThread
          Nobody,     \* the mutex is free
          Requests,   \* identities of the calls in flight
          Encrypted,  \* the requests that carry a non-empty password
          NoRequest,  \* a local variable that is out of scope
          NoReply     \* the callback of the request has not been called

ASSUME ThreadAssumption == /\ Worker \notin Callers
                           /\ Nobody \notin Callers \cup {Worker}

ASSUME RequestAssumption == /\ Encrypted \subseteq Requests
                            /\ NoRequest \notin Requests

VARIABLES queue,      \* cmdQueue
          notified,   \* notified, the flag that guards against spurious wakeups
          holder,     \* the thread that owns cs_queue, or Nobody
          wpc,        \* where the worker is
          cur,        \* the worker's copy of the front of the queue
          result,     \* the (cmdOut, status) that it hands to the callback
          pc,         \* where each caller is in executeCommand
          req,        \* the request that each caller is posting
          reply       \* what the callback of each request was called with

vars == <<queue, notified, holder, wpc, cur, result, pc, req, reply>>
callerVars == <<pc, req>>
-----------------------------------------------------------------------------
\* cmdOut: nothing was read, the device's raw answer, or the decrypted one.
Outputs == {"empty", "raw", "plain"}
Statuses == {"OK", "ENCRYPTION_FAILED"}
Outcomes == Outputs \X Statuses

ASSUME ReplyAssumption == NoReply \notin Outcomes

\* What DBB::sendCommand did: returned false (no handle), threw (hid_read
\* failed), or returned true with the device's answer.
SendResults == {"closed", "threw", "answer"}

\* cmdOut and status after lines 150-178; decrypted says whether
\* decryptAndDecodeCommand returned or threw.
EncryptedOutcome(sent, decrypted) ==
    CASE sent = "answer" /\ decrypted -> <<"plain", "OK">>
      [] sent = "answer" /\ ~decrypted -> <<"raw", "ENCRYPTION_FAILED">>
      [] OTHER -> <<"empty", "ENCRYPTION_FAILED">>

PlainOutcome(sent) == IF sent = "answer" THEN <<"raw", "OK">>
                                         ELSE <<"empty", "OK">>

Queued == {queue[i] : i \in DOMAIN queue}

\* The requests that have been made and are not yet in the queue.
Posting == {req[c] : c \in {d \in Callers : pc[d] \in {"lock", "push"}}}
-----------------------------------------------------------------------------
Init == /\ queue = <<>>
        /\ notified = FALSE
        /\ holder = Nobody
        /\ wpc = "acquire"
        /\ cur = NoRequest
        /\ result = NoReply
        /\ pc = [c \in Callers |-> "idle"]
        /\ req = [c \in Callers |-> NoRequest]
        /\ reply = [r \in Requests |-> NoReply]

(***************************************************************************)
(* executeCommand, one action per statement.                               *)
(***************************************************************************)
Call(c, r) == /\ pc[c] = "idle"
              /\ r \notin Queued \cup Posting
              /\ req' = [req EXCEPT ![c] = r]
              /\ pc' = [pc EXCEPT ![c] = "lock"]
              /\ UNCHANGED <<queue, notified, holder, wpc, cur, result, reply>>

Lock(c) == /\ pc[c] = "lock"
           /\ holder = Nobody
           /\ holder' = c
           /\ pc' = [pc EXCEPT ![c] = "push"]
           /\ UNCHANGED <<queue, notified, wpc, cur, result, req, reply>>

Push(c) == /\ pc[c] = "push"
           /\ queue' = Append(queue, req[c])
           /\ reply' = [reply EXCEPT ![req[c]] = NoReply]
           /\ pc' = [pc EXCEPT ![c] = "set"]
           /\ UNCHANGED <<notified, holder, wpc, cur, result, req>>

SetNotified(c) == /\ pc[c] = "set"
                  /\ notified' = TRUE
                  /\ pc' = [pc EXCEPT ![c] = "notify"]
                  /\ UNCHANGED <<queue, holder, wpc, cur, result, req, reply>>

\* Mutant of NotifyOne: the signal is forgotten.
BugForgetNotify(c) == /\ pc[c] = "notify"
                      /\ pc' = [pc EXCEPT ![c] = "unlock"]
                      /\ UNCHANGED <<queue, notified, holder, wpc, cur, result, req, reply>>

\* notify_one reaches the worker only while it waits.
NotifyOne(c) == /\ pc[c] = "notify"
                /\ wpc' = IF wpc = "waiting" THEN "acquire" ELSE wpc
                /\ pc' = [pc EXCEPT ![c] = "unlock"]
                /\ UNCHANGED <<queue, notified, holder, cur, result, req, reply>>

Unlock(c) == /\ pc[c] = "unlock"
             /\ holder' = Nobody
             /\ pc' = [pc EXCEPT ![c] = "idle"]
             /\ req' = [req EXCEPT ![c] = NoRequest]
             /\ UNCHANGED <<queue, notified, wpc, cur, result, reply>>

(***************************************************************************)
(* cmdThread.  stopThread is never set, so its outer loop never ends.      *)
(***************************************************************************)
WorkerLock == /\ wpc = "acquire"
              /\ holder = Nobody
              /\ holder' = Worker
              /\ wpc' = "test"
              /\ UNCHANGED <<queue, notified, cur, result, callerVars, reply>>

\* Mutant of TestNotified: polling that sleeps with the mutex held.
BugSleepWithMutex == /\ wpc = "test"
                     /\ wpc' = IF notified THEN "drain" ELSE "test"
                     /\ UNCHANGED <<queue, notified, holder, cur, result, callerVars, reply>>

\* while (!notified): the wait gives the mutex back.
TestNotified == /\ wpc = "test"
                /\ IF notified THEN /\ wpc' = "drain"
                                    /\ UNCHANGED holder
                               ELSE /\ wpc' = "waiting"
                                    /\ holder' = Nobody
                /\ UNCHANGED <<queue, notified, cur, result, callerVars, reply>>

SpuriousWakeup == /\ wpc = "waiting"
                  /\ wpc' = "acquire"
                  /\ UNCHANGED <<queue, notified, holder, cur, result, callerVars, reply>>

Front == /\ wpc = "drain"
         /\ queue # <<>>
         /\ cur' = Head(queue)
         /\ wpc' = "send"
         /\ UNCHANGED <<queue, notified, holder, result, callerVars, reply>>

\* A command with a password: every exception is caught (line 166).
SendEncrypted == /\ wpc = "send"
                 /\ cur \in Encrypted
                 /\ \E sent \in SendResults, decrypted \in BOOLEAN :
                       result' = EncryptedOutcome(sent, decrypted)
                 /\ wpc' = "callback"
                 /\ UNCHANGED <<queue, notified, holder, cur, callerVars, reply>>

\* A command without one: line 177 is outside the try block, the exception
\* of hid_read leaves the thread function and the process is terminated.
SendPlain == /\ wpc = "send"
             /\ cur \notin Encrypted
             /\ \E sent \in SendResults :
                   IF sent = "threw" THEN /\ wpc' = "aborted"
                                          /\ UNCHANGED result
                                     ELSE /\ wpc' = "callback"
                                          /\ result' = PlainOutcome(sent)
             /\ UNCHANGED <<queue, notified, holder, cur, callerVars, reply>>

\* Mutant of Callback: the command is popped before its callback is called.
BugPopFirst == /\ wpc = "callback"
               /\ queue' = Tail(queue)
               /\ reply' = [reply EXCEPT ![cur] = result]
               /\ wpc' = "pop"
               /\ UNCHANGED <<notified, holder, cur, result, callerVars>>

\* Mutant of Callback: the callback is given the status without the output.
BugStatusOnly == /\ wpc = "callback"
                 /\ reply' = [reply EXCEPT ![cur] = result[2]]
                 /\ wpc' = "pop"
                 /\ UNCHANGED <<queue, notified, holder, cur, result, callerVars>>

Callback == /\ wpc = "callback"
            /\ reply' = [reply EXCEPT ![cur] = result]
            /\ wpc' = "pop"
            /\ UNCHANGED <<queue, notified, holder, cur, result, callerVars>>

\* Mutant of Pop: a command that failed stays in the queue for a retry.
BugRetryFailed == /\ wpc = "pop"
                  /\ queue' = IF result[2] = "OK" THEN Tail(queue) ELSE queue
                  /\ cur' = NoRequest
                  /\ result' = NoReply
                  /\ wpc' = "drain"
                  /\ UNCHANGED <<notified, holder, callerVars, reply>>

Pop == /\ wpc = "pop"
       /\ queue' = Tail(queue)
       /\ cur' = NoRequest
       /\ result' = NoReply
       /\ wpc' = "drain"
       /\ UNCHANGED <<notified, holder, callerVars, reply>>

\* Mutant of Drained: one command per notification, as with "if" for "while".
BugDrainOne == /\ wpc = "drain"
               /\ notified' = FALSE
               /\ wpc' = "test"
               /\ UNCHANGED <<queue, holder, cur, result, callerVars, reply>>

Drained == /\ wpc = "drain"
           /\ queue = <<>>
           /\ notified' = FALSE
           /\ wpc' = "test"
           /\ UNCHANGED <<queue, holder, cur, result, callerVars, reply>>

\* After std::terminate nothing moves.
Terminated == wpc = "aborted" /\ UNCHANGED vars
-----------------------------------------------------------------------------
CallerStep(c) == Lock(c) \/ Push(c) \/ SetNotified(c) \/ NotifyOne(c) \/ Unlock(c)

WorkerStep == WorkerLock \/ TestNotified \/ Front \/ SendEncrypted \/ SendPlain
                \/ Callback \/ Pop \/ Drained

Next == \/ /\ wpc # "aborted"
           /\ \/ \E c \in Callers : CallerStep(c) \/ \E r \in Requests : Call(c, r)
              \/ WorkerStep
              \/ SpuriousWakeup
        \/ Terminated

SafeSpec == Init /\ [][Next]_vars

(***************************************************************************)
(* The operating system runs every thread, and a thread that wants a mutex *)
(* which becomes free over and over again gets it.  Nobody is obliged to   *)
(* post a command, and a wakeup need not be spurious.  That the worker     *)
(* leaves "send" says that the device answers or its read fails: hid_read  *)
(* has no timeout of its own.                                              *)
(***************************************************************************)
Fairness == /\ SF_vars(wpc # "aborted" /\ WorkerStep)
            /\ \A c \in Callers : SF_vars(wpc # "aborted" /\ CallerStep(c))

Spec == SafeSpec /\ Fairness
-----------------------------------------------------------------------------
(***************************************************************************)
(* Properties.                                                             *)
(***************************************************************************)
WorkerStates == {"acquire", "test", "waiting", "drain", "send", "callback",
                 "pop", "aborted"}
CallerStates == {"idle", "lock", "push", "set", "notify", "unlock"}

\* The types of the variables of dbb_app.cpp and of its two kinds of thread.
TypeOK == /\ queue \in Seq(Requests)
          /\ notified \in BOOLEAN
          /\ holder \in Callers \cup {Worker, Nobody}
          /\ wpc \in WorkerStates
          /\ cur \in Requests \cup {NoRequest}
          /\ result \in Outcomes \cup {NoReply}
          /\ pc \in [Callers -> CallerStates]
          /\ req \in [Callers -> Requests \cup {NoRequest}]
          /\ reply \in [Requests -> Outcomes \cup {NoReply}]

\* The worker never sleeps on a command: while it waits on queueCondVar with
\* a command in the queue, the caller that pushed it is on its way to
\* notify_one (executeCommand, lines 87-90, against the wait of line 141).
NoLostWakeup == wpc = "waiting" /\ queue # <<>>
                  => \E c \in Callers : pc[c] \in {"set", "notify"}

\* What the worker executes, and later pops, is the front of the queue, and
\* no other call with its identity waits behind it (lines 145-180).
ExecutesFront == wpc \in {"send", "callback", "pop"}
                   => /\ queue # <<>>
                      /\ cur = Head(queue)
                      /\ \A i \in 2..Len(queue) : queue[i] # cur

\* Every accepted command is carried out and called back, unless the process
\* is terminated first (lines 140-182).
EveryCommandAnswered ==
    \A r \in Requests : r \in Queued ~> (reply[r] # NoReply \/ wpc = "aborted")

\* executeCommand returns: the worker keeps the mutex while it drains the
\* queue, but nothing can be added meanwhile, so it does release it (the
\* comment at line 132).
CallersReturn ==
    \A c \in Callers : pc[c] = "lock" ~> (pc[c] = "idle" \/ wpc = "aborted")

\* The queue implements the service: a request leaves the abstract queue when
\* its callback is called, one step before the worker pops it.
Service == INSTANCE CommandService
             WITH pending <- IF wpc = "pop" THEN Tail(queue) ELSE queue,
                  running <- wpc # "aborted"

\* Exactly one callback per accepted command, in FIFO order.
ImplementsService == Service!Spec
=============================================================================
