--------------------------- MODULE CommandService ---------------------------
(***************************************************************************)
(* What the command queue of src/src/dbb_app.cpp promises its users: a     *)
(* command that executeCommand has accepted is carried out and its         *)
(* callback is called exactly once, in the order of acceptance.  Threads,  *)
(* the mutex, the condition variable and the polling flag are absent; they *)
(* are the subject of module CommandQueue, which implements this one.      *)
(***************************************************************************)
EXTENDS Naturals, Sequences

CONSTANTS Requests,   \* one identity per call of executeCommand in flight
          Outcomes,   \* what a callback may be given: <<output, status>>
          NoReply     \* the callback of this request has not been called

VARIABLES pending,    \* the accepted requests whose callback is due, oldest first
          reply,      \* reply[r]: what the callback of r was last called with
          running     \* FALSE once the process has been terminated

vars == <<pending, reply, running>>

Pending == {pending[i] : i \in DOMAIN pending}

Init == /\ pending = <<>>
        /\ reply = [r \in Requests |-> NoReply]
        /\ running = TRUE

\* executeCommand: the request joins the back of the queue.
Submit(r) == /\ running
             /\ r \notin Pending
             /\ pending' = Append(pending, r)
             /\ reply' = [reply EXCEPT ![r] = NoReply]
             /\ UNCHANGED running

\* The callback of the oldest request is called.
Deliver(o) == /\ running
              /\ pending # <<>>
              /\ reply[Head(pending)] = NoReply
              /\ reply' = [reply EXCEPT ![Head(pending)] = o]
              /\ pending' = Tail(pending)
              /\ UNCHANGED running

\* An exception leaves the worker's thread function: std::terminate.
Terminate == /\ running
             /\ pending # <<>>
             /\ running' = FALSE
             /\ UNCHANGED <<pending, reply>>

Next == \/ \E r \in Requests : Submit(r)
        \/ \E o \in Outcomes : Deliver(o)
        \/ Terminate

SafeSpec == Init /\ [][Next]_vars

Spec == SafeSpec /\ WF_vars(Terminate \/ \E o \in Outcomes : Deliver(o))
=============================================================================
