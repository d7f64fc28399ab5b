---------------------------- MODULE ThreadMessage ----------------------------
(***************************************************************************)
(* libavutil/threadmessage.c: a bounded message queue protected by one     *)
(* mutex, with a condition variable for senders and one for receivers.     *)
(*                                                                         *)
(* Each step below is one critical section: from a pthread_mutex_lock, or  *)
(* from the return of pthread_cond_wait, to the next unlock or wait.  A    *)
(* thread at "block" or "try" is about to acquire the mutex (a call        *)
(* without and with AV_THREAD_MESSAGE_NONBLOCK); one at "wait" sleeps in   *)
(* pthread_cond_wait and is moved back to "block" by a signal, by a        *)
(* broadcast or by a spurious wakeup.                                      *)
(***************************************************************************)
EXTENDS Integers, Sequences, FiniteSets

CONSTANTS Senders, Receivers, Message, Capacity, Errors,
          NoErr, NoMsg, Ok, Again

ASSUME CapacityAssumption == Capacity \in Nat \ {0}
ASSUME ThreadAssumption == /\ IsFiniteSet(Senders) /\ IsFiniteSet(Receivers)
                           /\ Senders \cap Receivers = {}
ASSUME ErrorAssumption == NoErr \notin Errors

VARIABLES
  alive,     \* the queue is allocated (*mq is not NULL)
  fifo,      \* mq->fifo in units of elsize
  err_send, err_recv,
  pc,        \* per thread: "idle", "block", "try" or "wait"
  arg,       \* per sender: the message of the call in progress
  ret        \* per thread: the result of its last call; for recv the message

vars == <<alive, fifo, err_send, err_recv, pc, arg, ret>>

Threads == Senders \cup Receivers

At(set, label) == {t \in set : pc[t] = label}
WaitSend == At(Senders, "wait")      \* asleep on cond_send
WaitRecv == At(Receivers, "wait")    \* asleep on cond_recv

space == Capacity - Len(fifo)

Init ==
  /\ alive = FALSE
  /\ fifo = <<>>
  /\ err_send = NoErr /\ err_recv = NoErr
  /\ pc = [t \in Threads |-> "idle"]
  /\ arg = [s \in Senders |-> NoMsg]
  /\ ret = [t \in Threads |-> NoMsg]

-----------------------------------------------------------------------------
(* Allocation.  A failing av_thread_message_queue_alloc leaves no queue.    *)
(* The queue may only be freed when no thread is inside a call: that is the *)
(* callers' obligation, and they meet it by joining the other thread first. *)

av_thread_message_queue_alloc ==
  /\ ~alive
  /\ alive' = TRUE
  /\ fifo' = <<>> /\ err_send' = NoErr /\ err_recv' = NoErr
  /\ UNCHANGED <<pc, arg, ret>>

av_thread_message_queue_free ==
  /\ alive
  /\ \A t \in Threads : pc[t] = "idle"
  /\ alive' = FALSE
  /\ fifo' = <<>>
  /\ UNCHANGED <<err_send, err_recv, pc, arg, ret>>

-----------------------------------------------------------------------------
(* Waking up.  A thread t leaves its call with Leave(t); SignalAfter also    *)
(* wakes one sleeper, if there is one, as pthread_cond_signal does.          *)

Leave(t) == [pc EXCEPT ![t] = "idle"]

\* wrong: the signal is left out
SignalAfterNobody(p, waiters) == pc' = p

SignalAfter(p, waiters) ==
  IF waiters = {} THEN pc' = p
  ELSE \E w \in waiters : pc' = [p EXCEPT ![w] = "block"]

\* wrong: pthread_cond_signal for pthread_cond_broadcast
BroadcastOne(waiters) ==
  IF waiters = {} THEN pc' = pc ELSE \E w \in waiters : pc' = [pc EXCEPT ![w] = "block"]

Broadcast(waiters) ==
  pc' = [t \in Threads |-> IF t \in waiters THEN "block" ELSE pc[t]]

Spurious(t) ==
  /\ alive /\ pc[t] = "wait"
  /\ pc' = [pc EXCEPT ![t] = "block"]
  /\ UNCHANGED <<alive, fifo, err_send, err_recv, arg, ret>>

-----------------------------------------------------------------------------
(* av_thread_message_queue_send *)

CallSend(s, m, mode) ==
  /\ alive /\ pc[s] = "idle"
  /\ pc' = [pc EXCEPT ![s] = mode]
  /\ arg' = [arg EXCEPT ![s] = m]
  /\ ret' = [ret EXCEPT ![s] = NoMsg]
  /\ UNCHANGED <<alive, fifo, err_send, err_recv>>

\* wrong: one message too many
SendMustWaitOffByOne == err_send = NoErr /\ space < 0

\* the while condition of send_locked
SendMustWait == err_send = NoErr /\ space < 1

SendPut(s) ==
  /\ pc[s] \in {"block", "try"}
  /\ ~SendMustWait /\ err_send = NoErr
  /\ fifo' = Append(fifo, arg[s])
  /\ SignalAfter(Leave(s), WaitRecv)
  /\ arg' = [arg EXCEPT ![s] = NoMsg]
  /\ ret' = [ret EXCEPT ![s] = Ok]
  /\ UNCHANGED <<alive, err_send, err_recv>>

SendWait(s) ==
  /\ pc[s] = "block" /\ SendMustWait
  /\ pc' = [pc EXCEPT ![s] = "wait"]
  /\ UNCHANGED <<alive, fifo, err_send, err_recv, arg, ret>>

SendFail(s) ==
  /\ \/ /\ pc[s] \in {"block", "try"} /\ err_send # NoErr
        /\ ret' = [ret EXCEPT ![s] = err_send]
     \/ /\ pc[s] = "try" /\ SendMustWait
        /\ ret' = [ret EXCEPT ![s] = Again]
  /\ pc' = Leave(s)
  /\ arg' = [arg EXCEPT ![s] = NoMsg]
  /\ UNCHANGED <<alive, fifo, err_send, err_recv>>

av_thread_message_queue_send_locked(s) == SendPut(s) \/ SendWait(s) \/ SendFail(s)

-----------------------------------------------------------------------------
(* av_thread_message_queue_recv *)

CallRecv(r, mode) ==
  /\ alive /\ pc[r] = "idle"
  /\ pc' = [pc EXCEPT ![r] = mode]
  /\ ret' = [ret EXCEPT ![r] = NoMsg]
  /\ UNCHANGED <<alive, fifo, err_send, err_recv, arg>>

\* wrong: the error is only looked at after the loop
RecvMustWaitIgnoringError == Len(fifo) < 1

\* the while condition of recv_locked
RecvMustWait == err_recv = NoErr /\ Len(fifo) < 1

RecvTake(r) ==
  /\ pc[r] \in {"block", "try"}
  /\ Len(fifo) >= 1
  /\ fifo' = Tail(fifo)
  /\ SignalAfter(Leave(r), WaitSend)
  /\ ret' = [ret EXCEPT ![r] = Head(fifo)]
  /\ UNCHANGED <<alive, err_send, err_recv, arg>>

RecvWait(r) ==
  /\ pc[r] = "block" /\ RecvMustWait
  /\ pc' = [pc EXCEPT ![r] = "wait"]
  /\ UNCHANGED <<alive, fifo, err_send, err_recv, arg, ret>>

\* wrong: the error takes precedence over the messages left
RecvFailEarly(r) ==
  /\ pc[r] \in {"block", "try"} /\ err_recv # NoErr
  /\ ret' = [ret EXCEPT ![r] = err_recv]
  /\ pc' = Leave(r)
  /\ UNCHANGED <<alive, fifo, err_send, err_recv, arg>>

RecvFail(r) ==
  /\ \/ /\ pc[r] \in {"block", "try"} /\ err_recv # NoErr /\ Len(fifo) < 1
        /\ ret' = [ret EXCEPT ![r] = err_recv]
     \/ /\ pc[r] = "try" /\ RecvMustWait
        /\ ret' = [ret EXCEPT ![r] = Again]
  /\ pc' = Leave(r)
  /\ UNCHANGED <<alive, fifo, err_send, err_recv, arg>>

av_thread_message_queue_recv_locked(r) == RecvTake(r) \/ RecvWait(r) \/ RecvFail(r)

-----------------------------------------------------------------------------
(* Errors and flushing, which any thread may call, sleepers or not *)

av_thread_message_queue_set_err_send(e) ==
  /\ alive
  /\ err_send' = e
  /\ Broadcast(WaitSend)
  /\ UNCHANGED <<alive, fifo, err_recv, arg, ret>>

av_thread_message_queue_set_err_recv(e) ==
  /\ alive
  /\ err_recv' = e
  /\ Broadcast(WaitRecv)
  /\ UNCHANGED <<alive, fifo, err_send, arg, ret>>

\* wrong: the senders are not notified of the space
av_thread_message_flush_silent ==
  alive /\ fifo' = <<>> /\ UNCHANGED <<alive, err_send, err_recv, pc, arg, ret>>

\* Only the senders are notified: "the queue is empty and there is nothing to read".
av_thread_message_flush ==
  /\ alive
  /\ fifo' = <<>>
  /\ Broadcast(WaitSend)
  /\ UNCHANGED <<alive, err_send, err_recv, arg, ret>>

-----------------------------------------------------------------------------
Next ==
  \/ av_thread_message_queue_alloc
  \/ av_thread_message_queue_free
  \/ \E s \in Senders :
       \/ \E m \in Message, mode \in {"block", "try"} : CallSend(s, m, mode)
       \/ av_thread_message_queue_send_locked(s)
  \/ \E r \in Receivers :
       \/ \E mode \in {"block", "try"} : CallRecv(r, mode)
       \/ av_thread_message_queue_recv_locked(r)
  \/ \E t \in Threads : Spurious(t)
  \/ \E e \in Errors : \/ av_thread_message_queue_set_err_send(e)
                       \/ av_thread_message_queue_set_err_recv(e)
  \/ av_thread_message_flush

Spec == Init /\ [][Next]_vars

\* A thread that wants the mutex gets it eventually.  Nothing is assumed of
\* when threads make calls, set errors, flush or wake up for no reason.
Fairness ==
  /\ \A s \in Senders : WF_vars(av_thread_message_queue_send_locked(s))
  /\ \A r \in Receivers : WF_vars(av_thread_message_queue_recv_locked(r))

FairSpec == Spec /\ Fairness

-----------------------------------------------------------------------------
(* Properties *)

\* Every variable stays in its domain; in particular the ring buffer written
\* by av_fifo_generic_write, which checks no bound, never holds more than
\* nelem messages (send_locked).
TypeOK ==
  /\ alive \in BOOLEAN
  /\ fifo \in Seq(Message) /\ Len(fifo) <= Capacity
  /\ err_send \in Errors \cup {NoErr} /\ err_recv \in Errors \cup {NoErr}
  /\ pc \in [Threads -> {"idle", "block", "try", "wait"}]
  /\ arg \in [Senders -> Message \cup {NoMsg}]
  /\ \A s \in Senders : pc[s] # "idle" => arg[s] \in Message
  /\ ret \in [Threads -> Message \cup Errors \cup {NoMsg, Ok, Again}]

\* A sender sleeps only while no error is set and only while every free slot
\* is spoken for by a sender already woken: the signal sent for each message
\* taken (recv_locked) is never lost to a call that slips in between.
SendWakeups ==
  WaitSend # {} => /\ err_send = NoErr
                   /\ space <= Cardinality(At(Senders, "block"))

\* The same for receivers and the signal sent for each message put
\* (send_locked), although flush wakes no receiver.
RecvWakeups ==
  WaitRecv # {} => /\ err_recv = NoErr
                   /\ Len(fifo) <= Cardinality(At(Receivers, "block"))

NoLostWakeup == SendWakeups /\ RecvWakeups

\* No call is in progress on a queue that does not exist.
IdleWhenFreed == ~alive => \A t \in Threads : pc[t] = "idle"

\* The inductive invariant.
IInv == TypeOK /\ IdleWhenFreed /\ NoLostWakeup

\* Senders and receivers are never all asleep at once: while one thread of
\* each kind sleeps in pthread_cond_wait, some thread is on its way to the
\* mutex.
NotAllAsleep ==
  (WaitSend # {} /\ WaitRecv # {}) => \E t \in Threads : pc[t] = "block"

\* set_err_send is final for senders: whoever is inside av_thread_message_queue_send,
\* asleep or not, returns once the error is set.
ErrorReleasesSenders ==
  \A s \in Senders : (alive /\ err_send # NoErr /\ pc[s] # "idle") ~> (pc[s] = "idle")

\* After set_err_recv every receiver is released as well, with a message
\* while there are some and with the error afterwards.
ErrorReleasesReceivers ==
  \A r \in Receivers : (alive /\ err_recv # NoErr /\ pc[r] # "idle") ~> (pc[r] = "idle")

\* A queued message does not stay behind sleeping receivers, and a free slot
\* not behind sleeping senders: one is used, or nobody sleeps any more.
MessagesMove ==
  /\ (WaitRecv # {} /\ fifo # <<>>) ~> (WaitRecv = {} \/ fifo = <<>>)
  /\ (WaitSend # {} /\ space > 0) ~> (WaitSend = {} \/ space = 0)

\* The sleeping and waking is invisible: the module implements a FIFO whose
\* calls take effect atomically (threadmessage.h).
Channel == INSTANCE MessageChannel WITH
  chan <- fifo,
  errS <- IF alive THEN err_send ELSE NoErr,
  errR <- IF alive THEN err_recv ELSE NoErr,
  call <- [t \in Threads |-> IF pc[t] = "wait" THEN "block" ELSE pc[t]]

ChannelSpec == Channel!Spec
=============================================================================
