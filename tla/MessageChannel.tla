--------------------------- MODULE MessageChannel ---------------------------
(***************************************************************************)
(* What libavutil/threadmessage.h promises its callers: a bounded FIFO of  *)
(* messages whose send and recv calls take effect at one instant between   *)
(* call and return.  A blocking call is pending until the queue lets it    *)
(* complete; how a thread sleeps and who wakes it is not visible here, and *)
(* ThreadMessage is shown to implement this module.                        *)
(***************************************************************************)
EXTENDS Naturals, Sequences

CONSTANTS Senders, Receivers,  \* threads that call send, threads that call recv
          Message,             \* message contents
          Capacity,            \* nelem of av_thread_message_queue_alloc
          Errors,              \* codes given to set_err_send / set_err_recv
          NoErr, NoMsg, Ok, Again

VARIABLES chan,                \* the queued messages, oldest first
          errS, errR,          \* what send and recv return once set
          call,                \* per thread: "idle", "block" or "try" (NONBLOCK)
          arg,                 \* per sender: the message being sent
          ret                  \* per thread: what its last call returned

vars == <<chan, errS, errR, call, arg, ret>>

Threads == Senders \cup Receivers

Init ==
  /\ chan = <<>>
  /\ errS = NoErr /\ errR = NoErr
  /\ call = [t \in Threads |-> "idle"]
  /\ arg = [s \in Senders |-> NoMsg]
  /\ ret = [t \in Threads |-> NoMsg]

Return(t, value) ==
  /\ call' = [call EXCEPT ![t] = "idle"]
  /\ ret' = [ret EXCEPT ![t] = value]

BeginSend(s, m, mode) ==
  /\ call[s] = "idle"
  /\ call' = [call EXCEPT ![s] = mode]
  /\ arg' = [arg EXCEPT ![s] = m]
  /\ ret' = [ret EXCEPT ![s] = NoMsg]
  /\ UNCHANGED <<chan, errS, errR>>

BeginRecv(r, mode) ==
  /\ call[r] = "idle"
  /\ call' = [call EXCEPT ![r] = mode]
  /\ ret' = [ret EXCEPT ![r] = NoMsg]
  /\ UNCHANGED <<chan, errS, errR, arg>>

\* A send succeeds exactly when no send error is set and there is room.
Put(s) ==
  /\ call[s] # "idle" /\ errS = NoErr /\ Len(chan) < Capacity
  /\ chan' = Append(chan, arg[s])
  /\ arg' = [arg EXCEPT ![s] = NoMsg]
  /\ Return(s, Ok)
  /\ UNCHANGED <<errS, errR>>

\* A recv takes the oldest message even when a receive error is set.
Take(r) ==
  /\ call[r] # "idle" /\ chan # <<>>
  /\ chan' = Tail(chan)
  /\ Return(r, Head(chan))
  /\ UNCHANGED <<errS, errR, arg>>

\* The error is returned at once by send, by recv only when nothing is queued.
FailSend(s) ==
  /\ call[s] # "idle"
  /\ \/ errS # NoErr /\ Return(s, errS)
     \/ errS = NoErr /\ call[s] = "try" /\ Len(chan) >= Capacity /\ Return(s, Again)
  /\ arg' = [arg EXCEPT ![s] = NoMsg]
  /\ UNCHANGED <<chan, errS, errR>>

FailRecv(r) ==
  /\ call[r] # "idle" /\ chan = <<>>
  /\ \/ errR # NoErr /\ Return(r, errR)
     \/ errR = NoErr /\ call[r] = "try" /\ Return(r, Again)
  /\ UNCHANGED <<chan, errS, errR, arg>>

SetErr ==
  /\ \E e \in Errors : <<errS', errR'>> \in {<<e, errR>>, <<errS, e>>}
  /\ UNCHANGED <<chan, call, arg, ret>>

\* Flush drops the queued messages; a queue freed and allocated anew, while no
\* call is in progress, is empty and has no error.
Flush == chan' = <<>> /\ UNCHANGED <<errS, errR, call, arg, ret>>

Renew ==
  /\ \A t \in Threads : call[t] = "idle"
  /\ chan' = <<>> /\ errS' = NoErr /\ errR' = NoErr
  /\ UNCHANGED <<call, arg, ret>>

Next ==
  \/ \E s \in Senders : \/ \E m \in Message, mode \in {"block", "try"} : BeginSend(s, m, mode)
                        \/ Put(s)
                        \/ FailSend(s)
  \/ \E r \in Receivers : \/ \E mode \in {"block", "try"} : BeginRecv(r, mode)
                          \/ Take(r)
                          \/ FailRecv(r)
  \/ SetErr
  \/ Flush
  \/ Renew

Spec == Init /\ [][Next]_vars
=============================================================================
