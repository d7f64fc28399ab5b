------------------------- MODULE ThreadMessageProofs -------------------------
(***************************************************************************)
(* Proofs about ThreadMessage for any number of threads and any capacity:  *)
(* the queue never overflows, no wakeup is lost, senders and receivers     *)
(* never all sleep, and the atomic queue of MessageChannel is implemented. *)
(***************************************************************************)
EXTENDS ThreadMessage, FiniteSetTheorems, TLAPS

\* Counting facts about subsets of a finite set of threads.
LEMMA CardMono ==
  ASSUME NEW S, IsFiniteSet(S), NEW A \in SUBSET S, NEW B \in SUBSET S, A \subseteq B
  PROVE  Cardinality(A) \in Nat /\ Cardinality(B) \in Nat /\ Cardinality(A) <= Cardinality(B)
<1>1. IsFiniteSet(B) /\ IsFiniteSet(A)
  BY FS_Subset
<1> QED
  BY <1>1, FS_Subset, FS_CardinalityType

\* One element removed from A fits into B.
LEMMA CardMinusOne ==
  ASSUME NEW S, IsFiniteSet(S), NEW A \in SUBSET S, NEW B \in SUBSET S,
         NEW x, A \ {x} \subseteq B
  PROVE  /\ Cardinality(A) \in Nat /\ Cardinality(B) \in Nat
         /\ Cardinality(A) - 1 <= Cardinality(B)
<1>1. IsFiniteSet(A) /\ IsFiniteSet(B)
  BY FS_Subset
<1>2. Cardinality(A) \in Nat /\ Cardinality(B) \in Nat
  BY <1>1, FS_CardinalityType
<1>3. Cardinality(A \ {x}) <= Cardinality(B)
  BY CardMono
<1>4. Cardinality(A \ {x}) = IF x \in A THEN Cardinality(A) - 1 ELSE Cardinality(A)
  BY <1>1, FS_RemoveElement
<1> QED
  BY <1>2, <1>3, <1>4

\* A is smaller than B by an element at least.
LEMMA CardPlusOne ==
  ASSUME NEW S, IsFiniteSet(S), NEW A \in SUBSET S, NEW B \in SUBSET S,
         NEW x \in B, x \notin A, A \subseteq B
  PROVE  /\ Cardinality(A) \in Nat /\ Cardinality(B) \in Nat
         /\ Cardinality(A) + 1 <= Cardinality(B)
<1>1. IsFiniteSet(A) /\ IsFiniteSet(B)
  BY FS_Subset
<1>2. Cardinality(A) \in Nat /\ Cardinality(B) \in Nat
  BY <1>1, FS_CardinalityType
<1>3. Cardinality(A \cup {x}) = Cardinality(A) + 1
  BY <1>1, FS_AddElement
<1>4. Cardinality(A \cup {x}) <= Cardinality(B)
  BY CardMono
<1> QED
  BY <1>2, <1>3, <1>4

-----------------------------------------------------------------------------
\* Waking a sleeper, one or all, keeps pc a function into the four labels.
LEMMA WakeTypes ==
  ASSUME TypeOK
  PROVE  /\ \A t \in Threads : Leave(t) \in [Threads -> {"idle", "block", "try", "wait"}]
         /\ \A p \in [Threads -> {"idle", "block", "try", "wait"}] :
              \A W \in SUBSET Threads :
                SignalAfter(p, W) => pc' \in [Threads -> {"idle", "block", "try", "wait"}]
         /\ \A W \in SUBSET Threads :
              Broadcast(W) => pc' \in [Threads -> {"idle", "block", "try", "wait"}]
BY DEF TypeOK, Leave, SignalAfter, Broadcast

\* A sender that is inside a call after a wakeup was inside it before.
LEMMA WakeIdle ==
  ASSUME TypeOK
  PROVE  /\ \A t, u \in Threads : \A W \in SUBSET Threads :
              /\ SignalAfter(Leave(t), W) /\ (\A w \in W : pc[w] = "wait")
              /\ pc'[u] # "idle"
              => pc[u] # "idle" /\ (u = t => t \in W)
         /\ \A u \in Threads : \A W \in SUBSET Threads :
              Broadcast(W) /\ (\A w \in W : pc[w] = "wait") /\ pc'[u] # "idle"
              => pc[u] # "idle"
BY DEF TypeOK, Leave, SignalAfter, Broadcast

\* Sleepers are threads, at label "wait".
LEMMA WaitSets ==
  /\ WaitSend \in SUBSET Threads /\ WaitRecv \in SUBSET Threads
  /\ \A w \in WaitSend \cup WaitRecv : pc[w] = "wait"
BY DEF WaitSend, WaitRecv, At, Threads

\* The empty queue is a queue.
LEMMA EmptyFifo == <<>> \in Seq(Message) /\ Len(<<>>) = 0 /\ Len(<<>>) <= Capacity
BY CapacityAssumption

\* Every step of the queue keeps the type invariant; the capacity bound is
\* kept by SendPut because the loop of send_locked ends only with a free slot.
LEMMA TypeStep == TypeOK /\ [Next]_vars => TypeOK'
<1> SUFFICES ASSUME TypeOK, [Next]_vars PROVE TypeOK'
  OBVIOUS
<1> USE CapacityAssumption, ThreadAssumption
<1>1. CASE av_thread_message_queue_alloc
  BY <1>1 DEF TypeOK, av_thread_message_queue_alloc
<1>2. CASE av_thread_message_queue_free
  <2>1. alive' \in BOOLEAN
    BY <1>2 DEF av_thread_message_queue_free
  <2> QED
    BY <1>2, <2>1, EmptyFifo DEF TypeOK, av_thread_message_queue_free
<1>3. ASSUME NEW s \in Senders, NEW m \in Message, NEW mode \in {"block", "try"},
             CallSend(s, m, mode)
      PROVE  TypeOK'
  BY <1>3 DEF TypeOK, CallSend, Threads
<1>4. ASSUME NEW s \in Senders, SendPut(s) PROVE TypeOK'
  <2>1. pc' \in [Threads -> {"idle", "block", "try", "wait"}]
    BY <1>4, WakeTypes, WaitSets DEF SendPut, Threads
  <2>2. \A u \in Senders : pc'[u] # "idle" => pc[u] # "idle" /\ u # s
    BY <1>4, WakeIdle, WaitSets DEF SendPut, Threads, WaitRecv, At
  <2>3. arg[s] \in Message
    BY <1>4 DEF TypeOK, SendPut
  <2>4. fifo' \in Seq(Message) /\ Len(fifo') <= Capacity
    BY <1>4, <2>3 DEF TypeOK, SendPut, SendMustWait, space
  <2> QED
    BY <1>4, <2>1, <2>2, <2>4 DEF TypeOK, SendPut, Threads
<1>5. ASSUME NEW s \in Senders, SendWait(s) PROVE TypeOK'
  BY <1>5 DEF TypeOK, SendWait, Threads
<1>6. ASSUME NEW s \in Senders, SendFail(s) PROVE TypeOK'
  BY <1>6 DEF TypeOK, SendFail, Threads, Leave
<1>7. ASSUME NEW r \in Receivers, NEW mode \in {"block", "try"}, CallRecv(r, mode)
      PROVE  TypeOK'
  BY <1>7 DEF TypeOK, CallRecv, Threads
<1>8. ASSUME NEW r \in Receivers, RecvTake(r) PROVE TypeOK'
  <2>1. pc' \in [Threads -> {"idle", "block", "try", "wait"}]
    BY <1>8, WakeTypes, WaitSets DEF RecvTake, Threads
  <2>2. \A u \in Senders : pc'[u] # "idle" => pc[u] # "idle"
    BY <1>8, WakeIdle, WaitSets DEF RecvTake, Threads
  <2>3. fifo' \in Seq(Message) /\ Len(fifo') <= Capacity /\ Head(fifo) \in Message
    BY <1>8 DEF TypeOK, RecvTake
  <2> QED
    BY <1>8, <2>1, <2>2, <2>3 DEF TypeOK, RecvTake, Threads
<1>9. ASSUME NEW r \in Receivers, RecvWait(r) PROVE TypeOK'
  BY <1>9 DEF TypeOK, RecvWait, Threads
<1>10. ASSUME NEW r \in Receivers, RecvFail(r) PROVE TypeOK'
  BY <1>10 DEF TypeOK, RecvFail, Threads, Leave
<1>11. ASSUME NEW t \in Threads, Spurious(t) PROVE TypeOK'
  BY <1>11 DEF TypeOK, Spurious, Threads
<1>12. ASSUME NEW e \in Errors, av_thread_message_queue_set_err_send(e) PROVE TypeOK'
  BY <1>12, WakeTypes, WakeIdle, WaitSets
     DEF TypeOK, av_thread_message_queue_set_err_send, Threads
<1>13. ASSUME NEW e \in Errors, av_thread_message_queue_set_err_recv(e) PROVE TypeOK'
  BY <1>13, WakeTypes, WakeIdle, WaitSets
     DEF TypeOK, av_thread_message_queue_set_err_recv, Threads
<1>14. CASE av_thread_message_flush
  BY <1>14, WakeTypes, WakeIdle, WaitSets, EmptyFifo
     DEF TypeOK, av_thread_message_flush, Threads
<1>15. CASE UNCHANGED vars
  BY <1>15 DEF TypeOK, vars
<1> QED
  BY <1>1, <1>2, <1>3, <1>4, <1>5, <1>6, <1>7, <1>8, <1>9, <1>10, <1>11, <1>12,
     <1>13, <1>14, <1>15
     DEF Next, av_thread_message_queue_send_locked, av_thread_message_queue_recv_locked

\* Type correctness, and with it the bound on the ring buffer (send_locked
\* writes only into a free slot), for every capacity and set of threads.
THEOREM TypeCorrect == Spec => []TypeOK
<1>1. Init => TypeOK
  <2>1. Init => alive \in BOOLEAN
    BY DEF Init
  <2> QED
    BY <2>1, EmptyFifo DEF Init, TypeOK, Threads
<1> QED
  BY <1>1, TypeStep, PTL DEF Spec

-----------------------------------------------------------------------------
\* What the signal at the end of a send or a recv does: its caller leaves, at
\* most one sleeper wakes up, and one does if there is any.
LEMMA SignalEffect ==
  ASSUME TypeOK, NEW t \in Threads, NEW W \in SUBSET Threads, t \notin W,
         \A w \in W : pc[w] = "wait", SignalAfter(Leave(t), W)
  PROVE  /\ pc'[t] = "idle"
         /\ \A u \in Threads \ W : u # t => pc'[u] = pc[u]
         /\ W # {} => \E w \in W : /\ pc'[w] = "block"
                                   /\ \A u \in W : u # w => pc'[u] = pc[u]
BY DEF TypeOK, SignalAfter, Leave

\* A thread that leaves a call takes at most itself from those on their way
\* to the mutex, and the set of sleepers of its own kind does not grow.
LEMMA OneLeaves ==
  ASSUME NEW S, IsFiniteSet(S), NEW t \in S,
         \A u \in S : u # t => pc'[u] = pc[u], pc'[t] # "wait"
  PROVE  /\ At(S, "wait")' \subseteq At(S, "wait")
         /\ Cardinality(At(S, "block")) \in Nat /\ Cardinality(At(S, "block")') \in Nat
         /\ Cardinality(At(S, "block")) - 1 <= Cardinality(At(S, "block")')
<1>1. At(S, "block") \in SUBSET S /\ At(S, "block")' \in SUBSET S
  BY DEF At
<1>2. At(S, "block") \ {t} \subseteq At(S, "block")'
  BY DEF At
<1> QED
  BY <1>1, <1>2, CardMinusOne DEF At

\* When one sleeper of S is woken and no other thread of S moves, one more
\* thread of S is on its way to the mutex.
LEMMA OneWakes ==
  ASSUME NEW S, IsFiniteSet(S), NEW w \in At(S, "wait"), pc'[w] = "block",
         \A u \in S : u # w => pc'[u] = pc[u]
  PROVE  /\ Cardinality(At(S, "block")) \in Nat /\ Cardinality(At(S, "block")') \in Nat
         /\ Cardinality(At(S, "block")) + 1 <= Cardinality(At(S, "block")')
<1>1. At(S, "block") \in SUBSET S /\ At(S, "block")' \in SUBSET S
  BY DEF At
<1>2. w \in At(S, "block")' /\ w \notin At(S, "block") /\ At(S, "block") \subseteq At(S, "block")'
  BY DEF At
<1> QED
  BY <1>1, <1>2, CardPlusOne

\* Threads of S that do not move keep their sets.
LEMMA NoneMoves ==
  ASSUME NEW S, \A u \in S : pc'[u] = pc[u]
  PROVE  At(S, "wait")' = At(S, "wait") /\ At(S, "block")' = At(S, "block")
BY DEF At

\* After a broadcast nobody it was meant for sleeps.
LEMMA BroadcastEmpties ==
  ASSUME TypeOK
  PROVE  /\ Broadcast(WaitSend) => WaitSend' = {} /\ \A r \in Receivers : pc'[r] = pc[r]
         /\ Broadcast(WaitRecv) => WaitRecv' = {} /\ \A s \in Senders : pc'[s] = pc[s]
BY ThreadAssumption DEF TypeOK, Broadcast, WaitSend, WaitRecv, At, Threads

\* The numbers of woken threads are numbers.
LEMMA BlockCounts ==
  /\ Cardinality(At(Senders, "block")) \in Nat
  /\ Cardinality(At(Receivers, "block")) \in Nat
  /\ Cardinality(At(Senders, "block")') \in Nat
  /\ Cardinality(At(Receivers, "block")') \in Nat
<1>1. /\ At(Senders, "block") \in SUBSET Senders /\ At(Receivers, "block") \in SUBSET Receivers
      /\ At(Senders, "block")' \in SUBSET Senders /\ At(Receivers, "block")' \in SUBSET Receivers
  BY DEF At
<1> QED
  BY <1>1, CardMono, ThreadAssumption

\* A step after which nobody of one kind sleeps, or which leaves that kind's
\* threads, its error and its count alone, keeps that kind's half.
LEMMA HalvesKept ==
  /\ WaitSend' = {} => SendWakeups'
  /\ WaitRecv' = {} => RecvWakeups'
  /\ (\A s \in Senders : pc'[s] = pc[s]) /\ UNCHANGED <<err_send, fifo>> /\ SendWakeups
       => SendWakeups'
  /\ (\A r \in Receivers : pc'[r] = pc[r]) /\ UNCHANGED <<err_recv, fifo>> /\ RecvWakeups
       => RecvWakeups'
BY NoneMoves DEF SendWakeups, RecvWakeups, WaitSend, WaitRecv, space

\* No step loses a wakeup.
LEMMA WakeupStep == IInv /\ [Next]_vars => (IdleWhenFreed /\ NoLostWakeup)'
<1> SUFFICES ASSUME IInv, [Next]_vars PROVE (IdleWhenFreed /\ NoLostWakeup)'
  OBVIOUS
<1> USE ThreadAssumption
<1>0. TypeOK /\ IdleWhenFreed /\ SendWakeups /\ RecvWakeups /\ Len(fifo) \in Nat
      /\ Capacity \in Nat
  BY CapacityAssumption DEF IInv, NoLostWakeup, TypeOK
<1>1. CASE av_thread_message_queue_alloc
  <2>1. WaitSend' = {} /\ WaitRecv' = {}
    BY <1>0, <1>1 DEF av_thread_message_queue_alloc, IdleWhenFreed, WaitSend, WaitRecv, At, Threads
  <2> QED
    BY <1>1, <2>1, HalvesKept DEF NoLostWakeup, IdleWhenFreed, av_thread_message_queue_alloc
<1>2. CASE av_thread_message_queue_free
  <2>1. WaitSend' = {} /\ WaitRecv' = {}
    BY <1>0, <1>2 DEF av_thread_message_queue_free, WaitSend, WaitRecv, At, Threads
  <2> QED
    BY <1>2, <2>1, HalvesKept DEF NoLostWakeup, IdleWhenFreed, av_thread_message_queue_free
<1>3. ASSUME NEW s \in Senders, NEW m \in Message, NEW mode \in {"block", "try"},
             CallSend(s, m, mode)
      PROVE  (IdleWhenFreed /\ NoLostWakeup)'
  <2>1. pc'[s] = mode /\ pc[s] = "idle" /\ (\A u \in Threads : u # s => pc'[u] = pc[u])
    BY <1>0, <1>3 DEF CallSend, TypeOK, Threads
  <2>2. At(Senders, "block") \subseteq At(Senders, "block")' /\ WaitSend' = WaitSend
    BY <2>1 DEF At, WaitSend, Threads
  <2>3. Cardinality(At(Senders, "block")) <= Cardinality(At(Senders, "block")')
    <3>1. At(Senders, "block") \in SUBSET Senders /\ At(Senders, "block")' \in SUBSET Senders
      BY DEF At
    <3> QED
      BY <2>2, <3>1, CardMono
  <2>4. Cardinality(At(Senders, "block")') \in Nat
    BY BlockCounts
  <2>5. SendWakeups'
    BY <1>0, <1>3, <2>2, <2>3, <2>4, BlockCounts DEF CallSend, SendWakeups, space
  <2>6. RecvWakeups'
    BY <1>0, <1>3, <2>1, HalvesKept DEF CallSend, Threads
  <2> QED
    BY <1>3, <2>5, <2>6 DEF CallSend, NoLostWakeup, IdleWhenFreed
<1>4. ASSUME NEW s \in Senders, SendPut(s) PROVE (IdleWhenFreed /\ NoLostWakeup)'
  <2>1. s \in Threads /\ s \notin WaitRecv /\ WaitRecv \in SUBSET Receivers
    BY DEF Threads, WaitRecv, At
  <2>2. /\ pc'[s] = "idle"
        /\ \A u \in Threads \ WaitRecv : u # s => pc'[u] = pc[u]
        /\ WaitRecv # {} => \E w \in WaitRecv : /\ pc'[w] = "block"
                                                /\ \A u \in WaitRecv : u # w => pc'[u] = pc[u]
    BY <1>0, <1>4, <2>1, WaitSets, SignalEffect DEF SendPut
  <2>3. Len(fifo') = Len(fifo) + 1 /\ err_send' = err_send /\ err_recv' = err_recv
    BY <1>0, <1>4 DEF SendPut, TypeOK
  <2>4. SendWakeups'
    <3>1. \A u \in Senders : u # s => pc'[u] = pc[u]
      BY <2>1, <2>2 DEF Threads
    <3>2. /\ At(Senders, "wait")' \subseteq At(Senders, "wait")
          /\ Cardinality(At(Senders, "block")) \in Nat
          /\ Cardinality(At(Senders, "block")') \in Nat
          /\ Cardinality(At(Senders, "block")) - 1 <= Cardinality(At(Senders, "block")')
      BY <2>2, <3>1, OneLeaves
    <3> QED
      BY <1>0, <2>3, <3>2 DEF SendWakeups, WaitSend, space
  <2>5. RecvWakeups'
    <3>1. CASE WaitRecv = {}
      <4>1. \A u \in Receivers : pc'[u] = pc[u]
        BY <2>1, <2>2, <3>1 DEF Threads
      <4> QED
        BY <3>1, <4>1, NoneMoves, HalvesKept DEF WaitRecv
    <3>2. CASE WaitRecv # {}
      <4>1. PICK w \in WaitRecv : pc'[w] = "block" /\ \A u \in WaitRecv : u # w => pc'[u] = pc[u]
        BY <2>2, <3>2
      <4>2. \A u \in Receivers : u # w => pc'[u] = pc[u]
        BY <2>1, <2>2, <4>1 DEF Threads
      <4>3. /\ Cardinality(At(Receivers, "block")) \in Nat
            /\ Cardinality(At(Receivers, "block")') \in Nat
            /\ Cardinality(At(Receivers, "block")) + 1 <= Cardinality(At(Receivers, "block")')
        BY <4>1, <4>2, OneWakes DEF WaitRecv
      <4> QED
        BY <1>0, <2>3, <3>2, <4>3 DEF RecvWakeups
    <3> QED
      BY <3>1, <3>2
  <2>6. IdleWhenFreed'
    BY <1>0, <1>4, <2>1 DEF SendPut, IdleWhenFreed
  <2> QED
    BY <2>4, <2>5, <2>6 DEF NoLostWakeup
<1>5. ASSUME NEW s \in Senders, SendWait(s) PROVE (IdleWhenFreed /\ NoLostWakeup)'
  <2>1. \A u \in Receivers : pc'[u] = pc[u]
    BY <1>0, <1>5 DEF SendWait, TypeOK, Threads
  <2>2. Cardinality(At(Senders, "block")') \in Nat
    BY BlockCounts
  <2>3. SendWakeups'
    BY <1>0, <1>5, <2>2 DEF SendWait, SendMustWait, SendWakeups, space
  <2> QED
    BY <1>0, <1>5, <2>1, <2>3, HalvesKept DEF SendWait, NoLostWakeup, IdleWhenFreed, Threads
<1>6. ASSUME NEW s \in Senders, SendFail(s) PROVE (IdleWhenFreed /\ NoLostWakeup)'
  <2>1. pc'[s] = "idle" /\ \A u \in Threads : u # s => pc'[u] = pc[u]
    BY <1>0, <1>6 DEF SendFail, Leave, TypeOK, Threads
  <2>2. \A u \in Receivers : pc'[u] = pc[u]
    BY <2>1 DEF Threads
  <2>3. /\ At(Senders, "wait")' \subseteq At(Senders, "wait")
        /\ Cardinality(At(Senders, "block")') \in Nat
    BY <2>1, OneLeaves DEF Threads
  <2>4. SendWakeups'
    BY <1>0, <1>6, <2>3 DEF SendFail, SendMustWait, SendWakeups, WaitSend, space
  <2>5. RecvWakeups'
    BY <1>0, <1>6, <2>2, HalvesKept DEF SendFail
  <2> QED
    BY <1>0, <1>6, <2>1, <2>4, <2>5 DEF SendFail, NoLostWakeup, IdleWhenFreed
<1>7. ASSUME NEW r \in Receivers, NEW mode \in {"block", "try"}, CallRecv(r, mode)
      PROVE  (IdleWhenFreed /\ NoLostWakeup)'
  <2>1. pc'[r] = mode /\ pc[r] = "idle" /\ (\A u \in Threads : u # r => pc'[u] = pc[u])
    BY <1>0, <1>7 DEF CallRecv, TypeOK, Threads
  <2>2. At(Receivers, "block") \subseteq At(Receivers, "block")' /\ WaitRecv' = WaitRecv
    BY <2>1 DEF At, WaitRecv, Threads
  <2>3. Cardinality(At(Receivers, "block")) <= Cardinality(At(Receivers, "block")')
    <3>1. At(Receivers, "block") \in SUBSET Receivers /\ At(Receivers, "block")' \in SUBSET Receivers
      BY DEF At
    <3> QED
      BY <2>2, <3>1, CardMono
  <2>4. Cardinality(At(Receivers, "block")') \in Nat
    BY BlockCounts
  <2>5. RecvWakeups'
    BY <1>0, <1>7, <2>2, <2>3, <2>4, BlockCounts DEF CallRecv, RecvWakeups
  <2>6. SendWakeups'
    BY <1>0, <1>7, <2>1, HalvesKept DEF CallRecv, Threads
  <2> QED
    BY <1>7, <2>5, <2>6 DEF CallRecv, NoLostWakeup, IdleWhenFreed
<1>8. ASSUME NEW r \in Receivers, RecvTake(r) PROVE (IdleWhenFreed /\ NoLostWakeup)'
  <2>1. r \in Threads /\ r \notin WaitSend /\ WaitSend \in SUBSET Senders
    BY DEF Threads, WaitSend, At
  <2>2. /\ pc'[r] = "idle"
        /\ \A u \in Threads \ WaitSend : u # r => pc'[u] = pc[u]
        /\ WaitSend # {} => \E w \in WaitSend : /\ pc'[w] = "block"
                                                /\ \A u \in WaitSend : u # w => pc'[u] = pc[u]
    BY <1>0, <1>8, <2>1, WaitSets, SignalEffect DEF RecvTake
  <2>3. Len(fifo') = Len(fifo) - 1 /\ err_send' = err_send /\ err_recv' = err_recv
    BY <1>0, <1>8 DEF RecvTake, TypeOK
  <2>4. RecvWakeups'
    <3>1. \A u \in Receivers : u # r => pc'[u] = pc[u]
      BY <2>1, <2>2 DEF Threads
    <3>2. /\ At(Receivers, "wait")' \subseteq At(Receivers, "wait")
          /\ Cardinality(At(Receivers, "block")) \in Nat
          /\ Cardinality(At(Receivers, "block")') \in Nat
          /\ Cardinality(At(Receivers, "block")) - 1 <= Cardinality(At(Receivers, "block")')
      BY <2>2, <3>1, OneLeaves
    <3> QED
      BY <1>0, <2>3, <3>2 DEF RecvWakeups, WaitRecv
  <2>5. SendWakeups'
    <3>1. CASE WaitSend = {}
      <4>1. \A u \in Senders : pc'[u] = pc[u]
        BY <2>1, <2>2, <3>1 DEF Threads
      <4> QED
        BY <3>1, <4>1, NoneMoves, HalvesKept DEF WaitSend
    <3>2. CASE WaitSend # {}
      <4>1. PICK w \in WaitSend : pc'[w] = "block" /\ \A u \in WaitSend : u # w => pc'[u] = pc[u]
        BY <2>2, <3>2
      <4>2. \A u \in Senders : u # w => pc'[u] = pc[u]
        BY <2>1, <2>2, <4>1 DEF Threads
      <4>3. /\ Cardinality(At(Senders, "block")) \in Nat
            /\ Cardinality(At(Senders, "block")') \in Nat
            /\ Cardinality(At(Senders, "block")) + 1 <= Cardinality(At(Senders, "block")')
        BY <4>1, <4>2, OneWakes DEF WaitSend
      <4> QED
        BY <1>0, <2>3, <3>2, <4>3 DEF SendWakeups, space
    <3> QED
      BY <3>1, <3>2
  <2>6. IdleWhenFreed'
    BY <1>0, <1>8, <2>1 DEF RecvTake, IdleWhenFreed
  <2> QED
    BY <2>4, <2>5, <2>6 DEF NoLostWakeup
<1>9. ASSUME NEW r \in Receivers, RecvWait(r) PROVE (IdleWhenFreed /\ NoLostWakeup)'
  <2>1. \A u \in Senders : pc'[u] = pc[u]
    BY <1>0, <1>9 DEF RecvWait, TypeOK, Threads
  <2>2. Cardinality(At(Receivers, "block")') \in Nat
    BY BlockCounts
  <2>3. RecvWakeups'
    BY <1>0, <1>9, <2>2 DEF RecvWait, RecvMustWait, RecvWakeups
  <2> QED
    BY <1>0, <1>9, <2>1, <2>3, HalvesKept DEF RecvWait, NoLostWakeup, IdleWhenFreed, Threads
<1>10. ASSUME NEW r \in Receivers, RecvFail(r) PROVE (IdleWhenFreed /\ NoLostWakeup)'
  <2>1. pc'[r] = "idle" /\ \A u \in Threads : u # r => pc'[u] = pc[u]
    BY <1>0, <1>10 DEF RecvFail, Leave, TypeOK, Threads
  <2>2. \A u \in Senders : pc'[u] = pc[u]
    BY <2>1 DEF Threads
  <2>3. /\ At(Receivers, "wait")' \subseteq At(Receivers, "wait")
        /\ Cardinality(At(Receivers, "block")') \in Nat
    BY <2>1, OneLeaves DEF Threads
  <2>4. RecvWakeups'
    BY <1>0, <1>10, <2>3 DEF RecvFail, RecvMustWait, RecvWakeups, WaitRecv
  <2>5. SendWakeups'
    BY <1>0, <1>10, <2>2, HalvesKept DEF RecvFail
  <2> QED
    BY <1>0, <1>10, <2>1, <2>4, <2>5 DEF RecvFail, NoLostWakeup, IdleWhenFreed
<1>11. ASSUME NEW t \in Threads, Spurious(t) PROVE (IdleWhenFreed /\ NoLostWakeup)'
  <2>1. /\ WaitSend' \subseteq WaitSend /\ At(Senders, "block") \subseteq At(Senders, "block")'
        /\ WaitRecv' \subseteq WaitRecv /\ At(Receivers, "block") \subseteq At(Receivers, "block")'
    BY <1>0, <1>11 DEF Spurious, TypeOK, WaitSend, WaitRecv, At, Threads
  <2>2. /\ At(Senders, "block") \in SUBSET Senders /\ At(Senders, "block")' \in SUBSET Senders
        /\ At(Receivers, "block") \in SUBSET Receivers /\ At(Receivers, "block")' \in SUBSET Receivers
    BY DEF At
  <2>3. /\ Cardinality(At(Senders, "block")) \in Nat /\ Cardinality(At(Senders, "block")') \in Nat
        /\ Cardinality(At(Senders, "block")) <= Cardinality(At(Senders, "block")')
    BY <2>1, <2>2, CardMono
  <2>4. /\ Cardinality(At(Receivers, "block")) \in Nat /\ Cardinality(At(Receivers, "block")') \in Nat
        /\ Cardinality(At(Receivers, "block")) <= Cardinality(At(Receivers, "block")')
    BY <2>1, <2>2, CardMono
  <2>5. SendWakeups' /\ RecvWakeups'
    BY <1>0, <1>11, <2>1, <2>3, <2>4 DEF Spurious, SendWakeups, RecvWakeups, space
  <2> QED
    BY <1>11, <2>5 DEF Spurious, NoLostWakeup, IdleWhenFreed
<1>12. ASSUME NEW e \in Errors, av_thread_message_queue_set_err_send(e)
       PROVE  (IdleWhenFreed /\ NoLostWakeup)'
  BY <1>0, <1>12, BroadcastEmpties, HalvesKept
     DEF av_thread_message_queue_set_err_send, NoLostWakeup, IdleWhenFreed
<1>13. ASSUME NEW e \in Errors, av_thread_message_queue_set_err_recv(e)
       PROVE  (IdleWhenFreed /\ NoLostWakeup)'
  BY <1>0, <1>13, BroadcastEmpties, HalvesKept
     DEF av_thread_message_queue_set_err_recv, NoLostWakeup, IdleWhenFreed
<1>14. CASE av_thread_message_flush
  <2>1. WaitSend' = {} /\ \A r \in Receivers : pc'[r] = pc[r]
    BY <1>0, <1>14, BroadcastEmpties DEF av_thread_message_flush
  <2>2. At(Receivers, "wait")' = At(Receivers, "wait")
        /\ At(Receivers, "block")' = At(Receivers, "block")
    BY <2>1, NoneMoves
  <2>3. Len(fifo') = 0 /\ err_recv' = err_recv
    BY <1>14, EmptyFifo DEF av_thread_message_flush
  <2>4. RecvWakeups'
    BY <1>0, <2>2, <2>3, BlockCounts DEF RecvWakeups, WaitRecv
  <2> QED
    BY <1>14, <2>1, <2>4, HalvesKept DEF av_thread_message_flush, NoLostWakeup, IdleWhenFreed
<1>15. CASE UNCHANGED vars
  BY <1>0, <1>15, HalvesKept DEF vars, NoLostWakeup, IdleWhenFreed
<1> QED
  BY <1>1, <1>2, <1>3, <1>4, <1>5, <1>6, <1>7, <1>8, <1>9, <1>10, <1>11, <1>12,
     <1>13, <1>14, <1>15
     DEF Next, av_thread_message_queue_send_locked, av_thread_message_queue_recv_locked

-----------------------------------------------------------------------------
\* The inductive invariant holds of every execution.
THEOREM Inductive == Spec => []IInv
<1>1. Init => IInv
  <2>1. Init => TypeOK
    <3>1. Init => alive \in BOOLEAN
      BY DEF Init
    <3> QED
      BY <3>1, EmptyFifo DEF Init, TypeOK, Threads
  <2>2. Init => IdleWhenFreed /\ WaitSend = {} /\ WaitRecv = {}
    BY DEF Init, IdleWhenFreed, WaitSend, WaitRecv, At, Threads
  <2> QED
    BY <2>1, <2>2 DEF IInv, NoLostWakeup, SendWakeups, RecvWakeups
<1>2. IInv /\ [Next]_vars => IInv'
  BY TypeStep, WakeupStep DEF IInv
<1> QED
  BY <1>1, <1>2, PTL DEF Spec

\* The one signal that send_locked and recv_locked give is enough: whatever
\* the number of threads, no free slot and no queued message is left to
\* sleepers only.
THEOREM NoWakeupIsLost == Spec => []NoLostWakeup
<1>1. IInv => NoLostWakeup
  BY DEF IInv
<1> QED
  BY <1>1, Inductive, PTL

\* Senders and receivers never all sleep: a full queue has someone to empty
\* it and an empty one someone to fill it.
THEOREM NobodyStranded == Spec => []NotAllAsleep
<1>1. IInv => NotAllAsleep
  <2> SUFFICES ASSUME IInv, WaitSend # {}, WaitRecv # {}
               PROVE  \E t \in Threads : pc[t] = "block"
    BY DEF NotAllAsleep
  <2>1. /\ Len(fifo) \in Nat /\ Capacity \in Nat \ {0}
        /\ Capacity - Len(fifo) <= Cardinality(At(Senders, "block"))
        /\ Len(fifo) <= Cardinality(At(Receivers, "block"))
    BY CapacityAssumption DEF IInv, TypeOK, NoLostWakeup, SendWakeups, RecvWakeups, space
  <2>2. Cardinality(At(Senders, "block")) # 0 \/ Cardinality(At(Receivers, "block")) # 0
    BY <2>1, BlockCounts
  <2>3. At(Senders, "block") # {} \/ At(Receivers, "block") # {}
    BY <2>2, FS_EmptySet
  <2> QED
    BY <2>3 DEF At, Threads
<1> QED
  BY <1>1, Inductive, PTL

-----------------------------------------------------------------------------
\* What the abstract queue sees of the threads: a sleeper is a blocking call.
CallBar == [t \in Threads |-> IF pc[t] = "wait" THEN "block" ELSE pc[t]]

\* A caller that leaves with a signal is, for the abstract queue, the only
\* thread that moves; a broadcast and a spurious wakeup move none.
LEMMA WakeupsInvisible ==
  ASSUME TypeOK
  PROVE  /\ \A t \in Threads : \A W \in SUBSET Threads :
              SignalAfter(Leave(t), W) /\ t \notin W /\ (\A w \in W : pc[w] = "wait")
              => CallBar' = [CallBar EXCEPT ![t] = "idle"]
         /\ \A W \in SUBSET Threads :
              Broadcast(W) /\ (\A w \in W : pc[w] = "wait") => CallBar' = CallBar
         /\ \A t \in Threads : \A l \in {"idle", "block", "try"} :
              pc' = [pc EXCEPT ![t] = l] => CallBar' = [CallBar EXCEPT ![t] = l]
         /\ \A t \in Threads :
              \/ pc[t] = "block" /\ pc' = [pc EXCEPT ![t] = "wait"]
              \/ pc[t] = "wait" /\ pc' = [pc EXCEPT ![t] = "block"]
              => CallBar' = CallBar
<1>1. ASSUME NEW t \in Threads, NEW W \in SUBSET Threads, SignalAfter(Leave(t), W),
             t \notin W, \A w \in W : pc[w] = "wait"
      PROVE  CallBar' = [CallBar EXCEPT ![t] = "idle"]
  <2>1. /\ pc'[t] = "idle"
        /\ \A u \in Threads : u # t => \/ pc'[u] = pc[u]
                                       \/ pc[u] = "wait" /\ pc'[u] = "block"
    BY <1>1 DEF TypeOK, SignalAfter, Leave
  <2> QED
    BY <2>1 DEF CallBar
<1>2. ASSUME NEW W \in SUBSET Threads, Broadcast(W), \A w \in W : pc[w] = "wait"
      PROVE  CallBar' = CallBar
  BY <1>2 DEF TypeOK, Broadcast, CallBar
<1>3. ASSUME NEW t \in Threads, NEW l \in {"idle", "block", "try"}, pc' = [pc EXCEPT ![t] = l]
      PROVE  CallBar' = [CallBar EXCEPT ![t] = l]
  BY <1>3 DEF TypeOK, CallBar
<1>4. ASSUME NEW t \in Threads,
             \/ pc[t] = "block" /\ pc' = [pc EXCEPT ![t] = "wait"]
             \/ pc[t] = "wait" /\ pc' = [pc EXCEPT ![t] = "block"]
      PROVE  CallBar' = CallBar
  BY <1>4 DEF TypeOK, CallBar
<1> QED
  BY <1>1, <1>2, <1>3, <1>4

\* Only a queue that exists has calls in progress.
LEMMA CallsAlive ==
  ASSUME IInv, NEW t \in Threads, pc[t] # "idle"
  PROVE  alive /\ CallBar[t] # "idle" /\ CallBar[t] = (IF pc[t] = "wait" THEN "block" ELSE pc[t])
BY DEF IInv, IdleWhenFreed, CallBar

\* Every step of the queue is a step of the atomic queue, or is invisible.
LEMMA ChannelStep == IInv /\ [Next]_vars => [Channel!Next]_(Channel!vars)
<1> SUFFICES ASSUME IInv, [Next]_vars PROVE Channel!Next \/ UNCHANGED Channel!vars
  OBVIOUS
<1>0. /\ TypeOK /\ IdleWhenFreed /\ Len(fifo) \in Nat /\ Capacity \in Nat
      /\ CallBar = [t \in Threads |-> IF pc[t] = "wait" THEN "block" ELSE pc[t]]
      /\ \A t \in Senders \cup Receivers : t \in Threads
      /\ Channel!Threads = Threads
  BY CapacityAssumption DEF IInv, TypeOK, CallBar, Threads, Channel!Threads
<1>1. CASE av_thread_message_queue_alloc
  <2>1. \A t \in Threads : CallBar[t] = "idle"
    BY <1>0, <1>1 DEF av_thread_message_queue_alloc, IdleWhenFreed, CallBar
  <2>2. CallBar' = CallBar
    BY <1>1 DEF av_thread_message_queue_alloc, CallBar
  <2>3. Channel!Renew
    BY <1>0, <1>1, <2>1, <2>2 DEF av_thread_message_queue_alloc, Channel!Renew, CallBar
  <2> QED
    BY <2>3 DEF Channel!Next
<1>2. CASE av_thread_message_queue_free
  <2>1. \A t \in Threads : CallBar[t] = "idle"
    BY <1>0, <1>2 DEF av_thread_message_queue_free, CallBar
  <2>2. CallBar' = CallBar
    BY <1>2 DEF av_thread_message_queue_free, CallBar
  <2>3. Channel!Renew
    BY <1>0, <1>2, <2>1, <2>2 DEF av_thread_message_queue_free, Channel!Renew, CallBar
  <2> QED
    BY <2>3 DEF Channel!Next
<1>3. ASSUME NEW s \in Senders, NEW m \in Message, NEW mode \in {"block", "try"},
             CallSend(s, m, mode)
      PROVE  Channel!Next
  <2>1. CallBar' = [CallBar EXCEPT ![s] = mode] /\ CallBar[s] = "idle"
    BY <1>0, <1>3, WakeupsInvisible DEF CallSend
  <2>2. Channel!BeginSend(s, m, mode)
    BY <1>3, <2>1 DEF CallSend, Channel!BeginSend, CallBar
  <2> QED
    BY <2>2 DEF Channel!Next
<1>4. ASSUME NEW s \in Senders, SendPut(s) PROVE Channel!Next
  <2>1. s \in Threads /\ s \notin WaitRecv
    BY <1>0, ThreadAssumption DEF WaitRecv, At
  <2>2. CallBar' = [CallBar EXCEPT ![s] = "idle"]
    BY <1>0, <1>4, <2>1, WaitSets, WakeupsInvisible DEF SendPut
  <2>3. alive /\ CallBar[s] # "idle"
    BY <1>4, <2>1, CallsAlive DEF SendPut
  <2>4. Len(fifo) < Capacity
    BY <1>0, <1>4 DEF SendPut, SendMustWait, space
  <2>5. Channel!Put(s)
    BY <1>4, <2>2, <2>3, <2>4 DEF SendPut, Channel!Put, Channel!Return, CallBar
  <2> QED
    BY <2>5 DEF Channel!Next
<1>5. ASSUME NEW s \in Senders, SendWait(s) PROVE UNCHANGED Channel!vars
  <2>1. CallBar' = CallBar
    BY <1>0, <1>5, WakeupsInvisible DEF SendWait
  <2> QED
    BY <1>5, <2>1 DEF SendWait, Channel!vars, CallBar
<1>6. ASSUME NEW s \in Senders, SendFail(s) PROVE Channel!Next
  <2>1. CallBar' = [CallBar EXCEPT ![s] = "idle"]
    BY <1>0, <1>6, WakeupsInvisible DEF SendFail, Leave
  <2>2. alive /\ CallBar[s] # "idle" /\ CallBar[s] = (IF pc[s] = "wait" THEN "block" ELSE pc[s])
    BY <1>0, <1>6, CallsAlive DEF SendFail
  <2>3. SendMustWait => err_send = NoErr /\ Len(fifo) >= Capacity
    BY <1>0 DEF SendMustWait, space
  <2>4. Channel!FailSend(s)
    BY <1>6, <2>1, <2>2, <2>3 DEF SendFail, Channel!FailSend, Channel!Return, CallBar
  <2> QED
    BY <2>4 DEF Channel!Next
<1>7. ASSUME NEW r \in Receivers, NEW mode \in {"block", "try"}, CallRecv(r, mode)
      PROVE  Channel!Next
  <2>1. CallBar' = [CallBar EXCEPT ![r] = mode] /\ CallBar[r] = "idle"
    BY <1>0, <1>7, WakeupsInvisible DEF CallRecv
  <2>2. Channel!BeginRecv(r, mode)
    BY <1>7, <2>1 DEF CallRecv, Channel!BeginRecv, CallBar
  <2> QED
    BY <2>2 DEF Channel!Next
<1>8. ASSUME NEW r \in Receivers, RecvTake(r) PROVE Channel!Next
  <2>1. r \in Threads /\ r \notin WaitSend
    BY <1>0, ThreadAssumption DEF WaitSend, At
  <2>2. CallBar' = [CallBar EXCEPT ![r] = "idle"]
    BY <1>0, <1>8, <2>1, WaitSets, WakeupsInvisible DEF RecvTake
  <2>3. alive /\ CallBar[r] # "idle"
    BY <1>8, <2>1, CallsAlive DEF RecvTake
  <2>4. fifo # <<>>
    BY <1>0, <1>8, EmptyFifo DEF RecvTake
  <2>5. Channel!Take(r)
    BY <1>8, <2>2, <2>3, <2>4 DEF RecvTake, Channel!Take, Channel!Return, CallBar
  <2> QED
    BY <2>5 DEF Channel!Next
<1>9. ASSUME NEW r \in Receivers, RecvWait(r) PROVE UNCHANGED Channel!vars
  <2>1. CallBar' = CallBar
    BY <1>0, <1>9, WakeupsInvisible DEF RecvWait
  <2> QED
    BY <1>9, <2>1 DEF RecvWait, Channel!vars, CallBar
<1>10. ASSUME NEW r \in Receivers, RecvFail(r) PROVE Channel!Next
  <2>1. CallBar' = [CallBar EXCEPT ![r] = "idle"]
    BY <1>0, <1>10, WakeupsInvisible DEF RecvFail, Leave
  <2>2. alive /\ CallBar[r] # "idle" /\ CallBar[r] = (IF pc[r] = "wait" THEN "block" ELSE pc[r])
    BY <1>0, <1>10, CallsAlive DEF RecvFail
  <2>3. fifo = <<>>
    BY <1>0, <1>10 DEF RecvFail, RecvMustWait, TypeOK
  <2>4. Channel!FailRecv(r)
    BY <1>10, <2>1, <2>2, <2>3 DEF RecvFail, RecvMustWait, Channel!FailRecv, Channel!Return, CallBar
  <2> QED
    BY <2>4 DEF Channel!Next
<1>11. ASSUME NEW t \in Threads, Spurious(t) PROVE UNCHANGED Channel!vars
  <2>1. CallBar' = CallBar
    BY <1>0, <1>11, WakeupsInvisible DEF Spurious
  <2> QED
    BY <1>11, <2>1 DEF Spurious, Channel!vars, CallBar
<1>12. ASSUME NEW e \in Errors, av_thread_message_queue_set_err_send(e) PROVE Channel!Next
  <2>1. CallBar' = CallBar
    BY <1>0, <1>12, WaitSets, WakeupsInvisible DEF av_thread_message_queue_set_err_send
  <2>2. Channel!SetErr
    BY <1>12, <2>1 DEF av_thread_message_queue_set_err_send, Channel!SetErr, CallBar
  <2> QED
    BY <2>2 DEF Channel!Next
<1>13. ASSUME NEW e \in Errors, av_thread_message_queue_set_err_recv(e) PROVE Channel!Next
  <2>1. CallBar' = CallBar
    BY <1>0, <1>13, WaitSets, WakeupsInvisible DEF av_thread_message_queue_set_err_recv
  <2>2. Channel!SetErr
    BY <1>13, <2>1 DEF av_thread_message_queue_set_err_recv, Channel!SetErr, CallBar
  <2> QED
    BY <2>2 DEF Channel!Next
<1>14. CASE av_thread_message_flush
  <2>1. CallBar' = CallBar
    BY <1>0, <1>14, WaitSets, WakeupsInvisible DEF av_thread_message_flush
  <2>2. Channel!Flush
    BY <1>14, <2>1 DEF av_thread_message_flush, Channel!Flush, CallBar
  <2> QED
    BY <2>2 DEF Channel!Next
<1>15. CASE UNCHANGED vars
  BY <1>15 DEF vars, Channel!vars
<1> QED
  BY <1>1, <1>2, <1>3, <1>4, <1>5, <1>6, <1>7, <1>8, <1>9, <1>10, <1>11, <1>12,
     <1>13, <1>14, <1>15
     DEF Next, av_thread_message_queue_send_locked, av_thread_message_queue_recv_locked

\* The mutex, the condition variables and the sleeping are invisible: for
\* every capacity and any number of threads threadmessage.c implements the
\* atomic bounded queue its header describes.
THEOREM ImplementsChannel == Spec => ChannelSpec
<1>1. Init => Channel!Init
  BY DEF Init, Channel!Init, Channel!Threads, Threads
<1>2. IInv /\ [Next]_vars => [Channel!Next]_(Channel!vars)
  BY ChannelStep
<1> QED
  BY <1>1, <1>2, Inductive, PTL DEF Spec, ChannelSpec, Channel!Spec
=============================================================================
