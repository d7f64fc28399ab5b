--------------------------- MODULE VcuDecoderProofs ---------------------------
(***************************************************************************)
(* Proofs about VcuDecoder for every watermark, fifo size, device queue,   *)
(* number of output buffers, set of IDR packets and bound.                 *)
(***************************************************************************)
EXTENDS VcuDecoder, TLAPS

-----------------------------------------------------------------------------
(* The line of packets: <<accepted last>> \o queue \o <<dealt with next>>     *)

\* length and elements of a line
LEMMA LineShape ==
  ASSUME NEW a \in Nat, NEW b \in Nat, NEW w \in Seq(Nat)
  PROVE  LET s == <<a>> \o w \o <<b>>
         IN /\ s \in Seq(Nat) /\ Len(s) = Len(w) + 2
            /\ s[1] = a /\ s[Len(w) + 2] = b
            /\ \A i \in 2..(Len(w) + 1) : s[i] = w[i - 1]
OBVIOUS

\* The device accepts the head of the queue.
LEMMA LineTake ==
  ASSUME NEW a \in Nat, NEW b \in Nat, NEW w \in Seq(Nat), w # <<>>, NEW gone,
         Chain(<<a>> \o w \o <<b>>, gone)
  PROVE  /\ Chain(<<Head(w)>> \o Tail(w) \o <<b>>, gone)
         /\ Follows(a, Head(w), gone)
<1> DEFINE s == <<a>> \o w \o <<b>>
           t == <<Head(w)>> \o Tail(w) \o <<b>>
<1>1. Head(w) \in Nat /\ Tail(w) \in Seq(Nat) /\ Len(Tail(w)) = Len(w) - 1 /\ Head(w) = w[1]
      /\ Len(w) \in Nat /\ Len(w) > 0
  OBVIOUS
<1>2. \A i \in 1..Len(Tail(w)) : Tail(w)[i] = w[i + 1]
  OBVIOUS
<1>3. Len(s) = Len(w) + 2 /\ s[1] = a /\ s[Len(w) + 2] = b /\ \A i \in 2..(Len(w) + 1) : s[i] = w[i - 1]
  BY LineShape
<1>4. /\ Len(t) = Len(w) + 1 /\ t[1] = w[1] /\ t[Len(w) + 1] = b
      /\ \A i \in 2..Len(w) : t[i] = w[i]
  <2>1. /\ Len(t) = Len(Tail(w)) + 2 /\ t[1] = Head(w) /\ t[Len(Tail(w)) + 2] = b
        /\ \A i \in 2..(Len(Tail(w)) + 1) : t[i] = Tail(w)[i - 1]
    BY <1>1, LineShape
  <2> HIDE DEF t
  <2> QED
    BY <1>1, <1>2, <2>1
<1> HIDE DEF s, t
<1>5. \A i \in 1..(Len(w) + 1) : t[i] = s[i + 1]
  <2> TAKE i \in 1..(Len(w) + 1)
  <2>1. CASE i = Len(w) + 1
    BY <2>1, <1>1, <1>3, <1>4
  <2>2. CASE i \in 1..Len(w)
    <3>1. i + 1 \in 2..(Len(w) + 1) /\ (i + 1) - 1 = i
      BY <2>2, <1>1
    <3>2. s[i + 1] = w[i]
      BY <3>1, <1>3
    <3>3. t[i] = w[i]
      BY <2>2, <1>1, <1>4
    <3> QED
      BY <3>2, <3>3
  <2> QED
    BY <1>1, <2>1, <2>2
<1>6. Chain(s, gone)
  BY DEF s
<1>7. \A i \in 1..(Len(w) + 1) : Follows(s[i], s[i + 1], gone)
  BY <1>1, <1>3, <1>6 DEF Chain
<1>8. Follows(a, w[1], gone)
  <2>1. 1 \in 1..(Len(w) + 1) /\ 2 \in 2..(Len(w) + 1) /\ 1 + 1 = 2 /\ 2 - 1 = 1
    BY <1>1
  <2>2. s[2] = w[1] /\ Follows(s[1], s[2], gone)
    BY <2>1, <1>3, <1>7
  <2> QED
    BY <2>2, <1>3
<1>9. Chain(t, gone)
  <2> SUFFICES ASSUME NEW i \in 1..(Len(t) - 1) PROVE Follows(t[i], t[i + 1], gone)
    BY DEF Chain
  <2>1. i \in 1..(Len(w) + 1) /\ i + 1 \in 1..(Len(w) + 1)
    BY <1>1, <1>4
  <2>2. t[i] = s[i + 1] /\ t[i + 1] = s[(i + 1) + 1]
    BY <2>1, <1>5
  <2>3. Follows(s[i + 1], s[(i + 1) + 1], gone)
    BY <2>1, <1>7
  <2> QED
    BY <2>2, <2>3
<1> QED
  BY <1>1, <1>8, <1>9 DEF t

\* A packet is put at the end of the queue.
LEMMA LineQueue ==
  ASSUME NEW a \in Nat, NEW b \in Nat, NEW w \in Seq(Nat), NEW gone,
         Chain(<<a>> \o w \o <<b>>, gone)
  PROVE  Chain(<<a>> \o Append(w, b) \o <<b + 1>>, gone)
<1> DEFINE s == <<a>> \o w \o <<b>>
           t == <<a>> \o Append(w, b) \o <<b + 1>>
<1>1. t = Append(s, b + 1) /\ s \in Seq(Nat) /\ Len(s) \in Nat /\ Len(s) > 0 /\ s[Len(s)] = b
  OBVIOUS
<1> HIDE DEF s, t
<1>2. Len(t) = Len(s) + 1 /\ t[Len(s) + 1] = b + 1 /\ \A i \in 1..Len(s) : t[i] = s[i]
  BY <1>1
<1>3. \A i \in 1..(Len(s) - 1) : Follows(s[i], s[i + 1], gone)
  BY DEF s, Chain
<1>4. Follows(b, b + 1, gone)
  BY DEF Follows
<1>5. Chain(t, gone)
  <2> SUFFICES ASSUME NEW i \in 1..(Len(t) - 1) PROVE Follows(t[i], t[i + 1], gone)
    BY DEF Chain
  <2>1. CASE i \in 1..(Len(s) - 1)
    <3>1. i \in 1..Len(s) /\ i + 1 \in 1..Len(s)
      BY <2>1, <1>1
    <3>2. t[i] = s[i] /\ t[i + 1] = s[i + 1]
      BY <3>1, <1>2
    <3> QED
      BY <2>1, <3>2, <1>3
  <2>2. CASE i = Len(s)
    <3>1. t[i] = b /\ t[i + 1] = b + 1
      BY <2>2, <1>1, <1>2
    <3> QED
      BY <3>1, <1>4
  <2> QED
    BY <1>1, <1>2, <2>1, <2>2
<1> QED
  BY <1>5 DEF t

\* A packet is given up.
LEMMA LineGiveUp ==
  ASSUME NEW a \in Nat, NEW b \in Nat, NEW w \in Seq(Nat), NEW gone,
         Chain(<<a>> \o w \o <<b>>, gone)
  PROVE  Chain(<<a>> \o w \o <<b + 1>>, gone \cup {b})
<1> DEFINE f == <<a>> \o w
           s == f \o <<b>>
           t == f \o <<b + 1>>
<1>1. f \in Seq(Nat) /\ Len(f) \in Nat /\ Len(f) > 0
  OBVIOUS
<1>2. Chain(s, gone)
  OBVIOUS
<1> HIDE DEF f
<1>3. Len(s) = Len(f) + 1 /\ s[Len(f) + 1] = b /\ \A i \in 1..Len(f) : s[i] = f[i]
  BY <1>1
<1>4. Len(t) = Len(f) + 1 /\ t[Len(f) + 1] = b + 1 /\ \A i \in 1..Len(f) : t[i] = f[i]
  BY <1>1
<1> HIDE DEF s, t
<1>5. \A i \in 1..Len(f) : Follows(s[i], s[i + 1], gone)
  BY <1>1, <1>2, <1>3 DEF Chain
<1>6. Chain(t, gone \cup {b})
  <2>0. Len(t) - 1 = Len(f)
    BY <1>1, <1>4
  <2> SUFFICES ASSUME NEW i \in 1..Len(f) PROVE Follows(t[i], t[i + 1], gone \cup {b})
    BY <2>0 DEF Chain
  <2>1. Follows(s[i], s[i + 1], gone) /\ t[i] = s[i] /\ s[i] \in Nat
    <3>1. f[i] \in Nat /\ s[i] = f[i] /\ t[i] = f[i]
      BY <1>1, <1>3, <1>4
    <3> QED
      BY <3>1, <1>5
  <2>2. CASE i < Len(f)
    <3>1. i + 1 \in 1..Len(f)
      BY <2>2, <1>1
    <3>2. t[i + 1] = s[i + 1]
      BY <3>1, <1>3, <1>4
    <3> QED
      BY <2>1, <3>2 DEF Follows
  <2>3. CASE i = Len(f)
    <3>1. s[i + 1] = b /\ t[i + 1] = b + 1
      BY <2>3, <1>3, <1>4
    <3> QED
      BY <2>1, <3>1 DEF Follows
  <2> QED
    BY <1>1, <2>2, <2>3
<1> QED
  BY <1>6 DEF s, t, f

-----------------------------------------------------------------------------
(* Types *)

\* The head and the rest of a queue of packets, and a packet added to it.
LEMMA QueueTypes ==
  ASSUME NEW w \in Seq(Nat), NEW p \in Nat
  PROVE  /\ Append(w, p) \in Seq(Nat) /\ <<p>> \in Seq(Nat) /\ <<>> \in Seq(Nat)
         /\ w # <<>> => Head(w) \in Nat /\ Tail(w) \in Seq(Nat)
         /\ Len(w) \in Nat
         /\ Len(w) > 0 => w # <<>>
OBVIOUS

\* The initial state has the types.
LEMMA TypeInit == Init => TypeOK
<1> SUFFICES ASSUME Init PROVE TypeOK
  OBVIOUS
<1>1. <<>> \in Seq(Nat) /\ 0 \in 0..InCap /\ OutBufs \in Nat
  BY DeviceAssumption
<1>2. first_idr_found \in BOOLEAN /\ flush_sent \in BOOLEAN /\ devEof \in BOOLEAN
  BY Zenon DEF Init
<1>3. /\ mode \in {"data", "drain", "done", "crash"}
      /\ pc \in {"idle", "water", "send", "recv", "eof_send", "eof_recv"}
      /\ next \in Nat /\ loops \in Nat /\ retries \in 0..2
      /\ devOut \in Nat /\ held \in Nat /\ pool \in Nat
  BY DEF Init
<1>4. pkt_fifo \in Seq(Nat) /\ send_ret \in {"ok", "again"} /\ lost \subseteq Nat /\ nulls \subseteq Nat
  BY <1>1 DEF Init
<1>5. devIn \in 0..InCap /\ devFree \in Nat
  BY <1>1 DEF Init
<1>6. nacc \in Nat /\ lastAcc \in Nat /\ genpts \in Nat /\ faults \in Nat
  BY DEF Init
<1> QED
  BY <1>2, <1>3, <1>4, <1>5, <1>6 DEF TypeOK

\* Every step preserves the types.
LEMMA TypeStep ==
  ASSUME TypeOK, [Next]_vars
  PROVE  TypeOK'
<1> USE DEF TypeOK
<1>1. CASE DecodeSkip
  BY <1>1 DEF DecodeSkip, decVars, devVars, bufVars, ghostVars
<1>2. CASE DecodeCall
  BY <1>2 DEF DecodeCall, decVars, devVars, bufVars, ghostVars
<1>3. CASE WaterDone
  BY <1>3 DEF WaterDone, decVars, devVars, bufVars, ghostVars
<1>4. CASE WaterSend
  <2>1. Len(pkt_fifo) \in Nat /\ Len(pkt_fifo) > Watermark => pkt_fifo # <<>>
    BY BoundAssumption
  <2>2. pkt_fifo # <<>>
    BY <1>4, <2>1 DEF WaterSend
  <2>3. Head(pkt_fifo) \in Nat /\ Tail(pkt_fifo) \in Seq(Nat)
    BY <2>2, QueueTypes
  <2>4. CASE SendOk(Head(pkt_fifo)) /\ pkt_fifo' = Tail(pkt_fifo) /\ UNCHANGED <<pc, retries>>
    BY <1>4, <2>4, <2>3, DeviceAssumption
    DEF WaterSend, SendOk, GiveBuffers, decVars, devVars, bufVars, ghostVars
  <2>5. CASE SendAgain /\ retries # 2 /\ retries' = retries + 1 /\ UNCHANGED <<pc, pkt_fifo>>
    BY <1>4, <2>5 DEF WaterSend, SendAgain, GiveBuffers, decVars, devVars, bufVars, ghostVars
  <2>6. CASE SendAgain /\ pc' = "send" /\ UNCHANGED <<pkt_fifo, retries>>
    BY <1>4, <2>6 DEF WaterSend, SendAgain, GiveBuffers, decVars, devVars, bufVars, ghostVars
  <2> QED
    BY <1>4, <2>4, <2>5, <2>6 DEF WaterSend
<1>5. CASE WaterError
  BY <1>5 DEF WaterError, SendError, Fails, decVars, devVars, bufVars, ghostVars
<1>6. CASE DataSend
  <2>1. Append(pkt_fifo, next) \in Seq(Nat) /\ <<>> \in Seq(Nat)
    BY QueueTypes
  <2>2. pkt_fifo # <<>> => Head(pkt_fifo) \in Nat
    BY QueueTypes
  <2>3. nulls' \subseteq Nat /\ faults' \in Nat
    <3>1. CloneOk \/ CloneFails
      BY <1>6 DEF DataSend
    <3>2. CASE CloneOk
      BY <3>2 DEF CloneOk
    <3>3. CASE CloneFails
      BY <3>3 DEF CloneFails, Fails
    <3> QED
      BY <3>1, <3>2, <3>3
  <2>4. pkt_fifo' \in Seq(Nat) /\ send_ret' \in {"ok", "again"} /\ pc' = "recv"
    BY <1>6, <2>1 DEF DataSend
  <2>5. /\ devIn' \in 0..InCap /\ devOut' \in Nat /\ devFree' \in Nat /\ held' \in Nat /\ pool' \in Nat
        /\ nacc' \in Nat /\ lastAcc' \in Nat /\ UNCHANGED devEof
    <3>1. (\E p \in Nat : SendOk(p)) \/ SendAgain
      BY <1>6, <2>2 DEF DataSend
    <3>2. CASE SendAgain
      BY <3>2 DEF SendAgain, GiveBuffers, devVars
    <3>3. ASSUME NEW p \in Nat, SendOk(p)
          PROVE  /\ devIn' \in 0..InCap /\ devOut' \in Nat /\ devFree' \in Nat /\ held' \in Nat
                 /\ pool' \in Nat /\ nacc' \in Nat /\ lastAcc' \in Nat /\ UNCHANGED devEof
      BY <3>3, DeviceAssumption DEF SendOk, GiveBuffers
    <3> QED
      BY <3>1, <3>2, <3>3
  <2>6. UNCHANGED <<mode, next, first_idr_found, flush_sent, loops, retries, genpts, lost>>
    BY <1>6 DEF DataSend, decVars
  <2> QED
    BY <2>3, <2>4, <2>5, <2>6
<1>7. CASE DataError
  <2>1. Append(pkt_fifo, next) \in Seq(Nat)
    BY QueueTypes
  <2>2. pkt_fifo' \in Seq(Nat) /\ lost' \subseteq Nat /\ nulls' \subseteq Nat
    BY <1>7, <2>1 DEF DataError
  <2>3. faults' \in Nat /\ UNCHANGED <<devIn, devOut, devEof, devFree, held, pool, nacc, lastAcc>>
    BY <1>7 DEF DataError, SendError, Fails, devVars, bufVars
  <2>4. pc' = "idle" /\ UNCHANGED <<mode, next, first_idr_found, flush_sent, loops>>
    BY <1>7 DEF DataError, decVars
  <2>5. UNCHANGED <<retries, send_ret, genpts>>
    BY <1>7 DEF DataError
  <2> QED
    BY <2>2, <2>3, <2>4, <2>5
<1>8. CASE DataNoMem
  BY <1>8 DEF DataNoMem, Fails, decVars, devVars, bufVars, ghostVars
<1>9. CASE DataRecv
  <2>1. pkt_fifo' \in Seq(Nat)
    <3>1. <<next>> \in Seq(Nat) /\ (pkt_fifo # <<>> => Tail(pkt_fifo) \in Seq(Nat))
      BY QueueTypes
    <3> QED
      BY <1>9, <3>1 DEF DataRecv, QueueAfterSend
  <2>2. /\ devOut' \in Nat /\ held' \in Nat /\ genpts' \in Nat /\ faults' \in Nat
        /\ UNCHANGED <<devIn, devEof, devFree, pool>>
    BY <1>9 DEF DataRecv, RecvFrame, Fetched, Fails, CloneFails, set_pts, RecvNothing, RecvError, devVars, bufVars
  <2>3. pc' = "idle" /\ UNCHANGED <<mode, next, first_idr_found, flush_sent, loops>>
    BY <1>9 DEF DataRecv, decVars
  <2>4. UNCHANGED <<retries, send_ret, nacc, lastAcc, lost>> /\ nulls' \subseteq Nat
    BY <1>9 DEF DataRecv, CloneFails
  <2> QED
    BY <2>1, <2>2, <2>3, <2>4
<1>10. CASE StartDrain
  BY <1>10 DEF StartDrain, decVars, devVars, bufVars, ghostVars
<1>11. CASE DrainCall
  BY <1>11 DEF DrainCall, decVars, devVars, bufVars, ghostVars
<1>12. CASE EofSendPacket
  <2>1. pkt_fifo # <<>> => Head(pkt_fifo) \in Nat /\ Tail(pkt_fifo) \in Seq(Nat)
    BY QueueTypes
  <2>2. CASE SendOk(Head(pkt_fifo)) /\ pkt_fifo' = Tail(pkt_fifo)
    BY <1>12, <2>1, <2>2, DeviceAssumption
    DEF EofSendPacket, SendOk, GiveBuffers, decVars, devVars, bufVars, ghostVars
  <2>3. CASE SendAgain /\ UNCHANGED pkt_fifo
    BY <1>12, <2>3
    DEF EofSendPacket, SendAgain, GiveBuffers, decVars, devVars, bufVars, ghostVars
  <2> QED
    BY <1>12, <2>2, <2>3 DEF EofSendPacket
<1>13. CASE EofSendFlush
  BY <1>13 DEF EofSendFlush, GiveBuffers, decVars, devVars, bufVars, ghostVars
<1>14. CASE EofSendEmpty
  BY <1>14 DEF EofSendEmpty, GiveBuffers, decVars, devVars, bufVars, ghostVars
<1>15. CASE EofError
  BY <1>15 DEF EofError, SendError, Fails, decVars, devVars, bufVars, ghostVars
<1>16. CASE EofRecvFrame
  BY <1>16 DEF EofRecvFrame, RecvFrame, Fetched, Fails, set_pts, decVars, devVars, bufVars, ghostVars
<1>17. CASE EofRecvNothing
  BY <1>17
  DEF EofRecvNothing, RecvNothing, RecvError, Fails, RecvEos, decVars, devVars, bufVars, ghostVars
<1>18. CASE mpsoc_vcu_flush
  <2>1. first_idr_found' \in BOOLEAN /\ flush_sent' \in BOOLEAN /\ devEof' \in BOOLEAN
    BY <1>18, Zenon DEF mpsoc_vcu_flush
  <2>2. mode' = "data" /\ loops' \in Nat /\ UNCHANGED <<devIn, devOut>>
    BY <1>18 DEF mpsoc_vcu_flush
  <2>3. UNCHANGED <<next, pc, pkt_fifo, nulls, retries, send_ret, bufVars, ghostVars>>
    BY <1>18 DEF mpsoc_vcu_flush
  <2> QED
    BY <2>1, <2>2, <2>3 DEF bufVars, ghostVars
<1>19. CASE DevDecode
  BY <1>19, DeviceAssumption DEF DevDecode, decVars, devVars, bufVars, ghostVars
<1>20. CASE Downstream
  BY <1>20 DEF Downstream, decVars, devVars, bufVars, ghostVars
<1>21. CASE UNCHANGED vars
  BY <1>21 DEF vars, decVars, devVars, bufVars, ghostVars
<1>22. CASE HeadDereferenced
  BY <1>22 DEF HeadDereferenced, decVars, devVars, bufVars, ghostVars
<1> QED
  BY <1>1, <1>2, <1>3, <1>4, <1>5, <1>6, <1>7, <1>8, <1>9, <1>10,
     <1>11, <1>12, <1>13, <1>14, <1>15, <1>16, <1>17, <1>18, <1>19, <1>20, <1>21, <1>22
  DEF Next, mpsoc_vcu_decode, DataPath, EofPath, Finished

-----------------------------------------------------------------------------
(* The parts of the invariant other than the order *)

\* Data calls, drain calls and the end of stream stay where they belong.
LEMMA ModesStep ==
  ASSUME TypeOK, TypeOK', Modes, [Next]_vars
  PROVE  Modes'
<1> USE DEF TypeOK, Modes
<1>1. CASE DecodeSkip
  BY <1>1 DEF DecodeSkip, decVars, devVars, bufVars, ghostVars
<1>2. CASE DecodeCall
  BY <1>2 DEF DecodeCall, decVars, devVars, bufVars, ghostVars
<1>3. CASE WaterDone
  BY <1>3 DEF WaterDone, decVars, devVars, bufVars, ghostVars
<1>4. CASE WaterSend
  BY <1>4 DEF WaterSend, SendOk, SendAgain, GiveBuffers, decVars, devVars, bufVars, ghostVars
<1>5. CASE WaterError
  BY <1>5 DEF WaterError, SendError, Fails, decVars, devVars, bufVars, ghostVars
<1>6. CASE DataSend
  BY <1>6 DEF DataSend, CloneOk, CloneFails, Fails, SendOk, SendAgain, GiveBuffers, decVars, devVars, bufVars, ghostVars
<1>7. CASE DataError
  BY <1>7 DEF DataError, SendError, Fails, decVars, devVars, bufVars, ghostVars
<1>8. CASE DataNoMem
  BY <1>8 DEF DataNoMem, Fails, decVars, devVars, bufVars, ghostVars
<1>9. CASE DataRecv
  BY <1>9
  DEF DataRecv, RecvFrame, Fetched, Fails, CloneFails, set_pts, RecvNothing, RecvError, QueueAfterSend, decVars, devVars, bufVars, ghostVars
<1>10. CASE StartDrain
  BY <1>10 DEF StartDrain, decVars, devVars, bufVars, ghostVars
<1>11. CASE DrainCall
  BY <1>11 DEF DrainCall, decVars, devVars, bufVars, ghostVars
<1>12. CASE EofSendPacket
  BY <1>12
  DEF EofSendPacket, SendOk, SendAgain, GiveBuffers, decVars, devVars, bufVars, ghostVars
<1>13. CASE EofSendFlush
  BY <1>13 DEF EofSendFlush, GiveBuffers, decVars, devVars, bufVars, ghostVars
<1>14. CASE EofSendEmpty
  BY <1>14 DEF EofSendEmpty, GiveBuffers, decVars, devVars, bufVars, ghostVars
<1>15. CASE EofError
  BY <1>15 DEF EofError, SendError, Fails, decVars, devVars, bufVars, ghostVars
<1>16. CASE EofRecvFrame
  BY <1>16 DEF EofRecvFrame, RecvFrame, Fetched, Fails, set_pts, decVars, devVars, bufVars, ghostVars
<1>17. CASE EofRecvNothing
  BY <1>17
  DEF EofRecvNothing, RecvNothing, RecvError, Fails, RecvEos, decVars, devVars, bufVars, ghostVars
<1>18. CASE mpsoc_vcu_flush
  BY <1>18 DEF mpsoc_vcu_flush, decVars, devVars, bufVars, ghostVars
<1>19. CASE DevDecode
  BY <1>19 DEF DevDecode, decVars, devVars, bufVars, ghostVars
<1>20. CASE Downstream
  BY <1>20 DEF Downstream, decVars, devVars, bufVars, ghostVars
<1>21. CASE UNCHANGED vars
  BY <1>21 DEF vars, decVars, devVars, bufVars, ghostVars
<1>22. CASE HeadDereferenced
  BY <1>22 DEF HeadDereferenced, decVars, devVars, bufVars, ghostVars
<1> QED
  BY <1>1, <1>2, <1>3, <1>4, <1>5, <1>6, <1>7, <1>8, <1>9, <1>10,
     <1>11, <1>12, <1>13, <1>14, <1>15, <1>16, <1>17, <1>18, <1>19, <1>20, <1>21, <1>22
  DEF Next, mpsoc_vcu_decode, DataPath, EofPath, Finished

\* Accepted packets are in the device, returned, or lost to a fault.
LEMMA FrameCountStep ==
  ASSUME TypeOK, TypeOK', FrameCount, [Next]_vars
  PROVE  FrameCount'
<1> USE DEF FrameCount
<1>0. /\ devIn \in Nat /\ devOut \in Nat /\ genpts \in Nat /\ nacc \in Nat /\ faults \in Nat
      /\ OutBufs \in Nat /\ devFree \in Nat /\ held \in Nat /\ pool \in Nat
  BY DeviceAssumption DEF TypeOK
<1>1. CASE DecodeSkip
  BY <1>0, <1>1 DEF DecodeSkip, decVars, devVars, bufVars, ghostVars
<1>2. CASE DecodeCall
  BY <1>0, <1>2 DEF DecodeCall, decVars, devVars, bufVars, ghostVars
<1>3. CASE WaterDone
  BY <1>0, <1>3 DEF WaterDone, decVars, devVars, bufVars, ghostVars
<1>4. CASE WaterSend
  BY <1>0, <1>4
  DEF WaterSend, SendOk, SendAgain, GiveBuffers, decVars, devVars, bufVars, ghostVars
<1>5. CASE WaterError
  BY <1>0, <1>5 DEF WaterError, SendError, Fails, decVars, devVars, bufVars, ghostVars
<1>6. CASE DataSend
  BY <1>0, <1>6
  DEF DataSend, CloneOk, CloneFails, Fails, SendOk, SendAgain, GiveBuffers, decVars, devVars, bufVars, ghostVars
<1>7. CASE DataError
  BY <1>0, <1>7 DEF DataError, SendError, Fails, decVars, devVars, bufVars, ghostVars
<1>8. CASE DataNoMem
  BY <1>0, <1>8 DEF DataNoMem, Fails, decVars, devVars, bufVars, ghostVars
<1>9. CASE DataRecv
  BY <1>0, <1>9
  DEF DataRecv, RecvFrame, Fetched, Fails, CloneFails, set_pts, RecvNothing, RecvError, decVars, devVars, bufVars, ghostVars
<1>10. CASE StartDrain
  BY <1>0, <1>10 DEF StartDrain, decVars, devVars, bufVars, ghostVars
<1>11. CASE DrainCall
  BY <1>0, <1>11 DEF DrainCall, decVars, devVars, bufVars, ghostVars
<1>12. CASE EofSendPacket
  BY <1>0, <1>12
  DEF EofSendPacket, SendOk, SendAgain, GiveBuffers, decVars, devVars, bufVars, ghostVars
<1>13. CASE EofSendFlush
  BY <1>0, <1>13 DEF EofSendFlush, GiveBuffers, decVars, devVars, bufVars, ghostVars
<1>14. CASE EofSendEmpty
  BY <1>0, <1>14 DEF EofSendEmpty, GiveBuffers, decVars, devVars, bufVars, ghostVars
<1>15. CASE EofError
  BY <1>0, <1>15 DEF EofError, SendError, Fails, decVars, devVars, bufVars, ghostVars
<1>16. CASE EofRecvFrame
  BY <1>0, <1>16 DEF EofRecvFrame, RecvFrame, Fetched, Fails, set_pts, decVars, devVars, bufVars, ghostVars
<1>17. CASE EofRecvNothing
  BY <1>0, <1>17
  DEF EofRecvNothing, RecvNothing, RecvError, Fails, RecvEos, decVars, devVars, bufVars, ghostVars
<1>18. CASE mpsoc_vcu_flush
  BY <1>0, <1>18 DEF mpsoc_vcu_flush, decVars, devVars, bufVars, ghostVars
<1>19. CASE DevDecode
  BY <1>0, <1>19 DEF DevDecode, decVars, devVars, bufVars, ghostVars
<1>20. CASE Downstream
  BY <1>0, <1>20 DEF Downstream, decVars, devVars, bufVars, ghostVars
<1>21. CASE UNCHANGED vars
  BY <1>0, <1>21 DEF vars, decVars, devVars, bufVars, ghostVars
<1>22. CASE HeadDereferenced
  BY <1>0, <1>22 DEF HeadDereferenced, decVars, devVars, bufVars, ghostVars
<1> QED
  BY <1>1, <1>2, <1>3, <1>4, <1>5, <1>6, <1>7, <1>8, <1>9, <1>10,
     <1>11, <1>12, <1>13, <1>14, <1>15, <1>16, <1>17, <1>18, <1>19, <1>20, <1>21, <1>22
  DEF Next, mpsoc_vcu_decode, DataPath, EofPath, Finished

\* Output buffers only change places, but for those a fault leaks.
LEMMA BuffersStep ==
  ASSUME TypeOK, TypeOK', BuffersConserved, [Next]_vars
  PROVE  BuffersConserved'
<1> USE DEF BuffersConserved
<1>0. /\ devIn \in Nat /\ devOut \in Nat /\ genpts \in Nat /\ nacc \in Nat /\ faults \in Nat
      /\ OutBufs \in Nat /\ devFree \in Nat /\ held \in Nat /\ pool \in Nat
  BY DeviceAssumption DEF TypeOK
<1>1. CASE DecodeSkip
  BY <1>0, <1>1 DEF DecodeSkip, decVars, devVars, bufVars, ghostVars
<1>2. CASE DecodeCall
  BY <1>0, <1>2 DEF DecodeCall, decVars, devVars, bufVars, ghostVars
<1>3. CASE WaterDone
  BY <1>0, <1>3 DEF WaterDone, decVars, devVars, bufVars, ghostVars
<1>4. CASE WaterSend
  BY <1>0, <1>4
  DEF WaterSend, SendOk, SendAgain, GiveBuffers, decVars, devVars, bufVars, ghostVars
<1>5. CASE WaterError
  BY <1>0, <1>5 DEF WaterError, SendError, Fails, decVars, devVars, bufVars, ghostVars
<1>6. CASE DataSend
  BY <1>0, <1>6
  DEF DataSend, CloneOk, CloneFails, Fails, SendOk, SendAgain, GiveBuffers, decVars, devVars, bufVars, ghostVars
<1>7. CASE DataError
  BY <1>0, <1>7 DEF DataError, SendError, Fails, decVars, devVars, bufVars, ghostVars
<1>8. CASE DataNoMem
  BY <1>0, <1>8 DEF DataNoMem, Fails, decVars, devVars, bufVars, ghostVars
<1>9. CASE DataRecv
  BY <1>0, <1>9
  DEF DataRecv, RecvFrame, Fetched, Fails, CloneFails, set_pts, RecvNothing, RecvError, decVars, devVars, bufVars, ghostVars
<1>10. CASE StartDrain
  BY <1>0, <1>10 DEF StartDrain, decVars, devVars, bufVars, ghostVars
<1>11. CASE DrainCall
  BY <1>0, <1>11 DEF DrainCall, decVars, devVars, bufVars, ghostVars
<1>12. CASE EofSendPacket
  BY <1>0, <1>12
  DEF EofSendPacket, SendOk, SendAgain, GiveBuffers, decVars, devVars, bufVars, ghostVars
<1>13. CASE EofSendFlush
  BY <1>0, <1>13 DEF EofSendFlush, GiveBuffers, decVars, devVars, bufVars, ghostVars
<1>14. CASE EofSendEmpty
  BY <1>0, <1>14 DEF EofSendEmpty, GiveBuffers, decVars, devVars, bufVars, ghostVars
<1>15. CASE EofError
  BY <1>0, <1>15 DEF EofError, SendError, Fails, decVars, devVars, bufVars, ghostVars
<1>16. CASE EofRecvFrame
  BY <1>0, <1>16 DEF EofRecvFrame, RecvFrame, Fetched, Fails, set_pts, decVars, devVars, bufVars, ghostVars
<1>17. CASE EofRecvNothing
  BY <1>0, <1>17
  DEF EofRecvNothing, RecvNothing, RecvError, Fails, RecvEos, decVars, devVars, bufVars, ghostVars
<1>18. CASE mpsoc_vcu_flush
  BY <1>0, <1>18 DEF mpsoc_vcu_flush, decVars, devVars, bufVars, ghostVars
<1>19. CASE DevDecode
  BY <1>0, <1>19 DEF DevDecode, decVars, devVars, bufVars, ghostVars
<1>20. CASE Downstream
  BY <1>0, <1>20 DEF Downstream, decVars, devVars, bufVars, ghostVars
<1>21. CASE UNCHANGED vars
  BY <1>0, <1>21 DEF vars, decVars, devVars, bufVars, ghostVars
<1>22. CASE HeadDereferenced
  BY <1>0, <1>22 DEF HeadDereferenced, decVars, devVars, bufVars, ghostVars
<1> QED
  BY <1>1, <1>2, <1>3, <1>4, <1>5, <1>6, <1>7, <1>8, <1>9, <1>10,
     <1>11, <1>12, <1>13, <1>14, <1>15, <1>16, <1>17, <1>18, <1>19, <1>20, <1>21, <1>22
  DEF Next, mpsoc_vcu_decode, DataPath, EofPath, Finished

\* The watermark loop is left with a long queue only when the retries are used.
LEMMA RetriesStep ==
  ASSUME TypeOK, TypeOK', RetriesUsed, [Next]_vars
  PROVE  RetriesUsed'
<1> USE DEF RetriesUsed
<1>1. CASE DecodeSkip
  BY <1>1 DEF DecodeSkip, decVars, devVars, bufVars, ghostVars
<1>2. CASE DecodeCall
  BY <1>2 DEF DecodeCall, decVars, devVars, bufVars, ghostVars
<1>3. CASE WaterDone
  <2>1. Len(pkt_fifo) \in Nat
    BY DEF TypeOK
  <2> QED
    BY <1>3, <2>1, BoundAssumption DEF WaterDone
<1>4. CASE WaterSend
  BY <1>4 DEF WaterSend, SendOk, SendAgain, GiveBuffers, decVars, devVars, bufVars, ghostVars
<1>5. CASE WaterError
  BY <1>5 DEF WaterError, SendError, Fails, decVars, devVars, bufVars, ghostVars
<1>6. CASE DataSend
  BY <1>6 DEF DataSend, CloneOk, CloneFails, Fails, SendOk, SendAgain, GiveBuffers, decVars, devVars, bufVars, ghostVars
<1>7. CASE DataError
  BY <1>7 DEF DataError, SendError, Fails, decVars, devVars, bufVars, ghostVars
<1>8. CASE DataNoMem
  BY <1>8 DEF DataNoMem, Fails, decVars, devVars, bufVars, ghostVars
<1>9. CASE DataRecv
  BY <1>9 DEF DataRecv, RecvFrame, Fetched, Fails, CloneFails, set_pts, RecvNothing, RecvError, decVars, devVars, bufVars, ghostVars
<1>10. CASE StartDrain
  BY <1>10 DEF StartDrain, decVars, devVars, bufVars, ghostVars
<1>11. CASE DrainCall
  BY <1>11 DEF DrainCall, decVars, devVars, bufVars, ghostVars
<1>12. CASE EofSendPacket
  BY <1>12
  DEF EofSendPacket, SendOk, SendAgain, GiveBuffers, decVars, devVars, bufVars, ghostVars
<1>13. CASE EofSendFlush
  BY <1>13 DEF EofSendFlush, GiveBuffers, decVars, devVars, bufVars, ghostVars
<1>14. CASE EofSendEmpty
  BY <1>14 DEF EofSendEmpty, GiveBuffers, decVars, devVars, bufVars, ghostVars
<1>15. CASE EofError
  BY <1>15 DEF EofError, SendError, Fails, decVars, devVars, bufVars, ghostVars
<1>16. CASE EofRecvFrame
  BY <1>16 DEF EofRecvFrame, RecvFrame, Fetched, Fails, set_pts, decVars, devVars, bufVars, ghostVars
<1>17. CASE EofRecvNothing
  BY <1>17
  DEF EofRecvNothing, RecvNothing, RecvError, Fails, RecvEos, decVars, devVars, bufVars, ghostVars
<1>18. CASE mpsoc_vcu_flush
  BY <1>18 DEF mpsoc_vcu_flush, decVars, devVars, bufVars, ghostVars
<1>19. CASE DevDecode
  BY <1>19 DEF DevDecode, decVars, devVars, bufVars, ghostVars
<1>20. CASE Downstream
  BY <1>20 DEF Downstream, decVars, devVars, bufVars, ghostVars
<1>21. CASE UNCHANGED vars
  BY <1>21 DEF vars, decVars, devVars, bufVars, ghostVars
<1>22. CASE HeadDereferenced
  BY <1>22 DEF HeadDereferenced, decVars, devVars, bufVars, ghostVars
<1> QED
  BY <1>1, <1>2, <1>3, <1>4, <1>5, <1>6, <1>7, <1>8, <1>9, <1>10,
     <1>11, <1>12, <1>13, <1>14, <1>15, <1>16, <1>17, <1>18, <1>19, <1>20, <1>21, <1>22
  DEF Next, mpsoc_vcu_decode, DataPath, EofPath, Finished

-----------------------------------------------------------------------------
(* The order *)

\* A step that leaves the line alone keeps it in order.
LEMMA SameLine ==
  ASSUME InOrder, Waiting' = Waiting, UNCHANGED <<lastAcc, current, lost, nacc>>
  PROVE  InOrder' /\ (nacc' # nacc => Follows(lastAcc, lastAcc', lost))
BY DEF InOrder, Line

\* Every step keeps the line in order, and what the device accepts follows
\* what it accepted before.
LEMMA OrderStep ==
  ASSUME TypeOK, Modes, InOrder, [Next]_vars
  PROVE  InOrder' /\ (nacc' # nacc => Follows(lastAcc, lastAcc', lost))
<1>0. /\ lastAcc \in Nat /\ next \in Nat /\ current \in Nat
      /\ pkt_fifo \in Seq(Nat) /\ Waiting \in Seq(Nat)
      /\ Chain(<<lastAcc>> \o Waiting \o <<current>>, lost)
  <2>1. lastAcc \in Nat /\ next \in Nat /\ current \in Nat /\ pkt_fifo \in Seq(Nat)
    BY DEF TypeOK, current
  <2>2. QueueAfterSend \in Seq(Nat)
    <3>1. pkt_fifo # <<>> => Tail(pkt_fifo) \in Seq(Nat)
      BY <2>1
    <3>2. <<next>> \in Seq(Nat)
      BY <2>1
    <3> QED
      BY <2>1, <3>1, <3>2 DEF QueueAfterSend
  <2> QED
    BY <2>1, <2>2 DEF Waiting, InOrder, Line
<1>1. CASE DecodeSkip
  <2>1. /\ Waiting' = Waiting /\ lastAcc' = lastAcc /\ nacc' = nacc
        /\ current' = current + 1 /\ lost' = lost \cup {current}
    BY <1>0, <1>1 DEF DecodeSkip, decVars, Waiting, QueueAfterSend, current
  <2> QED
    BY <1>0, <2>1, LineGiveUp DEF InOrder, Line
<1>2. CASE DecodeCall
  <2>1. Waiting' = Waiting /\ UNCHANGED <<lastAcc, current, lost, nacc>>
    BY <1>2 DEF DecodeCall, decVars, devVars, bufVars, ghostVars,
           Waiting, QueueAfterSend, current
  <2> QED
    BY <2>1, SameLine
<1>3. CASE WaterDone
  <2>1. Waiting' = Waiting /\ UNCHANGED <<lastAcc, current, lost, nacc>>
    BY <1>3 DEF WaterDone, decVars, devVars, bufVars, ghostVars,
           Waiting, QueueAfterSend, current
  <2> QED
    BY <2>1, SameLine
<1>4. CASE WaterSend
  <2>1. pkt_fifo # <<>> /\ Waiting = pkt_fifo /\ pc' # "recv" /\ current' = current /\ lost' = lost
    BY <1>0, <1>4, BoundAssumption DEF WaterSend, decVars, Waiting, current
  <2>2. CASE SendOk(Head(pkt_fifo)) /\ pkt_fifo' = Tail(pkt_fifo)
    <3>1. Waiting' = Tail(Waiting) /\ lastAcc' = Head(Waiting)
      BY <2>1, <2>2 DEF Waiting, SendOk
    <3> QED
      BY <1>0, <2>1, <3>1, LineTake DEF InOrder, Line
  <2>3. CASE SendAgain /\ UNCHANGED pkt_fifo
    <3>1. Waiting' = Waiting /\ UNCHANGED <<lastAcc, current, lost, nacc>>
      BY <2>1, <2>3 DEF Waiting, SendAgain
    <3> QED
      BY <3>1, SameLine
  <2> QED
    BY <1>4, <2>2, <2>3 DEF WaterSend
<1>5. CASE WaterError
  <2>1. /\ Waiting' = Waiting /\ lastAcc' = lastAcc /\ nacc' = nacc
        /\ current' = current + 1 /\ lost' = lost \cup {current}
    BY <1>0, <1>5 DEF WaterError, SendError, Fails, decVars, Waiting, QueueAfterSend, current
  <2> QED
    BY <1>0, <2>1, LineGiveUp DEF InOrder, Line
<1>6. CASE DataSend
  <2> DEFINE w == Append(pkt_fifo, next)
  <2>1. Waiting = pkt_fifo /\ current = next /\ pc' = "recv" /\ current' = next + 1 /\ lost' = lost
    BY <1>6 DEF DataSend, decVars, Waiting, current
  <2>2. Chain(<<lastAcc>> \o w \o <<next + 1>>, lost)
    BY <1>0, <2>1, LineQueue
  <2>3. w \in Seq(Nat) /\ w # <<>> /\ next + 1 \in Nat
    <3>1. w \in Seq(Nat) /\ Len(w) = Len(pkt_fifo) + 1 /\ Len(pkt_fifo) \in Nat
      BY <1>0
    <3>2. Len(w) # 0
      BY <3>1
    <3> HIDE DEF w
    <3>3. w # <<>>
      BY <3>1, <3>2
    <3> QED
      BY <1>0, <3>1, <3>3
  <2>4. CASE SendAgain /\ send_ret' = "again"
    <3>1. Waiting' = w
      BY <1>0, <1>6, <2>1, <2>4 DEF DataSend, Waiting, QueueAfterSend, decVars
    <3>2. lastAcc' = lastAcc /\ nacc' = nacc
      BY <2>4 DEF SendAgain
    <3> QED
      BY <2>1, <2>2, <3>1, <3>2 DEF InOrder, Line
  <2>5. CASE send_ret' = "ok" /\ SendOk(IF pkt_fifo = <<>> THEN next ELSE Head(pkt_fifo))
    <3>1. Waiting' = Tail(w)
      BY <1>0, <1>6, <2>1, <2>5 DEF DataSend, Waiting, QueueAfterSend, decVars
    <3>2. lastAcc' = Head(w)
      BY <1>0, <2>5 DEF SendOk
    <3>3. /\ Chain(<<Head(w)>> \o Tail(w) \o <<next + 1>>, lost)
          /\ Follows(lastAcc, Head(w), lost)
      BY <1>0, <2>2, <2>3, LineTake
    <3> QED
      BY <2>1, <3>1, <3>2, <3>3 DEF InOrder, Line
  <2> QED
    BY <1>6, <2>4, <2>5 DEF DataSend
<1>7. CASE DataError
  <2>1. Waiting = pkt_fifo /\ current = next /\ pc' = "idle" /\ current' = next + 1
    BY <1>7 DEF DataError, decVars, Waiting, current
  <2>2. lastAcc' = lastAcc /\ nacc' = nacc
    BY <1>7 DEF DataError, SendError
  <2>3. CASE pkt_fifo = <<>>
    <3>1. Waiting' = Waiting /\ lost' = lost \cup {next}
      BY <1>7, <2>1, <2>3 DEF DataError, Waiting
    <3> QED
      BY <1>0, <2>1, <2>2, <3>1, LineGiveUp DEF InOrder, Line
  <2>4. CASE pkt_fifo # <<>>
    <3>1. Waiting' = Append(Waiting, next) /\ lost' = lost
      BY <1>7, <2>1, <2>4 DEF DataError, Waiting
    <3> QED
      BY <1>0, <2>1, <2>2, <3>1, LineQueue DEF InOrder, Line
  <2> QED
    BY <2>3, <2>4
<1>8. CASE DataNoMem
  <2>1. /\ Waiting' = Waiting /\ lastAcc' = lastAcc /\ nacc' = nacc
        /\ current' = current + 1 /\ lost' = lost \cup {current}
    BY <1>0, <1>8 DEF DataNoMem, Fails, decVars, Waiting, QueueAfterSend, current
  <2> QED
    BY <1>0, <2>1, LineGiveUp DEF InOrder, Line
<1>9. CASE DataRecv
  <2>1. Waiting' = Waiting /\ UNCHANGED <<lastAcc, current, lost, nacc>>
    BY <1>9
    DEF DataRecv, RecvFrame, Fetched, Fails, CloneFails, set_pts, RecvNothing, RecvError, decVars, devVars, bufVars, ghostVars,
           Waiting, QueueAfterSend, current
  <2> QED
    BY <2>1, SameLine
<1>10. CASE StartDrain
  <2>1. Waiting' = Waiting /\ UNCHANGED <<lastAcc, current, lost, nacc>>
    BY <1>10 DEF StartDrain, decVars, devVars, bufVars, ghostVars,
           Waiting, QueueAfterSend, current
  <2> QED
    BY <2>1, SameLine
<1>11. CASE DrainCall
  <2>1. Waiting' = Waiting /\ UNCHANGED <<lastAcc, current, lost, nacc>>
    BY <1>11 DEF DrainCall, decVars, devVars, bufVars, ghostVars,
           Waiting, QueueAfterSend, current
  <2> QED
    BY <2>1, SameLine
<1>12. CASE EofSendPacket
  <2>1. pkt_fifo # <<>> /\ Waiting = pkt_fifo /\ pc' # "recv" /\ current' = current /\ lost' = lost
    BY <1>0, <1>12, BoundAssumption DEF EofSendPacket, decVars, Waiting, current
  <2>2. CASE SendOk(Head(pkt_fifo)) /\ pkt_fifo' = Tail(pkt_fifo)
    <3>1. Waiting' = Tail(Waiting) /\ lastAcc' = Head(Waiting)
      BY <2>1, <2>2 DEF Waiting, SendOk
    <3> QED
      BY <1>0, <2>1, <3>1, LineTake DEF InOrder, Line
  <2>3. CASE SendAgain /\ UNCHANGED pkt_fifo
    <3>1. Waiting' = Waiting /\ UNCHANGED <<lastAcc, current, lost, nacc>>
      BY <2>1, <2>3 DEF Waiting, SendAgain
    <3> QED
      BY <3>1, SameLine
  <2> QED
    BY <1>12, <2>2, <2>3 DEF EofSendPacket
<1>13. CASE EofSendFlush
  <2>1. Waiting' = Waiting /\ UNCHANGED <<lastAcc, current, lost, nacc>>
    BY <1>13 DEF EofSendFlush, GiveBuffers, decVars, devVars, bufVars, ghostVars,
           Waiting, QueueAfterSend, current
  <2> QED
    BY <2>1, SameLine
<1>14. CASE EofSendEmpty
  <2>1. Waiting' = Waiting /\ UNCHANGED <<lastAcc, current, lost, nacc>>
    BY <1>14 DEF EofSendEmpty, GiveBuffers, decVars, devVars, bufVars, ghostVars,
           Waiting, QueueAfterSend, current
  <2> QED
    BY <2>1, SameLine
<1>15. CASE EofError
  <2>1. Waiting' = Waiting /\ UNCHANGED <<lastAcc, current, lost, nacc>>
    BY <1>15 DEF EofError, SendError, Fails, decVars, devVars, bufVars, ghostVars,
           Waiting, QueueAfterSend, current
  <2> QED
    BY <2>1, SameLine
<1>16. CASE EofRecvFrame
  <2>1. Waiting' = Waiting /\ UNCHANGED <<lastAcc, current, lost, nacc>>
    BY <1>16 DEF EofRecvFrame, RecvFrame, Fetched, Fails, set_pts, decVars, devVars, bufVars, ghostVars,
           Waiting, QueueAfterSend, current
  <2> QED
    BY <2>1, SameLine
<1>17. CASE EofRecvNothing
  <2>1. Waiting' = Waiting /\ UNCHANGED <<lastAcc, current, lost, nacc>>
    BY <1>17
    DEF EofRecvNothing, RecvNothing, RecvError, Fails, RecvEos, decVars, devVars, bufVars, ghostVars,
           Waiting, QueueAfterSend, current
  <2> QED
    BY <2>1, SameLine
<1>18. CASE mpsoc_vcu_flush
  <2>1. Waiting' = Waiting /\ UNCHANGED <<lastAcc, current, lost, nacc>>
    BY <1>18 DEF mpsoc_vcu_flush, decVars, devVars, bufVars, ghostVars,
           Waiting, QueueAfterSend, current
  <2> QED
    BY <2>1, SameLine
<1>19. CASE DevDecode
  <2>1. Waiting' = Waiting /\ UNCHANGED <<lastAcc, current, lost, nacc>>
    BY <1>19 DEF DevDecode, decVars, devVars, bufVars, ghostVars,
           Waiting, QueueAfterSend, current
  <2> QED
    BY <2>1, SameLine
<1>20. CASE Downstream
  <2>1. Waiting' = Waiting /\ UNCHANGED <<lastAcc, current, lost, nacc>>
    BY <1>20 DEF Downstream, decVars, devVars, bufVars, ghostVars,
           Waiting, QueueAfterSend, current
  <2> QED
    BY <2>1, SameLine
<1>21. CASE UNCHANGED vars
  <2>1. Waiting' = Waiting /\ UNCHANGED <<lastAcc, current, lost, nacc>>
    BY <1>21 DEF vars, decVars, ghostVars, Waiting, QueueAfterSend, current
  <2> QED
    BY <2>1, SameLine
<1>22. CASE HeadDereferenced
  <2>1. CASE pc \in {"water", "send"} /\ mode = "data"
    <3>1. /\ Waiting' = Waiting /\ lastAcc' = lastAcc /\ nacc' = nacc
          /\ current' = current + 1 /\ lost' = lost \cup {current}
      BY <1>0, <1>22, <2>1 DEF HeadDereferenced, Waiting, QueueAfterSend, current
    <3> QED
      BY <1>0, <3>1, LineGiveUp DEF InOrder, Line
  <2>2. CASE pc = "eof_send" /\ mode = "drain"
    <3>1. Waiting' = Waiting /\ UNCHANGED <<lastAcc, current, lost, nacc>>
      BY <1>22, <2>2 DEF HeadDereferenced, Waiting, QueueAfterSend, current
    <3> QED
      BY <3>1, SameLine
  <2> QED
    BY <1>22, <2>1, <2>2 DEF HeadDereferenced, Modes
<1> QED
  BY <1>1, <1>2, <1>3, <1>4, <1>5, <1>6, <1>7, <1>8, <1>9, <1>10,
     <1>11, <1>12, <1>13, <1>14, <1>15, <1>16, <1>17, <1>18, <1>19, <1>20, <1>21, <1>22
  DEF Next, mpsoc_vcu_decode, DataPath, EofPath, Finished

-----------------------------------------------------------------------------
(* The invariant and what follows from it *)

\* The invariant holds before the first packet.
LEMMA InvInit == Init => IInv
<1> SUFFICES ASSUME Init PROVE IInv
  OBVIOUS
<1>1. TypeOK
  BY TypeInit
<1>2. InOrder
  <2>1. Waiting = <<>> /\ current = 1 /\ lastAcc = 0
    BY DEF Init, Waiting, current
  <2>2. Len(Line) = 2 /\ Line[1] = 0 /\ Line[2] = 1
    <3>1. <<>> \in Seq(Nat) /\ Len(<<>>) = 0
      OBVIOUS
    <3> QED
      BY <2>1, <3>1, LineShape DEF Line
  <2>3. Follows(0, 1, lost)
    BY DEF Follows
  <2> QED
    BY <2>2, <2>3 DEF InOrder, Chain
<1>3. Modes
  <2>1. pc = "idle" /\ mode = "data" /\ ~devEof
    BY Zenon DEF Init
  <2> QED
    BY <2>1 DEF Modes
<1>4. FrameCount
  BY DEF Init, FrameCount
<1>5. BuffersConserved
  BY DeviceAssumption DEF Init, BuffersConserved
<1>6. RetriesUsed
  BY DEF Init, RetriesUsed
<1> QED
  BY <1>1, <1>2, <1>3, <1>4, <1>5, <1>6 DEF IInv

\* Every step preserves the invariant.
LEMMA InvStep == IInv /\ [Next]_vars => IInv'
<1> SUFFICES ASSUME IInv, [Next]_vars PROVE IInv'
  OBVIOUS
<1>1. TypeOK /\ InOrder /\ Modes /\ FrameCount /\ BuffersConserved /\ RetriesUsed
  BY DEF IInv
<1>2. TypeOK'
  BY <1>1, TypeStep
<1>3. InOrder'
  BY <1>1, OrderStep
<1>4. Modes'
  BY <1>1, <1>2, ModesStep
<1>5. FrameCount'
  BY <1>1, <1>2, FrameCountStep
<1>6. BuffersConserved'
  BY <1>1, <1>2, BuffersStep
<1>7. RetriesUsed'
  BY <1>1, <1>2, RetriesStep
<1> QED
  BY <1>2, <1>3, <1>4, <1>5, <1>6, <1>7 DEF IInv

\* The inductive invariant of the decoder.
THEOREM Inductive == Spec => []IInv
BY InvInit, InvStep, PTL DEF Spec

\* Every variable keeps its type; in particular the device is never given more
\* packets than it has room for and a call retries twice at most.
THEOREM TypeCorrect == Spec => []TypeOK
<1>1. IInv => TypeOK
  BY DEF IInv
<1> QED
  BY <1>1, Inductive, PTL

\* mpsoc_vcu_decode feeds the device in input order and skips nothing it has
\* not given up.
THEOREM PacketsFedInOrder == Spec => FedInOrder
<1>1. IInv /\ [Next]_vars
      => [nacc' # nacc => Follows(lastAcc, lastAcc', lost)]_<<nacc, lastAcc>>
  BY OrderStep DEF IInv
<1> QED
  BY <1>1, Inductive, PTL DEF Spec, FedInOrder

\* The end of stream never overtakes a packet.
THEOREM EofAfterEverything == Spec => []EofIsLast
<1>1. IInv => EofIsLast
  <2> SUFFICES ASSUME IInv, devEof PROVE pkt_fifo = <<>> /\ Follows(lastAcc, next + 1, lost)
    BY DEF EofIsLast
  <2>1. pkt_fifo = <<>> /\ mode # "data"
    BY DEF IInv, Modes
  <2>2. Waiting = <<>> /\ current = next + 1
    BY <2>1 DEF IInv, Modes, Waiting, current
  <2>3. Len(Line) = 2 /\ Line[1] = lastAcc /\ Line[2] = next + 1
    <3>1. <<>> \in Seq(Nat) /\ Len(<<>>) = 0 /\ lastAcc \in Nat /\ next + 1 \in Nat
      BY DEF IInv, TypeOK
    <3> QED
      BY <2>2, <3>1, LineShape DEF Line
  <2>4. Follows(lastAcc, next + 1, lost)
    BY <2>3 DEF IInv, InOrder, Chain
  <2> QED
    BY <2>1, <2>4
<1> QED
  BY <1>1, Inductive, PTL

\* A drain without faults returns a frame for every accepted packet.
THEOREM NothingLeftBehind == Spec => []DrainComplete
<1>1. IInv => DrainComplete
  <2> SUFFICES ASSUME IInv, mode = "done", faults = 0
               PROVE  pkt_fifo = <<>> /\ devIn = 0 /\ devOut = 0 /\ genpts = nacc
    BY DEF DrainComplete
  <2>1. devEof /\ devIn = 0 /\ devOut = 0 /\ pkt_fifo = <<>>
    BY DEF IInv, Modes
  <2>2. genpts \in Nat /\ nacc \in Nat
    BY DEF IInv, TypeOK
  <2>3. genpts = nacc
    BY <2>1, <2>2 DEF IInv, FrameCount
  <2> QED
    BY <2>1, <2>3
<1> QED
  BY <1>1, Inductive, PTL

\* The session never has more output buffers than it started with, and misses
\* at most one per fault.
THEOREM BuffersKept == Spec => []BuffersConserved
<1>1. IInv => BuffersConserved
  BY DEF IInv
<1> QED
  BY <1>1, Inductive, PTL

\* The growth of pkt_fifo above the watermark is the device's doing.
THEOREM GrowthExcused == Spec => GrowsOnlyWhenRefused
<1> DEFINE Grows == Len(pkt_fifo') > Len(pkt_fifo) /\ Len(pkt_fifo) > Watermark
<1>1. IInv /\ [Next]_vars => [Grows => retries = 2]_pkt_fifo
  <2> SUFFICES ASSUME IInv, [Next]_vars, Grows PROVE retries = 2
    OBVIOUS
  <2>1. pkt_fifo \in Seq(Nat) /\ Len(pkt_fifo) \in Nat /\ next \in Nat
    BY DEF IInv, TypeOK
  <2>2. pkt_fifo # <<>> => Len(Tail(pkt_fifo)) = Len(pkt_fifo) - 1
    BY <2>1
  <2>3. pkt_fifo # <<>>
    BY <2>1, BoundAssumption
  <2>4. pkt_fifo' # pkt_fifo /\ pkt_fifo' # Tail(pkt_fifo)
    BY <2>1, <2>2, <2>3
  <2>5. CASE DataSend \/ DataError
    BY <2>5 DEF DataSend, DataError, IInv, RetriesUsed
  <2>6. CASE DataRecv
    BY <2>3, <2>4, <2>6 DEF DataRecv, QueueAfterSend
  <2>7. CASE ~(DataSend \/ DataError \/ DataRecv)
    BY <2>4, <2>7
    DEF Next, mpsoc_vcu_decode, DataPath, EofPath, Finished, vars, DecodeSkip, DecodeCall,
        WaterDone, WaterSend, WaterError, DataNoMem, StartDrain, DrainCall, EofSendPacket,
        EofSendFlush, EofSendEmpty, EofError, EofRecvFrame, EofRecvNothing, mpsoc_vcu_flush,
        HeadDereferenced, DevDecode, Downstream
  <2> QED
    BY <2>5, <2>6, <2>7
<1> QED
  BY <1>1, Inductive, PTL DEF Spec, GrowsOnlyWhenRefused
=============================================================================
