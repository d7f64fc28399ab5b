-------------------------- MODULE XvbmConvertProofs --------------------------
(***************************************************************************)
(* Proofs about XvbmConvert for all queue capacities and any number of     *)
(* frames.                                                                 *)
(***************************************************************************)
EXTENDS XvbmConvert, TLAPS

\* What sending to and receiving from a queue of messages does to its indices.
LEMMA AppendFacts ==
  ASSUME NEW S, NEW q \in Seq(S), NEW m \in S
  PROVE  /\ Append(q, m) \in Seq(S) /\ Len(Append(q, m)) = Len(q) + 1 /\ Len(q) \in Nat
         /\ \A i \in 1..Len(q) : Append(q, m)[i] = q[i]
         /\ Append(q, m)[Len(q) + 1] = m
OBVIOUS

\* Receiving shifts the indices down by one.
LEMMA TailFacts ==
  ASSUME NEW S, NEW q \in Seq(S), q # <<>>
  PROVE  /\ Tail(q) \in Seq(S) /\ Len(Tail(q)) = Len(q) - 1 /\ Len(q) \in Nat \ {0}
         /\ \A i \in 1..Len(Tail(q)) : Tail(q)[i] = q[i + 1]
         /\ Head(q) = q[1] /\ Head(q) \in S
OBVIOUS

\* The empty queue.
LEMMA EmptyFacts ==
  ASSUME NEW S
  PROVE  <<>> \in Seq(S) /\ Len(<<>>) = 0
OBVIOUS

\* Every variable stays in its domain and no queue exceeds its capacity.
LEMMA TypeStep == TypeOK /\ [Next]_vars => TypeOK'
<1> SUFFICES ASSUME TypeOK, [Next]_vars PROVE TypeOK'
  OBVIOUS
<1> USE CapAssumption
<1>1. CASE ThreadConvert
  <2>1. /\ reqQ' \in Seq(ReqMsg) /\ Len(reqQ') <= ReqCap /\ Head(reqQ) \in ReqMsg
    BY <1>1, TailFacts DEF TypeOK, ThreadConvert
  <2>2. rspMsg' \in RspMsg
    BY <1>1, <2>1 DEF ThreadConvert, Rsp, RspMsg, ReqMsg
  <2> QED
    BY <1>1, <2>1, <2>2 DEF TypeOK, ThreadConvert, mainVars
<1>2. CASE ThreadFlush
  <2>1. reqQ' \in Seq(ReqMsg) /\ Len(reqQ') <= ReqCap
    BY <1>2, TailFacts DEF TypeOK, ThreadFlush
  <2>2. rspMsg' \in RspMsg
    BY <1>2 DEF TypeOK, ThreadFlush, RspMsg
  <2> QED
    BY <1>2, <2>1, <2>2 DEF TypeOK, ThreadFlush, mainVars
<1>3. CASE ThreadEnd
  BY <1>3, TailFacts DEF TypeOK, ThreadEnd, mainVars
<1>4. CASE ThreadSend
  BY <1>4, AppendFacts DEF TypeOK, ThreadSend, mainVars
<1>5. CASE FilterFrame
  BY <1>5 DEF TypeOK, FilterFrame
<1>6. CASE FrameSend
  BY <1>6, AppendFacts DEF TypeOK, FrameSend, Req, ReqMsg
<1>7. CASE FrameRecvAgain
  BY <1>7 DEF TypeOK, FrameRecvAgain
<1>8. CASE FrameRecvFailed
  BY <1>8, TailFacts DEF TypeOK, FrameRecvFailed
<1>9. CASE FrameRecvFrame
  <2>1. rspQ' \in Seq(RspMsg) /\ Len(rspQ') <= RspCap /\ Head(rspQ) \in RspMsg
    BY <1>9, TailFacts DEF TypeOK, FrameRecvFrame
  <2>2. delivered' \in Seq(Nat)
    BY <1>9, <2>1 DEF TypeOK, FrameRecvFrame, RspMsg
  <2> QED
    BY <1>9, <2>1, <2>2 DEF TypeOK, FrameRecvFrame
<1>10. CASE FlushMismatch
  BY <1>10 DEF TypeOK, FlushMismatch
<1>11. CASE FilterFlush
  BY <1>11 DEF TypeOK, FilterFlush
<1>12. CASE FlushSend
  BY <1>12, AppendFacts DEF TypeOK, FlushSend, Req, ReqMsg
<1>13. CASE FlushRecvFailed
  BY <1>13, TailFacts DEF TypeOK, FlushRecvFailed
<1>14. CASE FlushRecvFrame
  <2>1. rspQ' \in Seq(RspMsg) /\ Len(rspQ') <= RspCap /\ Head(rspQ) \in RspMsg
    BY <1>14, TailFacts DEF TypeOK, FlushRecvFrame
  <2>2. delivered' \in Seq(Nat)
    BY <1>14, <2>1 DEF TypeOK, FlushRecvFrame, RspMsg
  <2> QED
    BY <1>14, <2>1, <2>2 DEF TypeOK, FlushRecvFrame
<1>15. CASE FlushRecvComplete
  BY <1>15, TailFacts DEF TypeOK, FlushRecvComplete
<1>16. CASE Uninit
  BY <1>16 DEF TypeOK, Uninit
<1>17. CASE EndSend
  BY <1>17, AppendFacts DEF TypeOK, EndSend, Req, ReqMsg
<1>18. CASE JoinAndFree
  BY <1>18, EmptyFacts DEF TypeOK, JoinAndFree
<1>19. CASE UNCHANGED vars
  BY <1>19 DEF TypeOK, vars
<1> QED
  BY <1>1, <1>2, <1>3, <1>4, <1>5, <1>6, <1>7, <1>8, <1>9, <1>10,
     <1>11, <1>12, <1>13, <1>14, <1>15, <1>16, <1>17, <1>18, <1>19
     DEF Next, main, xvbm_conv_thread, xvbm_convert_filter_frame, xvbm_convert_filter_flush,
         xvbm_conv_uninit, Gone

\* The filter starts with empty queues and an open link.
LEMMA TypeInit == Init => TypeOK
<1>1. Init => rspMsg \in RspMsg /\ link \in {"open", "closed"}
  BY DEF Init, Rsp, RspMsg
<1>2. Init => /\ reqQ \in Seq(ReqMsg) /\ rspQ \in Seq(RspMsg) /\ delivered \in Seq(Nat)
              /\ Len(reqQ) <= ReqCap /\ Len(rspQ) <= RspCap
  BY EmptyFacts, CapAssumption DEF Init
<1> QED
  BY <1>1, <1>2 DEF Init, TypeOK

\* Type correctness for all capacities.
THEOREM TypeCorrect == Spec => []TypeOK
BY TypeInit, TypeStep, PTL DEF Spec

-----------------------------------------------------------------------------
\* The numbers the counting below is about.
LEMMA LenFacts ==
  ASSUME TypeOK
  PROVE  Len(reqQ) \in Nat /\ Len(rspQ) \in Nat /\ Len(delivered) \in Nat /\ busy \in {0, 1}
BY DEF TypeOK, busy

\* The worker takes a request that is not END: END stays the last request.
LEMMA PopNotEnd ==
  ASSUME EndIsLast, Len(reqQ) \in Nat, Len(reqQ) >= 1, Len(reqQ') = Len(reqQ) - 1,
         \A i \in 1..Len(reqQ') : reqQ'[i] = reqQ[i + 1] /\ i + 1 \in 1..Len(reqQ),
         reqQ[1].state # "END", wpc = "recv", wpc' = "send", mpc' = mpc
  PROVE  EndIsLast'
<1>1. ASSUME NEW i \in 1..Len(reqQ'), reqQ'[i].state = "END"
      PROVE  i = Len(reqQ') /\ mpc' = "join"
  <2>1. i + 1 \in 1..Len(reqQ) /\ reqQ[i + 1].state = "END"
    BY <1>1
  <2>2. i + 1 = Len(reqQ) /\ mpc = "join"
    BY <2>1 DEF EndIsLast
  <2> QED
    BY <2>2
<1>2. ASSUME mpc = "join"
      PROVE  reqQ' # <<>> /\ reqQ'[Len(reqQ')].state = "END"
  <2>1. reqQ[Len(reqQ)].state = "END"
    BY <1>2 DEF EndIsLast
  <2>2. Len(reqQ) # 1
    BY <2>1
  <2>3. Len(reqQ') \in 1..Len(reqQ') /\ Len(reqQ') + 1 = Len(reqQ) /\ Len(reqQ') # 0
    BY <2>2
  <2>4. reqQ'[Len(reqQ')] = reqQ[Len(reqQ)]
    BY <2>3
  <2> QED
    BY <2>1, <2>3, <2>4
<1>3. mpc # "done"
  BY DEF EndIsLast
<1> QED
  BY <1>1, <1>2, <1>3 DEF EndIsLast

\* How the two index invariants move with the queues: main takes a response,
LEMMA PopRsp ==
  ASSUME Positions, Markers, busy \in {0, 1}, busy' = busy, UNCHANGED <<wpc, rspMsg, sent>>,
         Len(reqQ) \in Nat, Len(rspQ) \in Nat, taken \in Nat, sent \in Nat,
         taken' = taken + 1, reqQ' = reqQ, Len(rspQ') = Len(rspQ) - 1,
         \A i \in 1..Len(rspQ') : rspQ'[i] = rspQ[i + 1] /\ i + 1 \in 1..Len(rspQ)
  PROVE  Positions' /\ Markers'
<1>1. ASSUME NEW i \in 1..Len(rspQ')
      PROVE  /\ rspQ'[i].state = "DONE" => rspQ'[i].frame = taken' + i
             /\ rspQ'[i].state # "UNSET"
             /\ rspQ'[i].state = "FLUSH_COMPLETE" => sent' = taken' + i - 1
  <2>1. rspQ'[i] = rspQ[i + 1] /\ i + 1 \in 1..Len(rspQ) /\ i \in Int
    OBVIOUS
  <2>2. /\ rspQ[i + 1].state = "DONE" => rspQ[i + 1].frame = taken + (i + 1)
        /\ rspQ[i + 1].state # "UNSET"
        /\ rspQ[i + 1].state = "FLUSH_COMPLETE" => sent = taken + (i + 1) - 1
    BY <2>1 DEF Positions, Markers
  <2>3. rspQ'[i].state = "DONE" => rspQ'[i].frame = taken' + i
    BY <2>1, <2>2
  <2>4. rspQ'[i].state = "FLUSH_COMPLETE" => sent' = taken' + i - 1
    BY <2>1, <2>2
  <2> QED
    BY <2>1, <2>2, <2>3, <2>4
<1>2. /\ wpc' = "send" /\ rspMsg'.state = "DONE" => rspMsg'.frame = taken' + Len(rspQ') + 1
      /\ \A i \in 1..Len(reqQ') :
           reqQ'[i].state = "NEW" => reqQ'[i].frame = taken' + Len(rspQ') + busy' + i
  BY DEF Positions
<1>3. wpc' = "send" => /\ rspMsg'.state # "UNSET"
                       /\ rspMsg'.state = "FLUSH_COMPLETE" => sent' = taken' + Len(rspQ')
  BY DEF Markers
<1>4. \A i \in 1..Len(reqQ') :
         reqQ'[i].state = "FLUSH" => sent' = taken' + Len(rspQ') + busy' + i - 1
  <2>1. \A i \in 1..Len(reqQ) :
           reqQ[i].state = "FLUSH" => sent = taken + Len(rspQ) + busy + i - 1
    BY DEF Markers
  <2>2. sent' = sent /\ taken + Len(rspQ) = taken' + Len(rspQ')
    OBVIOUS
  <2> QED
    BY <2>1, <2>2
<1> QED
  BY <1>1, <1>2, <1>3, <1>4 DEF Positions, Markers

\* the worker takes a request, whose response it will send next,
LEMMA PopReq ==
  ASSUME Positions, Markers, busy = 0, busy' = 1, UNCHANGED <<rspQ, sent, taken>>,
         Len(reqQ) \in Nat, Len(rspQ) \in Nat, taken \in Nat, sent \in Nat,
         Len(reqQ') = Len(reqQ) - 1, 1 \in 1..Len(reqQ),
         \A i \in 1..Len(reqQ') : reqQ'[i] = reqQ[i + 1] /\ i + 1 \in 1..Len(reqQ),
         \/ /\ reqQ[1].state = "NEW"
            /\ rspMsg'.state = "DONE" /\ rspMsg'.frame = reqQ[1].frame
         \/ /\ reqQ[1].state = "FLUSH" /\ rspMsg'.state = "FLUSH_COMPLETE"
  PROVE  Positions' /\ Markers'
<1>1. ASSUME NEW i \in 1..Len(reqQ')
      PROVE  /\ reqQ'[i].state = "NEW" => reqQ'[i].frame = taken' + Len(rspQ') + busy' + i
             /\ reqQ'[i].state = "FLUSH" => sent' = taken' + Len(rspQ') + busy' + i - 1
  <2>1. reqQ'[i] = reqQ[i + 1] /\ i + 1 \in 1..Len(reqQ) /\ i \in Int
    OBVIOUS
  <2>2. /\ reqQ[i + 1].state = "NEW" => reqQ[i + 1].frame = taken + Len(rspQ) + busy + (i + 1)
        /\ reqQ[i + 1].state = "FLUSH" => sent = taken + Len(rspQ) + busy + (i + 1) - 1
    BY <2>1 DEF Positions, Markers
  <2>3. reqQ'[i].state = "NEW" => reqQ'[i].frame = taken' + Len(rspQ') + busy' + i
    BY <2>1, <2>2
  <2>4. reqQ'[i].state = "FLUSH" => sent' = taken' + Len(rspQ') + busy' + i - 1
    BY <2>1, <2>2
  <2> QED
    BY <2>3, <2>4
<1>2. /\ rspMsg'.state = "DONE" => rspMsg'.frame = taken' + Len(rspQ') + 1
      /\ rspMsg'.state # "UNSET"
      /\ rspMsg'.state = "FLUSH_COMPLETE" => sent' = taken' + Len(rspQ')
  <2>1. /\ reqQ[1].state = "NEW" => reqQ[1].frame = taken + Len(rspQ) + busy + 1
        /\ reqQ[1].state = "FLUSH" => sent = taken + Len(rspQ) + busy + 1 - 1
    BY DEF Positions, Markers
  <2> QED
    BY <2>1
<1>3. \A i \in 1..Len(rspQ') : /\ rspQ'[i].state = "DONE" => rspQ'[i].frame = taken' + i
                               /\ rspQ'[i].state # "UNSET"
                               /\ rspQ'[i].state = "FLUSH_COMPLETE" => sent' = taken' + i - 1
  BY DEF Positions, Markers
<1> QED
  BY <1>1, <1>2, <1>3 DEF Positions, Markers

\* the worker sends that response,
LEMMA PushRsp ==
  ASSUME Positions, Markers, busy = 1, busy' = 0, wpc = "send", wpc' = "recv",
         UNCHANGED <<reqQ, sent, taken, rspMsg>>,
         Len(reqQ) \in Nat, Len(rspQ) \in Nat, taken \in Nat, sent \in Nat,
         Len(rspQ') = Len(rspQ) + 1, rspQ'[Len(rspQ) + 1] = rspMsg,
         \A i \in 1..Len(rspQ') : (i \in 1..Len(rspQ) /\ rspQ'[i] = rspQ[i]) \/ i = Len(rspQ) + 1
  PROVE  Positions' /\ Markers'
<1>1. ASSUME NEW i \in 1..Len(rspQ')
      PROVE  /\ rspQ'[i].state = "DONE" => rspQ'[i].frame = taken' + i
             /\ rspQ'[i].state # "UNSET"
             /\ rspQ'[i].state = "FLUSH_COMPLETE" => sent' = taken' + i - 1
  <2>1. CASE i \in 1..Len(rspQ) /\ rspQ'[i] = rspQ[i]
    BY <2>1 DEF Positions, Markers
  <2>2. CASE i = Len(rspQ) + 1
    BY <2>2 DEF Positions, Markers
  <2> QED
    BY <2>1, <2>2
<1>2. \A i \in 1..Len(reqQ') :
         /\ reqQ'[i].state = "NEW" => reqQ'[i].frame = taken' + Len(rspQ') + busy' + i
         /\ reqQ'[i].state = "FLUSH" => sent' = taken' + Len(rspQ') + busy' + i - 1
  BY DEF Positions, Markers
<1> QED
  BY <1>1, <1>2 DEF Positions, Markers

\* main sends a request when the pipeline holds nothing but frames.
LEMMA PushReq ==
  ASSUME Positions, Markers, busy \in {0, 1}, busy' = busy, UNCHANGED <<rspQ, taken, wpc, rspMsg>>,
         Len(reqQ) \in Nat, Len(rspQ) \in Nat, taken \in Nat, sent \in Nat, sent' \in Nat,
         wpc = "send" => busy = 1,
         Len(reqQ') = Len(reqQ) + 1,
         \A i \in 1..Len(reqQ') : (i \in 1..Len(reqQ) /\ reqQ'[i] = reqQ[i]) \/ i = Len(reqQ) + 1,
         sent = taken + Len(reqQ) + busy + Len(rspQ) \/ sent' = sent,
         \/ /\ reqQ'[Len(reqQ) + 1].state = "NEW"
            /\ reqQ'[Len(reqQ) + 1].frame = taken + Len(reqQ) + busy + Len(rspQ) + 1
         \/ /\ reqQ'[Len(reqQ) + 1].state = "FLUSH"
            /\ sent' = taken + Len(reqQ) + busy + Len(rspQ)
         \/ reqQ'[Len(reqQ) + 1].state = "END"
  PROVE  Positions' /\ Markers'
<1>1. ASSUME NEW i \in 1..Len(reqQ')
      PROVE  /\ reqQ'[i].state = "NEW" => reqQ'[i].frame = taken' + Len(rspQ') + busy' + i
             /\ reqQ'[i].state = "FLUSH" => sent' = taken' + Len(rspQ') + busy' + i - 1
  <2>1. CASE i \in 1..Len(reqQ) /\ reqQ'[i] = reqQ[i]
    <3>1. reqQ[i].state = "FLUSH" => sent = taken + Len(rspQ) + busy + i - 1
      BY <2>1 DEF Markers
    <3>2. reqQ'[i].state = "FLUSH" => sent' = taken' + Len(rspQ') + busy' + i - 1
      BY <2>1, <3>1
    <3>3. reqQ'[i].state = "NEW" => reqQ'[i].frame = taken' + Len(rspQ') + busy' + i
      BY <2>1 DEF Positions
    <3> QED
      BY <3>2, <3>3
  <2>2. CASE i = Len(reqQ) + 1
    BY <2>2
  <2> QED
    BY <2>1, <2>2
<1>2. ASSUME NEW i \in 1..Len(rspQ')
      PROVE  /\ rspQ'[i].state = "DONE" => rspQ'[i].frame = taken' + i
             /\ rspQ'[i].state # "UNSET"
             /\ rspQ'[i].state = "FLUSH_COMPLETE" => sent' = taken' + i - 1
  <2>1. /\ rspQ[i].state = "DONE" => rspQ[i].frame = taken + i
        /\ rspQ[i].state # "UNSET"
    BY DEF Positions, Markers
  <2>2. rspQ[i].state = "FLUSH_COMPLETE" => sent = taken + i - 1
    BY DEF Markers
  <2>3. rspQ[i].state = "FLUSH_COMPLETE" => sent' = sent
    BY <2>2
  <2> QED
    BY <2>1, <2>2, <2>3
<1>3. wpc' = "send" => /\ rspMsg'.state = "DONE" => rspMsg'.frame = taken' + Len(rspQ') + 1
                       /\ rspMsg'.state # "UNSET"
                       /\ rspMsg'.state = "FLUSH_COMPLETE" => sent' = taken' + Len(rspQ')
  BY DEF Positions, Markers
<1> QED
  BY <1>1, <1>2, <1>3 DEF Positions, Markers

\* The step lemma: one case per action.  Under each, the first steps say what
\* the action does to the queues and the control state, the others take the
\* parts of the invariant one by one.
LEMMA InvStep == IInv /\ [Next]_vars => IInv'
<1> SUFFICES ASSUME IInv, [Next]_vars PROVE IInv'
  OBVIOUS
<1> USE CapAssumption
<1>0. /\ TypeOK /\ TypeOK' /\ InFlightBound /\ Phases /\ Positions /\ Markers
      /\ EndIsLast /\ Counts /\ Outputs
  BY TypeStep DEF IInv
<1>a. /\ Len(reqQ) \in Nat /\ Len(rspQ) \in Nat /\ Len(delivered) \in Nat
      /\ Len(reqQ) <= ReqCap /\ Len(rspQ) <= RspCap /\ sent \in Nat /\ taken \in Nat
      /\ Len(reqQ') \in Nat /\ Len(rspQ') \in Nat /\ Len(delivered') \in Nat
      /\ Len(reqQ') <= ReqCap /\ Len(rspQ') <= RspCap
      /\ link \in {"open", "closed"} /\ flush \in {"no", "ok", "early"}
  BY <1>0 DEF TypeOK
<1>b. /\ busy \in {0, 1} /\ pending = Len(reqQ) + busy + Len(rspQ)
      /\ pending' = Len(reqQ') + busy' + Len(rspQ')
      /\ wpc' = wpc => busy' = busy
      /\ (wpc = "send" => busy = 1) /\ (wpc # "send" => busy = 0)
  BY DEF busy, pending
<1>1. CASE ThreadConvert
  <2>2. /\ wpc = "recv" /\ wpc' = "send"
        /\ busy = 0 /\ busy' = 1
        /\ UNCHANGED <<mpc, link, sent, taken, delivered, flush>>
    BY <1>1 DEF ThreadConvert, mainVars, busy
  <2>1. /\ Len(reqQ') = Len(reqQ) - 1 /\ Len(reqQ) >= 1 /\ rspQ' = rspQ
        /\ \A i \in 1..Len(reqQ') : reqQ'[i] = reqQ[i + 1] /\ i + 1 \in 1..Len(reqQ)
        /\ reqQ[1].state = "NEW" /\ 1 \in 1..Len(reqQ)
        /\ rspMsg'.state = "DONE" /\ rspMsg'.frame = reqQ[1].frame
    BY <1>0, <1>1, TailFacts DEF TypeOK, ThreadConvert, Rsp
  <2>3. /\ pending' = pending /\ pending \in Nat
        /\ Len(reqQ') = Len(reqQ) - 1 /\ Len(reqQ) >= 1 /\ rspQ' = rspQ
    BY <1>a, <1>b, <2>1, <2>2
  <2>4. Positions' /\ Markers'
    BY <1>0, <1>a, <1>b, <2>1, <2>2, PopReq
  <2>5. InFlightBound'
    BY <1>0, <1>a, <2>2, <2>3 DEF InFlightBound
  <2>6. Phases'
    BY <1>0, <1>a, <2>2 DEF Phases
  <2>7. EndIsLast'
    BY <1>0, <1>a, <2>1, <2>2, PopNotEnd
  <2>8. Counts'
    BY <1>0, <1>a, <2>2, <2>3 DEF Counts, Phases
  <2>9. Outputs'
    BY <1>0, <1>a, <2>2 DEF Outputs, OutputInOrder, Phases
  <2> QED
    BY <1>0, <2>4, <2>5, <2>6, <2>7, <2>8, <2>9 DEF IInv
<1>2. CASE ThreadFlush
  <2>2. /\ wpc = "recv" /\ wpc' = "send"
        /\ busy = 0 /\ busy' = 1
        /\ UNCHANGED <<mpc, link, sent, taken, delivered, flush>>
    BY <1>2 DEF ThreadFlush, mainVars, busy
  <2>1. /\ Len(reqQ') = Len(reqQ) - 1 /\ Len(reqQ) >= 1 /\ rspQ' = rspQ
        /\ \A i \in 1..Len(reqQ') : reqQ'[i] = reqQ[i + 1] /\ i + 1 \in 1..Len(reqQ)
        /\ reqQ[1].state = "FLUSH" /\ 1 \in 1..Len(reqQ)
        /\ rspMsg'.state = "FLUSH_COMPLETE"
    BY <1>0, <1>2, TailFacts DEF TypeOK, ThreadFlush, RspMsg
  <2>3. /\ pending' = pending /\ pending \in Nat
        /\ Len(reqQ') = Len(reqQ) - 1 /\ Len(reqQ) >= 1 /\ rspQ' = rspQ
    BY <1>a, <1>b, <2>1, <2>2
  <2>4. Positions' /\ Markers'
    BY <1>0, <1>a, <1>b, <2>1, <2>2, PopReq
  <2>5. InFlightBound'
    BY <1>0, <1>a, <2>2, <2>3 DEF InFlightBound
  <2>6. Phases'
    BY <1>0, <1>a, <2>2 DEF Phases
  <2>7. EndIsLast'
    BY <1>0, <1>a, <2>1, <2>2, PopNotEnd
  <2>8. Counts'
    BY <1>0, <1>a, <2>2, <2>3 DEF Counts, Phases
  <2>9. Outputs'
    BY <1>0, <1>a, <2>2 DEF Outputs, OutputInOrder, Phases
  <2> QED
    BY <1>0, <2>4, <2>5, <2>6, <2>7, <2>8, <2>9 DEF IInv
<1>3. CASE ThreadEnd
  <2>2. /\ wpc = "recv" /\ wpc' = "exited" /\ rspMsg' = rspMsg
        /\ busy = 0 /\ busy' = 0
        /\ UNCHANGED <<mpc, link, sent, taken, delivered, flush>>
    BY <1>3 DEF ThreadEnd, mainVars, busy
  <2>1. /\ Len(reqQ') = Len(reqQ) - 1 /\ Len(reqQ) >= 1 /\ rspQ' = rspQ
        /\ \A i \in 1..Len(reqQ') : reqQ'[i] = reqQ[i + 1] /\ i + 1 \in 1..Len(reqQ)
        /\ reqQ[1].state = "END" /\ 1 \in 1..Len(reqQ)
    BY <1>0, <1>3, TailFacts DEF TypeOK, ThreadEnd
  <2>3. /\ pending' = pending - 1 /\ pending \in Nat
        /\ Len(reqQ') = Len(reqQ) - 1 /\ Len(reqQ) >= 1 /\ rspQ' = rspQ
    BY <1>a, <1>b, <2>1, <2>2
  <2>4. Len(reqQ) = 1 /\ mpc = "join"
    BY <1>0, <1>a, <2>1 DEF EndIsLast
  <2>5. InFlightBound'
    BY <1>0, <1>a, <2>2, <2>3, <2>4 DEF InFlightBound
  <2>6. Phases'
    BY <1>0, <1>a, <2>2, <2>4 DEF Phases
  <2>7. Positions'
    BY <1>0, <1>a, <1>b, <2>1, <2>2, <2>4 DEF Positions
  <2>8. Markers'
    BY <1>0, <1>a, <1>b, <2>1, <2>2, <2>4 DEF Markers
  <2>9. EndIsLast'
    BY <1>0, <1>a, <2>1, <2>2, <2>4 DEF EndIsLast
  <2>10. Counts'
    BY <1>0, <1>a, <2>2, <2>3, <2>4 DEF Counts, Phases
  <2>11. Outputs'
    BY <1>0, <1>a, <2>2, <2>4 DEF Outputs, OutputInOrder, Phases
  <2> QED
    BY <1>0, <2>5, <2>6, <2>7, <2>8, <2>9, <2>10, <2>11 DEF IInv
<1>4. CASE ThreadSend
  <2>2. /\ wpc = "send" /\ wpc' = "recv" /\ rspMsg' = rspMsg
        /\ busy = 1 /\ busy' = 0
        /\ UNCHANGED <<mpc, link, sent, taken, delivered, flush>>
    BY <1>4 DEF ThreadSend, mainVars, busy
  <2>1. /\ Len(rspQ') = Len(rspQ) + 1 /\ reqQ' = reqQ
        /\ \A i \in 1..Len(rspQ') : (i \in 1..Len(rspQ) /\ rspQ'[i] = rspQ[i]) \/ i = Len(rspQ) + 1
        /\ rspQ'[Len(rspQ) + 1] = rspMsg
    <3>1. rspQ \in Seq(RspMsg) /\ rspMsg \in RspMsg /\ rspQ' = Append(rspQ, rspMsg) /\ reqQ' = reqQ
      BY <1>0, <1>4 DEF TypeOK, ThreadSend
    <3> QED
      BY <3>1, AppendFacts
  <2>3. /\ pending' = pending /\ pending \in Nat
        /\ Len(rspQ') = Len(rspQ) + 1 /\ reqQ' = reqQ
    BY <1>a, <1>b, <2>1, <2>2
  <2>4. Positions' /\ Markers'
    BY <1>0, <1>a, <1>b, <2>1, <2>2, PushRsp
  <2>5. InFlightBound'
    BY <1>0, <1>a, <2>2, <2>3 DEF InFlightBound
  <2>6. Phases'
    BY <1>0, <1>a, <2>2 DEF Phases
  <2>7. EndIsLast'
    BY <1>0, <1>a, <2>1, <2>2 DEF EndIsLast
  <2>8. Counts'
    BY <1>0, <1>a, <2>2, <2>3 DEF Counts, Phases
  <2>9. Outputs'
    BY <1>0, <1>a, <2>2 DEF Outputs, OutputInOrder, Phases
  <2> QED
    BY <1>0, <2>4, <2>5, <2>6, <2>7, <2>8, <2>9 DEF IInv
<1>5. CASE FilterFrame
  <2>2. /\ mpc = "idle" /\ mpc' = "frame_send" /\ link = "open"
        /\ UNCHANGED <<link, sent, taken, delivered, flush>>
        /\ UNCHANGED <<wpc, rspMsg>>
    BY <1>5 DEF FilterFrame
  <2>1. /\ reqQ' = reqQ /\ rspQ' = rspQ
    BY <1>0, <1>5 DEF TypeOK, FilterFrame
  <2>3. /\ reqQ' = reqQ /\ rspQ' = rspQ
        /\ pending' = pending /\ pending \in Nat
    BY <1>a, <1>b, <2>1, <2>2
  <2>4. InFlightBound'
    BY <1>0, <1>a, <2>2, <2>3 DEF InFlightBound
  <2>5. Phases'
    BY <1>0, <1>a, <2>2 DEF Phases
  <2>6. Positions'
    BY <1>0, <1>a, <1>b, <2>1, <2>2 DEF Positions
  <2>7. Markers'
    BY <1>0, <1>a, <1>b, <2>1, <2>2 DEF Markers
  <2>8. EndIsLast'
    BY <1>0, <1>a, <2>1, <2>2 DEF EndIsLast
  <2>9. Counts'
    BY <1>0, <1>a, <2>2, <2>3 DEF Counts, Phases
  <2>10. Outputs'
    BY <1>0, <1>a, <2>2 DEF Outputs, OutputInOrder, Phases
  <2> QED
    BY <1>0, <2>4, <2>5, <2>6, <2>7, <2>8, <2>9, <2>10 DEF IInv
<1>6. CASE FrameSend
  <2>2. /\ mpc = "frame_send" /\ mpc' = "frame_recv" /\ sent' = sent + 1
        /\ UNCHANGED <<link, taken, delivered, flush>>
        /\ UNCHANGED <<wpc, rspMsg>>
    BY <1>6 DEF FrameSend
  <2>1. /\ Len(reqQ') = Len(reqQ) + 1 /\ rspQ' = rspQ
        /\ \A i \in 1..Len(reqQ') : (i \in 1..Len(reqQ) /\ reqQ'[i] = reqQ[i]) \/ i = Len(reqQ) + 1
        /\ reqQ'[Len(reqQ) + 1].state = "NEW"
        /\ reqQ'[Len(reqQ) + 1].frame = sent + 1
    BY <1>0, <1>6, AppendFacts DEF TypeOK, FrameSend, Req, ReqMsg
  <2>3. /\ pending' = pending + 1 /\ pending \in Nat
        /\ Len(reqQ') = Len(reqQ) + 1 /\ rspQ' = rspQ
    BY <1>a, <1>b, <2>1, <2>2
  <2>4. sent = taken + pending /\ link = "open" /\ flush = "no"
    BY <1>0, <1>a, <2>2, <2>3 DEF Counts, Phases
  <2>5. Positions' /\ Markers'
    BY <1>0, <1>a, <1>b, <2>1, <2>2, <2>4, PushReq
  <2>6. InFlightBound'
    BY <1>0, <1>a, <2>2, <2>3, <2>4 DEF InFlightBound
  <2>7. Phases'
    BY <1>0, <1>a, <2>2, <2>4 DEF Phases
  <2>8. EndIsLast'
    BY <1>0, <1>a, <2>1, <2>2, <2>4 DEF EndIsLast
  <2>9. Counts'
    BY <1>0, <1>a, <2>2, <2>3, <2>4 DEF Counts, Phases
  <2>10. Outputs'
    BY <1>0, <1>a, <2>2, <2>4 DEF Outputs, OutputInOrder, Phases
  <2> QED
    BY <1>0, <2>5, <2>6, <2>7, <2>8, <2>9, <2>10 DEF IInv
<1>7. CASE FrameRecvAgain
  <2>2. /\ mpc = "frame_recv" /\ mpc' = "idle"
        /\ UNCHANGED <<link, sent, taken, delivered, flush>>
        /\ UNCHANGED <<wpc, rspMsg>>
    BY <1>7 DEF FrameRecvAgain
  <2>1. /\ reqQ' = reqQ /\ rspQ' = rspQ /\ Len(rspQ) = 0
    BY <1>0, <1>7 DEF TypeOK, FrameRecvAgain
  <2>3. /\ reqQ' = reqQ /\ rspQ' = rspQ /\ Len(rspQ) = 0
        /\ pending' = pending /\ pending \in Nat
    BY <1>a, <1>b, <2>1, <2>2
  <2>4. InFlightBound'
    BY <1>0, <1>a, <2>2, <2>3, <1>b DEF InFlightBound
  <2>5. Phases'
    BY <1>0, <1>a, <2>2 DEF Phases
  <2>6. Positions'
    BY <1>0, <1>a, <1>b, <2>1, <2>2 DEF Positions
  <2>7. Markers'
    BY <1>0, <1>a, <1>b, <2>1, <2>2 DEF Markers
  <2>8. EndIsLast'
    BY <1>0, <1>a, <2>1, <2>2 DEF EndIsLast
  <2>9. Counts'
    BY <1>0, <1>a, <2>2, <2>3 DEF Counts, Phases
  <2>10. Outputs'
    BY <1>0, <1>a, <2>2 DEF Outputs, OutputInOrder, Phases
  <2> QED
    BY <1>0, <2>4, <2>5, <2>6, <2>7, <2>8, <2>9, <2>10 DEF IInv
<1>8. CASE FrameRecvFailed
  <2>2. /\ mpc = "frame_recv" /\ mpc' = "idle" /\ taken' = taken + 1 /\ link' = "closed"
        /\ UNCHANGED <<sent, delivered, flush>>
        /\ UNCHANGED <<wpc, rspMsg>>
    BY <1>8 DEF FrameRecvFailed
  <2>1. /\ Len(rspQ') = Len(rspQ) - 1 /\ Len(rspQ) >= 1 /\ reqQ' = reqQ
        /\ \A i \in 1..Len(rspQ') : rspQ'[i] = rspQ[i + 1] /\ i + 1 \in 1..Len(rspQ)
    BY <1>0, <1>8, TailFacts DEF TypeOK, FrameRecvFailed
  <2>3. /\ pending' = pending - 1 /\ pending \in Nat
        /\ Len(rspQ') = Len(rspQ) - 1 /\ Len(rspQ) >= 1 /\ reqQ' = reqQ
    BY <1>a, <1>b, <2>1, <2>2
  <2>4. sent = taken + pending /\ link = "open" /\ flush = "no"
    BY <1>0, <1>a, <2>2, <2>3 DEF Counts, Phases
  <2>5. Positions' /\ Markers'
    BY <1>0, <1>a, <1>b, <2>1, <2>2, <2>4, PopRsp
  <2>6. InFlightBound'
    BY <1>0, <1>a, <2>2, <2>3, <2>4 DEF InFlightBound
  <2>7. Phases'
    BY <1>0, <1>a, <2>2, <2>4 DEF Phases
  <2>8. EndIsLast'
    BY <1>0, <1>a, <2>1, <2>2, <2>4 DEF EndIsLast
  <2>9. Counts'
    BY <1>0, <1>a, <2>2, <2>3, <2>4 DEF Counts, Phases
  <2>10. Outputs'
    BY <1>0, <1>a, <2>2, <2>4 DEF Outputs, OutputInOrder, Phases
  <2> QED
    BY <1>0, <2>5, <2>6, <2>7, <2>8, <2>9, <2>10 DEF IInv
<1>9. CASE FrameRecvFrame
  <2>2. /\ mpc = "frame_recv" /\ mpc' = "idle" /\ taken' = taken + 1 /\ link' \in {"open", "closed"}
        /\ UNCHANGED <<sent, flush>>
        /\ UNCHANGED <<wpc, rspMsg>>
    BY <1>9 DEF FrameRecvFrame
  <2>1. /\ Len(rspQ') = Len(rspQ) - 1 /\ Len(rspQ) >= 1 /\ reqQ' = reqQ
        /\ \A i \in 1..Len(rspQ') : rspQ'[i] = rspQ[i + 1] /\ i + 1 \in 1..Len(rspQ)
        /\ delivered' = Append(delivered, rspQ[1].frame)
        /\ 1 \in 1..Len(rspQ)
    BY <1>0, <1>9, TailFacts DEF TypeOK, FrameRecvFrame
  <2>3. /\ pending' = pending - 1 /\ pending \in Nat
        /\ Len(rspQ') = Len(rspQ) - 1 /\ Len(rspQ) >= 1 /\ reqQ' = reqQ
    BY <1>a, <1>b, <2>1, <2>2
  <2>4. sent = taken + pending /\ link = "open" /\ flush = "no"
    BY <1>0, <1>a, <2>2, <2>3 DEF Counts, Phases
  <2>5. rspQ[1].frame = taken + 1 /\ Len(delivered) = taken
    <3>1. rspQ[1].state # "FLUSH_COMPLETE" /\ rspQ[1].state # "UNSET"
      BY <1>0, <1>a, <1>b, <2>1, <2>4 DEF Markers
    <3>2. rspQ[1].state \in {"UNSET", "DONE", "FLUSH_COMPLETE"}
      <4>1. rspQ[1] \in RspMsg
        BY <1>0, <2>1 DEF TypeOK
      <4> QED
        BY <4>1 DEF RspMsg
    <3>3. rspQ[1].frame = taken + 1
      BY <1>0, <2>1, <3>1, <3>2 DEF Positions
    <3> QED
      BY <1>0, <1>a, <2>2, <2>4, <3>3 DEF Outputs
  <2>6. /\ Len(delivered') = Len(delivered) + 1
        /\ \A i \in 1..Len(delivered) : delivered'[i] = delivered[i]
        /\ delivered'[Len(delivered) + 1] = taken + 1
    <3>1. delivered \in Seq(Nat) /\ taken + 1 \in Nat /\ delivered' = Append(delivered, taken + 1)
      BY <1>0, <1>a, <2>1, <2>5 DEF TypeOK
    <3> QED
      BY <3>1, AppendFacts
  <2>7. Positions' /\ Markers'
    BY <1>0, <1>a, <1>b, <2>1, <2>2, <2>4, <2>5, <2>6, PopRsp
  <2>8. InFlightBound'
    BY <1>0, <1>a, <2>2, <2>3, <2>4, <2>5, <2>6 DEF InFlightBound
  <2>9. Phases'
    BY <1>0, <1>a, <2>2, <2>4, <2>5, <2>6 DEF Phases
  <2>10. EndIsLast'
    BY <1>0, <1>a, <2>1, <2>2, <2>4, <2>5, <2>6 DEF EndIsLast
  <2>11. Counts'
    BY <1>0, <1>a, <2>2, <2>3, <2>4, <2>5, <2>6 DEF Counts, Phases
  <2>12. Outputs'
    BY <1>0, <1>a, <2>2, <2>4, <2>5, <2>6 DEF Outputs, OutputInOrder, Phases
  <2> QED
    BY <1>0, <2>7, <2>8, <2>9, <2>10, <2>11, <2>12 DEF IInv
<1>10. CASE FlushMismatch
  <2>2. /\ mpc = "idle" /\ mpc' = "idle" /\ link' = "closed"
        /\ UNCHANGED <<sent, taken, delivered, flush>>
        /\ UNCHANGED <<wpc, rspMsg>>
    BY <1>10 DEF FlushMismatch
  <2>1. /\ reqQ' = reqQ /\ rspQ' = rspQ
    BY <1>0, <1>10 DEF TypeOK, FlushMismatch
  <2>3. /\ reqQ' = reqQ /\ rspQ' = rspQ
        /\ pending' = pending /\ pending \in Nat
    BY <1>a, <1>b, <2>1, <2>2
  <2>4. InFlightBound'
    BY <1>0, <1>a, <2>2, <2>3 DEF InFlightBound
  <2>5. Phases'
    BY <1>0, <1>a, <2>2 DEF Phases
  <2>6. Positions'
    BY <1>0, <1>a, <1>b, <2>1, <2>2 DEF Positions
  <2>7. Markers'
    BY <1>0, <1>a, <1>b, <2>1, <2>2 DEF Markers
  <2>8. EndIsLast'
    BY <1>0, <1>a, <2>1, <2>2 DEF EndIsLast
  <2>9. Counts'
    BY <1>0, <1>a, <2>2, <2>3 DEF Counts, Phases
  <2>10. Outputs'
    BY <1>0, <1>a, <2>2 DEF Outputs, OutputInOrder, Phases
  <2> QED
    BY <1>0, <2>4, <2>5, <2>6, <2>7, <2>8, <2>9, <2>10 DEF IInv
<1>11. CASE FilterFlush
  <2>2. /\ mpc = "idle" /\ mpc' = "flush_send" /\ link = "open" /\ link' = "closed"
        /\ UNCHANGED <<sent, taken, delivered, flush>>
        /\ UNCHANGED <<wpc, rspMsg>>
    BY <1>11 DEF FilterFlush
  <2>1. /\ reqQ' = reqQ /\ rspQ' = rspQ
    BY <1>0, <1>11 DEF TypeOK, FilterFlush
  <2>3. /\ reqQ' = reqQ /\ rspQ' = rspQ
        /\ pending' = pending /\ pending \in Nat
    BY <1>a, <1>b, <2>1, <2>2
  <2>4. InFlightBound'
    BY <1>0, <1>a, <2>2, <2>3 DEF InFlightBound
  <2>5. Phases'
    BY <1>0, <1>a, <2>2 DEF Phases
  <2>6. Positions'
    BY <1>0, <1>a, <1>b, <2>1, <2>2 DEF Positions
  <2>7. Markers'
    BY <1>0, <1>a, <1>b, <2>1, <2>2 DEF Markers
  <2>8. EndIsLast'
    BY <1>0, <1>a, <2>1, <2>2 DEF EndIsLast
  <2>9. Counts'
    BY <1>0, <1>a, <2>2, <2>3 DEF Counts, Phases
  <2>10. Outputs'
    BY <1>0, <1>a, <2>2 DEF Outputs, OutputInOrder, Phases
  <2> QED
    BY <1>0, <2>4, <2>5, <2>6, <2>7, <2>8, <2>9, <2>10 DEF IInv
<1>12. CASE FlushSend
  <2>2. /\ mpc = "flush_send" /\ mpc' = "flush_recv"
        /\ UNCHANGED <<link, sent, taken, delivered, flush>>
        /\ UNCHANGED <<wpc, rspMsg>>
    BY <1>12 DEF FlushSend
  <2>1. /\ Len(reqQ') = Len(reqQ) + 1 /\ rspQ' = rspQ
        /\ \A i \in 1..Len(reqQ') : (i \in 1..Len(reqQ) /\ reqQ'[i] = reqQ[i]) \/ i = Len(reqQ) + 1
        /\ reqQ'[Len(reqQ) + 1].state = "FLUSH"
    BY <1>0, <1>12, AppendFacts DEF TypeOK, FlushSend, Req, ReqMsg
  <2>3. /\ pending' = pending + 1 /\ pending \in Nat
        /\ Len(reqQ') = Len(reqQ) + 1 /\ rspQ' = rspQ
    BY <1>a, <1>b, <2>1, <2>2
  <2>4. sent = taken + pending
    BY <1>0, <1>a, <2>2, <2>3 DEF Counts, Phases
  <2>5. Positions' /\ Markers'
    BY <1>0, <1>a, <1>b, <2>1, <2>2, <2>4, PushReq
  <2>6. InFlightBound'
    BY <1>0, <1>a, <2>2, <2>3, <2>4 DEF InFlightBound
  <2>7. Phases'
    BY <1>0, <1>a, <2>2, <2>4 DEF Phases
  <2>8. EndIsLast'
    BY <1>0, <1>a, <2>1, <2>2, <2>4 DEF EndIsLast
  <2>9. Counts'
    BY <1>0, <1>a, <2>2, <2>3, <2>4 DEF Counts, Phases
  <2>10. Outputs'
    BY <1>0, <1>a, <2>2, <2>4 DEF Outputs, OutputInOrder, Phases
  <2> QED
    BY <1>0, <2>5, <2>6, <2>7, <2>8, <2>9, <2>10 DEF IInv
<1>13. CASE FlushRecvFailed
  <2>2. /\ mpc = "flush_recv" /\ mpc' = "idle" /\ taken' = taken + 1 /\ flush' = "early"
        /\ UNCHANGED <<link, sent, delivered>>
        /\ UNCHANGED <<wpc, rspMsg>>
    BY <1>13 DEF FlushRecvFailed
  <2>1. /\ Len(rspQ') = Len(rspQ) - 1 /\ Len(rspQ) >= 1 /\ reqQ' = reqQ
        /\ \A i \in 1..Len(rspQ') : rspQ'[i] = rspQ[i + 1] /\ i + 1 \in 1..Len(rspQ)
    BY <1>0, <1>13, TailFacts DEF TypeOK, FlushRecvFailed
  <2>3. /\ pending' = pending - 1 /\ pending \in Nat
        /\ Len(rspQ') = Len(rspQ) - 1 /\ Len(rspQ) >= 1 /\ reqQ' = reqQ
    BY <1>a, <1>b, <2>1, <2>2
  <2>4. Positions' /\ Markers'
    BY <1>0, <1>a, <1>b, <2>1, <2>2, PopRsp
  <2>5. InFlightBound'
    BY <1>0, <1>a, <2>2, <2>3 DEF InFlightBound
  <2>6. Phases'
    BY <1>0, <1>a, <2>2 DEF Phases
  <2>7. EndIsLast'
    BY <1>0, <1>a, <2>1, <2>2 DEF EndIsLast
  <2>8. Counts'
    BY <1>0, <1>a, <2>2, <2>3 DEF Counts, Phases
  <2>9. Outputs'
    BY <1>0, <1>a, <2>2 DEF Outputs, OutputInOrder, Phases
  <2> QED
    BY <1>0, <2>4, <2>5, <2>6, <2>7, <2>8, <2>9 DEF IInv
<1>14. CASE FlushRecvFrame
  <2>2. /\ mpc = "flush_recv" /\ taken' = taken + 1
        /\ ((mpc' = mpc /\ flush' = flush) \/ (mpc' = "idle" /\ flush' = "early"))
        /\ UNCHANGED <<link, sent>>
        /\ UNCHANGED <<wpc, rspMsg>>
    <3>1. /\ mpc = "flush_recv" /\ taken' = taken + 1
          /\ UNCHANGED <<link, sent>> /\ UNCHANGED <<wpc, rspMsg>>
      BY <1>14 DEF FlushRecvFrame
    <3>2. (mpc' = mpc /\ flush' = flush) \/ (mpc' = "idle" /\ flush' = "early")
      BY <1>14 DEF FlushRecvFrame
    <3> QED
      BY <3>1, <3>2
  <2>1. /\ Len(rspQ') = Len(rspQ) - 1 /\ Len(rspQ) >= 1 /\ reqQ' = reqQ
        /\ \A i \in 1..Len(rspQ') : rspQ'[i] = rspQ[i + 1] /\ i + 1 \in 1..Len(rspQ)
        /\ delivered' = Append(delivered, rspQ[1].frame)
        /\ rspQ[1].state # "FLUSH_COMPLETE" /\ 1 \in 1..Len(rspQ)
    BY <1>0, <1>14, TailFacts DEF TypeOK, FlushRecvFrame
  <2>3. /\ pending' = pending - 1 /\ pending \in Nat
        /\ Len(rspQ') = Len(rspQ) - 1 /\ Len(rspQ) >= 1 /\ reqQ' = reqQ
    BY <1>a, <1>b, <2>1, <2>2
  <2>4. rspQ[1].frame = taken + 1 /\ Len(delivered) = taken
    <3>1. rspQ[1].state \in {"UNSET", "DONE", "FLUSH_COMPLETE"}
      <4>1. rspQ[1] \in RspMsg
        BY <1>0, <2>1 DEF TypeOK
      <4> QED
        BY <4>1 DEF RspMsg
    <3>2. rspQ[1].state = "DONE"
      BY <1>0, <2>1, <3>1 DEF Markers
    <3>3. rspQ[1].frame = taken + 1
      BY <1>0, <2>1, <3>2 DEF Positions
    <3> QED
      BY <1>0, <1>a, <2>2, <3>3 DEF Outputs
  <2>5. /\ Len(delivered') = Len(delivered) + 1
        /\ \A i \in 1..Len(delivered) : delivered'[i] = delivered[i]
        /\ delivered'[Len(delivered) + 1] = taken + 1
    <3>1. delivered \in Seq(Nat) /\ taken + 1 \in Nat /\ delivered' = Append(delivered, taken + 1)
      BY <1>0, <1>a, <2>1, <2>4 DEF TypeOK
    <3> QED
      BY <3>1, AppendFacts
  <2>6. Positions' /\ Markers'
    BY <1>0, <1>a, <1>b, <2>1, <2>2, <2>4, <2>5, PopRsp
  <2>7. InFlightBound'
    BY <1>0, <1>a, <2>2, <2>3, <2>4, <2>5 DEF InFlightBound
  <2>8. Phases'
    BY <1>0, <1>a, <2>2, <2>4, <2>5 DEF Phases
  <2>9. EndIsLast'
    BY <1>0, <1>a, <2>1, <2>2, <2>4, <2>5 DEF EndIsLast
  <2>10. Counts'
    BY <1>0, <1>a, <2>2, <2>3, <2>4, <2>5 DEF Counts, Phases
  <2>11. Outputs'
    BY <1>0, <1>a, <2>2, <2>4, <2>5 DEF Outputs, OutputInOrder, Phases
  <2> QED
    BY <1>0, <2>6, <2>7, <2>8, <2>9, <2>10, <2>11 DEF IInv
<1>15. CASE FlushRecvComplete
  <2>2. /\ mpc = "flush_recv" /\ mpc' = "idle" /\ flush' = "ok"
        /\ UNCHANGED <<link, sent, taken, delivered>>
        /\ UNCHANGED <<wpc, rspMsg>>
    BY <1>15 DEF FlushRecvComplete
  <2>1. /\ Len(rspQ') = Len(rspQ) - 1 /\ Len(rspQ) >= 1 /\ reqQ' = reqQ
        /\ \A i \in 1..Len(rspQ') : rspQ'[i] = rspQ[i + 1] /\ i + 1 \in 1..Len(rspQ)
        /\ rspQ[1].state = "FLUSH_COMPLETE" /\ 1 \in 1..Len(rspQ)
    BY <1>0, <1>15, TailFacts DEF TypeOK, FlushRecvComplete
  <2>3. /\ pending' = pending - 1 /\ pending \in Nat
        /\ Len(rspQ') = Len(rspQ) - 1 /\ Len(rspQ) >= 1 /\ reqQ' = reqQ
    BY <1>a, <1>b, <2>1, <2>2
  <2>4. sent = taken /\ Len(reqQ) = 0 /\ Len(rspQ) = 1 /\ busy = 0 /\ Len(delivered) = taken
    BY <1>0, <1>a, <1>b, <2>1, <2>2 DEF Markers, Counts, Outputs
  <2>5. InFlightBound'
    BY <1>0, <1>a, <2>2, <2>3, <2>4 DEF InFlightBound
  <2>6. Phases'
    BY <1>0, <1>a, <2>2, <2>4 DEF Phases
  <2>7. Positions'
    BY <1>0, <1>a, <1>b, <2>1, <2>2, <2>4 DEF Positions
  <2>8. Markers'
    BY <1>0, <1>a, <1>b, <2>1, <2>2, <2>4 DEF Markers
  <2>9. EndIsLast'
    BY <1>0, <1>a, <2>1, <2>2, <2>4 DEF EndIsLast
  <2>10. Counts'
    BY <1>0, <1>a, <2>2, <2>3, <2>4 DEF Counts, Phases
  <2>11. Outputs'
    BY <1>0, <1>a, <2>2, <2>4 DEF Outputs, OutputInOrder, Phases
  <2> QED
    BY <1>0, <2>5, <2>6, <2>7, <2>8, <2>9, <2>10, <2>11 DEF IInv
<1>16. CASE Uninit
  <2>2. /\ mpc = "idle" /\ mpc' = "end_send"
        /\ UNCHANGED <<link, sent, taken, delivered, flush>>
        /\ UNCHANGED <<wpc, rspMsg>>
    BY <1>16 DEF Uninit
  <2>1. /\ reqQ' = reqQ /\ rspQ' = rspQ
    BY <1>0, <1>16 DEF TypeOK, Uninit
  <2>3. /\ reqQ' = reqQ /\ rspQ' = rspQ
        /\ pending' = pending /\ pending \in Nat
    BY <1>a, <1>b, <2>1, <2>2
  <2>4. InFlightBound'
    BY <1>0, <1>a, <2>2, <2>3 DEF InFlightBound
  <2>5. Phases'
    BY <1>0, <1>a, <2>2 DEF Phases
  <2>6. Positions'
    BY <1>0, <1>a, <1>b, <2>1, <2>2 DEF Positions
  <2>7. Markers'
    BY <1>0, <1>a, <1>b, <2>1, <2>2 DEF Markers
  <2>8. EndIsLast'
    BY <1>0, <1>a, <2>1, <2>2 DEF EndIsLast
  <2>9. Counts'
    BY <1>0, <1>a, <2>2, <2>3 DEF Counts, Phases
  <2>10. Outputs'
    BY <1>0, <1>a, <2>2 DEF Outputs, OutputInOrder, Phases
  <2> QED
    BY <1>0, <2>4, <2>5, <2>6, <2>7, <2>8, <2>9, <2>10 DEF IInv
<1>17. CASE EndSend
  <2>2. /\ mpc = "end_send" /\ mpc' = "join"
        /\ UNCHANGED <<link, sent, taken, delivered, flush>>
        /\ UNCHANGED <<wpc, rspMsg>>
    BY <1>17 DEF EndSend
  <2>1. /\ Len(reqQ') = Len(reqQ) + 1 /\ rspQ' = rspQ
        /\ \A i \in 1..Len(reqQ') : (i \in 1..Len(reqQ) /\ reqQ'[i] = reqQ[i]) \/ i = Len(reqQ) + 1
        /\ reqQ'[Len(reqQ) + 1].state = "END"
    BY <1>0, <1>17, AppendFacts DEF TypeOK, EndSend, Req, ReqMsg
  <2>3. /\ pending' = pending + 1 /\ pending \in Nat
        /\ Len(reqQ') = Len(reqQ) + 1 /\ rspQ' = rspQ
    BY <1>a, <1>b, <2>1, <2>2
  <2>4. Positions' /\ Markers'
    BY <1>0, <1>a, <1>b, <2>1, <2>2, PushReq
  <2>5. InFlightBound'
    BY <1>0, <1>a, <2>2, <2>3 DEF InFlightBound
  <2>6. Phases'
    BY <1>0, <1>a, <2>2 DEF Phases
  <2>7. EndIsLast'
    BY <1>0, <1>a, <2>1, <2>2 DEF EndIsLast
  <2>8. Counts'
    BY <1>0, <1>a, <2>2, <2>3 DEF Counts, Phases
  <2>9. Outputs'
    BY <1>0, <1>a, <2>2 DEF Outputs, OutputInOrder, Phases
  <2> QED
    BY <1>0, <2>4, <2>5, <2>6, <2>7, <2>8, <2>9 DEF IInv
<1>18. CASE JoinAndFree
  <2>2. /\ mpc = "join" /\ mpc' = "done" /\ wpc = "exited"
        /\ UNCHANGED <<link, sent, taken, delivered, flush>>
        /\ UNCHANGED <<wpc, rspMsg>>
    BY <1>18 DEF JoinAndFree
  <2>1. /\ reqQ' = <<>> /\ rspQ' = <<>> /\ Len(reqQ') = 0 /\ Len(rspQ') = 0
    BY <1>0, <1>18, EmptyFacts DEF TypeOK, JoinAndFree
  <2>3. Len(reqQ') = 0 /\ Len(rspQ') = 0 /\ busy = 0 /\ pending' = 0
    BY <1>a, <1>b, <2>1, <2>2
  <2>4. InFlightBound'
    BY <1>0, <1>a, <2>2, <2>3 DEF InFlightBound
  <2>5. Phases'
    BY <1>0, <1>a, <2>2 DEF Phases
  <2>6. Positions'
    BY <1>0, <1>a, <1>b, <2>1, <2>2 DEF Positions
  <2>7. Markers'
    BY <1>0, <1>a, <1>b, <2>1, <2>2 DEF Markers
  <2>8. EndIsLast'
    BY <1>0, <1>a, <2>1, <2>2 DEF EndIsLast
  <2>9. Counts'
    BY <1>0, <1>a, <2>2, <2>3 DEF Counts, Phases
  <2>10. Outputs'
    BY <1>0, <1>a, <2>2 DEF Outputs, OutputInOrder, Phases
  <2> QED
    BY <1>0, <2>4, <2>5, <2>6, <2>7, <2>8, <2>9, <2>10 DEF IInv
<1>19. CASE UNCHANGED vars
  BY <1>0, <1>19 DEF IInv, vars, InFlightBound, Phases, Positions, Markers, EndIsLast, Counts, Outputs,
     OutputInOrder, pending, busy
<1> QED
  BY <1>1, <1>2, <1>3, <1>4, <1>5, <1>6, <1>7, <1>8, <1>9, <1>10,
     <1>11, <1>12, <1>13, <1>14, <1>15, <1>16, <1>17, <1>18, <1>19
     DEF Next, main, xvbm_conv_thread, xvbm_convert_filter_frame, xvbm_convert_filter_flush,
         xvbm_conv_uninit, Gone

-----------------------------------------------------------------------------
\* The inductive invariant holds of every execution.
THEOREM Inductive == Spec => []IInv
<1>1. Init => IInv
  <2> SUFFICES ASSUME Init PROVE IInv
    OBVIOUS
  <2>1. TypeOK
    BY TypeInit
  <2>2. /\ Len(reqQ) = 0 /\ Len(rspQ) = 0 /\ Len(delivered) = 0 /\ busy = 0 /\ pending = 0
    BY EmptyFacts DEF Init, busy, pending
  <2>3. InFlightBound /\ Counts
    BY <2>2, CapAssumption DEF Init, InFlightBound, Counts
  <2>4. Phases /\ EndIsLast
    BY <2>2 DEF Init, Phases, EndIsLast
  <2>5. Positions /\ Markers /\ Outputs
    BY <2>2 DEF Init, Positions, Markers, Outputs, OutputInOrder
  <2> QED
    BY <2>1, <2>3, <2>4, <2>5 DEF IInv
<1> QED
  BY <1>1, InvStep, PTL DEF Spec

\* The request queue bounds the whole pipeline (filter_frame).
THEOREM PipelineBounded == Spec => []InFlightBound
<1>1. IInv => InFlightBound
  BY DEF IInv
<1> QED
  BY <1>1, Inductive, PTL

\* The two threads never wait for each other's full queue: there are not
\* enough messages in flight to fill both.
THEOREM NoMutualBlocking == Spec => []NeverMutuallyBlocked
<1>1. IInv => NeverMutuallyBlocked
  <2> SUFFICES ASSUME IInv, mpc \in {"frame_send", "flush_send", "end_send"},
                      Len(reqQ) >= ReqCap, wpc = "send", Len(rspQ) >= RspCap
               PROVE  FALSE
    BY DEF NeverMutuallyBlocked
  <2>1. pending <= ReqCap + 1 /\ pending = Len(reqQ) + 1 + Len(rspQ)
    BY DEF IInv, InFlightBound, pending, busy
  <2> QED
    BY <2>1, LenFacts, CapAssumption DEF IInv
<1> QED
  BY <1>1, Inductive, PTL

\* Frames come out in the order they went in, none skipped.
THEOREM DeliveryCorrect == Spec => []OutputInOrder
<1>1. IInv => OutputInOrder
  BY DEF IInv, Outputs
<1> QED
  BY <1>1, Inductive, PTL

\* When FLUSH_COMPLETE comes back, the frames put in before the flush have all
\* been passed on: the marker cannot overtake a frame in either queue.
THEOREM FlushComplete == Spec => []FlushDeliversAll
<1>1. IInv => FlushDeliversAll
  BY DEF IInv, Outputs, FlushDeliversAll
<1> QED
  BY <1>1, Inductive, PTL

\* The worker has freed every input frame when it exits.
THEOREM InputsFreed == Spec => []NoInputLeft
<1>1. IInv => NoInputLeft
  BY DEF IInv, EndIsLast, NoInputLeft
<1> QED
  BY <1>1, Inductive, PTL

\* uninit can hang in pthread_join only with a full pipeline, and not at all
\* if RspMsgQ had one slot more than ReqMsgQ.
THEOREM HangCondition == Spec => []HangNeedsFullPipeline
<1>1. IInv => HangNeedsFullPipeline
  <2> SUFFICES ASSUME IInv, mpc = "join", wpc = "send", Len(rspQ) >= RspCap
               PROVE  Len(reqQ) \in 1..(ReqCap - RspCap + 1)
    BY DEF HangNeedsFullPipeline
  <2>1. pending <= ReqCap + 2 /\ pending = Len(reqQ) + 1 + Len(rspQ)
    BY DEF IInv, InFlightBound, pending, busy
  <2>2. Len(reqQ) >= 1
    BY LenFacts, EmptyFacts DEF IInv, EndIsLast, TypeOK
  <2> QED
    BY <2>1, <2>2, LenFacts, CapAssumption DEF IInv
<1> QED
  BY <1>1, Inductive, PTL

-----------------------------------------------------------------------------
(* Who owns the output frames.                                             *)

\* a response that answers a frame and carries its output frame
Carries(m) == m.state = "DONE" /\ m.pFrame = "set"

\* A flush marker is in flight only during a flush, or after one that main left early.
MarkersInFlush ==
  flush # "early" /\ mpc # "flush_recv" =>
    /\ \A i \in 1..Len(reqQ) : reqQ[i].state # "FLUSH"
    /\ \A i \in 1..Len(rspQ) : rspQ[i].state # "FLUSH_COMPLETE"
    /\ wpc = "send" => rspMsg.state # "FLUSH_COMPLETE"

\* An output frame is on its way to main until it is released, and only frames
\* that were made are on their way.
Owners ==
  /\ \A f \in made : \/ f \in released
                     \/ \E i \in 1..Len(rspQ) : Carries(rspQ[i]) /\ rspQ[i].frame = f
                     \/ wpc = "send" /\ Carries(rspMsg) /\ rspMsg.frame = f
  /\ \A i \in 1..Len(rspQ) : Carries(rspQ[i]) => rspQ[i].frame \in made
  /\ wpc = "send" /\ Carries(rspMsg) => rspMsg.frame \in made

\* After the drain of uninit nothing is on its way.
Drained == mpc = "done" => Len(rspQ) = 0

\* Before the teardown only frames main has taken are released.
ReleasedWereTaken ==
  flush # "early" =>
    /\ twice = {} /\ released \subseteq made
    /\ mpc # "done" => \A f \in released : f \in Int /\ f <= taken

AccountInv == MarkersInFlush /\ Owners /\ Drained /\ ReleasedWereTaken

\* Main takes a response and releases what it carries.
LEMMA PopOwners ==
  ASSUME Owners, made' = made, UNCHANGED <<wpc, rspMsg>>, released \subseteq released',
         Len(rspQ) \in Nat, Len(rspQ) >= 1, Len(rspQ') = Len(rspQ) - 1,
         \A i \in 1..Len(rspQ') : rspQ'[i] = rspQ[i + 1] /\ i + 1 \in 1..Len(rspQ),
         Carries(rspQ[1]) => rspQ[1].frame \in released'
  PROVE  Owners'
<1>1. ASSUME NEW f \in made
      PROVE  \/ f \in released'
             \/ \E i \in 1..Len(rspQ') : Carries(rspQ'[i]) /\ rspQ'[i].frame = f
             \/ wpc = "send" /\ Carries(rspMsg) /\ rspMsg.frame = f
  <2>1. ASSUME NEW i \in 1..Len(rspQ), Carries(rspQ[i]), rspQ[i].frame = f, i # 1
        PROVE  \E j \in 1..Len(rspQ') : Carries(rspQ'[j]) /\ rspQ'[j].frame = f
    <3>1. i - 1 \in 1..Len(rspQ') /\ (i - 1) + 1 = i
      BY <2>1
    <3>2. rspQ'[i - 1] = rspQ[i]
      BY <3>1
    <3> QED
      BY <2>1, <3>1, <3>2
  <2> QED
    BY <2>1 DEF Owners
<1>2. ASSUME NEW i \in 1..Len(rspQ'), Carries(rspQ'[i])
      PROVE  rspQ'[i].frame \in made
  <2>1. rspQ'[i] = rspQ[i + 1] /\ i + 1 \in 1..Len(rspQ)
    OBVIOUS
  <2> QED
    BY <1>2, <2>1 DEF Owners
<1>3. Carries(rspMsg)' = Carries(rspMsg) /\ \A m : Carries(m)' = Carries(m)
  BY DEF Carries
<1> QED
  BY <1>1, <1>2, <1>3 DEF Owners, Carries

\* A step that moves no response and makes and releases no frame.
LEMMA OwnersKept ==
  ASSUME Owners, UNCHANGED <<made, released, wpc, rspMsg, rspQ>>
  PROVE  Owners'
BY DEF Owners, Carries

\* What main finds at the head of RspMsgQ outside a flush, or in one before
\* the marker, is the next frame.
LEMMA HeadIsNext ==
  ASSUME IInv, AccountInv, rspQ # <<>>,
         \/ mpc = "frame_recv"
         \/ mpc = "flush_recv" /\ Head(rspQ).state # "FLUSH_COMPLETE"
  PROVE  /\ rspQ[1].state = "DONE" /\ rspQ[1].frame = taken + 1
         /\ Head(rspQ) = rspQ[1] /\ Len(rspQ) \in Nat /\ Len(rspQ) >= 1
         /\ rspQ[1].pFrame = "set" => Carries(rspQ[1]) /\ rspQ[1].frame \in made
         /\ taken \in Nat /\ flush = "no"
<1>1. rspQ \in Seq(RspMsg) /\ taken \in Nat /\ flush \in {"no", "ok", "early"}
  BY DEF IInv, TypeOK
<1>2. Len(rspQ) \in Nat /\ Len(rspQ) >= 1 /\ Head(rspQ) = rspQ[1] /\ rspQ[1] \in RspMsg
      /\ 1 \in 1..Len(rspQ)
  BY <1>1, TailFacts
<1>3. flush = "no"
  BY <1>1 DEF IInv, Phases
<1>4. rspQ[1].state = "DONE"
  BY <1>2, <1>3 DEF IInv, Markers, AccountInv, MarkersInFlush, RspMsg
<1>5. rspQ[1].frame = taken + 1
  BY <1>2, <1>4 DEF IInv, Positions
<1> QED
  BY <1>1, <1>2, <1>3, <1>4, <1>5 DEF AccountInv, Owners, Carries

\* Every step keeps the accounts.
LEMMA AccountStep == IInv /\ AccountInv /\ [Next]_vars => AccountInv'
<1> SUFFICES ASSUME IInv, AccountInv, [Next]_vars PROVE AccountInv'
  OBVIOUS
<1>0. /\ TypeOK /\ MarkersInFlush /\ Owners /\ Drained /\ ReleasedWereTaken
      /\ Phases /\ Positions /\ Markers /\ Counts /\ EndIsLast
  BY DEF IInv, AccountInv
<1>a. /\ reqQ \in Seq(ReqMsg) /\ rspQ \in Seq(RspMsg) /\ taken \in Nat /\ sent \in Nat
      /\ Len(reqQ) \in Nat /\ Len(rspQ) \in Nat /\ rspMsg \in RspMsg
      /\ flush \in {"no", "ok", "early"} /\ link \in {"open", "closed"}
  BY <1>0 DEF TypeOK
<1>1. CASE ThreadConvert
  <2>1. /\ wpc = "recv" /\ wpc' = "send" /\ rspQ' = rspQ /\ released' = released /\ twice' = twice
        /\ UNCHANGED <<mpc, sent, taken, flush>>
        /\ rspMsg'.state = "DONE"
        /\ \/ rspMsg'.pFrame = "NULL" /\ made' = made
           \/ rspMsg'.pFrame = "set" /\ made' = made \cup {rspMsg'.frame}
    BY <1>1 DEF ThreadConvert, mainVars, Rsp
  <2>2. \A i \in 1..Len(reqQ') : reqQ'[i] = reqQ[i + 1] /\ i + 1 \in 1..Len(reqQ)
    BY <1>1, <1>a, TailFacts DEF ThreadConvert
  <2>3. MarkersInFlush'
    BY <1>0, <2>1, <2>2 DEF MarkersInFlush
  <2>4. Owners'
    BY <1>0, <2>1 DEF Owners, Carries
  <2>5. ReleasedWereTaken'
    BY <1>0, <2>1 DEF ReleasedWereTaken
  <2>d. Drained'
    BY <1>0, <2>1, <2>2 DEF Drained, EndIsLast
  <2> QED
    BY <2>3, <2>4, <2>5, <2>d DEF AccountInv
<1>2. CASE ThreadFlush
  <2>1. /\ wpc = "recv" /\ wpc' = "send" /\ rspQ' = rspQ
        /\ UNCHANGED <<mpc, sent, taken, flush, made, released, twice>>
        /\ rspMsg'.state = "FLUSH_COMPLETE"
    BY <1>2, <1>a DEF ThreadFlush, mainVars, frameVars, RspMsg
  <2>2. 1 \in 1..Len(reqQ) /\ reqQ[1].state = "FLUSH"
    BY <1>2, <1>a, TailFacts DEF ThreadFlush
  <2>3. MarkersInFlush'
    BY <1>0, <2>1, <2>2 DEF MarkersInFlush
  <2>4. Owners'
    BY <1>0, <2>1 DEF Owners, Carries
  <2>5. ReleasedWereTaken'
    BY <1>0, <2>1 DEF ReleasedWereTaken
  <2>d. Drained'
    BY <1>0, <2>1, <2>2 DEF Drained, EndIsLast
  <2> QED
    BY <2>3, <2>4, <2>5, <2>d DEF AccountInv
<1>3. CASE ThreadEnd
  <2>1. /\ wpc = "recv" /\ wpc' = "exited" /\ rspQ' = rspQ /\ rspMsg' = rspMsg
        /\ UNCHANGED <<mpc, sent, taken, flush, made, released, twice>>
    BY <1>3 DEF ThreadEnd, mainVars, frameVars
  <2>2. \A i \in 1..Len(reqQ') : reqQ'[i] = reqQ[i + 1] /\ i + 1 \in 1..Len(reqQ)
    BY <1>3, <1>a, TailFacts DEF ThreadEnd
  <2>3. MarkersInFlush'
    BY <1>0, <2>1, <2>2 DEF MarkersInFlush
  <2>4. Owners'
    BY <1>0, <2>1 DEF Owners, Carries
  <2>5. ReleasedWereTaken'
    BY <1>0, <2>1 DEF ReleasedWereTaken
  <2>d. Drained'
    BY <1>0, <2>1, <2>2 DEF Drained, EndIsLast
  <2> QED
    BY <2>3, <2>4, <2>5, <2>d DEF AccountInv
<1>4. CASE ThreadSend
  <2>1. /\ wpc = "send" /\ wpc' = "recv" /\ reqQ' = reqQ /\ rspMsg' = rspMsg
        /\ UNCHANGED <<mpc, sent, taken, flush, made, released, twice>>
        /\ rspQ' = Append(rspQ, rspMsg)
    BY <1>4 DEF ThreadSend, mainVars, frameVars
  <2>2. /\ Len(rspQ') = Len(rspQ) + 1 /\ rspQ'[Len(rspQ) + 1] = rspMsg
        /\ \A i \in 1..Len(rspQ) : rspQ'[i] = rspQ[i] /\ i \in 1..Len(rspQ')
        /\ Len(rspQ) + 1 \in 1..Len(rspQ')
        /\ \A i \in 1..Len(rspQ') : i \in 1..Len(rspQ) \/ i = Len(rspQ) + 1
    BY <1>a, <2>1, AppendFacts
  <2>3. MarkersInFlush'
    BY <1>0, <2>1, <2>2 DEF MarkersInFlush
  <2>4. Owners'
    <3>1. ASSUME NEW f \in made
          PROVE  f \in released \/ \E i \in 1..Len(rspQ') : Carries(rspQ'[i]) /\ rspQ'[i].frame = f
      BY <1>0, <2>2 DEF Owners
    <3>2. \A i \in 1..Len(rspQ') : Carries(rspQ'[i]) => rspQ'[i].frame \in made
      BY <1>0, <2>1, <2>2 DEF Owners
    <3> QED
      BY <2>1, <3>1, <3>2 DEF Owners, Carries
  <2>5. ReleasedWereTaken'
    BY <1>0, <2>1 DEF ReleasedWereTaken
  <2>d. Drained'
    BY <1>0, <2>1, <2>2 DEF Drained, EndIsLast
  <2> QED
    BY <2>3, <2>4, <2>5, <2>d DEF AccountInv
<1>5. CASE FilterFrame \/ FrameRecvAgain \/ FlushMismatch \/ FilterFlush \/ Uninit
  <2>1. /\ UNCHANGED <<reqQ, rspQ, wpc, rspMsg, sent, taken, flush, made, released, twice>>
        /\ mpc # "flush_recv" /\ mpc' # "flush_recv" /\ mpc # "done" /\ mpc' # "done"
    BY <1>5 DEF FilterFrame, FrameRecvAgain, FlushMismatch, FilterFlush, Uninit, frameVars
  <2>2. Owners'
    BY <1>0, <2>1, OwnersKept
  <2>3. MarkersInFlush' /\ ReleasedWereTaken'
    BY <1>0, <2>1 DEF MarkersInFlush, ReleasedWereTaken
  <2>d. Drained'
    BY <1>0, <2>1, <2>2 DEF Drained, EndIsLast
  <2> QED
    BY <2>2, <2>3, <2>d DEF AccountInv
<1>6. CASE FrameSend \/ FlushSend \/ EndSend
  <2>1. PICK m \in ReqMsg : /\ reqQ' = Append(reqQ, m)
                            /\ m.state = "FLUSH" => mpc' = "flush_recv"
    <3>1. CASE FrameSend
      BY <1>a, <3>1 DEF FrameSend, Req, ReqMsg
    <3>2. CASE FlushSend
      BY <3>2 DEF FlushSend, Req, ReqMsg
    <3>3. CASE EndSend
      BY <3>3 DEF EndSend, Req, ReqMsg
    <3> QED
      BY <1>6, <3>1, <3>2, <3>3
  <2>2. /\ UNCHANGED <<rspQ, wpc, rspMsg, taken, flush, made, released, twice>>
        /\ mpc # "flush_recv" /\ mpc # "done" /\ mpc' # "done"
    BY <1>6 DEF FrameSend, FlushSend, EndSend, frameVars
  <2>3. /\ \A i \in 1..Len(reqQ') : (i \in 1..Len(reqQ) /\ reqQ'[i] = reqQ[i]) \/ i = Len(reqQ) + 1
        /\ reqQ'[Len(reqQ) + 1] = m
    BY <1>a, <2>1, AppendFacts
  <2>4. MarkersInFlush'
    BY <1>0, <2>1, <2>2, <2>3 DEF MarkersInFlush
  <2>5. Owners'
    BY <1>0, <2>2, OwnersKept
  <2>6. ReleasedWereTaken'
    BY <1>0, <2>2 DEF ReleasedWereTaken
  <2>d. Drained'
    BY <1>0, <2>1, <2>2 DEF Drained, EndIsLast
  <2> QED
    BY <2>4, <2>5, <2>6, <2>d DEF AccountInv
<1>7. CASE FrameRecvFailed \/ FlushRecvFailed
  <2>1. /\ rspQ # <<>> /\ rspQ' = Tail(rspQ) /\ taken' = taken + 1 /\ mpc' = "idle"
        /\ UNCHANGED <<reqQ, wpc, rspMsg, made, released, twice>>
        /\ Head(rspQ).pFrame = "NULL"
        /\ \/ mpc = "frame_recv" /\ flush' = flush
           \/ flush' = "early"
    BY <1>7 DEF FrameRecvFailed, FlushRecvFailed, frameVars
  <2>2. /\ Len(rspQ) >= 1 /\ Len(rspQ') = Len(rspQ) - 1 /\ rspQ[1].pFrame = "NULL"
        /\ \A i \in 1..Len(rspQ') : rspQ'[i] = rspQ[i + 1] /\ i + 1 \in 1..Len(rspQ)
    BY <1>a, <2>1, TailFacts
  <2>3. MarkersInFlush'
    BY <1>0, <2>1, <2>2 DEF MarkersInFlush
  <2>4. Owners'
    <3>1. ~Carries(rspQ[1])
      BY <2>2 DEF Carries
    <3> QED
      BY <1>0, <1>a, <2>1, <2>2, <3>1, PopOwners
  <2>5. ReleasedWereTaken'
    BY <1>0, <1>a, <2>1 DEF ReleasedWereTaken
  <2>d. Drained'
    BY <1>0, <2>1, <2>2 DEF Drained, EndIsLast
  <2> QED
    BY <2>3, <2>4, <2>5, <2>d DEF AccountInv
<1>8. CASE FrameRecvFrame \/ FlushRecvFrame
  <2>1. /\ rspQ # <<>> /\ rspQ' = Tail(rspQ) /\ taken' = taken + 1
        /\ UNCHANGED <<reqQ, wpc, rspMsg, made>>
        /\ Head(rspQ).pFrame = "set" /\ Release({Head(rspQ).frame})
        /\ mpc \in {"frame_recv", "flush_recv"} /\ mpc' # "done"
        /\ mpc = "flush_recv" => Head(rspQ).state # "FLUSH_COMPLETE"
        /\ (mpc = "flush_recv" /\ mpc' # "flush_recv") => flush' = "early"
    BY <1>8 DEF FrameRecvFrame, FlushRecvFrame
  <2>2. /\ rspQ[1].frame = taken + 1 /\ Head(rspQ) = rspQ[1] /\ Len(rspQ) >= 1
        /\ Carries(rspQ[1]) /\ rspQ[1].frame \in made /\ flush = "no"
    BY <2>1, HeadIsNext
  <2>3. /\ Len(rspQ') = Len(rspQ) - 1
        /\ \A i \in 1..Len(rspQ') : rspQ'[i] = rspQ[i + 1] /\ i + 1 \in 1..Len(rspQ)
    BY <1>a, <2>1, TailFacts
  <2>4. /\ released' = released \cup {taken + 1}
        /\ twice' = twice \cup ({taken + 1} \cap released)
    BY <2>1, <2>2 DEF Release
  <2>5. MarkersInFlush'
    BY <1>0, <2>1, <2>2, <2>3 DEF MarkersInFlush
  <2>6. Owners'
    BY <1>0, <1>a, <2>1, <2>2, <2>3, <2>4, PopOwners
  <2>7. ReleasedWereTaken'
    <3>1. twice = {} /\ released \subseteq made /\ \A f \in released : f \in Int /\ f <= taken
      BY <1>0, <2>1, <2>2 DEF ReleasedWereTaken
    <3>2. taken + 1 \notin released
      BY <1>a, <3>1
    <3>3. twice' = {} /\ released' \subseteq made'
      BY <2>1, <2>2, <2>4, <3>1, <3>2
    <3>4. \A f \in released' : f \in Int /\ f <= taken'
      BY <1>a, <2>1, <2>4, <3>1
    <3> QED
      BY <3>3, <3>4 DEF ReleasedWereTaken
  <2>d. Drained'
    BY <1>0, <2>1, <2>2 DEF Drained, EndIsLast
  <2> QED
    BY <2>5, <2>6, <2>7, <2>d DEF AccountInv
<1>9. CASE FlushRecvComplete
  <2>1. /\ rspQ # <<>> /\ rspQ' = Tail(rspQ) /\ mpc = "flush_recv" /\ mpc' = "idle"
        /\ UNCHANGED <<reqQ, wpc, rspMsg, sent, taken, made, released, twice>>
        /\ Head(rspQ).state = "FLUSH_COMPLETE"
    BY <1>9 DEF FlushRecvComplete, frameVars
  <2>2. /\ Len(rspQ) >= 1 /\ Len(rspQ') = Len(rspQ) - 1 /\ rspQ[1].state = "FLUSH_COMPLETE"
        /\ \A i \in 1..Len(rspQ') : rspQ'[i] = rspQ[i + 1] /\ i + 1 \in 1..Len(rspQ)
    BY <1>a, <2>1, TailFacts
  <2>3. sent = taken /\ sent = taken + pending - 1
    BY <1>0, <1>a, <2>1, <2>2 DEF Markers, Counts
  <2>4. busy \in {0, 1} /\ (wpc = "send" => busy = 1)
    BY DEF busy
  <2>5. Len(reqQ) = 0 /\ Len(rspQ') = 0 /\ wpc # "send"
    BY <1>a, <2>2, <2>3, <2>4 DEF pending
  <2>6. MarkersInFlush'
    <3>1. Len(reqQ') = 0 /\ Len(rspQ') = 0 /\ wpc' # "send"
      BY <2>1, <2>5
    <3> QED
      BY <3>1 DEF MarkersInFlush
  <2>7. Owners'
    <3>1. ~Carries(rspQ[1])
      BY <2>2 DEF Carries
    <3> QED
      BY <1>0, <1>a, <2>1, <2>2, <3>1, PopOwners
  <2>8. ReleasedWereTaken'
    <3>1. flush = "no"
      BY <1>0, <1>a, <2>1 DEF Phases
    <3> QED
      BY <1>0, <2>1, <3>1 DEF ReleasedWereTaken
  <2>d. Drained'
    BY <1>0, <2>1, <2>2 DEF Drained, EndIsLast
  <2> QED
    BY <2>6, <2>7, <2>8, <2>d DEF AccountInv
<1>10. CASE JoinAndFree
  <2>1. /\ mpc = "join" /\ mpc' = "done" /\ wpc = "exited" /\ reqQ' = <<>> /\ rspQ' = <<>>
        /\ UNCHANGED <<wpc, rspMsg, taken, flush, made>>
        /\ released' = released \cup LeftOver
        /\ twice' = twice \cup (LeftOver \cap released) \cup Duplicates
    BY <1>10 DEF JoinAndFree
  <2>2. Len(reqQ') = 0 /\ Len(rspQ') = 0
    BY <2>1, EmptyFacts
  <2>3. MarkersInFlush'
    BY <2>1, <2>2 DEF MarkersInFlush
  <2>4. Owners'
    <3>1. \A f \in made : f \in released \/ f \in LeftOver
      BY <1>0, <2>1 DEF Owners, Carries, LeftOver
    <3> QED
      BY <2>1, <2>2, <3>1 DEF Owners
  <2>5. ReleasedWereTaken'
    <3> SUFFICES ASSUME flush # "early" PROVE twice' = {} /\ released' \subseteq made'
      BY <2>1 DEF ReleasedWereTaken
    <3>1. twice = {} /\ released \subseteq made /\ \A f \in released : f \in Int /\ f <= taken
      BY <1>0, <2>1 DEF ReleasedWereTaken
    <3>2. ASSUME NEW i \in 1..Len(rspQ), rspQ[i].pFrame = "set"
          PROVE  rspQ[i].frame = taken + i /\ rspQ[i].frame \in made
      <4>1. rspQ[i] \in RspMsg
        BY <1>a
      <4>2. rspQ[i].state = "DONE"
        BY <1>0, <2>1, <4>1 DEF MarkersInFlush, Markers, RspMsg
      <4> QED
        BY <1>0, <3>2, <4>2 DEF Positions, Owners, Carries
    <3>3. \A f \in LeftOver : f \in made /\ f \notin released
      <4> SUFFICES ASSUME NEW i \in 1..Len(rspQ), rspQ[i].pFrame = "set"
                   PROVE  rspQ[i].frame \in made /\ rspQ[i].frame \notin released
        BY DEF LeftOver
      <4>1. rspQ[i].frame = taken + i /\ rspQ[i].frame \in made
        BY <3>2
      <4> QED
        BY <1>a, <3>1, <4>1
    <3>4. Duplicates = {}
      <4> SUFFICES ASSUME NEW j \in 1..Len(rspQ), rspQ[j].pFrame = "set",
                          NEW k \in 1..(j - 1), rspQ[k].pFrame = "set",
                          rspQ[k].frame = rspQ[j].frame
                   PROVE  FALSE
        BY DEF Duplicates
      <4>1. k \in 1..Len(rspQ) /\ k < j
        BY <1>a
      <4>2. taken + k = taken + j
        BY <3>2, <4>1
      <4> QED
        BY <1>a, <4>1, <4>2
    <3> QED
      BY <2>1, <3>1, <3>3, <3>4
  <2>d. Drained'
    BY <1>0, <2>1, <2>2 DEF Drained, EndIsLast
  <2> QED
    BY <2>3, <2>4, <2>5, <2>d DEF AccountInv
<1>11. CASE Gone \/ UNCHANGED vars
  <2>1. UNCHANGED <<reqQ, rspQ, mpc, wpc, rspMsg, taken, flush, made, released, twice>>
    BY <1>11 DEF Gone, vars
  <2>2. Owners'
    BY <1>0, <2>1, OwnersKept
  <2> QED
    BY <1>0, <2>1, <2>2 DEF AccountInv, MarkersInFlush, ReleasedWereTaken, Drained
<1> QED
  BY <1>1, <1>2, <1>3, <1>4, <1>5, <1>6, <1>7, <1>8, <1>9, <1>10, <1>11
     DEF Next, xvbm_conv_thread, main, xvbm_convert_filter_frame,
         xvbm_convert_filter_flush, xvbm_conv_uninit

\* Whatever the delays and failures, uninit leaks no output frame, and none is
\* released twice unless a flush was left early.
THEOREM NoFrameLost == Spec => []FramesAccounted
<1>1. Init => AccountInv
  <2> SUFFICES ASSUME Init PROVE AccountInv
    OBVIOUS
  <2>1. Len(reqQ) = 0 /\ Len(rspQ) = 0
    BY EmptyFacts DEF Init
  <2> QED
    BY <2>1 DEF Init, AccountInv, MarkersInFlush, Owners, Drained, ReleasedWereTaken
<1>2. IInv /\ AccountInv => FramesAccounted
  <2> SUFFICES ASSUME IInv, AccountInv PROVE FramesAccounted
    OBVIOUS
  <2>1. mpc = "done" => wpc = "exited"
    BY DEF IInv, EndIsLast
  <2> QED
    BY <2>1 DEF AccountInv, ReleasedWereTaken, FramesAccounted, Owners, Drained
<1> QED
  BY <1>1, <1>2, Inductive, AccountStep, PTL DEF Spec
=============================================================================
