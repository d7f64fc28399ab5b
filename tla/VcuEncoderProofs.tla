-------------------------- MODULE VcuEncoderProofs --------------------------
(***************************************************************************)
(* Proofs about VcuEncoder for all depths of the two devices, all queue    *)
(* sizes and any number of frames.                                         *)
(***************************************************************************)
EXTENDS VcuEncoder, AscendingFrames, FiniteSetTheorems, TLAPS

-----------------------------------------------------------------------------
\* A number below q is its own remainder.
LEMMA SmallMod ==
  ASSUME NEW q \in Nat \ {0}, NEW m \in Nat, m < q
  PROVE  m % q = m
OBVIOUS

\* A multiple of q lies among the q numbers up to m.
LEMMA LastMultiple ==
  ASSUME NEW q \in Nat \ {0}, NEW m \in Nat
  PROVE  \E k \in Nat : k % q = 0 /\ k <= m /\ k + q > m
<1>1. m = q * (m \div q) + (m % q) /\ m % q \in 0..(q - 1) /\ m \div q \in Nat
  <2>1. m % q \in 0..(q - 1)
    OBVIOUS
  <2>2. m = q * (m \div q) + (m % q)
    OBVIOUS
  <2>3. m \div q \in Nat
    OBVIOUS
  <2> QED
    BY <2>1, <2>2, <2>3
<1>2. \A n \in Nat : (q * n) % q = 0 /\ q * n \in Nat
  <2> SUFFICES ASSUME NEW n \in Nat PROVE (q * n) % q = 0 /\ q * n \in Nat
    OBVIOUS
  <2>1. (q * n) % q = 0
    OBVIOUS
  <2>2. q * n \in Nat
    OBVIOUS
  <2> QED
    BY <2>1, <2>2
<1>3. PICK n \in Nat : n = m \div q
  BY <1>1
<1>4. PICK k \in Nat : k = q * n
  BY <1>2
<1>5. k % q = 0
  BY <1>2, <1>4
<1>6. \E r \in 0..(q - 1) : m = k + r
  BY <1>1, <1>3, <1>4
<1> QED
  BY <1>5, <1>6

\* The pts queue is read at an entry that was written: the newest one in the
\* slot of entry rd + 1, which is that entry itself while the queue was not
\* overrun.
LEMMA DequeuedIs ==
  ASSUME pts \in Seq(Int), rd \in Nat, rd < Len(pts)
  PROVE  /\ Dequeued \in Int
         /\ Len(pts) - rd <= QueueCap => Dequeued = pts[rd + 1]
<1> DEFINE J == {j \in (rd + 1)..Len(pts) : j + QueueCap > Len(pts) /\ (j - rd - 1) % QueueCap = 0}
<1>0. QueueCap \in Nat \ {0} /\ Len(pts) \in Nat
  BY QueueAssumption
<1>1. \A j \in J : pts[j] \in Int
  BY <1>0
<1>2. \E k \in Nat : (rd + 1) + k \in J
  <2>0. PICK m \in Nat : Len(pts) = rd + 1 + m
    <3>1. (Len(pts) - rd) - 1 \in Nat /\ Len(pts) = rd + 1 + ((Len(pts) - rd) - 1)
      BY <1>0
    <3> QED
      BY <3>1
  <2>1. PICK k \in Nat : k % QueueCap = 0 /\ k <= m /\ k + QueueCap > m
    BY <1>0, LastMultiple
  <2>2. ((rd + 1) + k) - rd - 1 = k
    OBVIOUS
  <2>3. (rd + 1) + k \in (rd + 1)..Len(pts) /\ ((rd + 1) + k) + QueueCap > Len(pts)
    BY <1>0, <2>0, <2>1
  <2> QED
    BY <2>1, <2>2, <2>3
<1>3. Dequeued = CHOOSE p \in {pts[j] : j \in J} : TRUE
  BY DEF Dequeued
<1>4. Dequeued \in {pts[j] : j \in J}
  <2> HIDE DEF J
  <2>1. {pts[j] : j \in J} # {}
    BY <1>2
  <2> QED
    BY <1>3, <2>1
<1>5. ASSUME Len(pts) - rd <= QueueCap, NEW j \in J PROVE j = rd + 1
  <2>1. PICK x \in Nat : x = j - rd - 1
    BY <1>0, <1>5
  <2>2. x < QueueCap /\ x % QueueCap = 0
    BY <1>0, <1>5, <2>1
  <2>3. x = 0
    BY <1>0, <2>2, SmallMod
  <2> QED
    BY <1>0, <1>5, <2>1, <2>3
<1> HIDE DEF J
<1> QED
  BY <1>1, <1>4, <1>5

-----------------------------------------------------------------------------
(* Where the frames are.                                                   *)

\* la_in_frame, until the lookahead has taken it
Pending == pc = "la" /\ call = "frame"
Arriving == IF Pending THEN {newest} ELSE {}
InHand == IF cur = 0 THEN {} ELSE {cur}

\* the frames whose reference the encoder or a device holds
Inside == Elems(la) \cup enc \cup InHand \cup Arriving

Typed ==
  /\ pts \in Seq(Int) /\ rd \in Nat /\ rd <= Len(pts)
  /\ rel \in Seq(Nat) /\ Len(rel) = Len(pts)
  /\ cur \in Nat /\ la \in Seq(Nat) /\ enc \in SUBSET Nat /\ dropped \in SUBSET Nat
  /\ pkts \in Seq([frame : Nat, pts : Int, dts : Int])

\* What the calls are in: a drain has no frame of its own, nothing but a close
\* follows the end, and the lookahead has its output frame unless the encoder
\* is about to be given it.
Control ==
  /\ mode \in {"feed", "drain", "eof", "failed", "abort", "crash", "closed"}
  /\ call \in {"none", "frame", "send_null", "receive"}
  /\ pc \in {"idle", "la", "la2", "enc", "enc2", "recv", "flush", "flush_recv"}
  /\ pc = "idle" <=> call = "none"
  /\ call = "frame" => mode = "feed" /\ pc \notin {"la2", "enc2"}
  /\ call \in {"send_null", "receive"} => mode = "drain"
  /\ bypass => la = <<>>
  /\ pc \notin {"enc", "enc2"} => out_frame
  /\ pc \notin {"enc", "enc2"} <=> cur = 0
  /\ mode = "closed" => la = <<>> /\ enc = {}

\* The pipelines keep the frames in the order they came.
Order ==
  /\ Ascending(la)
  /\ \A f \in Elems(la) : f \in 1..newest
  /\ \A e \in enc : e \in 1..newest /\ \A f \in Elems(la) : e < f
  /\ cur <= newest
  /\ cur # 0 => (\A e \in enc : e < cur) /\ (\A f \in Elems(la) : cur < f)
  /\ Pending => newest >= 1 /\ (\A f \in Elems(la) \cup enc : f < newest)

Base == Typed /\ Control /\ Order

\* The frame handed out of the lookahead is a frame.
LEMMA HeadIsFrame ==
  ASSUME Typed, Order, la # <<>>
  PROVE  Head(la) \in Nat /\ Head(la) # 0
<1>1. la \in Seq(Nat) /\ Ascending(la)
  BY DEF Typed, Order
<1> QED
  BY <1>1, TailAscending DEF Order

\* Every step keeps the phases of the calls.
LEMMA ControlStep == Base /\ [Next]_vars => Control'
<1> SUFFICES ASSUME Base, [Next]_vars PROVE Control'
  OBVIOUS
<1>0. Typed /\ Control /\ Order
  BY DEF Base
<1> USE DEF apiVars, tsVars, laVars, encVars
<1>1. CASE SendNull \/ Receive
  BY <1>0, <1>1 DEF Control, SendNull, Receive
<1>2. CASE EncodeFrame
  BY <1>0, <1>2 DEF Control, EncodeFrame
<1>3. CASE LaBypass
  <2>1. Pending => newest # 0
    BY <1>0 DEF Order
  <2> QED
    BY <1>0, <1>3, <2>1 DEF Control, LaBypass, Pending
<1>4. ASSUME NEW held \in Seq(Nat), LaRecv(held), pc = "la", call = "frame", ~bypass,
             UNCHANGED <<bypass, encFlushed, sent_flush, enc>>,
             held # <<>> => Head(held) # 0
      PROVE  Control'
  <2>1. CASE Return(FALSE)
    <3>1. UNCHANGED out_frame
      BY <1>4, <2>1, <1>0 DEF LaRecv, Return
    <3> QED
      BY <1>0, <1>4, <2>1, <3>1 DEF Control, Return
  <2>2. CASE ~Return(FALSE)
    <3>1. Len(held) > LaDepth /\ cur' = Head(held) /\ pc' = "enc" /\ UNCHANGED <<mode, call>>
          /\ out_frame' = FALSE
      BY <1>4, <2>2 DEF LaRecv
    <3>2. held # <<>>
      BY <3>1, LookaheadAssumption
    <3> QED
      BY <1>0, <1>4, <3>1, <3>2 DEF Control
  <2> QED
    BY <2>1, <2>2
<1>5. CASE LaSendFrame
  <2>1. la \in Seq(Nat) /\ newest \in Nat /\ Append(la, newest) \in Seq(Nat)
    BY <1>0 DEF Typed, newest
  <2>2. Append(la, newest) # <<>> => Head(Append(la, newest)) # 0
    <3>1. newest # 0
      BY <1>0, <1>5, <2>1 DEF LaSendFrame, Order, Pending
    <3>2. la = <<>> => Head(Append(la, newest)) = newest
      BY <2>1
    <3>3. la # <<>> => Head(Append(la, newest)) = Head(la)
      BY <2>1
    <3> QED
      BY <1>0, <3>1, <3>2, <3>3, HeadIsFrame
  <2> QED
    BY <1>4, <1>5, <2>1, <2>2 DEF LaSendFrame
<1>6. CASE LaSendSkipped
  <2>1. la \in Seq(Nat)
    BY <1>0 DEF Typed
  <2> QED
    BY <1>0, <1>4, <1>6, <2>1, HeadIsFrame DEF LaSendSkipped
<1>7. CASE LaSendAgain
  <2>1. la # <<>>
    BY <1>0, <1>7, LookaheadAssumption, EmptyAscending DEF LaSendAgain
  <2> QED
    BY <1>0, <1>7, <2>1, HeadIsFrame DEF Control, LaSendAgain
<1>8. CASE LaDrain
  <2>1. CASE la # <<>> /\ cur' = Head(la) /\ la' = Tail(la) /\ out_frame' = FALSE
    <3>1. Head(la) # 0
      BY <1>0, <2>1, HeadIsFrame
    <3>2. pc' \in {"enc", "enc2"}
      BY <1>8, <2>1, <3>1, <1>0 DEF LaDrain, Control
    <3> QED
      BY <1>0, <1>8, <2>1, <3>1, <3>2 DEF Control, LaDrain
  <2>2. CASE pc' = "flush" /\ UNCHANGED <<cur, la, out_frame>>
    BY <1>0, <1>8, <2>2 DEF Control, LaDrain
  <2> QED
    BY <1>8, <2>1, <2>2 DEF LaDrain
<1>22. CASE LaSendAgainFails
  <2>1. mode' \in {mode, "failed"} /\ UNCHANGED <<bypass, enc, out_frame>> /\ cur' = cur
        /\ mode = "feed" /\ cur = 0 /\ out_frame /\ ~bypass
    BY <1>0, <1>22 DEF Control, LaSendAgainFails, Return, ReturnError, StartFlush
  <2>2. \/ pc' = "idle" /\ call' = "none"
        \/ pc' = "flush" /\ call' = "frame" /\ mode' = mode
    BY <1>0, <1>22 DEF Control, LaSendAgainFails, Return, ReturnError, StartFlush
  <2> QED
    BY <1>0, <2>1, <2>2 DEF Control
<1>23. CASE LaDrainAgainFails
  BY <1>0, <1>23 DEF Control, LaDrainAgainFails
<1>9. CASE LaError
  BY <1>0, <1>9 DEF Control, LaError, ReturnError
<1>10. CASE LaErrorDrain
  BY <1>0, <1>10 DEF Control, LaErrorDrain, LaSendAgainFails, LaDrainAgainFails, Crash
<1>11. CASE EncSend
  BY <1>0, <1>11 DEF Control, EncSend, Return
<1>12. CASE EncSendError
  BY <1>0, <1>12 DEF Control, EncSendError, ReturnError
<1>13. CASE RecvPacket
  BY <1>0, <1>13 DEF Control, RecvPacket, Return, Receiving
<1>14. CASE RecvNoMem
  BY <1>0, <1>14 DEF Control, RecvNoMem, Receiving
<1>15. CASE RecvError
  BY <1>0, <1>15 DEF Control, RecvError, Receiving, Return, ReturnEof
<1>16. CASE RecvAgain
  BY <1>0, <1>16 DEF Control, RecvAgain, Return
<1>17. CASE FlushSend
  BY <1>0, <1>17 DEF Control, FlushSend
<1>18. CASE FlushSendError
  BY <1>0, <1>18 DEF Control, FlushSendError, Return
<1>19. CASE FlushRecvNothing
  BY <1>0, <1>19 DEF Control, FlushRecvNothing, Return, Receiving
<1>20. CASE mpsoc_vcu_encode_close
  BY <1>0, <1>20 DEF Control, mpsoc_vcu_encode_close
<1>21. CASE Finished \/ UNCHANGED vars
  <2>1. UNCHANGED vars
    BY <1>21 DEF Finished
  <2> QED
    BY <1>0, <2>1 DEF Control, vars
<1> QED
  BY <1>1, <1>2, <1>3, <1>5, <1>6, <1>7, <1>8, <1>9, <1>10, <1>11, <1>12, <1>13, <1>14,
     <1>15, <1>16, <1>17, <1>18, <1>19, <1>20, <1>21, <1>22, <1>23
     DEF Next, mpsoc_vcu_encode_frame, xlnx_la_send_recv_frame, EncoderSession, Fault

-----------------------------------------------------------------------------
(* The inductive invariants.                                               *)

\* A frame's reference is held by one of the places, was released once, or was
\* left by a failing answer.
Accounts ==
  /\ \A f \in lost : f \in 1..newest
  /\ \A f \in 1..newest :
       \/ f \notin lost /\ rel[f] = 0 /\ f \in Inside
       \/ f \notin lost /\ rel[f] = 1 /\ f \notin Inside
       \/ f \in lost /\ rel[f] = 0 /\ f \notin Inside /\ fault \in {"lookahead", "encoder"}
       \/ fault = "lookahead" /\ f = newest /\ mode \in {"failed", "closed"}

\* Until the close a frame that is nowhere was coded or dropped.
Covered ==
  fault = "none" /\ mode # "closed" =>
    \A f \in 1..newest : \/ f \in Inside \cup dropped
                          \/ \E i \in 1..Len(pkts) : pkts[i].frame = f

\* The encoder is flushed when the lookahead is empty, or it has a packet to
\* give first, and the end is reported when both are empty; unless a device put
\* the call off.
FlushPhase ==
  fault = "none" => /\ pc \in {"flush", "flush_recv"} => la = <<>> \/ enc # {} \/ late
                    /\ mode = "eof" => late \/ (la = <<>> /\ enc = {})
                    /\ mode # "failed"

\* no later frame was coded before f
NotOvertaken(f) == \A i \in 1..Len(pkts) : pkts[i].frame <= f

\* A frame still to be coded is at least the n-th if n were coded, the next one
\* if it was not overtaken; with one frame of reordering that is all there is.
ToBeCoded ==
  /\ \A i \in 1..Len(pkts) : pkts[i].frame <= newest /\ pkts[i].frame \notin Inside
  /\ Reorder <= 1 => \A f \in Inside \cup {newest + 1} :
                       /\ f >= Len(pkts)
                       /\ NotOvertaken(f) => f >= Len(pkts) + 1
  /\ Reorder = 0 => \A f \in Inside : NotOvertaken(f)

\* The pts increase, and rd follows the packets: one behind once the first dts
\* was extrapolated, and before that by the one packet that came too early.
Reading ==
  /\ Ascending(pts)
  /\ ~overrun => newest - rd <= QueueCap
  /\ BFrames > 0 /\ is_first_outframe => rd <= 1
  /\ rd <= Len(pkts)
  /\ ~is_first_outframe => rd + 1 <= Len(pkts) /\ BFrames > 0

\* No packet has a dts beyond the entry read last, which is the first one until
\* a dts was extrapolated.
Stamped ==
  ~overrun => \A i \in 1..Len(pkts) :
     \/ pkts[i].dts = NOPTS
     \/ /\ rd > 0 /\ pkts[i].dts <= pts[rd]
        /\ BFrames > 0 /\ is_first_outframe => pkts[i].dts = pts[1]
     \/ ~is_first_outframe /\ newest > 0 /\ pkts[i].dts < pts[1]

\* The devices hold no more than they can, the encoder one less when it is
\* given a frame.
LaFits == Len(la) <= LaCap
EncFits == fault = "none" => Cardinality(enc) <= IF pc = "recv" THEN EncCap ELSE EncCap - 1

\* the frames outside the packets
Buffered == Len(la) + Cardinality(enc) + (IF cur = 0 THEN 0 ELSE 1) + (IF Pending THEN 1 ELSE 0)

\* Without a loss every frame is in a packet or in one of the places, which
\* bounds what is unread in pts_queue.
Counted ==
  Lossless =>
    /\ mode # "closed" => newest = Len(pkts) + Buffered
    /\ rd + 1 >= Len(pkts) /\ (is_first_outframe => rd >= Len(pkts))
    /\ newest - rd <= LaCap + EncCap + 1
    /\ overrun => QueueCap <= LaCap + EncCap

-----------------------------------------------------------------------------
(* What a step does to the frames.                                         *)

Unmoved == UNCHANGED <<pts, la, enc, cur, pkts, dropped, rel, lost>> /\ Arriving' = Arriving

\* The lookahead, with the frames H, keeps them all or hands out the oldest.
Passes(H, n) ==
  /\ cur = 0 /\ Arriving' = {} /\ UNCHANGED <<pts, enc, pkts>>
  /\ la' \in Seq(Nat) /\ Ascending(la')
  /\ \/ cur' = 0 /\ Elems(la') = H /\ Len(la') = n
     \/ /\ cur' \in H /\ cur' # 0 /\ Elems(la') = H \ {cur'} /\ Len(la') = n - 1
        /\ \A f \in Elems(la') : cur' < f

\* ... having taken the frame that comes in, if there is one;
LaTakes == /\ Passes(Elems(la) \cup Arriving, IF Pending THEN Len(la) + 1 ELSE Len(la))
           /\ UNCHANGED <<dropped, rel, lost>>

\* ... or having let it go.
LaSkips == /\ Pending /\ Passes(Elems(la), Len(la))
           /\ dropped' = dropped \cup {newest} /\ Free(newest) /\ UNCHANGED lost

\* It loses frames that it gave back or was to be given, twice refused; one that
\* comes in may be released instead.
LaLoses ==
  /\ Arriving' = {} /\ cur = 0 /\ cur' = 0 /\ UNCHANGED <<pts, enc, pkts, dropped>>
  /\ fault' = "lookahead"
  /\ la' \in Seq(Nat) /\ Ascending(la') /\ Elems(la') \subseteq Elems(la) \cup Arriving
  /\ \/ lost' = lost \cup ((Elems(la) \cup Arriving) \ Elems(la')) /\ UNCHANGED rel
     \/ /\ Pending /\ newest \notin Elems(la') /\ Free(newest)
        /\ lost' = lost \cup (Elems(la) \ Elems(la'))

LaFails ==
  /\ Pending /\ Arriving' = {} /\ cur = 0 /\ cur' = 0 /\ UNCHANGED <<pts, enc, pkts, dropped, lost>>
  /\ fault' = "lookahead" /\ mode' = "failed"
  /\ la' \in Seq(Nat) /\ Ascending(la') /\ Elems(la') \in {Elems(la), Elems(la) \cup {newest}}
  /\ rel' \in Seq(Nat) /\ Len(rel') = Len(rel) /\ \A f \in 1..newest : f # newest => rel'[f] = rel[f]

ToEncoder ==
  /\ cur # 0 /\ cur' = 0 /\ enc' = enc \cup {cur} /\ Arriving' = {} /\ Arriving = {}
  /\ UNCHANGED <<pts, la, pkts, dropped, rel, lost>>

EncoderRefuses ==
  /\ cur # 0 /\ cur' = 0 /\ Arriving' = {} /\ Arriving = {} /\ fault' = "encoder"
  /\ dropped' \in {dropped, dropped \cup {cur}} /\ UNCHANGED <<pts, la, enc, pkts>>
  /\ \/ Free(cur) /\ UNCHANGED lost
     \/ lost' = lost \cup {cur} /\ UNCHANGED rel

\* A packet of frame f is given, with time stamp d.
Codes(f, d) ==
  /\ f \in Codable /\ cur = 0 /\ cur' = 0 /\ Arriving' = {} /\ Arriving = {}
  /\ pkts' = Append(pkts, [frame |-> f, pts |-> pts[f], dts |-> d])
  /\ enc' = enc \ {f} /\ Free(f) /\ UNCHANGED <<pts, la, dropped, lost>>

\* What xvbm_buffer_pool_entry_free does to the counts.
LEMMA AddAt ==
  ASSUME NEW s \in Seq(Nat), NEW f \in 1..Len(s)
  PROVE  \A k \in {1, 2} :
           /\ [s EXCEPT ![f] = @ + k] \in Seq(Nat) /\ Len([s EXCEPT ![f] = @ + k]) = Len(s)
           /\ [s EXCEPT ![f] = @ + k][f] = s[f] + k
           /\ \A g \in 1..Len(s) : g # f => [s EXCEPT ![f] = @ + k][g] = s[g]
<1> SUFFICES ASSUME NEW k \in {1, 2}
             PROVE  LET t == [s EXCEPT ![f] = @ + k]
                    IN t \in Seq(Nat) /\ Len(t) = Len(s) /\ t[f] = s[f] + k
                       /\ \A g \in 1..Len(s) : g # f => t[g] = s[g]
  OBVIOUS
<1> DEFINE t == [s EXCEPT ![f] = @ + k]
<1>1. s[f] + k \in Nat /\ Len(s) \in Nat /\ s \in [1..Len(s) -> Nat]
  OBVIOUS
<1>2. t \in [1..Len(s) -> Nat] /\ t[f] = s[f] + k /\ \A g \in 1..Len(s) : g # f => t[g] = s[g]
  BY <1>1
<1>3. t \in Seq(Nat) /\ Len(t) = Len(s)
  BY <1>1, <1>2
<1> QED
  BY <1>2, <1>3

\* What a packet does.
LEMMA PacketCodes ==
  ASSUME Control, RecvPacket
  PROVE  \E f \in Codable : Codes(f, mpsoc_vcu_encode_prepare_out_timestamp.dts)
<1>1. /\ cur = 0 /\ cur' = 0 /\ ~Pending /\ ~Pending' /\ UNCHANGED <<pts, la, dropped, lost>>
  BY DEF Control, RecvPacket, Return, Receiving, Pending, laVars
<1>2. PICK f \in Codable :
        /\ pkts' = Append(pkts, [frame |-> f, pts |-> pts[f],
                                 dts |-> mpsoc_vcu_encode_prepare_out_timestamp.dts])
        /\ enc' = enc \ {f} /\ Free(f)
  BY DEF RecvPacket
<1>3. Codes(f, mpsoc_vcu_encode_prepare_out_timestamp.dts)
  BY <1>1, <1>2 DEF Codes, Arriving
<1> QED
  BY <1>3

\* Every step is one of these.
LEMMA Moves ==
  ASSUME Base, [Next]_vars
  PROVE  \/ Unmoved
         \/ EncodeFrame
         \/ LaTakes /\ UNCHANGED fault
         \/ LaSkips /\ UNCHANGED fault
         \/ LaFails
         \/ LaLoses
         \/ ToEncoder /\ UNCHANGED fault
         \/ EncoderRefuses
         \/ RecvPacket   \* see PacketCodes
         \/ mpsoc_vcu_encode_close
<1>0. Typed /\ Control /\ Order
  BY DEF Base
<1>a. /\ la \in Seq(Nat) /\ Ascending(la) /\ newest \in Nat /\ Len(la) \in Nat
      /\ \A f \in Elems(la) : f \in Nat /\ f # 0
      /\ Pending => newest # 0 /\ \A f \in Elems(la) : f < newest
      /\ Arriving = IF Pending THEN {newest} ELSE {}
  BY <1>0 DEF Typed, Order, newest, Arriving
<1>b. \A held \in Seq(Nat) : Ascending(held) /\ held # <<>> =>
        /\ Tail(held) \in Seq(Nat) /\ Ascending(Tail(held)) /\ Len(Tail(held)) = Len(held) - 1
        /\ Head(held) \in Elems(held) /\ Elems(Tail(held)) = Elems(held) \ {Head(held)}
        /\ \A e \in Elems(Tail(held)) : Head(held) < e
  BY TailAscending
<1>c. Pending => /\ Append(la, newest) \in Seq(Nat) /\ Ascending(Append(la, newest))
                 /\ Elems(Append(la, newest)) = Elems(la) \cup {newest}
                 /\ Len(Append(la, newest)) = Len(la) + 1 /\ Append(la, newest) # <<>>
  BY <1>a, AppendAscending
<1> USE DEF apiVars, tsVars, laVars, encVars
<1>1. CASE SendNull \/ Receive \/ RecvNoMem \/ RecvError \/ RecvAgain \/ FlushSend
           \/ FlushSendError \/ FlushRecvNothing \/ LaErrorDrain
  <2>1. UNCHANGED <<pts, la, enc, pkts, dropped, rel, lost>> /\ cur' = cur /\ ~Pending /\ ~Pending'
    BY <1>0, <1>1 DEF Control, SendNull, Receive, RecvNoMem, RecvError, RecvAgain, FlushSend,
       FlushSendError, FlushRecvNothing, LaErrorDrain, Pending, Return, ReturnEof, Receiving, Crash
  <2> QED
    BY <2>1 DEF Unmoved, Arriving
<1>3. CASE LaBypass
  <2>1. /\ UNCHANGED <<pts, la, enc, pkts, dropped, rel, lost, fault>> /\ ~Pending' /\ cur = 0 /\ la = <<>>
        /\ cur' = IF Pending THEN newest ELSE 0
    BY <1>0, <1>3 DEF Control, LaBypass, Pending
  <2>2. Elems(la) = {} /\ Len(la) = 0
    BY <2>1, EmptyAscending
  <2>3. LaTakes
    <3>1. Passes(Elems(la) \cup Arriving, IF Pending THEN Len(la) + 1 ELSE Len(la))
      <4>1. CASE Pending
        BY <1>a, <2>1, <2>2, <4>1 DEF Passes, Arriving
      <4>2. CASE ~Pending
        BY <1>a, <2>1, <2>2, <4>2 DEF Passes, Arriving
      <4> QED
        BY <4>1, <4>2
    <3> QED
      BY <2>1, <3>1 DEF LaTakes
  <2> QED
    BY <2>1, <2>3
<1>4. ASSUME NEW held \in Seq(Nat), Ascending(held), LaRecv(held), Pending,
             \A f \in Elems(held) : f # 0, UNCHANGED <<pts, enc, pkts>>
      PROVE  Passes(Elems(held), Len(held))
  <2>0. cur = 0 /\ ~Pending' /\ Arriving' = {} /\ Len(held) \in Nat
    <3>1. cur = 0 /\ pc' # "la"
      BY <1>0, <1>4 DEF Control, Pending, LaRecv, Return
    <3>2. Len(held) \in Nat
      BY <1>4
    <3> QED
      BY <3>1, <3>2 DEF Pending, Arriving
  <2>1. CASE la' = held /\ Return(FALSE)
    BY <1>4, <2>0, <2>1 DEF Passes, Return
  <2>2. CASE Len(held) > LaDepth /\ cur' = Head(held) /\ la' = Tail(held)
    <3>1. held # <<>>
      BY <2>2, LookaheadAssumption, EmptyAscending
    <3> QED
      BY <1>4, <1>b, <2>0, <2>2, <3>1 DEF Passes
  <2> QED
    BY <1>4, <2>1, <2>2 DEF LaRecv
<1>5. CASE LaSendFrame
  <2>1. Pending /\ LaRecv(Append(la, newest)) /\ UNCHANGED <<pts, enc, pkts, dropped, rel, lost, fault>>
    BY <1>5 DEF LaSendFrame, Pending
  <2>2. Passes(Elems(la) \cup {newest}, Len(la) + 1)
    BY <1>4, <1>a, <1>c, <2>1
  <2> QED
    BY <1>a, <2>1, <2>2 DEF LaTakes
<1>6. CASE LaSendSkipped
  <2>1. /\ Pending /\ LaRecv(la) /\ UNCHANGED <<pts, enc, pkts, lost, fault>>
        /\ dropped' = dropped \cup {newest} /\ Free(newest)
    BY <1>6 DEF LaSendSkipped, Pending
  <2>2. Passes(Elems(la), Len(la))
    BY <1>4, <1>a, <2>1
  <2> QED
    BY <2>1, <2>2 DEF LaSkips
<1>7. CASE LaSendAgain
  <2>1. /\ Pending /\ UNCHANGED <<pts, enc, pkts, dropped, rel, lost, fault>> /\ ~Pending' /\ cur = 0
        /\ cur' = Head(la) /\ la' = Append(Tail(la), newest)
    BY <1>0, <1>7 DEF LaSendAgain, Pending, Control
  <2>2. la # <<>>
    BY <1>7, <1>a, LookaheadAssumption, EmptyAscending DEF LaSendAgain
  <2>3. /\ Tail(la) \in Seq(Nat) /\ Ascending(Tail(la)) /\ Len(Tail(la)) = Len(la) - 1
        /\ Head(la) \in Elems(la) /\ Elems(Tail(la)) = Elems(la) \ {Head(la)}
        /\ \A e \in Elems(Tail(la)) : Head(la) < e
    BY <1>a, <1>b, <2>2
  <2>4. /\ Append(Tail(la), newest) \in Seq(Nat) /\ Ascending(Append(Tail(la), newest))
        /\ Elems(Append(Tail(la), newest)) = Elems(Tail(la)) \cup {newest}
        /\ Len(Append(Tail(la), newest)) = Len(Tail(la)) + 1
    BY <1>a, <2>1, <2>3, AppendAscending
  <2>5. Passes(Elems(la) \cup {newest}, Len(la) + 1)
    <3>1. /\ la' \in Seq(Nat) /\ Ascending(la') /\ Len(la') = (Len(la) + 1) - 1
          /\ cur' \in Elems(la) \cup {newest} /\ cur' # 0
      BY <1>a, <2>1, <2>3, <2>4
    <3>2. Elems(la') = (Elems(la) \cup {newest}) \ {cur'} /\ \A f \in Elems(la') : cur' < f
      <4>1. Head(la) < newest /\ Head(la) # newest
        BY <1>a, <2>1, <2>3
      <4>2. Elems(la') = (Elems(la) \ {Head(la)}) \cup {newest} /\ cur' = Head(la)
        BY <2>1, <2>3, <2>4
      <4> QED
        BY <2>3, <4>1, <4>2
    <3>3. Arriving' = {}
      BY <2>1 DEF Arriving
    <3> QED
      BY <2>1, <3>1, <3>2, <3>3 DEF Passes
  <2> QED
    BY <1>a, <2>1, <2>5 DEF LaTakes
<1>8. CASE LaDrain
  <2>1. ~Pending /\ ~Pending' /\ cur = 0 /\ UNCHANGED <<pts, enc, pkts, dropped, rel, lost, fault>>
    BY <1>0, <1>8 DEF Control, LaDrain, Pending
  <2>2. CASE UNCHANGED <<cur, la>>
    BY <1>8, <2>1, <2>2 DEF LaDrain, Unmoved, Arriving
  <2>3. CASE la # <<>> /\ cur' = Head(la) /\ la' = Tail(la)
    <3>1. la # <<>> /\ cur' = Head(la) /\ la' = Tail(la)
      BY <2>3
    <3>2. Passes(Elems(la), Len(la))
      BY <1>a, <1>b, <2>1, <2>3, <3>1 DEF Passes, Arriving
    <3>3. Elems(la) \cup Arriving = Elems(la)
      BY <2>1 DEF Arriving
    <3> QED
      BY <2>1, <3>2, <3>3 DEF LaTakes
  <2> QED
    BY <1>8, <2>2, <2>3 DEF LaDrain
<1>15. CASE LaSendAgainFails \/ LaDrainAgainFails
  <2>1. /\ ~Pending' /\ cur = 0 /\ cur' = 0 /\ UNCHANGED <<pts, enc, pkts, dropped>>
        /\ fault' = "lookahead"
    BY <1>0, <1>15 DEF Control, LaSendAgainFails, LaDrainAgainFails, Pending, Return, ReturnError,
       StartFlush, Happens
  <2>2. Arriving' = {}
    BY <2>1 DEF Arriving
  <2>3. la # <<>> => /\ Tail(la) \in Seq(Nat) /\ Ascending(Tail(la)) /\ Head(la) \in Elems(la)
                     /\ Elems(Tail(la)) = Elems(la) \ {Head(la)}
    BY <1>a, <1>b
  <2>4. CASE LaSendAgainFails
    <3>0. Pending /\ Arriving = {newest} /\ newest \notin Elems(la)
      BY <1>a, <2>4 DEF LaSendAgainFails, Pending
    <3>1. CASE la' = la /\ lost' = lost \cup {newest} /\ UNCHANGED rel
      <4>1. (Elems(la) \cup Arriving) \ Elems(la') = {newest}
        BY <3>0, <3>1
      <4> QED
        BY <1>a, <2>1, <2>2, <3>1, <4>1 DEF LaLoses
    <3>2. CASE la # <<>> /\ la' = Tail(la) /\ lost' = lost \cup {Head(la)} /\ Free(newest)
      <4>1. Elems(la) \ Elems(la') = {Head(la)} /\ newest \notin Elems(la')
            /\ Elems(la') \subseteq Elems(la)
        BY <2>3, <3>0, <3>2
      <4> QED
        BY <2>1, <2>2, <2>3, <3>0, <3>2, <4>1 DEF LaLoses
    <3>3. CASE la # <<>> /\ la' = Tail(la) /\ lost' = lost \cup {Head(la), newest} /\ UNCHANGED rel
      <4>1. (Elems(la) \cup Arriving) \ Elems(la') = {Head(la), newest}
            /\ Elems(la') \subseteq Elems(la)
        BY <2>3, <3>0, <3>3
      <4> QED
        BY <2>1, <2>2, <2>3, <3>3, <4>1 DEF LaLoses
    <3>4. CASE /\ la # <<>> /\ la' = Append(Tail(la), newest) /\ lost' = lost \cup {Head(la)}
               /\ UNCHANGED rel
      <4>0. \A f \in Elems(Tail(la)) : f < newest
        BY <1>a, <2>3, <3>0, <3>4
      <4>1. /\ Append(Tail(la), newest) \in Seq(Nat) /\ Ascending(Append(Tail(la), newest))
            /\ Elems(Append(Tail(la), newest)) = Elems(Tail(la)) \cup {newest}
        BY <1>a, <2>3, <3>4, <4>0, AppendAscending
      <4>2. (Elems(la) \cup Arriving) \ Elems(la') = {Head(la)}
            /\ Elems(la') \subseteq Elems(la) \cup Arriving
        BY <2>3, <3>0, <3>4, <4>1
      <4> QED
        BY <2>1, <2>2, <3>4, <4>1, <4>2 DEF LaLoses
    <3> QED
      BY <2>4, <3>1, <3>2, <3>3, <3>4 DEF LaSendAgainFails
  <2>5. CASE LaDrainAgainFails
    <3>1. /\ Arriving = {} /\ la # <<>> /\ la' = Tail(la) /\ lost' = lost \cup {Head(la)}
          /\ UNCHANGED rel
      BY <1>15, <2>5 DEF LaDrainAgainFails, Pending, Arriving
    <3>2. (Elems(la) \cup Arriving) \ Elems(la') = {Head(la)} /\ Elems(la') \subseteq Elems(la)
      BY <2>3, <3>1
    <3> QED
      BY <2>1, <2>2, <2>3, <3>1, <3>2 DEF LaLoses
  <2> QED
    BY <1>15, <2>4, <2>5
<1>9. CASE LaError
  <2>1. /\ Pending /\ ~Pending' /\ cur = 0 /\ cur' = 0 /\ UNCHANGED <<pts, enc, pkts, dropped, lost>>
        /\ fault' = "lookahead" /\ mode' = "failed"
    BY <1>0, <1>9 DEF Control, LaError, Pending, ReturnError, Happens
  <2>2. la' \in Seq(Nat) /\ Ascending(la') /\ Elems(la') \in {Elems(la), Elems(la) \cup {newest}}
    BY <1>9, <1>a, <1>c, <2>1 DEF LaError
  <2>3. rel' \in Seq(Nat) /\ Len(rel') = Len(rel) /\ \A f \in 1..newest : f # newest => rel'[f] = rel[f]
    <3>1. rel \in Seq(Nat) /\ Len(rel) = newest /\ newest \in 1..Len(rel)
      BY <1>0, <1>a, <2>1 DEF Typed, newest
    <3>2. rel' = [rel EXCEPT ![newest] = @ + 1] \/ rel' = [rel EXCEPT ![newest] = @ + 2]
      BY <1>9 DEF LaError, Free
    <3>3. \A k \in {1, 2} :
            /\ [rel EXCEPT ![newest] = @ + k] \in Seq(Nat)
            /\ Len([rel EXCEPT ![newest] = @ + k]) = Len(rel)
            /\ \A g \in 1..Len(rel) : g # newest => [rel EXCEPT ![newest] = @ + k][g] = rel[g]
      BY <3>1, AddAt
    <3> QED
      BY <3>1, <3>2, <3>3
  <2> QED
    BY <2>1, <2>2, <2>3 DEF LaFails, Arriving
<1>11. CASE EncSend
  <2>1. /\ cur # 0 /\ cur' = 0 /\ enc' = enc \cup {cur} /\ ~Pending /\ ~Pending'
        /\ UNCHANGED <<pts, la, pkts, dropped, rel, lost, fault>>
    BY <1>0, <1>11 DEF Control, EncSend, Return, Pending
  <2> QED
    BY <2>1 DEF ToEncoder, Arriving
<1>12. CASE EncSendError
  <2>1. /\ cur # 0 /\ cur' = 0 /\ ~Pending /\ ~Pending' /\ fault' = "encoder"
        /\ dropped' \in {dropped, dropped \cup {cur}} /\ UNCHANGED <<pts, la, enc, pkts>>
        /\ (Free(cur) /\ UNCHANGED lost) \/ (lost' = lost \cup {cur} /\ UNCHANGED rel)
    BY <1>0, <1>12 DEF Control, EncSendError, ReturnError, Pending, Happens
  <2> QED
    BY <2>1 DEF EncoderRefuses, Arriving
<1>13. CASE RecvPacket
  BY <1>13
<1>14. CASE Finished \/ UNCHANGED vars
  <2>1. UNCHANGED vars
    BY <1>14 DEF Finished
  <2> QED
    BY <2>1 DEF vars, Unmoved, Arriving, Pending, newest
<1> QED
  BY <1>1, <1>3, <1>5, <1>6, <1>7, <1>8, <1>9, <1>11, <1>12, <1>13, <1>14, <1>15
     DEF Next, mpsoc_vcu_encode_frame, xlnx_la_send_recv_frame, EncoderSession, Fault

\* The time stamps change with a frame and with a packet only.
LEMMA TsMoves ==
  ASSUME [Next]_vars
  PROVE  EncodeFrame \/ RecvPacket \/ UNCHANGED <<pts, rd, is_first_outframe, overrun>>
BY DEF Next, mpsoc_vcu_encode_frame, xlnx_la_send_recv_frame, EncoderSession, Fault, vars, tsVars,
       SendNull, Receive, LaBypass, LaSendFrame, LaSendSkipped, LaSendAgain, LaDrain, LaError,
       LaErrorDrain, LaSendAgainFails, LaDrainAgainFails, EncSend, EncSendError, RecvNoMem, RecvError, RecvAgain, FlushSend,
       FlushSendError, FlushRecvNothing, mpsoc_vcu_encode_close, Finished

\* The four ways a packet gets its dts.
LEMMA StampIs ==
  LET ts == mpsoc_vcu_encode_prepare_out_timestamp
      first == Len(pts) > 1 /\ BFrames > 0 /\ is_first_outframe
  IN \/ first /\ DeltaFits /\ ts.dts = 2 * pts_0 - pts_1 /\ ts.rd = rd /\ ts.first = FALSE
     \/ first /\ ~DeltaFits /\ ts.dts = NOPTS /\ ts.rd = rd /\ ts.first = TRUE
     \/ ~first /\ rd < Len(pts) /\ ts.dts = Dequeued /\ ts.rd = rd + 1
        /\ ts.first = is_first_outframe
     \/ ~first /\ ~(rd < Len(pts)) /\ ts.dts = NOPTS /\ ts.rd = rd
        /\ ts.first = is_first_outframe
BY DEF mpsoc_vcu_encode_prepare_out_timestamp, mpsoc_vcu_encode_dequeue_pts, Stamp

\* A new frame at the end of the input.
LEMMA FrameArrives ==
  ASSUME Typed, EncodeFrame
  PROVE  /\ newest \in Nat /\ newest' = newest + 1 /\ Len(rel) = newest /\ Len(rel') = newest + 1
         /\ pts' \in Seq(Int) /\ rel' \in Seq(Nat) /\ rel'[newest + 1] = 0
         /\ \A i \in 1..newest : pts'[i] = pts[i] /\ rel'[i] = rel[i]
         /\ newest > 0 => pts[newest] < pts'[newest + 1]
         /\ Pending' /\ ~Pending /\ Arriving' = {newest + 1} /\ Arriving = {}
         /\ UNCHANGED <<mode, cur, rd, is_first_outframe, la, enc, pkts, dropped, lost, fault>>
<1>1. PICK p \in (TsMin + 1)..TsMax :
        (pts # <<>> => p - pts[Len(pts)] \in 1..MaxGap) /\ pts' = Append(pts, p)
  BY DEF EncodeFrame
<1>2. p \in Int /\ Len(pts) \in Nat /\ pts' \in Seq(Int) /\ Len(pts') = Len(pts) + 1
      /\ pts'[Len(pts) + 1] = p /\ \A i \in 1..Len(pts) : pts'[i] = pts[i] /\ pts[i] \in Int
  BY <1>1, TimeAssumption DEF Typed
<1>3. newest > 0 => pts[newest] < pts'[newest + 1]
  <2> SUFFICES ASSUME newest > 0 PROVE pts[newest] < pts'[newest + 1]
    OBVIOUS
  <2>1. pts # <<>> /\ newest \in 1..Len(pts)
    BY <1>2, EmptyAscending DEF newest
  <2>2. p - pts[newest] \in 1..MaxGap /\ pts[newest] \in Int
    BY <1>1, <1>2, <2>1 DEF newest
  <2> QED
    BY <1>2, <2>2, TimeAssumption DEF newest
<1>4. rel' = Append(rel, 0) /\ rel \in Seq(Nat) /\ Len(rel) = Len(pts)
  BY DEF EncodeFrame, Typed
<1>5. rel' \in Seq(Nat) /\ Len(rel') = Len(pts) + 1 /\ rel'[Len(pts) + 1] = 0
      /\ \A i \in 1..Len(pts) : rel'[i] = rel[i]
  BY <1>4
<1>6. Pending' /\ ~Pending
  BY DEF Pending, EncodeFrame
<1>7. UNCHANGED <<mode, cur, rd, is_first_outframe, la, enc, pkts, dropped, lost, fault>>
  BY DEF EncodeFrame, laVars, encVars
<1> QED
  BY <1>2, <1>3, <1>4, <1>5, <1>6, <1>7 DEF newest, Arriving

\* The count of the frame released goes up, no other changes.
LEMMA Freed ==
  ASSUME Typed, NEW f \in 1..newest, Free(f)
  PROVE  /\ rel' \in Seq(Nat) /\ Len(rel') = newest /\ rel'[f] = rel[f] + 1
         /\ \A g \in 1..newest : g # f => rel'[g] = rel[g]
<1>1. rel \in Seq(Nat) /\ f \in 1..Len(rel) /\ Len(rel) = newest /\ rel' = [rel EXCEPT ![f] = @ + 1]
  BY DEF Typed, newest, Free
<1>2. /\ [rel EXCEPT ![f] = @ + 1] \in Seq(Nat) /\ Len([rel EXCEPT ![f] = @ + 1]) = Len(rel)
      /\ [rel EXCEPT ![f] = @ + 1][f] = rel[f] + 1
      /\ \A g \in 1..Len(rel) : g # f => [rel EXCEPT ![f] = @ + 1][g] = rel[g]
  BY <1>1, AddAt
<1> QED
  BY <1>1, <1>2

\* A close releases what the sessions hold.
LEMMA Closed ==
  ASSUME Base, mpsoc_vcu_encode_close
  PROVE  /\ cur = 0 /\ cur' = 0 /\ ~Pending /\ ~Pending' /\ la' = <<>> /\ enc' = {}
         /\ mode \in {"eof", "failed"} /\ mode' = "closed"
         /\ rel' \in Seq(Nat) /\ Len(rel') = newest /\ newest' = newest
         /\ \A f \in 1..newest : rel'[f] = rel[f] + (IF f \in Inside THEN 1 ELSE 0)
         /\ UNCHANGED <<pts, pkts, dropped, lost, fault>>
<1>0. Typed /\ Control /\ Order
  BY DEF Base
<1>1. /\ mode \in {"eof", "failed"} /\ mode' = "closed" /\ la' = <<>> /\ enc' = {}
      /\ rel' = [f \in DOMAIN rel |-> rel[f] + Held(f)]
      /\ UNCHANGED <<call, pc, cur, pts, pkts, dropped, lost, fault>>
  BY DEF mpsoc_vcu_encode_close, tsVars
<1>2. pc = "idle" /\ cur = 0
  BY <1>0, <1>1 DEF Control
<1>3. ~Pending /\ ~Pending' /\ Inside = Elems(la) \cup enc
  BY <1>1, <1>2 DEF Pending, Inside, InHand, Arriving
<1>4. \A f : Held(f) = IF f \in Inside THEN 1 ELSE 0
  <2>1. la \in Seq(Nat) /\ DOMAIN la = 1..Len(la)
    BY <1>0 DEF Typed
  <2> QED
    BY <1>3, <2>1 DEF Held, Elems
<1>5. rel \in [1..newest -> Nat] /\ newest \in Nat /\ DOMAIN rel = 1..newest
  BY <1>0 DEF Typed, newest
<1>6. rel' \in [1..newest -> Nat]
      /\ \A f \in 1..newest : rel'[f] = rel[f] + (IF f \in Inside THEN 1 ELSE 0)
  BY <1>1, <1>4, <1>5
<1>7. rel' \in Seq(Nat) /\ Len(rel') = newest
  BY <1>5, <1>6
<1> QED
  BY <1>1, <1>2, <1>3, <1>6, <1>7 DEF newest

\* The frame of a packet comes out of the encoder.
LEMMA CodedFrame ==
  ASSUME Base, NEW f \in Codable
  PROVE  f \in enc /\ f \in 1..newest /\ f \in Nat /\ pts[f] \in Int
<1>1. f \in enc
  BY DEF Codable
<1> QED
  BY <1>1 DEF Base, Typed, Order, newest

\* The dts and the new read position have their types.
LEMMA StampTyped ==
  ASSUME Typed
  PROVE  LET ts == mpsoc_vcu_encode_prepare_out_timestamp
         IN ts.dts \in Int /\ ts.rd \in Nat /\ ts.rd <= Len(pts)
<1>1. pts \in Seq(Int) /\ rd \in Nat /\ rd <= Len(pts) /\ Len(pts) \in Nat
  BY DEF Typed
<1>2. Len(pts) > 1 => pts_0 \in Int /\ pts_1 \in Int /\ 2 * pts_0 - pts_1 \in Int
  BY <1>1 DEF pts_0, pts_1
<1>3. rd < Len(pts) => Dequeued \in Int
  BY <1>1, DequeuedIs
<1>4. NOPTS \in Int
  BY TimeAssumption DEF NOPTS
<1> DEFINE ts == mpsoc_vcu_encode_prepare_out_timestamp
<1>5. \/ Len(pts) > 1 /\ ts.dts = 2 * pts_0 - pts_1 /\ ts.rd = rd
      \/ ts.dts = NOPTS /\ ts.rd = rd
      \/ rd < Len(pts) /\ ts.dts = Dequeued /\ ts.rd = rd + 1
  BY StampIs
<1> HIDE DEF ts
<1>6. ts.dts \in Int /\ ts.rd \in Nat /\ ts.rd <= Len(pts)
  BY <1>1, <1>2, <1>3, <1>4, <1>5
<1> QED
  BY <1>6 DEF ts

\* Types are kept.
LEMMA TypedStep == Base /\ [Next]_vars => Typed'
<1> SUFFICES ASSUME Base, [Next]_vars PROVE Typed'
  OBVIOUS
<1>0. Typed /\ Control /\ Order /\ newest \in Nat /\ newest = Len(pts)
  BY DEF Base, Typed, newest
<1>1. CASE EncodeFrame
  <2>1. rd <= newest + 1 /\ Len(pts') = newest + 1
    BY <1>0, <1>1, FrameArrives DEF Typed, newest
  <2> QED
    BY <1>0, <1>1, <2>1, FrameArrives DEF Typed
<1>2. CASE RecvPacket
  <2>1. PICK f \in Codable : Codes(f, mpsoc_vcu_encode_prepare_out_timestamp.dts)
    BY <1>0, <1>2, PacketCodes
  <2>2. rd' = mpsoc_vcu_encode_prepare_out_timestamp.rd
    BY <1>2 DEF RecvPacket
  <2>3. f \in enc /\ f \in 1..newest /\ f \in Nat /\ pts[f] \in Int
    BY CodedFrame
  <2>4. pkts' \in Seq([frame : Nat, pts : Int, dts : Int])
    BY <1>0, <2>1, <2>3, StampTyped DEF Codes, Typed
  <2>5. rel' \in Seq(Nat) /\ Len(rel') = newest
    BY <1>0, <2>1, <2>3, Freed DEF Codes
  <2>6. rd' \in Nat /\ rd' <= Len(pts)
    BY <1>0, <2>2, StampTyped
  <2> QED
    BY <1>0, <2>1, <2>4, <2>5, <2>6 DEF Codes, Typed
<1>3. CASE UNCHANGED <<pts, rd, is_first_outframe, overrun>>
  <2>1. CASE Unmoved
    BY <1>0, <1>3, <2>1 DEF Unmoved, Typed
  <2>2. CASE LaTakes
    <3>1. (\A f \in Arriving : f \in Nat) /\ (\A f \in Elems(la) : f \in Nat)
      BY <1>0 DEF Arriving, Order
    <3>a. cur' = 0 \/ cur' \in Elems(la) \/ cur' \in Arriving
      BY <2>2 DEF LaTakes, Passes
    <3>2. cur' \in Nat
      BY <3>1, <3>a
    <3> QED
      BY <1>0, <1>3, <2>2, <3>2 DEF LaTakes, Passes, Typed
  <2>3. CASE LaSkips
    <3>0. Elems(la) \in SUBSET Nat
      BY <1>0 DEF Order
    <3>1. newest \in 1..newest
      BY <1>0, <2>3 DEF LaSkips, Order
    <3>2. rel' \in Seq(Nat) /\ Len(rel') = newest
      BY <1>0, <2>3, <3>1, Freed DEF LaSkips
    <3>3. cur' \in Nat
      BY <2>3, <3>0 DEF LaSkips, Passes
    <3> QED
      BY <1>0, <1>3, <2>3, <3>1, <3>2, <3>3 DEF LaSkips, Passes, Typed
  <2>4. CASE LaFails
    BY <1>0, <1>3, <2>4 DEF LaFails, Typed
  <2>5. CASE ToEncoder
    BY <1>0, <1>3, <2>5 DEF ToEncoder, Typed
  <2>6. CASE EncoderRefuses
    <3>1. cur \in 1..newest
      BY <1>0, <2>6 DEF EncoderRefuses, Order, Typed
    <3>2. rel' \in Seq(Nat) /\ Len(rel') = newest
      <4>1. CASE Free(cur)
        BY <1>0, <3>1, <4>1, Freed
      <4>2. CASE rel' = rel
        BY <1>0, <4>2 DEF Typed
      <4> QED
        BY <2>6, <4>1, <4>2 DEF EncoderRefuses
    <3> QED
      BY <1>0, <1>3, <2>6, <3>1, <3>2 DEF EncoderRefuses, Typed
  <2>8. CASE LaLoses
    <3>2. rel' \in Seq(Nat) /\ Len(rel') = newest
      <4>1. CASE Pending /\ Free(newest)
        <5>1. newest \in 1..newest
          BY <1>0, <4>1 DEF Order
        <5> QED
          BY <1>0, <4>1, <5>1, Freed
      <4>2. CASE rel' = rel
        BY <1>0, <4>2 DEF Typed
      <4> QED
        BY <2>8, <4>1, <4>2 DEF LaLoses
    <3> QED
      BY <1>0, <1>3, <2>8, <3>2 DEF LaLoses, Typed
  <2>7. CASE mpsoc_vcu_encode_close
    BY <1>0, <1>3, <2>7, Closed, EmptyAscending DEF Typed
  <2> QED
    BY <1>1, <1>2, <2>1, <2>2, <2>3, <2>4, <2>5, <2>6, <2>7, <2>8, Moves
<1> QED
  BY <1>1, <1>2, <1>3, TsMoves

-----------------------------------------------------------------------------
\* What the lookahead hands out is one of the frames it had.
LEMMA PassedFrame ==
  ASSUME NEW H, NEW n, Passes(H, n)
  PROVE  Elems(la') \cup InHand' = H
BY DEF Passes, InHand

\* The frames inside, after each kind of step.
LEMMA InsideMoves ==
  ASSUME Base
  PROVE  /\ Unmoved => Inside' = Inside
         /\ EncodeFrame => Inside' = Inside \cup {newest + 1}
         /\ LaTakes => Inside' = Inside
         /\ LaSkips => Inside' = Inside \ {newest} /\ newest \in Inside
         /\ LaFails => Inside' \ {newest} = Inside \ {newest}
         /\ LaLoses => Inside' = Inside \ ((Elems(la) \cup Arriving) \ Elems(la'))
         /\ ToEncoder => Inside' = Inside
         /\ EncoderRefuses => Inside' = Inside \ {cur} /\ cur \in Inside
         /\ \A f, d : Codes(f, d) => Inside' = Inside \ {f} /\ f \in Inside
         /\ mpsoc_vcu_encode_close => Inside' = {}
<1>0. Typed /\ Control /\ Order /\ newest \in Nat
  BY DEF Base, Typed, newest
<1>1. Unmoved => Inside' = Inside
  BY DEF Unmoved, Inside, InHand
<1>2. EncodeFrame => Inside' = Inside \cup {newest + 1}
  <2> SUFFICES ASSUME EncodeFrame PROVE Inside' = Inside \cup {newest + 1}
    OBVIOUS
  <2>1. UNCHANGED <<la, enc, cur>> /\ Arriving' = {newest + 1} /\ Arriving = {}
    BY <1>0, FrameArrives
  <2> QED
    BY <2>1 DEF Inside, InHand
<1>3. LaTakes => Inside' = Inside
  <2> SUFFICES ASSUME LaTakes PROVE Inside' = Inside
    OBVIOUS
  <2>1. Elems(la') \cup InHand' = Elems(la) \cup Arriving
    BY PassedFrame DEF LaTakes
  <2>2. enc' = enc /\ InHand = {} /\ Arriving' = {}
    BY DEF LaTakes, Passes, InHand
  <2> QED
    BY <2>1, <2>2 DEF Inside
<1>4. LaSkips => Inside' = Inside \ {newest} /\ newest \in Inside
  <2> SUFFICES ASSUME LaSkips PROVE Inside' = Inside \ {newest} /\ newest \in Inside
    OBVIOUS
  <2>1. Elems(la') \cup InHand' = Elems(la)
    BY PassedFrame DEF LaSkips
  <2>2. enc' = enc /\ InHand = {} /\ Arriving' = {} /\ Arriving = {newest} /\ Pending
    BY DEF LaSkips, Passes, InHand, Arriving
  <2>3. newest \notin Elems(la) \cup enc
    BY <1>0, <2>2 DEF Order
  <2> QED
    BY <2>1, <2>2, <2>3 DEF Inside
<1>5. LaFails => Inside' \ {newest} = Inside \ {newest}
  <2> SUFFICES ASSUME LaFails PROVE Inside' \ {newest} = Inside \ {newest}
    OBVIOUS
  <2>1. enc' = enc /\ InHand = {} /\ InHand' = {} /\ Arriving' = {} /\ Arriving = {newest}
        /\ Elems(la') \in {Elems(la), Elems(la) \cup {newest}}
    BY DEF LaFails, InHand, Arriving
  <2> QED
    BY <2>1 DEF Inside
<1>10. LaLoses => Inside' = Inside \ ((Elems(la) \cup Arriving) \ Elems(la'))
  <2> SUFFICES ASSUME LaLoses PROVE Inside' = Inside \ ((Elems(la) \cup Arriving) \ Elems(la'))
    OBVIOUS
  <2>1. enc' = enc /\ InHand = {} /\ InHand' = {} /\ Arriving' = {}
        /\ Elems(la') \subseteq Elems(la) \cup Arriving
    BY DEF LaLoses, InHand
  <2>2. \A f \in Elems(la) \cup Arriving : f \notin enc
    BY <1>0 DEF Order, Arriving, Typed
  <2> QED
    BY <2>1, <2>2 DEF Inside
<1>6. ToEncoder => Inside' = Inside
  BY DEF ToEncoder, Inside, InHand
<1>7. EncoderRefuses => Inside' = Inside \ {cur} /\ cur \in Inside
  <2> SUFFICES ASSUME EncoderRefuses PROVE Inside' = Inside \ {cur} /\ cur \in Inside
    OBVIOUS
  <2>1. cur # 0 /\ cur' = 0 /\ UNCHANGED <<la, enc>> /\ Arriving = {} /\ Arriving' = {}
    BY DEF EncoderRefuses
  <2>2. cur \notin Elems(la) /\ cur \notin enc
    BY <1>0, <2>1 DEF Order, Typed
  <2> QED
    BY <2>1, <2>2 DEF Inside, InHand
<1>8. ASSUME NEW f, NEW d, Codes(f, d) PROVE Inside' = Inside \ {f} /\ f \in Inside
  <2>1. /\ f \in enc /\ enc' = enc \ {f} /\ la' = la /\ cur = 0 /\ cur' = 0
        /\ Arriving = {} /\ Arriving' = {}
    BY <1>8 DEF Codes, Codable
  <2>2. f \notin Elems(la)
    BY <1>0, <2>1 DEF Order, Typed
  <2> QED
    BY <2>1, <2>2 DEF Inside, InHand
<1>9. mpsoc_vcu_encode_close => Inside' = {}
  <2> SUFFICES ASSUME mpsoc_vcu_encode_close PROVE Inside' = {}
    OBVIOUS
  <2>1. la' = <<>> /\ enc' = {} /\ cur' = 0 /\ ~Pending'
    BY Closed
  <2> QED
    BY <2>1, EmptyAscending DEF Inside, InHand, Arriving
<1> QED
  BY <1>1, <1>2, <1>3, <1>4, <1>5, <1>6, <1>7, <1>8, <1>9, <1>10

\* The pipelines stay in order: frames leave the lookahead oldest first.
LEMMA OrderStep == Base /\ [Next]_vars => Order'
<1> SUFFICES ASSUME Base, [Next]_vars PROVE Order'
  OBVIOUS
<1>0. Typed /\ Control /\ Order /\ newest \in Nat /\ cur \in Nat
  BY DEF Base, Typed, newest
<1>1. CASE Unmoved
  <2>1. newest' = newest /\ (Pending' => Pending)
    BY <1>1 DEF Unmoved, newest, Arriving
  <2> QED
    BY <1>0, <1>1, <2>1 DEF Unmoved, Order
<1>2. CASE EncodeFrame
  <2>1. UNCHANGED <<la, enc, cur>> /\ newest' = newest + 1 /\ ~Pending
    BY <1>0, <1>2, FrameArrives
  <2>2. Ascending(la') /\ (\A f \in Elems(la') : f \in 1..newest)
        /\ (\A e \in enc' : e \in 1..newest /\ \A f \in Elems(la') : e < f)
    BY <1>0, <2>1 DEF Order
  <2>3. cur' <= newest'
    BY <1>0, <2>1 DEF Order
  <2>4. cur' # 0 => (\A e \in enc' : e < cur') /\ (\A f \in Elems(la') : cur' < f)
    BY <1>0, <2>1 DEF Order
  <2> QED
    BY <1>0, <2>1, <2>2, <2>3, <2>4 DEF Order
<1>3. ASSUME NEW H, NEW n, Passes(H, n),
             \A f \in H : f \in 1..newest /\ \A e \in enc : e < f
      PROVE  Order'
  <2>1. newest' = newest /\ enc' = enc /\ ~Pending'
    BY <1>3 DEF Passes, newest, Arriving
  <2>2. \A f \in Elems(la') : f \in H
    BY <1>3 DEF Passes
  <2>3. cur' # 0 => cur' \in H /\ \A f \in Elems(la') : cur' < f
    BY <1>3 DEF Passes
  <2>4. Ascending(la')
    BY <1>3 DEF Passes
  <2>5. cur' <= newest'
    BY <1>0, <1>3, <2>1, <2>3
  <2> QED
    BY <1>0, <1>3, <2>1, <2>2, <2>3, <2>4, <2>5 DEF Order
<1>4. CASE LaTakes
  <2>1. \A f \in Elems(la) \cup Arriving : f \in 1..newest /\ \A e \in enc : e < f
    BY <1>0 DEF Order, Arriving
  <2> QED
    BY <1>3, <1>4, <2>1 DEF LaTakes
<1>5. CASE LaSkips
  <2>1. \A f \in Elems(la) : f \in 1..newest /\ \A e \in enc : e < f
    BY <1>0 DEF Order
  <2> QED
    BY <1>3, <1>5, <2>1 DEF LaSkips
<1>6. CASE LaFails
  <2>1. newest' = newest /\ enc' = enc /\ cur' = 0 /\ ~Pending' /\ Ascending(la') /\ Pending
    BY <1>6 DEF LaFails, newest, Arriving
  <2>2. \A f \in Elems(la') : f \in Elems(la) \/ f = newest
    BY <1>6 DEF LaFails
  <2> QED
    BY <1>0, <2>1, <2>2 DEF Order
<1>11. CASE LaLoses
  <2>1. newest' = newest /\ enc' = enc /\ cur' = 0 /\ ~Pending' /\ Ascending(la')
    BY <1>11 DEF LaLoses, newest, Arriving
  <2>2. \A f \in Elems(la') : f \in Elems(la) \/ (Pending /\ f = newest)
    BY <1>11 DEF LaLoses, Arriving
  <2> QED
    BY <1>0, <2>1, <2>2 DEF Order
<1>7. CASE ToEncoder
  <2>1. newest' = newest /\ ~Pending'
    BY <1>7 DEF ToEncoder, newest, Arriving
  <2>2. cur \in 1..newest
    BY <1>0, <1>7 DEF ToEncoder, Order
  <2> QED
    BY <1>0, <1>7, <2>1, <2>2 DEF ToEncoder, Order
<1>8. CASE EncoderRefuses
  <2>1. newest' = newest /\ ~Pending' /\ cur' = 0 /\ UNCHANGED <<la, enc>>
    BY <1>8 DEF EncoderRefuses, newest, Arriving
  <2> QED
    BY <1>0, <2>1 DEF Order
<1>9. CASE RecvPacket
  <2>1. PICK f \in Codable : Codes(f, mpsoc_vcu_encode_prepare_out_timestamp.dts)
    BY <1>0, <1>9, PacketCodes
  <2>2. newest' = newest /\ ~Pending' /\ cur' = 0 /\ la' = la /\ enc' \subseteq enc
    BY <2>1 DEF Codes, newest, Arriving
  <2> QED
    BY <1>0, <2>2 DEF Order
<1>10. CASE mpsoc_vcu_encode_close
  <2>1. newest' = newest /\ ~Pending' /\ cur' = 0 /\ la' = <<>> /\ enc' = {}
    BY <1>10, Closed
  <2> QED
    BY <1>0, <2>1, EmptyAscending DEF Order
<1> QED
  BY <1>1, <1>2, <1>4, <1>5, <1>6, <1>7, <1>8, <1>9, <1>10, <1>11, Moves

\* Every reference is accounted for.
LEMMA AccountsStep == Base /\ Accounts /\ [Next]_vars => Accounts'
<1> SUFFICES ASSUME Base, Accounts, [Next]_vars PROVE Accounts'
  OBVIOUS
<1>0. Typed /\ Control /\ Order /\ newest \in Nat
  BY DEF Base, Typed, newest
\* the exception, once there, stays: nothing follows a failure but a close
<1>a. fault = "lookahead" /\ mode \in {"failed", "closed"}
        => fault' = "lookahead" /\ mode' \in {"failed", "closed"} /\ ~EncodeFrame
  BY <1>0 DEF Control, Next, mpsoc_vcu_encode_frame, xlnx_la_send_recv_frame, EncoderSession, Fault,
     vars, apiVars, SendNull, Receive, EncodeFrame, LaBypass, LaSendFrame, LaSendSkipped, LaSendAgain,
     LaDrain, LaError, LaErrorDrain, LaSendAgainFails, LaDrainAgainFails, EncSend, EncSendError, RecvPacket, RecvNoMem, RecvError,
     RecvAgain, FlushSend, FlushSendError, FlushRecvNothing, mpsoc_vcu_encode_close, Finished,
     Happens, Receiving
<1>b. fault = "encoder" => fault' = "encoder"
  BY DEF Next, mpsoc_vcu_encode_frame, xlnx_la_send_recv_frame, EncoderSession, Fault, vars,
     SendNull, Receive, EncodeFrame, LaBypass, LaSendFrame, LaSendSkipped, LaSendAgain, LaDrain,
     LaError, LaErrorDrain, LaSendAgainFails, LaDrainAgainFails, EncSend, EncSendError, RecvPacket,
     RecvNoMem, RecvError, RecvAgain, FlushSend, FlushSendError, FlushRecvNothing,
     mpsoc_vcu_encode_close, Finished, Happens
<1>c. fault = "lookahead" => fault' = "lookahead"
  BY DEF Next, mpsoc_vcu_encode_frame, xlnx_la_send_recv_frame, EncoderSession, Fault, vars,
     SendNull, Receive, EncodeFrame, LaBypass, LaSendFrame, LaSendSkipped, LaSendAgain, LaDrain,
     LaError, LaErrorDrain, LaSendAgainFails, LaDrainAgainFails, EncSend, EncSendError, RecvPacket,
     RecvNoMem, RecvError, RecvAgain, FlushSend, FlushSendError, FlushRecvNothing,
     mpsoc_vcu_encode_close, Finished, Happens
<1>1. CASE newest' = newest /\ Inside' = Inside /\ rel' = rel /\ lost' = lost
  BY <1>1, <1>a, <1>b, <1>c DEF Accounts
<1>2. CASE EncodeFrame
  <2>1. /\ newest' = newest + 1 /\ Inside' = Inside \cup {newest + 1} /\ rel'[newest + 1] = 0
        /\ (\A i \in 1..newest : rel'[i] = rel[i]) /\ lost' = lost
    BY <1>0, <1>2, FrameArrives, InsideMoves
  <2>2. \A f \in 1..newest' : f \in 1..newest \/ f = newest + 1
    BY <1>0, <2>1
  <2>3. \A f \in 1..newest : f # newest + 1
    BY <1>0
  <2>4. \A f \in lost : f \in 1..newest
    BY DEF Accounts
  <2>5. newest + 1 \notin lost /\ 1..newest \subseteq 1..newest' /\ newest + 1 \in Inside'
    BY <1>0, <2>1, <2>3, <2>4
  <2>6. ~(fault = "lookahead" /\ mode \in {"failed", "closed"}) /\ fault' = fault
    BY <1>2, <1>a DEF EncodeFrame
  <2>7. \A f \in 1..newest : (f \in Inside' <=> f \in Inside) /\ rel'[f] = rel[f]
    BY <2>1, <2>3
  <2>8. ASSUME NEW f \in 1..newest'
        PROVE  \/ f \notin lost /\ rel'[f] = 0 /\ f \in Inside'
               \/ f \notin lost /\ rel'[f] = 1 /\ f \notin Inside'
               \/ f \in lost /\ rel'[f] = 0 /\ f \notin Inside' /\ fault \in {"lookahead", "encoder"}
    <3>1. CASE f = newest + 1
      BY <2>1, <2>5, <3>1
    <3>2. CASE f \in 1..newest
      BY <2>6, <2>7, <3>2 DEF Accounts
    <3> QED
      BY <2>2, <3>1, <3>2
  <2> QED
    BY <2>1, <2>4, <2>5, <2>6, <2>8 DEF Accounts
<1>3. ASSUME NEW g \in 1..newest, newest' = newest, Inside' = Inside \ {g}, g \in Inside, Free(g),
             lost' = lost
      PROVE  Accounts'
  <2>1. rel'[g] = rel[g] + 1 /\ \A f \in 1..newest : f # g => rel'[f] = rel[f]
    BY <1>0, <1>3, Freed
  <2> QED
    BY <1>3, <1>a, <1>b, <1>c, <2>1 DEF Accounts
<1>4. CASE LaSkips
  <2>1. newest \in 1..newest /\ newest' = newest
    BY <1>0, <1>4 DEF LaSkips, Passes, Order, newest
  <2> QED
    BY <1>3, <1>4, <2>1, InsideMoves DEF LaSkips
<1>5. CASE LaFails
  <2>1. newest' = newest /\ fault' = "lookahead" /\ mode' = "failed" /\ lost' = lost
        /\ \A f \in 1..newest : f # newest => rel'[f] = rel[f]
    BY <1>5 DEF LaFails, newest
  <2>2. \A f \in 1..newest : f # newest => (f \in Inside' <=> f \in Inside)
    BY <1>5, InsideMoves
  <2> QED
    BY <2>1, <2>2 DEF Accounts
<1>6. CASE EncoderRefuses
  <2>1. cur \in 1..newest /\ newest' = newest /\ fault' = "encoder"
    BY <1>0, <1>6 DEF EncoderRefuses, Order, Typed, newest
  <2>2. Inside' = Inside \ {cur} /\ cur \in Inside
    BY <1>6, InsideMoves
  <2>3. CASE Free(cur) /\ UNCHANGED lost
    BY <1>3, <2>1, <2>2, <2>3
  <2>4. CASE lost' = lost \cup {cur} /\ UNCHANGED rel
    <3>1. ~(fault = "lookahead")
      BY <1>c, <2>1
    <3> QED
      BY <2>1, <2>2, <2>4, <3>1 DEF Accounts
  <2> QED
    BY <1>6, <2>3, <2>4 DEF EncoderRefuses
<1>10. CASE LaLoses
  <2> DEFINE Left == (Elems(la) \cup Arriving) \ Elems(la')
  <2>1. newest' = newest /\ fault' = "lookahead" /\ Inside' = Inside \ Left /\ Left \subseteq Inside
    BY <1>10, InsideMoves DEF LaLoses, newest, Inside
  <2>2. \A f \in Left : f \in 1..newest
    BY <1>0 DEF Order, Arriving
  <2>3. CASE lost' = lost \cup Left /\ UNCHANGED rel
    <3> HIDE DEF Left
    <3> QED
      BY <1>a, <2>1, <2>2, <2>3 DEF Accounts
  <2>4. CASE /\ Pending /\ newest \notin Elems(la') /\ Free(newest)
             /\ lost' = lost \cup (Elems(la) \ Elems(la'))
    <3>1. newest \in 1..newest /\ newest \notin Elems(la)
      BY <1>0, <2>4 DEF Order
    <3>2. lost' = lost \cup (Left \ {newest}) /\ newest \in Left
      BY <2>4, <3>1 DEF Arriving
    <3>3. rel'[newest] = rel[newest] + 1 /\ \A f \in 1..newest : f # newest => rel'[f] = rel[f]
      BY <1>0, <2>4, <3>1, Freed
    <3> HIDE DEF Left
    <3> QED
      BY <1>a, <2>1, <2>2, <3>1, <3>2, <3>3 DEF Accounts
  <2> QED
    BY <1>10, <2>3, <2>4 DEF LaLoses
<1>7. CASE RecvPacket
  <2>1. PICK f \in Codable : Codes(f, mpsoc_vcu_encode_prepare_out_timestamp.dts)
    BY <1>0, <1>7, PacketCodes
  <2>2. f \in 1..newest /\ newest' = newest /\ Free(f) /\ lost' = lost
    BY <2>1, CodedFrame DEF Codes, newest
  <2>3. Inside' = Inside \ {f} /\ f \in Inside
    BY <2>1, InsideMoves
  <2> QED
    BY <1>3, <2>2, <2>3
<1>8. CASE mpsoc_vcu_encode_close
  <2>1. Inside' = {} /\ newest' = newest /\ lost' = lost
        /\ \A f \in 1..newest : rel'[f] = rel[f] + (IF f \in Inside THEN 1 ELSE 0)
    BY <1>8, Closed, InsideMoves
  <2> QED
    BY <1>a, <1>b, <1>c, <2>1 DEF Accounts
<1>9. CASE Unmoved \/ LaTakes \/ ToEncoder
  <2>1. newest' = newest /\ rel' = rel /\ lost' = lost
    BY <1>9 DEF Unmoved, LaTakes, Passes, ToEncoder, newest
  <2> QED
    BY <1>1, <1>9, <2>1, InsideMoves
<1> QED
  BY <1>2, <1>4, <1>5, <1>6, <1>7, <1>8, <1>9, <1>10, Moves

\* Nothing is anywhere at the start.
LEMMA InitBase == Init => Base /\ Accounts /\ newest = 0 /\ Inside = {} /\ Len(pkts) = 0 /\ ~Pending
<1> SUFFICES ASSUME Init
             PROVE  Base /\ Accounts /\ newest = 0 /\ Inside = {} /\ Len(pkts) = 0 /\ ~Pending
  OBVIOUS
<1>1. newest = 0 /\ la = <<>> /\ cur = 0 /\ enc = {} /\ ~Pending /\ Len(pkts) = 0
  BY DEF Init, newest, Pending
<1>2. Inside = {}
  BY <1>1, EmptyAscending DEF Inside, InHand, Arriving
<1>3. Typed
  BY DEF Init, Typed
<1>4. Control
  BY DEF Init, Control
<1>5. Order
  BY <1>1, EmptyAscending DEF Order
<1>6. Accounts
  BY <1>1 DEF Accounts, Init
<1> QED
  BY <1>1, <1>2, <1>3, <1>4, <1>5, <1>6 DEF Base

\* The places hold frames of the right type, in order, in the phases the calls
\* go through; all other results rest on it.
THEOREM BaseInvariant == Spec => []Base
<1>1. Init => Base
  BY InitBase
<1>2. Base /\ [Next]_vars => Base'
  BY TypedStep, ControlStep, OrderStep DEF Base
<1> QED
  BY <1>1, <1>2, PTL DEF Spec

\* The lookahead has its output frame back whenever xlnx_la_send_recv_frame is
\* called, whatever the two devices answered before.
THEOREM FrameAlwaysHome == Spec => []FrameHome
<1>1. Base => FrameHome
  BY DEF Base, Control, FrameHome
<1> QED
  BY <1>1, BaseInvariant, PTL

\* The reference taken for a frame is released once, and by the close at the
\* latest.  Without a fault that is so for every frame; a failing answer of a
\* device leaves the references of the frames it was about.
THEOREM ReleasedExactlyOnce == Spec => []ReleasedOnce
<1>1. Init => Accounts
  BY InitBase
<1>2. Base /\ Accounts /\ [Next]_vars => Accounts'
  BY AccountsStep
<1>3. Base /\ Accounts => ReleasedOnce
  <2> SUFFICES ASSUME Base, Accounts, NEW f \in DOMAIN rel
               PROVE  \/ f \notin lost /\ rel[f] <= 1 /\ (mode = "closed" => rel[f] = 1)
                      \/ f \in lost /\ rel[f] = 0 /\ fault \in {"lookahead", "encoder"}
                      \/ fault = "lookahead" /\ f = Len(rel)
    BY DEF ReleasedOnce
  <2>1. f \in 1..newest /\ newest = Len(rel)
    BY DEF Base, Typed, newest
  <2>2. mode = "closed" => Inside = {}
    <3> SUFFICES ASSUME mode = "closed" PROVE Inside = {}
      OBVIOUS
    <3>1. la = <<>> /\ enc = {} /\ call # "frame" /\ cur = 0
      BY DEF Base, Control
    <3> QED
      BY <3>1, EmptyAscending DEF Inside, InHand, Arriving, Pending
  <2> QED
    BY <2>1, <2>2 DEF Accounts
<1> QED
  BY <1>1, <1>2, <1>3, BaseInvariant, PTL DEF Spec

-----------------------------------------------------------------------------
(* The end of a drain.                                                     *)

\* A fault, once there, stays.
LEMMA FaultStays ==
  ASSUME [Next]_vars, fault' = "none"
  PROVE  fault = "none"
BY DEF Next, mpsoc_vcu_encode_frame, xlnx_la_send_recv_frame, EncoderSession, Fault, vars,
       SendNull, Receive, EncodeFrame, LaBypass, LaSendFrame, LaSendSkipped, LaSendAgain, LaDrain,
       LaError, LaErrorDrain, LaSendAgainFails, LaDrainAgainFails, EncSend, EncSendError, RecvPacket, RecvNoMem, RecvError, RecvAgain,
       FlushSend, FlushSendError, FlushRecvNothing, mpsoc_vcu_encode_close, Finished, Happens

\* Nothing happens after the close.
LEMMA ClosedStays ==
  ASSUME Control, [Next]_vars, mode = "closed"
  PROVE  mode' = "closed"
BY DEF Control, Next, mpsoc_vcu_encode_frame, xlnx_la_send_recv_frame, EncoderSession, Fault, vars,
       apiVars, SendNull, Receive, EncodeFrame, LaBypass, LaSendFrame, LaSendSkipped, LaSendAgain, LaDrain,
       LaError, LaErrorDrain, LaSendAgainFails, LaDrainAgainFails, EncSend, EncSendError, RecvPacket,
       RecvNoMem, RecvError, RecvAgain, FlushSend, FlushSendError, FlushRecvNothing, Receiving,
       mpsoc_vcu_encode_close, Finished

\* The phases of a flush: the lookahead is empty or late before the encoder is
\* flushed without a packet to give, and so are both at the end.
LEMMA FlushPhaseStep == Base /\ FlushPhase /\ [Next]_vars => FlushPhase'
<1> SUFFICES ASSUME Base, FlushPhase, [Next]_vars, fault' = "none" PROVE FlushPhase'
  BY DEF FlushPhase
<1>0. Control /\ fault = "none"
  BY FaultStays DEF Base
<1> USE DEF apiVars, tsVars, laVars, encVars
<1>1. CASE SendNull \/ Receive \/ EncodeFrame
  BY <1>0, <1>1 DEF FlushPhase, Control, SendNull, Receive, EncodeFrame
<1>2. CASE LaBypass
  BY <1>0, <1>2 DEF FlushPhase, Control, LaBypass
<1>3. CASE LaSendFrame \/ LaSendSkipped
  <2>1. pc' \notin {"flush", "flush_recv"} /\ mode' = mode /\ mode = "feed"
    BY <1>0, <1>3 DEF Control, LaSendFrame, LaSendSkipped, LaRecv, Return
  <2> QED
    BY <1>0, <2>1 DEF FlushPhase
<1>4. CASE LaSendAgain
  BY <1>0, <1>4 DEF FlushPhase, Control, LaSendAgain
<1>5. CASE LaDrain
  <2>1. /\ mode' = mode /\ enc' = enc /\ mode = "drain"
        /\ \/ pc' \in {"enc", "enc2"}
           \/ la' = la /\ late' = (late \/ la # <<>>)
    BY <1>0, <1>5 DEF Control, LaDrain
  <2> QED
    BY <1>0, <2>1 DEF FlushPhase
<1>6. CASE Fault
  BY <1>6, <1>0 DEF Fault, LaError, LaErrorDrain, LaSendAgainFails, LaDrainAgainFails, EncSendError, RecvNoMem, RecvError,
     FlushSendError, Happens
<1>7. CASE EncSend
  <2>0. enc' # {} /\ mode \in {"feed", "drain"}
    BY <1>0, <1>7 DEF Control, EncSend
  <2>1. mode' = "eof" => late'
    BY <1>0, <1>7, <2>0 DEF Control, EncSend, Return
  <2>2. mode' # "failed"
    BY <1>0, <1>7, <2>0 DEF Control, EncSend, Return
  <2> QED
    BY <1>0, <2>0, <2>1, <2>2 DEF FlushPhase
<1>8. CASE RecvPacket
  <2>1. pc' = "idle" /\ mode' = mode /\ mode # "eof"
    BY <1>0, <1>8 DEF Control, RecvPacket, Return, Receiving
  <2> QED
    BY <1>0, <2>1 DEF FlushPhase
<1>9. CASE RecvAgain
  <2>0. mode \in {"feed", "drain"} /\ pc' \in {"idle", "la2"} /\ mode' \in {mode, "eof"}
    BY <1>0, <1>9 DEF Control, RecvAgain, Return
  <2>1. mode' = "eof" => late'
    BY <1>0, <1>9, <2>0 DEF Control, RecvAgain, Return
  <2> QED
    BY <1>0, <2>0, <2>1 DEF FlushPhase
<1>10. CASE FlushSend
  BY <1>0, <1>10 DEF FlushPhase, Control, FlushSend
<1>11. CASE FlushRecvNothing
  <2>0. /\ pc \in {"flush", "flush_recv"} /\ mode \in {"feed", "drain"} /\ UNCHANGED <<la, enc>>
        /\ late' = (late \/ (call # "frame" /\ enc # {}))
    BY <1>0, <1>11 DEF Control, FlushRecvNothing, Receiving
  <2>1. pc' = "idle" /\ (mode' = mode \/ (mode' = "eof" /\ call = "receive"))
    BY <1>11 DEF FlushRecvNothing, Return
  <2>2. la = <<>> \/ enc # {} \/ late
    BY <1>0, <2>0 DEF FlushPhase
  <2> QED
    BY <1>0, <2>0, <2>1, <2>2 DEF FlushPhase
<1>12. CASE mpsoc_vcu_encode_close
  BY <1>0, <1>12 DEF FlushPhase, Control, mpsoc_vcu_encode_close
<1>13. CASE Finished \/ UNCHANGED vars
  <2>1. UNCHANGED vars
    BY <1>13 DEF Finished
  <2> QED
    BY <1>0, <2>1 DEF FlushPhase, vars
<1> QED
  BY <1>1, <1>2, <1>3, <1>4, <1>5, <1>6, <1>7, <1>8, <1>9, <1>10, <1>11, <1>12, <1>13
     DEF Next, mpsoc_vcu_encode_frame, xlnx_la_send_recv_frame, EncoderSession

\* What a packet adds to the packets.
LEMMA PacketAdded ==
  ASSUME Base, NEW f \in Codable, NEW d \in Int, Codes(f, d)
  PROVE  /\ Len(pkts) \in Nat /\ Len(pkts') = Len(pkts) + 1 /\ newest' = newest
         /\ \A i \in 1..Len(pkts) : pkts'[i] = pkts[i]
         /\ pkts'[Len(pkts) + 1].frame = f /\ pkts'[Len(pkts) + 1].dts = d
         /\ pkts'[Len(pkts) + 1].pts = pts[f]
<1>1. f \in Nat /\ pts[f] \in Int /\ pkts \in Seq([frame : Nat, pts : Int, dts : Int])
  BY CodedFrame DEF Base, Typed
<1>2. PICK r \in [frame : Nat, pts : Int, dts : Int] :
        r.frame = f /\ r.pts = pts[f] /\ r.dts = d /\ pkts' = Append(pkts, r)
  BY <1>1 DEF Codes
<1> QED
  BY <1>1, <1>2 DEF Codes, newest

\* A frame leaves the places into a packet or into dropped.
LEMMA CoveredStep == Base /\ Covered /\ [Next]_vars => Covered'
<1> SUFFICES ASSUME Base, Covered, [Next]_vars, fault' = "none", mode' # "closed" PROVE Covered'
  BY DEF Covered
<1>0. Typed /\ Control /\ Order /\ newest \in Nat /\ fault = "none" /\ mode # "closed"
  BY FaultStays, ClosedStays DEF Base, Typed, newest
<1>1. CASE Unmoved \/ LaTakes \/ ToEncoder
  <2>1. newest' = newest /\ Inside' = Inside /\ UNCHANGED <<pkts, dropped>>
    BY <1>1, InsideMoves DEF Unmoved, LaTakes, ToEncoder, Passes, newest
  <2> QED
    BY <1>0, <2>1 DEF Covered
<1>2. CASE EncodeFrame
  <2>1. newest' = newest + 1 /\ Inside' = Inside \cup {newest + 1} /\ UNCHANGED <<pkts, dropped>>
    BY <1>0, <1>2, FrameArrives, InsideMoves
  <2>2. \A f \in 1..newest' : f \in 1..newest \/ f \in Inside'
    BY <1>0, <2>1
  <2> QED
    BY <1>0, <2>1, <2>2 DEF Covered
<1>3. CASE LaSkips
  <2>1. /\ newest' = newest /\ Inside' = Inside \ {newest} /\ dropped' = dropped \cup {newest}
        /\ pkts' = pkts
    BY <1>3, InsideMoves DEF LaSkips, Passes, newest
  <2> QED
    BY <1>0, <2>1 DEF Covered
<1>4. CASE LaFails \/ LaLoses \/ EncoderRefuses
  BY <1>4 DEF LaFails, LaLoses, EncoderRefuses
<1>5. CASE RecvPacket
  <2>1. PICK d \in Int : d = mpsoc_vcu_encode_prepare_out_timestamp.dts
    BY <1>0, StampTyped
  <2>2. PICK f \in Codable : Codes(f, d)
    BY <1>0, <1>5, <2>1, PacketCodes
  <2>3. Inside' = Inside \ {f} /\ dropped' = dropped
    BY <2>2, InsideMoves DEF Codes
  <2>4. /\ Len(pkts) \in Nat /\ Len(pkts') = Len(pkts) + 1 /\ newest' = newest
        /\ \A i \in 1..Len(pkts) : pkts'[i] = pkts[i]
        /\ pkts'[Len(pkts) + 1].frame = f
    BY <2>2, PacketAdded
  <2>5. \E i \in 1..Len(pkts') : pkts'[i].frame = f
    BY <2>4
  <2>6. ASSUME NEW g, \E i \in 1..Len(pkts) : pkts[i].frame = g
        PROVE  \E i \in 1..Len(pkts') : pkts'[i].frame = g
    BY <2>4, <2>6
  <2> QED
    BY <1>0, <2>3, <2>4, <2>5, <2>6 DEF Covered
<1>6. CASE mpsoc_vcu_encode_close
  BY <1>6 DEF mpsoc_vcu_encode_close
<1> QED
  BY <1>1, <1>2, <1>3, <1>4, <1>5, <1>6, Moves

\* AVERROR_EOF without a fault, from a call in which no device put the encoder
\* off: every frame has been coded or was marked do_not_encode, also what was put
\* off in the calls before.
THEOREM FlushedAtEof == Spec => []EofMeansFlushed
<1>1. Init => FlushPhase /\ Covered
  BY InitBase DEF Init, FlushPhase, Covered
<1>2. Base /\ FlushPhase /\ Covered /\ [Next]_vars => FlushPhase' /\ Covered'
  BY FlushPhaseStep, CoveredStep
<1>3. Base /\ FlushPhase /\ Covered => EofMeansFlushed
  <2> SUFFICES ASSUME Base, FlushPhase, Covered, mode = "eof", fault = "none", ~late,
                      NEW f \in 1..Len(pts)
               PROVE  f \in dropped \/ \E i \in DOMAIN pkts : pkts[i].frame = f
    BY DEF EofMeansFlushed, Flushed
  <2>1. la = <<>> /\ enc = {} /\ cur = 0 /\ ~Pending /\ DOMAIN pkts = 1..Len(pkts)
    BY DEF Base, Typed, Control, FlushPhase, Pending
  <2>2. Inside = {}
    BY <2>1, EmptyAscending DEF Inside, InHand, Arriving
  <2> QED
    BY <2>1, <2>2 DEF Covered, newest
<1> QED
  BY <1>1, <1>2, <1>3, BaseInvariant, PTL DEF Spec

-----------------------------------------------------------------------------
(* The time stamps.                                                        *)

\* Between two frames or packets neither the packets nor the time stamps change
\* and no frame comes in.
LEMMA StampsKept ==
  ASSUME Base, [Next]_vars
  PROVE  \/ EncodeFrame
         \/ RecvPacket
         \/ UNCHANGED <<pts, rd, is_first_outframe, overrun, pkts, newest>> /\ Inside' \subseteq Inside
<1>0. Typed /\ Control /\ Order
  BY DEF Base
<1>1. CASE Unmoved \/ LaTakes \/ LaSkips \/ ToEncoder \/ EncoderRefuses
  <2>1. UNCHANGED <<pkts, newest>>
    BY <1>1 DEF Unmoved, LaTakes, LaSkips, ToEncoder, EncoderRefuses, Passes, newest
  <2>2. Inside' \subseteq Inside
    BY <1>1, InsideMoves
  <2> QED
    BY <2>1, <2>2, TsMoves
<1>2. CASE LaFails
  <2>1. UNCHANGED <<pkts, newest>> /\ Pending
    BY <1>2 DEF LaFails, newest
  <2>2. Inside' \ {newest} = Inside \ {newest} /\ newest \in Inside
    BY <1>2, <2>1, InsideMoves DEF Inside, Arriving
  <2>3. Inside' \subseteq Inside
    BY <2>2
  <2> QED
    BY <2>1, <2>3, TsMoves
<1>3. CASE mpsoc_vcu_encode_close
  <2>1. UNCHANGED <<pkts, newest>> /\ Inside' = {}
    BY <1>3, Closed, InsideMoves
  <2> QED
    BY <2>1, TsMoves
<1>4. CASE LaLoses
  <2>1. UNCHANGED <<pkts, newest, enc>> /\ Arriving' = {} /\ cur' = 0 /\ Elems(la') \subseteq Elems(la) \cup Arriving
    BY <1>4 DEF LaLoses, newest
  <2>2. Inside' \subseteq Inside
    BY <2>1 DEF Inside, InHand
  <2> QED
    BY <2>1, <2>2, TsMoves
<1> QED
  BY <1>1, <1>2, <1>3, <1>4, Moves

\* What a packet does to the time stamps.
LEMMA StampMoves ==
  ASSUME Base, RecvPacket
  PROVE  \E f \in Codable, d \in Int :
           /\ Codes(f, d)
           /\ UNCHANGED <<pts, overrun, mode>>
           /\ \/ /\ newest > 1 /\ BFrames > 0 /\ is_first_outframe /\ DeltaFits
                 /\ d = 2 * pts_0 - pts_1 /\ rd' = rd /\ is_first_outframe' = FALSE
              \/ /\ newest > 1 /\ BFrames > 0 /\ is_first_outframe /\ ~DeltaFits
                 /\ d = NOPTS /\ rd' = rd /\ is_first_outframe' = TRUE
              \/ /\ ~(newest > 1 /\ BFrames > 0 /\ is_first_outframe)
                 /\ is_first_outframe' = is_first_outframe
                 /\ \/ rd < newest /\ d = Dequeued /\ rd' = rd + 1
                    \/ ~(rd < newest) /\ d = NOPTS /\ rd' = rd
<1>0. Typed /\ Control
  BY DEF Base
<1>1. PICK d \in Int : d = mpsoc_vcu_encode_prepare_out_timestamp.dts
  BY <1>0, StampTyped
<1>2. PICK f \in Codable : Codes(f, d)
  BY <1>0, <1>1, PacketCodes
<1>3. /\ rd' = mpsoc_vcu_encode_prepare_out_timestamp.rd
      /\ is_first_outframe' = mpsoc_vcu_encode_prepare_out_timestamp.first
      /\ UNCHANGED <<pts, overrun, mode>>
  BY DEF RecvPacket, Return
<1> QED
  BY <1>1, <1>2, <1>3, StampIs DEF newest

\* The read position follows the packets.
LEMMA ReadingStep == Base /\ Reading /\ [Next]_vars => Reading'
<1> SUFFICES ASSUME Base, Reading, [Next]_vars PROVE Reading'
  OBVIOUS
<1>0. /\ Typed /\ Control /\ newest \in Nat /\ rd \in Nat /\ QueueCap \in Nat /\ Len(pkts) \in Nat
      /\ newest = Len(pts) /\ newest' = Len(pts') /\ pts \in Seq(Int) /\ rd <= newest /\ BFrames \in Nat
  BY QueueAssumption, EncoderAssumption DEF Base, Typed, newest
<1>1. CASE EncodeFrame
  <2>1. /\ newest' = newest + 1 /\ UNCHANGED <<rd, is_first_outframe, pkts>>
        /\ \A i \in 1..newest : pts'[i] = pts[i] /\ pts[i] \in Int
        /\ newest > 0 => pts[newest] < pts'[newest + 1]
        /\ pts'[newest + 1] \in Int
    <3>2. \A i \in 1..newest : pts[i] \in Int
      BY <1>0
    <3>3. pts' \in Seq(Int) /\ newest' = newest + 1
      BY <1>0, <1>1, FrameArrives
    <3>a. Len(pts') = newest + 1 /\ newest + 1 \in 1..(newest + 1)
      BY <1>0, <3>3
    <3>4. pts'[newest + 1] \in Int
      BY <3>3, <3>a
    <3> QED
      BY <1>0, <1>1, <3>2, <3>4, FrameArrives
  <2>2. Ascending(pts')
    <3> SUFFICES ASSUME NEW i \in 1..(newest + 1), NEW j \in 1..(newest + 1), i < j
                 PROVE  pts'[i] < pts'[j]
      BY <1>0, <2>1 DEF Ascending
    <3>0. Ascending(pts)
      BY DEF Reading
    <3>1. CASE j \in 1..newest
      <4>1. i \in 1..newest
        BY <1>0, <3>1
      <4>2. pts[i] < pts[j]
        BY <1>0, <3>0, <3>1, <4>1 DEF Ascending
      <4> QED
        BY <2>1, <3>1, <4>1, <4>2
    <3>2. CASE j = newest + 1
      <4>1. i \in 1..newest /\ newest \in 1..newest
        BY <1>0, <3>2
      <4>2. i = newest \/ pts[i] < pts[newest]
        BY <1>0, <3>0, <4>1 DEF Ascending
      <4> QED
        BY <1>0, <2>1, <3>2, <4>1, <4>2
    <3> QED
      BY <1>0, <3>1, <3>2
  <2>3. ~overrun' => ~overrun /\ ~(newest - rd >= QueueCap)
    BY <1>1 DEF EncodeFrame, newest
  <2>4. ~overrun' => newest' - rd' <= QueueCap
    BY <1>0, <2>1, <2>3
  <2>5. BFrames > 0 /\ is_first_outframe' => rd' <= 1
    BY <2>1 DEF Reading
  <2>6. rd' <= Len(pkts') /\ (~is_first_outframe' => rd' + 1 <= Len(pkts') /\ BFrames > 0)
    BY <2>1 DEF Reading
  <2> QED
    BY <2>2, <2>4, <2>5, <2>6 DEF Reading
<1>2. CASE RecvPacket
  <2>1. PICK f \in Codable, d \in Int :
           /\ Codes(f, d)
           /\ UNCHANGED <<pts, overrun, mode>>
           /\ \/ /\ newest > 1 /\ BFrames > 0 /\ is_first_outframe /\ DeltaFits
                 /\ d = 2 * pts_0 - pts_1 /\ rd' = rd /\ is_first_outframe' = FALSE
              \/ /\ newest > 1 /\ BFrames > 0 /\ is_first_outframe /\ ~DeltaFits
                 /\ d = NOPTS /\ rd' = rd /\ is_first_outframe' = TRUE
              \/ /\ ~(newest > 1 /\ BFrames > 0 /\ is_first_outframe)
                 /\ is_first_outframe' = is_first_outframe
                 /\ \/ rd < newest /\ d = Dequeued /\ rd' = rd + 1
                    \/ ~(rd < newest) /\ d = NOPTS /\ rd' = rd
    BY <1>2, StampMoves
  <2>2. Len(pkts') = Len(pkts) + 1 /\ newest' = newest
    BY <2>1, PacketAdded
  <2>4. BFrames > 0 /\ is_first_outframe' => rd' <= 1
    <3> SUFFICES ASSUME BFrames > 0, is_first_outframe' PROVE rd' <= 1
      OBVIOUS
    <3>1. is_first_outframe
      BY <2>1
    <3>2. rd' = rd \/ (newest <= 1 /\ rd < newest /\ rd' = rd + 1)
      BY <1>0, <2>1, <3>1
    <3> QED
      BY <1>0, <3>1, <3>2 DEF Reading
  <2>5. rd' <= Len(pkts')
    BY <1>0, <2>1, <2>2 DEF Reading
  <2>6. ~is_first_outframe' => rd' + 1 <= Len(pkts') /\ BFrames > 0
    BY <1>0, <2>1, <2>2 DEF Reading
  <2>7. ~overrun' => newest' - rd' <= QueueCap
    BY <1>0, <2>1, <2>2 DEF Reading
  <2>8. Ascending(pts')
    BY <2>1 DEF Reading
  <2> QED
    BY <2>4, <2>5, <2>6, <2>7, <2>8 DEF Reading
<1>3. CASE UNCHANGED <<pts, rd, is_first_outframe, overrun, pkts, newest>>
  BY <1>0, <1>3 DEF Reading
<1> QED
  BY <1>1, <1>2, <1>3, StampsKept

\* The dts of a packet: before the first pts, none, or the entry of pts_queue
\* after the ones read.
LEMMA NewDts ==
  ASSUME Base, Reading, RecvPacket, ~overrun
  PROVE  \E f \in Codable, d \in Int :
           /\ Codes(f, d) /\ pts' = pts /\ (~is_first_outframe => ~is_first_outframe')
           /\ \/ /\ newest > 1 /\ BFrames > 0 /\ is_first_outframe /\ ~is_first_outframe'
                 /\ rd' = rd /\ d = 2 * pts_0 - pts_1 /\ d < pts[1]
              \/ d = NOPTS /\ rd' = rd
              \/ /\ rd < newest /\ rd' = rd + 1 /\ d = pts[rd + 1]
                 /\ BFrames > 0 => newest <= 1 \/ ~is_first_outframe
<1>0. /\ newest \in Nat /\ rd \in Nat /\ newest = Len(pts) /\ pts \in Seq(Int) /\ BFrames \in Nat
      /\ newest - rd <= QueueCap
  BY EncoderAssumption DEF Base, Typed, newest, Reading
<1>1. PICK f \in Codable, d \in Int :
           /\ Codes(f, d)
           /\ UNCHANGED <<pts, overrun, mode>>
           /\ \/ /\ newest > 1 /\ BFrames > 0 /\ is_first_outframe /\ DeltaFits
                 /\ d = 2 * pts_0 - pts_1 /\ rd' = rd /\ is_first_outframe' = FALSE
              \/ /\ newest > 1 /\ BFrames > 0 /\ is_first_outframe /\ ~DeltaFits
                 /\ d = NOPTS /\ rd' = rd /\ is_first_outframe' = TRUE
              \/ /\ ~(newest > 1 /\ BFrames > 0 /\ is_first_outframe)
                 /\ is_first_outframe' = is_first_outframe
                 /\ \/ rd < newest /\ d = Dequeued /\ rd' = rd + 1
                    \/ ~(rd < newest) /\ d = NOPTS /\ rd' = rd
  BY StampMoves
<1>2. rd < newest => Dequeued = pts[rd + 1]
  BY <1>0, DequeuedIs
<1>3. newest > 1 => 2 * pts_0 - pts_1 < pts[1]
  <2> SUFFICES ASSUME newest > 1 PROVE 2 * pts_0 - pts_1 < pts[1]
    OBVIOUS
  <2>1. 1 \in 1..Len(pts) /\ 2 \in 1..Len(pts)
    BY <1>0
  <2>2. pts[1] \in Int /\ pts[2] \in Int /\ pts[1] < pts[2]
    BY <1>0, <2>1 DEF Reading, Ascending
  <2> QED
    BY <2>2 DEF pts_0, pts_1
<1>5. \/ /\ newest > 1 /\ BFrames > 0 /\ is_first_outframe /\ ~is_first_outframe'
         /\ rd' = rd /\ d = 2 * pts_0 - pts_1 /\ d < pts[1]
      \/ d = NOPTS /\ rd' = rd
      \/ /\ rd < newest /\ rd' = rd + 1 /\ d = pts[rd + 1]
         /\ BFrames > 0 => newest <= 1 \/ ~is_first_outframe
  BY <1>0, <1>1, <1>2, <1>3
<1>6. ~is_first_outframe => ~is_first_outframe'
  BY <1>1
<1> QED
  BY <1>1, <1>5, <1>6

\* The fields of the packets have their types.
LEMMA PacketTyped ==
  ASSUME Typed
  PROVE  /\ Len(pkts) \in Nat /\ DOMAIN pkts = 1..Len(pkts)
         /\ \A i \in 1..Len(pkts) : pkts[i].frame \in Nat /\ pkts[i].pts \in Int /\ pkts[i].dts \in Int
<1>1. pkts \in Seq([frame : Nat, pts : Int, dts : Int])
  BY DEF Typed
<1>2. Len(pkts) \in Nat /\ DOMAIN pkts = 1..Len(pkts)
      /\ \A i \in 1..Len(pkts) : pkts[i] \in [frame : Nat, pts : Int, dts : Int]
  <2> DEFINE R == [frame : Nat, pts : Int, dts : Int]
  <2> HIDE DEF R
  <2>1. pkts \in Seq(R)
    BY <1>1 DEF R
  <2>2. Len(pkts) \in Nat /\ DOMAIN pkts = 1..Len(pkts) /\ \A i \in 1..Len(pkts) : pkts[i] \in R
    BY <2>1
  <2> QED
    BY <2>2 DEF R
<1>3. \A r \in [frame : Nat, pts : Int, dts : Int] : r.frame \in Nat /\ r.pts \in Int /\ r.dts \in Int
  OBVIOUS
<1> QED
  BY <1>2, <1>3

\* The entries of pts_queue are integers that increase.
LEMMA PtsAscend ==
  ASSUME Typed, Reading, NEW i \in 1..newest, NEW j \in 1..newest, i <= j
  PROVE  pts[i] \in Int /\ pts[j] \in Int /\ pts[i] <= pts[j] /\ (i < j => pts[i] < pts[j])
<1>1. pts \in Seq(Int) /\ newest = Len(pts) /\ newest \in Nat /\ Ascending(pts)
  BY DEF Typed, Reading, newest
<1>2. pts[i] \in Int /\ pts[j] \in Int
  BY <1>1
<1>3. i < j => pts[i] < pts[j]
  BY <1>1 DEF Ascending
<1> QED
  BY <1>1, <1>2, <1>3

\* No dts gets ahead of the entry read last.
LEMMA StampedStep == Base /\ Reading /\ Stamped /\ [Next]_vars => Stamped'
<1> SUFFICES ASSUME Base, Reading, Stamped, [Next]_vars, ~overrun' PROVE Stamped'
  BY DEF Stamped
<1>0. /\ Typed /\ newest \in Nat /\ rd \in Nat /\ Len(pkts) \in Nat /\ rd <= newest
      /\ \A i \in 1..Len(pkts) : pkts[i].dts \in Int
  <2>1. Typed
    BY DEF Base
  <2>2. newest \in Nat /\ rd \in Nat /\ rd <= newest
    BY <2>1 DEF Typed, newest
  <2> QED
    BY <2>1, <2>2, PacketTyped
<1>1. CASE EncodeFrame
  <2>1. /\ newest' = newest + 1 /\ UNCHANGED <<rd, is_first_outframe, pkts>>
        /\ \A i \in 1..newest : pts'[i] = pts[i]
    BY <1>0, <1>1, FrameArrives
  <2>2. ~overrun
    BY <1>1 DEF EncodeFrame
  <2>3. rd > 0 => pts'[rd] = pts[rd]
    BY <1>0, <2>1
  <2>4. newest > 0 => pts'[1] = pts[1]
    BY <1>0, <2>1
  <2> QED
    BY <1>0, <2>1, <2>2, <2>3, <2>4 DEF Stamped
<1>2. CASE RecvPacket
  <2>0. ~overrun
    BY <1>2 DEF RecvPacket
  <2>1. PICK f \in Codable, d \in Int :
           /\ Codes(f, d) /\ pts' = pts /\ (~is_first_outframe => ~is_first_outframe')
           /\ \/ /\ newest > 1 /\ BFrames > 0 /\ is_first_outframe /\ ~is_first_outframe'
                 /\ rd' = rd /\ d = 2 * pts_0 - pts_1 /\ d < pts[1]
              \/ d = NOPTS /\ rd' = rd
              \/ /\ rd < newest /\ rd' = rd + 1 /\ d = pts[rd + 1]
                 /\ BFrames > 0 => newest <= 1 \/ ~is_first_outframe
    BY <1>2, <2>0, NewDts
  <2>2. /\ Len(pkts') = Len(pkts) + 1 /\ newest' = newest
        /\ \A i \in 1..Len(pkts) : pkts'[i] = pkts[i]
        /\ pkts'[Len(pkts) + 1].dts = d
    BY <2>1, PacketAdded
  <2> SUFFICES ASSUME NEW i \in 1..(Len(pkts) + 1)
               PROVE  \/ pkts'[i].dts = NOPTS
                      \/ /\ rd' > 0 /\ pkts'[i].dts <= pts[rd']
                         /\ BFrames > 0 /\ is_first_outframe' => pkts'[i].dts = pts[1]
                      \/ ~is_first_outframe' /\ newest > 0 /\ pkts'[i].dts < pts[1]
    BY <2>1, <2>2 DEF Stamped
  <2>3. CASE i \in 1..Len(pkts)
    <3>1. \/ pkts[i].dts = NOPTS
          \/ /\ rd > 0 /\ pkts[i].dts <= pts[rd]
             /\ BFrames > 0 /\ is_first_outframe => pkts[i].dts = pts[1]
          \/ ~is_first_outframe /\ newest > 0 /\ pkts[i].dts < pts[1]
      BY <2>0, <2>3 DEF Stamped
    <3>2. pkts'[i].dts = pkts[i].dts /\ pkts[i].dts \in Int
      BY <1>0, <2>2, <2>3
    <3>3. rd > 0 => rd' > 0 /\ pts[rd] \in Int /\ pts[rd'] \in Int /\ pts[rd] <= pts[rd']
      <4> SUFFICES ASSUME rd > 0
                   PROVE  rd' > 0 /\ pts[rd] \in Int /\ pts[rd'] \in Int /\ pts[rd] <= pts[rd']
        OBVIOUS
      <4>1. rd \in 1..newest /\ rd' \in 1..newest /\ rd <= rd'
        BY <1>0, <2>1
      <4> QED
        BY <1>0, <4>1, PtsAscend
    <3> QED
      BY <2>1, <3>1, <3>2, <3>3
  <2>4. CASE i = Len(pkts) + 1
    <3>1. pkts'[i].dts = d
      BY <2>2, <2>4
    <3>2. CASE newest > 1 /\ ~is_first_outframe' /\ d < pts[1]
      BY <1>0, <3>1, <3>2
    <3>3. CASE /\ rd < newest /\ rd' = rd + 1 /\ d = pts[rd + 1]
               /\ BFrames > 0 => newest <= 1 \/ ~is_first_outframe
      <4>1. BFrames > 0 /\ is_first_outframe' => rd + 1 = 1
        BY <1>0, <2>1, <3>3
      <4> QED
        BY <1>0, <3>1, <3>3, <4>1
    <3> QED
      BY <2>1, <3>1, <3>2, <3>3
  <2> QED
    BY <1>0, <2>3, <2>4
<1>3. CASE UNCHANGED <<pts, rd, is_first_outframe, overrun, pkts, newest>>
  BY <1>3 DEF Stamped
<1> QED
  BY <1>1, <1>2, <1>3, StampsKept

\* A packet's dts is larger than those before it, but for the extrapolated one
\* after a packet that came before the second frame.
LEMMA MonotoneStep == Base /\ Reading /\ Stamped /\ DtsMonotone /\ [Next]_vars => DtsMonotone'
<1> SUFFICES ASSUME Base, Reading, Stamped, DtsMonotone, [Next]_vars, ~overrun' PROVE DtsMonotone'
  BY DEF DtsMonotone
<1>0. /\ Typed /\ newest \in Nat /\ rd \in Nat /\ Len(pkts) \in Nat /\ rd <= newest
      /\ \A i \in 1..Len(pkts) : pkts[i].dts \in Int
      /\ DOMAIN pkts = 1..Len(pkts)
  <2>1. Typed
    BY DEF Base
  <2>2. newest \in Nat /\ rd \in Nat /\ rd <= newest
    BY <2>1 DEF Typed, newest
  <2> QED
    BY <2>1, <2>2, PacketTyped
<1>1. CASE EncodeFrame
  <2>1. ~overrun /\ pkts' = pkts
    BY <1>1 DEF EncodeFrame
  <2>2. newest' = newest + 1 /\ \A i \in 1..newest : pts'[i] = pts[i]
    BY <1>0, <1>1, FrameArrives
  <2>3. newest > 1 => newest' > 1 /\ pts'[1] = pts[1] /\ pts'[2] = pts[2]
    BY <1>0, <2>2
  <2>4. Len(pts) > 1 => Len(pts') > 1 /\ pts_0' = pts_0 /\ pts_1' = pts_1
    BY <2>3 DEF newest, pts_0, pts_1
  <2>5. NOPTS' = NOPTS
    BY DEF NOPTS
  <2> QED
    BY <2>1, <2>4, <2>5 DEF DtsMonotone
<1>2. CASE RecvPacket
  <2>0. ~overrun
    BY <1>2 DEF RecvPacket
  <2>1. PICK f \in Codable, d \in Int :
           /\ Codes(f, d) /\ pts' = pts /\ (~is_first_outframe => ~is_first_outframe')
           /\ \/ /\ newest > 1 /\ BFrames > 0 /\ is_first_outframe /\ ~is_first_outframe'
                 /\ rd' = rd /\ d = 2 * pts_0 - pts_1 /\ d < pts[1]
              \/ d = NOPTS /\ rd' = rd
              \/ /\ rd < newest /\ rd' = rd + 1 /\ d = pts[rd + 1]
                 /\ BFrames > 0 => newest <= 1 \/ ~is_first_outframe
    BY <1>2, <2>0, NewDts
  <2>2. /\ Len(pkts') = Len(pkts) + 1 /\ newest' = newest
        /\ \A i \in 1..Len(pkts) : pkts'[i] = pkts[i]
        /\ pkts'[Len(pkts) + 1].dts = d
    BY <2>1, PacketAdded
  <2>3. DOMAIN pkts' = 1..(Len(pkts) + 1)
    <3>1. Typed'
      BY TypedStep
    <3>2. DOMAIN pkts' = 1..Len(pkts')
      BY <3>1 DEF Typed
    <3> QED
      BY <2>2, <3>2
  \* every dts there is lies below the new one
  <2>4. ASSUME NEW i \in 1..Len(pkts), pkts[i].dts # NOPTS, d # NOPTS
        PROVE  \/ pkts[i].dts < d
               \/ BFrames > 0 /\ newest > 1 /\ pkts[i].dts = pts[1] /\ d = 2 * pts_0 - pts_1
    <3>1. \/ /\ rd > 0 /\ pkts[i].dts <= pts[rd]
             /\ BFrames > 0 /\ is_first_outframe => pkts[i].dts = pts[1]
          \/ ~is_first_outframe /\ newest > 0 /\ pkts[i].dts < pts[1]
      BY <2>0, <2>4 DEF Stamped
    <3>a. CASE newest > 1 /\ BFrames > 0 /\ is_first_outframe /\ d = 2 * pts_0 - pts_1
      BY <3>1, <3>a
    <3> SUFFICES ASSUME rd < newest, d = pts[rd + 1] PROVE pkts[i].dts < d
      BY <2>1, <2>4, <3>a
    <3>2. rd < newest /\ d = pts[rd + 1]
      OBVIOUS
    <3>3. rd > 0 => pts[rd] \in Int /\ pts[rd] < pts[rd + 1]
      <4> SUFFICES ASSUME rd > 0 PROVE pts[rd] \in Int /\ pts[rd] < pts[rd + 1]
        OBVIOUS
      <4>1. rd \in 1..newest /\ rd + 1 \in 1..newest /\ rd <= rd + 1 /\ rd < rd + 1
        BY <1>0, <3>2
      <4> QED
        BY <1>0, <4>1, PtsAscend
    <3>4. pts[1] \in Int /\ pts[1] <= pts[rd + 1]
      <4>1. 1 \in 1..newest /\ rd + 1 \in 1..newest /\ 1 <= rd + 1
        BY <1>0, <3>2
      <4> QED
        BY <1>0, <4>1, PtsAscend
    <3>5. pkts[i].dts \in Int
      BY <1>0
    <3> QED
      BY <3>1, <3>2, <3>3, <3>4, <3>5
  <2> SUFFICES ASSUME NEW i \in 1..(Len(pkts) + 1), NEW j \in 1..(Len(pkts) + 1), i < j,
                      pkts'[i].dts # NOPTS, pkts'[j].dts # NOPTS
               PROVE  \/ pkts'[i].dts < pkts'[j].dts
                      \/ /\ BFrames > 0 /\ newest > 1
                         /\ pkts'[i].dts = pts[1] /\ pkts'[j].dts = 2 * pts_0 - pts_1
    BY <2>1, <2>3 DEF DtsMonotone, NOPTS, newest, pts_0, pts_1
  <2>5. i \in 1..Len(pkts)
    BY <1>0
  <2>6. CASE j \in 1..Len(pkts)
    BY <1>0, <2>0, <2>2, <2>5, <2>6 DEF DtsMonotone, pts_0, newest
  <2>7. CASE j = Len(pkts) + 1
    BY <2>2, <2>4, <2>5, <2>7
  <2> QED
    BY <1>0, <2>6, <2>7
<1>3. CASE UNCHANGED <<pts, rd, is_first_outframe, overrun, pkts, newest>>
  BY <1>3 DEF DtsMonotone, NOPTS, pts_0, pts_1
<1> QED
  BY <1>1, <1>2, <1>3, StampsKept

\* Until pts_queue is overrun the dts of the packets increase, for any depth of
\* the devices, any B-frame structure and whatever was dropped, late or failed,
\* with the one exception: with B-frames, the extrapolated dts may come after a
\* packet that the encoder gave before its second frame, and that has pts_0.
THEOREM DtsIncrease == Spec => []DtsMonotone
<1>1. Init => Reading /\ Stamped /\ DtsMonotone
  <2> SUFFICES ASSUME Init PROVE Reading /\ Stamped /\ DtsMonotone
    OBVIOUS
  <2>1. pts = <<>> /\ pkts = <<>> /\ rd = 0 /\ is_first_outframe /\ newest = 0 /\ Len(pkts) = 0
    BY InitBase DEF Init
  <2>2. Reading
    BY <2>1, EmptyAscending, QueueAssumption DEF Reading
  <2> QED
    BY <2>1, <2>2 DEF Stamped, DtsMonotone
<1>2. Base /\ Reading /\ Stamped /\ DtsMonotone /\ [Next]_vars => Reading' /\ Stamped' /\ DtsMonotone'
  BY ReadingStep, StampedStep, MonotoneStep
<1> QED
  BY <1>1, <1>2, BaseInvariant, PTL DEF Spec

-----------------------------------------------------------------------------
(* dts and pts: at most one frame is coded ahead of its turn.              *)

\* A frame that one later frame may overtake, and that still may be overtaken,
\* was not.
LEMMA AheadIsNone ==
  ASSUME Typed, NEW g \in Nat, Reorder <= 1, Ahead(g) < Reorder
  PROVE  NotOvertaken(g) /\ Reorder = 1
<1> DEFINE A == {i \in DOMAIN pkts : pkts[i].frame > g}
<1>1. Len(pkts) \in Nat /\ DOMAIN pkts = 1..Len(pkts)
      /\ \A i \in 1..Len(pkts) : pkts[i].frame \in Nat
  BY PacketTyped
<1>2. IsFiniteSet(1..Len(pkts)) /\ A \subseteq 1..Len(pkts)
  BY <1>1, FS_Interval
<1>3. IsFiniteSet(A) /\ Cardinality(A) \in Nat
  BY <1>2, FS_Subset, FS_CardinalityType
<1>4. Reorder \in Nat /\ Cardinality(A) < Reorder
  BY EncoderAssumption DEF Ahead
<1>5. Cardinality(A) = 0 /\ Reorder = 1
  BY <1>3, <1>4
<1>6. A = {}
  BY <1>3, <1>5, FS_EmptySet
<1> QED
  BY <1>1, <1>5, <1>6 DEF NotOvertaken

\* A frame inside that is older than the one coded is in the encoder, too, and
\* is overtaken for the first time.
LEMMA OlderInside ==
  ASSUME Base, Reorder <= 1, NEW f \in Codable, NEW g \in Inside, g < f, cur = 0, Arriving = {}
  PROVE  NotOvertaken(g) /\ Reorder = 1
<1>1. Typed /\ Order /\ f \in enc /\ f \in Nat
  BY CodedFrame DEF Base
<1>2. Inside = Elems(la) \cup enc
  BY DEF Inside, InHand
<1>3. \A h \in Elems(la) : h \in Nat /\ f < h
  BY <1>1 DEF Order
<1>4. g \in enc /\ g \in Nat
  <2>1. \A e \in enc : e \in Nat
    BY <1>1 DEF Typed
  <2>2. g \notin Elems(la)
    BY <1>1, <1>3
  <2> QED
    BY <1>2, <2>1, <2>2
<1>5. Ahead(g) < Reorder
  BY <1>4 DEF Codable
<1> QED
  BY <1>1, <1>4, <1>5, AheadIsNone

\* Packets stay close to the order of the frames.
LEMMA ToBeCodedStep == Base /\ ToBeCoded /\ [Next]_vars => ToBeCoded'
<1> SUFFICES ASSUME Base, ToBeCoded, [Next]_vars PROVE ToBeCoded'
  OBVIOUS
<1>0. /\ Typed /\ newest \in Nat /\ Reorder \in Nat
      /\ \A f \in Inside : f \in 1..newest
  <2>1. Typed /\ Order /\ newest \in Nat /\ cur \in Nat
    BY DEF Base, Typed, newest
  <2>2. \A f \in Inside : f \in 1..newest
    BY <2>1 DEF Order, Inside, InHand, Arriving
  <2> QED
    BY <2>1, <2>2, EncoderAssumption
<1>p. Len(pkts) \in Nat /\ \A i \in 1..Len(pkts) : pkts[i].frame \in Nat
  BY <1>0, PacketTyped
<1>1. CASE EncodeFrame
  <2>1. newest' = newest + 1 /\ Inside' = Inside \cup {newest + 1} /\ pkts' = pkts
    BY <1>0, <1>1, FrameArrives, InsideMoves
  <2>2. \A i \in 1..Len(pkts) : pkts[i].frame <= newest /\ pkts[i].frame # newest + 1
                                /\ pkts[i].frame \notin Inside
    BY <1>0, <1>p DEF ToBeCoded
  <2>3. NotOvertaken(newest + 1)
    BY <1>0, <1>p, <2>2 DEF NotOvertaken
  <2>4. Reorder <= 1 => newest + 2 >= Len(pkts) + 1 /\ newest + 1 >= Len(pkts) + 1
    BY <1>0, <1>p, <2>3 DEF ToBeCoded
  <2>5. \A i \in 1..Len(pkts') : pkts'[i].frame <= newest' /\ pkts'[i].frame \notin Inside'
    BY <1>0, <1>p, <2>1, <2>2
  <2>6. \A f : NotOvertaken(f)' <=> NotOvertaken(f)
    BY <2>1 DEF NotOvertaken
  <2>7. Reorder <= 1 => \A f \in Inside' \cup {newest' + 1} :
                          f >= Len(pkts') /\ (NotOvertaken(f)' => f >= Len(pkts') + 1)
    <3> SUFFICES ASSUME Reorder <= 1, NEW f \in Inside \cup {newest + 1, newest + 2}
                 PROVE  f >= Len(pkts) /\ (NotOvertaken(f) => f >= Len(pkts) + 1)
      BY <1>0, <2>1, <2>6
    <3>1. CASE f \in Inside
      BY <3>1 DEF ToBeCoded
    <3>2. CASE f \in {newest + 1, newest + 2}
      BY <1>0, <1>p, <2>4, <3>2
    <3> QED
      BY <3>1, <3>2
  <2>8. Reorder = 0 => \A f \in Inside' : NotOvertaken(f)'
    BY <2>1, <2>3, <2>6 DEF ToBeCoded
  <2> QED
    BY <2>5, <2>7, <2>8 DEF ToBeCoded, NotOvertaken
<1>2. CASE RecvPacket
  <2>1. PICK f \in Codable, d \in Int : Codes(f, d)
    BY <1>2, StampMoves
  <2>2. Inside' = Inside \ {f} /\ f \in Inside /\ f \in 1..newest /\ f \in Nat
    BY <2>1, InsideMoves, CodedFrame
  <2>3. /\ Len(pkts') = Len(pkts) + 1 /\ newest' = newest
        /\ \A i \in 1..Len(pkts) : pkts'[i] = pkts[i]
        /\ pkts'[Len(pkts) + 1].frame = f
    BY <2>1, PacketAdded
  <2>4. \A i \in 1..Len(pkts') : pkts'[i].frame <= newest' /\ pkts'[i].frame \notin Inside'
    <3> SUFFICES ASSUME NEW i \in 1..(Len(pkts) + 1)
                 PROVE  pkts'[i].frame <= newest /\ pkts'[i].frame \notin Inside'
      BY <2>3
    <3>1. CASE i \in 1..Len(pkts)
      BY <2>2, <2>3, <3>1 DEF ToBeCoded
    <3>2. CASE i = Len(pkts) + 1
      BY <1>0, <2>2, <2>3, <3>2
    <3> QED
      BY <1>p, <3>1, <3>2
  <2>5. ASSUME NEW g \in Nat PROVE NotOvertaken(g)' <=> NotOvertaken(g) /\ f <= g
    <3>1. NotOvertaken(g)' <=> \A i \in 1..(Len(pkts) + 1) : pkts'[i].frame <= g
      BY <2>3 DEF NotOvertaken
    <3>2. \A i : i \in 1..(Len(pkts) + 1) <=> i \in 1..Len(pkts) \/ i = Len(pkts) + 1
      BY <1>p
    <3> QED
      BY <2>3, <3>1, <3>2 DEF NotOvertaken
  <2>6. cur = 0 /\ Arriving = {}
    BY <2>1 DEF Codes
  <2>7. ASSUME Reorder <= 1, NEW g \in Inside' \cup {newest + 1}
        PROVE  g >= Len(pkts) + 1 /\ (NotOvertaken(g)' => g >= Len(pkts) + 2)
    <3>0. g \in Nat /\ g # f /\ g \in Inside \cup {newest + 1}
      BY <1>0, <2>2, <2>7
    <3>1. CASE g < f
      <4>1. g \in Inside
        BY <1>0, <2>2, <3>0, <3>1
      <4>2. NotOvertaken(g) /\ ~(f <= g)
        BY <2>2, <2>6, <2>7, <3>0, <3>1, <4>1, OlderInside
      <4> QED
        BY <2>5, <2>7, <3>0, <4>2 DEF ToBeCoded
    <3>2. CASE f < g
      <4>1. f >= Len(pkts) /\ (NotOvertaken(f) => f >= Len(pkts) + 1)
        BY <2>2, <2>7 DEF ToBeCoded
      <4>2. CASE NotOvertaken(f)
        BY <1>p, <2>2, <3>0, <3>2, <4>1, <4>2
      <4>3. CASE ~NotOvertaken(f)
        \* the frame that overtook f is between f and g
        <5>1. PICK i \in 1..Len(pkts) : ~(pkts[i].frame <= f)
          BY <4>3 DEF NotOvertaken
        <5>2. pkts[i].frame \in Nat /\ pkts[i].frame # g
          BY <1>0, <1>p, <3>0 DEF ToBeCoded
        <5>3. NotOvertaken(g)' => pkts[i].frame <= g
          BY <2>5, <3>0 DEF NotOvertaken
        <5> QED
          BY <1>p, <2>2, <3>0, <3>2, <4>1, <5>1, <5>2, <5>3
      <4> QED
        BY <4>2, <4>3
    <3> QED
      BY <2>2, <3>0, <3>1, <3>2
  <2>8. ASSUME Reorder = 0, NEW g \in Inside' PROVE NotOvertaken(g)'
    <3>0. g \in Nat /\ g # f /\ g \in Inside
      BY <1>0, <2>2, <2>8
    <3>1. ~(g < f)
      BY <2>6, <2>8, <3>0, OlderInside
    <3>2. NotOvertaken(g)
      BY <2>8, <3>0 DEF ToBeCoded
    <3> QED
      BY <2>2, <2>5, <3>0, <3>1, <3>2
  <2>9. Reorder <= 1 => \A g \in Inside' \cup {newest' + 1} :
                          g >= Len(pkts') /\ (NotOvertaken(g)' => g >= Len(pkts') + 1)
    <3>1. (Len(pkts) + 1) + 1 = Len(pkts) + 2
      BY <1>p
    <3> QED
      BY <2>3, <2>7, <3>1
  <2> QED
    BY <2>4, <2>8, <2>9 DEF ToBeCoded, NotOvertaken
<1>3. CASE UNCHANGED <<pkts, newest>> /\ Inside' \subseteq Inside
  <2>1. \A f : NotOvertaken(f)' <=> NotOvertaken(f)
    BY <1>3 DEF NotOvertaken
  <2>2. \A i \in 1..Len(pkts') : pkts'[i].frame <= newest' /\ pkts'[i].frame \notin Inside'
    BY <1>3 DEF ToBeCoded
  <2>3. Reorder <= 1 => \A f \in Inside' \cup {newest' + 1} :
                          f >= Len(pkts') /\ (NotOvertaken(f)' => f >= Len(pkts') + 1)
    BY <1>3, <2>1 DEF ToBeCoded
  <2>4. Reorder = 0 => \A f \in Inside' : NotOvertaken(f)'
    BY <1>3, <2>1 DEF ToBeCoded
  <2> QED
    BY <2>2, <2>3, <2>4 DEF ToBeCoded, NotOvertaken
<1> QED
  BY <1>1, <1>2, <1>3, StampsKept

\* The dts of a packet is at most its pts.
LEMMA NotAboveStep ==
  ASSUME Base, Reading, ToBeCoded, DtsNotAbovePts, [Next]_vars, Reorder <= 1
  PROVE  DtsNotAbovePts'
<1> SUFFICES ASSUME ~overrun' PROVE DtsNotAbovePts'
  BY DEF DtsNotAbovePts
<1>0. Typed /\ newest \in Nat /\ rd \in Nat /\ Reorder \in Nat /\ BFrames \in Nat
  BY EncoderAssumption DEF Base, Typed, newest
<1>p. /\ Len(pkts) \in Nat /\ DOMAIN pkts = 1..Len(pkts)
      /\ \A i \in 1..Len(pkts) : pkts[i].pts \in Int /\ pkts[i].dts \in Int
  BY <1>0, PacketTyped
<1>1. CASE EncodeFrame
  <2>1. ~overrun /\ pkts' = pkts
    BY <1>1 DEF EncodeFrame
  <2> QED
    BY <2>1 DEF DtsNotAbovePts
<1>2. CASE RecvPacket
  <2>0. ~overrun
    BY <1>2 DEF RecvPacket
  <2>1. PICK f \in Codable, d \in Int :
           /\ Codes(f, d) /\ pts' = pts /\ (~is_first_outframe => ~is_first_outframe')
           /\ \/ /\ newest > 1 /\ BFrames > 0 /\ is_first_outframe /\ ~is_first_outframe'
                 /\ rd' = rd /\ d = 2 * pts_0 - pts_1 /\ d < pts[1]
              \/ d = NOPTS /\ rd' = rd
              \/ /\ rd < newest /\ rd' = rd + 1 /\ d = pts[rd + 1]
                 /\ BFrames > 0 => newest <= 1 \/ ~is_first_outframe
    BY <1>2, <2>0, NewDts
  <2>2. /\ Len(pkts') = Len(pkts) + 1 /\ \A i \in 1..Len(pkts) : pkts'[i] = pkts[i]
        /\ pkts'[Len(pkts) + 1].dts = d /\ pkts'[Len(pkts) + 1].pts = pts[f]
    BY <2>1, PacketAdded
  <2>3. f \in Inside /\ f \in 1..newest /\ f \in Nat
    BY <2>1, InsideMoves, CodedFrame
  <2>4. DOMAIN pkts' = 1..(Len(pkts) + 1)
    <3>1. Typed'
      BY TypedStep
    <3>2. DOMAIN pkts' = 1..Len(pkts')
      BY <3>1 DEF Typed
    <3> QED
      BY <2>2, <3>2
  <2>5. CASE d = NOPTS
    <3>1. \A i \in 1..(Len(pkts) + 1) : i \in 1..Len(pkts) \/ i = Len(pkts) + 1
      BY <1>p
    <3> QED
      BY <1>p, <2>0, <2>2, <2>4, <2>5, <3>1 DEF DtsNotAbovePts, NOPTS
  <2>6. d # NOPTS => d <= pts[f]
    <3> SUFFICES ASSUME d # NOPTS PROVE d <= pts[f]
      OBVIOUS
    <3>1. CASE newest > 1 /\ d < pts[1]
      <4>1. 1 \in 1..newest /\ 1 <= f
        BY <1>0, <2>3, <3>1
      <4>2. pts[1] \in Int /\ pts[f] \in Int /\ pts[1] <= pts[f]
        BY <1>0, <2>3, <4>1, PtsAscend
      <4> QED
        BY <3>1, <4>2
    <3>2. CASE rd < newest /\ d = pts[rd + 1] /\ (BFrames > 0 => newest <= 1 \/ ~is_first_outframe)
      <4>1. rd + 1 <= f
        <5>1. CASE BFrames = 0
          <6>1. Reorder = 0 /\ NotOvertaken(f)
            BY <2>3, <5>1, EncoderAssumption DEF ToBeCoded
          <6>2. f >= Len(pkts) + 1 /\ rd <= Len(pkts)
            BY <2>3, <6>1 DEF ToBeCoded, Reading
          <6> QED
            BY <1>0, <1>p, <2>3, <6>2
        <5>2. CASE BFrames > 0 /\ newest <= 1
          BY <1>0, <2>3, <3>2, <5>2
        <5>3. CASE BFrames > 0 /\ ~is_first_outframe
          <6>1. f >= Len(pkts) /\ rd + 1 <= Len(pkts)
            BY <2>3, <5>3 DEF ToBeCoded, Reading
          <6> QED
            BY <1>0, <1>p, <2>3, <6>1
        <5> QED
          BY <1>0, <3>2, <5>1, <5>2, <5>3
      <4>2. rd + 1 \in 1..newest
        BY <1>0, <3>2
      <4> QED
        BY <1>0, <2>3, <3>2, <4>1, <4>2, PtsAscend
    <3> QED
      BY <2>1, <3>1, <3>2
  <2> SUFFICES ASSUME NEW i \in 1..(Len(pkts) + 1), pkts'[i].dts # NOPTS
               PROVE  pkts'[i].dts <= pkts'[i].pts
    BY <2>4 DEF DtsNotAbovePts, NOPTS
  <2>7. CASE i \in 1..Len(pkts)
    BY <1>p, <2>0, <2>2, <2>7 DEF DtsNotAbovePts
  <2>8. CASE i = Len(pkts) + 1
    BY <2>2, <2>6, <2>8
  <2> QED
    BY <1>p, <2>7, <2>8
<1>3. CASE UNCHANGED <<pts, rd, is_first_outframe, overrun, pkts, newest>>
  BY <1>3 DEF DtsNotAbovePts
<1> QED
  BY <1>1, <1>2, <1>3, StampsKept

\* No packet is to be decoded after it is shown: the dts taken from pts_queue,
\* late by one frame with B-frames, stays at or below the pts, until pts_queue
\* is overrun.  With one frame of reordering, which is what the single
\* extrapolated dts makes up for; a pyramid of B-frames would need more.
THEOREM DtsBelowPts == Reorder <= 1 => (Spec => []DtsNotAbovePts)
<1> SUFFICES ASSUME Reorder <= 1 PROVE Spec => []DtsNotAbovePts
  OBVIOUS
<1>1. Init => Reading /\ ToBeCoded /\ DtsNotAbovePts
  <2> SUFFICES ASSUME Init PROVE Reading /\ ToBeCoded /\ DtsNotAbovePts
    OBVIOUS
  <2>1. /\ pts = <<>> /\ pkts = <<>> /\ rd = 0 /\ is_first_outframe /\ newest = 0 /\ Len(pkts) = 0
        /\ Inside = {}
    BY InitBase DEF Init
  <2>2. Reading
    BY <2>1, EmptyAscending, QueueAssumption DEF Reading
  <2>3. ToBeCoded
    BY <2>1 DEF ToBeCoded, NotOvertaken
  <2> QED
    BY <2>1, <2>2, <2>3 DEF DtsNotAbovePts
<1>2. Base /\ Reading /\ ToBeCoded /\ DtsNotAbovePts /\ [Next]_vars
        => Reading' /\ ToBeCoded' /\ DtsNotAbovePts'
  BY ReadingStep, ToBeCodedStep, NotAboveStep
<1> QED
  BY <1>1, <1>2, BaseInvariant, PTL DEF Spec

-----------------------------------------------------------------------------
(* The size of pts_queue.                                                  *)

\* The lookahead is full at most.
LEMMA LaFitsStep == Base /\ LaFits /\ [Next]_vars => LaFits'
<1> SUFFICES ASSUME Base, LaFits, [Next]_vars PROVE LaFits'
  OBVIOUS
<1>0. /\ Typed /\ Control /\ la \in Seq(Nat) /\ Len(la) \in Nat /\ LaCap \in Nat /\ LaDepth \in Nat
      /\ newest \in Nat /\ LaDepth < LaCap /\ Len(la) <= LaCap
  BY LookaheadAssumption DEF Base, Typed, newest, LaFits
<1>a. Len(Append(la, newest)) = Len(la) + 1 /\ Append(la, newest) \in Seq(Nat)
  BY <1>0
<1>b. \A s \in Seq(Nat) : s # <<>> => Len(Tail(s)) = Len(s) - 1 /\ Len(s) \in Nat /\ Tail(s) \in Seq(Nat)
  OBVIOUS
<1>c. ASSUME NEW held \in Seq(Nat), Len(held) <= LaCap, LaRecv(held) PROVE LaFits'
  <2>1. CASE la' = held
    BY <1>c, <2>1 DEF LaFits
  <2>2. CASE Len(held) > LaDepth /\ la' = Tail(held)
    <3>1. held # <<>>
      BY <1>0, <2>2, EmptyAscending
    <3> QED
      BY <1>0, <1>b, <1>c, <2>2, <3>1 DEF LaFits
  <2> QED
    BY <1>c, <2>1, <2>2 DEF LaRecv
<1> USE DEF laVars
<1>1. CASE LaSendFrame
  <2>1. Len(Append(la, newest)) <= LaCap /\ LaRecv(Append(la, newest))
    BY <1>0, <1>a, <1>1 DEF LaSendFrame
  <2> QED
    BY <1>a, <1>c, <2>1
<1>2. CASE LaSendSkipped
  BY <1>0, <1>c, <1>2 DEF LaSendSkipped
<1>3. CASE LaSendAgain
  <2>1. la # <<>> /\ la' = Append(Tail(la), newest)
    BY <1>0, <1>3, EmptyAscending DEF LaSendAgain
  <2>2. Tail(la) \in Seq(Nat) /\ Len(Tail(la)) = Len(la) - 1
    BY <1>0, <1>b, <2>1
  <2>3. Len(Append(Tail(la), newest)) = (Len(la) - 1) + 1
    BY <1>0, <2>2
  <2> QED
    BY <1>0, <2>1, <2>3 DEF LaFits
<1>4. CASE LaDrain
  <2>1. la' = la \/ (la # <<>> /\ la' = Tail(la))
    BY <1>4 DEF LaDrain
  <2>2. Len(la') = Len(la) \/ Len(la') = Len(la) - 1
    BY <1>0, <1>b, <2>1
  <2> QED
    BY <1>0, <2>2 DEF LaFits
<1>5. CASE LaError
  BY <1>0, <1>a, <1>5 DEF LaError, LaFits
<1>6. CASE mpsoc_vcu_encode_close
  <2>1. Len(la') = 0
    BY <1>6 DEF mpsoc_vcu_encode_close
  <2> QED
    BY <1>0, <2>1 DEF LaFits
<1>9. CASE LaSendAgainFails \/ LaDrainAgainFails
  <2>1. \/ la' = la
        \/ la # <<>> /\ (la' = Tail(la) \/ la' = Append(Tail(la), newest))
    BY <1>9 DEF LaSendAgainFails, LaDrainAgainFails
  <2>2. la # <<>> => Tail(la) \in Seq(Nat) /\ Len(Tail(la)) = Len(la) - 1
    BY <1>0, <1>b
  <2>3. la # <<>> => Len(Append(Tail(la), newest)) = (Len(la) - 1) + 1
    BY <1>0, <2>2
  <2> QED
    BY <1>0, <2>1, <2>2, <2>3 DEF LaFits
<1>7. CASE UNCHANGED la
  BY <1>7 DEF LaFits
<1>8. CASE Finished \/ UNCHANGED vars
  BY <1>7, <1>8 DEF Finished, vars
<1> QED
  BY <1>1, <1>2, <1>3, <1>4, <1>5, <1>6, <1>7, <1>8, <1>9
     DEF Next, mpsoc_vcu_encode_frame, xlnx_la_send_recv_frame, EncoderSession, Fault,
     SendNull, Receive, EncodeFrame, LaBypass, LaErrorDrain, EncSend, EncSendError,
     RecvPacket, RecvNoMem, RecvError, RecvAgain, FlushSend, FlushSendError, FlushRecvNothing

\* The frames in the encoder can be counted.
LEMMA EncFinite ==
  ASSUME Base
  PROVE  /\ IsFiniteSet(enc) /\ Cardinality(enc) \in Nat
         /\ \A f \in enc : Cardinality(enc \ {f}) = Cardinality(enc) - 1
         /\ \A f : f \notin enc => Cardinality(enc \cup {f}) = Cardinality(enc) + 1
<1>1. newest \in Nat /\ enc \subseteq 1..newest
  BY DEF Base, Typed, Order, newest
<1>2. IsFiniteSet(1..newest)
  BY <1>1, FS_Interval
<1>3. IsFiniteSet(enc)
  BY <1>1, <1>2, FS_Subset
<1> QED
  BY <1>3, FS_CardinalityType, FS_AddElement, FS_RemoveElement

\* The encoder is asked for a packet after each frame, and full it has one to
\* give.
LEMMA EncFitsStep == Base /\ EncFits /\ [Next]_vars => EncFits'
<1> SUFFICES ASSUME Base, EncFits, [Next]_vars, fault' = "none" PROVE EncFits'
  BY DEF EncFits
<1>0. /\ Typed /\ Control /\ Order /\ fault = "none" /\ EncCap \in Nat /\ EncCap > 0
      /\ Cardinality(enc) \in Nat
  BY FaultStays, EncFinite, EncoderAssumption DEF Base
<1>1. Cardinality(enc) <= EncCap /\ (pc # "recv" => Cardinality(enc) <= EncCap - 1)
  BY <1>0 DEF EncFits
<1> USE DEF encVars
<1>2. CASE EncSend
  <2>1. enc' = enc \cup {cur} /\ pc \in {"enc", "enc2"} /\ (pc' = "recv" \/ Cardinality(enc') < EncCap)
    BY <1>0, <1>2 DEF EncSend
  <2>2. cur \notin enc
    BY <1>0, <2>1 DEF Control, Order, Typed
  <2>3. Cardinality(enc') = Cardinality(enc) + 1
    BY <2>1, <2>2, EncFinite
  <2> QED
    BY <1>0, <1>1, <2>1, <2>3 DEF EncFits
<1>3. CASE RecvPacket
  <2>1. PICK f \in Codable, d \in Int : Codes(f, d)
    BY <1>3, StampMoves
  <2>2. f \in enc /\ enc' = enc \ {f}
    BY <2>1, CodedFrame DEF Codes
  <2>3. Cardinality(enc') = Cardinality(enc) - 1
    BY <2>2, EncFinite
  <2> QED
    BY <1>0, <1>1, <2>3 DEF EncFits
<1>4. CASE RecvAgain
  <2>1. enc' = enc /\ Cardinality(enc) < EncCap
    BY <1>4 DEF RecvAgain
  <2> QED
    BY <1>0, <1>1, <2>1 DEF EncFits
<1>5. CASE mpsoc_vcu_encode_close
  <2>1. Cardinality(enc') = 0
    BY <1>5, FS_EmptySet DEF mpsoc_vcu_encode_close
  <2> QED
    BY <1>0, <2>1 DEF EncFits
<1>6. CASE Fault
  BY <1>0, <1>6 DEF Fault, LaError, LaErrorDrain, LaSendAgainFails, LaDrainAgainFails, EncSendError, RecvNoMem, RecvError,
     FlushSendError, Happens
<1>7. CASE enc' = enc /\ pc # "recv"
  BY <1>0, <1>1, <1>7 DEF EncFits
<1>8. CASE SendNull \/ Receive \/ EncodeFrame \/ xlnx_la_send_recv_frame \/ FlushSend \/ FlushRecvNothing
  <2>1. enc' = enc /\ pc # "recv"
    BY <1>8 DEF SendNull, Receive, EncodeFrame, xlnx_la_send_recv_frame, LaBypass, LaSendFrame,
       LaSendSkipped, LaSendAgain, LaDrain, FlushSend, FlushRecvNothing
  <2> QED
    BY <1>7, <2>1
<1>9. CASE Finished \/ UNCHANGED vars
  <2>1. UNCHANGED <<enc, pc>>
    BY <1>9 DEF Finished, vars
  <2> QED
    BY <1>0, <2>1 DEF EncFits
<1> QED
  BY <1>2, <1>3, <1>4, <1>5, <1>6, <1>8, <1>9 DEF Next, mpsoc_vcu_encode_frame, EncoderSession

\* Once the second frame is there, whether the first dts can be computed does
\* not change.
LEMMA LosslessBefore ==
  ASSUME Base, [Next]_vars, Lossless'
  PROVE  Lossless
<1>0. Typed /\ newest \in Nat /\ fault = "none"
  BY FaultStays DEF Base, Typed, newest, Lossless
<1>1. dropped = {}
  <2>1. dropped \subseteq dropped'
    BY DEF Next, mpsoc_vcu_encode_frame, xlnx_la_send_recv_frame, EncoderSession, Fault, vars,
       SendNull, Receive, EncodeFrame, LaBypass, LaSendFrame, LaSendSkipped, LaSendAgain, LaDrain,
       LaError, LaErrorDrain, LaSendAgainFails, LaDrainAgainFails, EncSend, EncSendError, RecvPacket, RecvNoMem, RecvError, RecvAgain,
       FlushSend, FlushSendError, FlushRecvNothing, mpsoc_vcu_encode_close, Finished
  <2> QED
    BY <2>1 DEF Lossless
<1>2. newest < 2 \/ DeltaFits
  <2>1. CASE EncodeFrame
    <3>1. newest' = newest + 1 /\ \A i \in 1..newest : pts'[i] = pts[i]
      BY <1>0, <2>1, FrameArrives
    <3>2. newest >= 2 => pts'[1] = pts[1] /\ pts'[2] = pts[2] /\ ~(newest' < 2)
      BY <1>0, <3>1
    <3>3. newest >= 2 => (DeltaFits' => DeltaFits)
      BY <3>2 DEF DeltaFits, pts_0, pts_1
    <3> QED
      BY <1>0, <3>2, <3>3 DEF Lossless, newest
  <2>2. CASE pts' = pts
    <3>1. newest' = newest /\ (DeltaFits' => DeltaFits)
      BY <2>2 DEF newest, DeltaFits, pts_0, pts_1
    <3> QED
      BY <3>1 DEF Lossless, newest
  <2>3. EncodeFrame \/ pts' = pts
    BY TsMoves DEF RecvPacket
  <2> QED
    BY <2>1, <2>2, <2>3
<1> QED
  BY <1>0, <1>1, <1>2 DEF Lossless, newest

\* Without a loss a frame comes out of the places into a packet only.
LEMMA BufferedMoves ==
  ASSUME Base, [Next]_vars, Lossless', mode' # "closed"
  PROVE  \/ EncodeFrame /\ Buffered' = Buffered + 1
         \/ RecvPacket /\ Buffered' = Buffered - 1 /\ Buffered > 0
         \/ UNCHANGED <<pts, rd, is_first_outframe, overrun, pkts, newest>> /\ Buffered' = Buffered
<1>0. /\ Typed /\ Control /\ Order /\ Lossless /\ Len(la) \in Nat /\ Cardinality(enc) \in Nat
  BY LosslessBefore, EncFinite DEF Base, Typed
<1>1. CASE EncodeFrame
  BY <1>0, <1>1, FrameArrives DEF Buffered
<1>2. CASE RecvPacket
  <2>1. PICK f \in Codable, d \in Int : Codes(f, d)
    BY <1>2, StampMoves
  <2>2. f \in enc /\ enc' = enc \ {f} /\ la' = la /\ cur = 0 /\ cur' = 0 /\ ~Pending /\ ~Pending'
    BY <2>1, CodedFrame DEF Codes, Arriving
  <2>3. Cardinality(enc') = Cardinality(enc) - 1 /\ Cardinality(enc) # 0
    BY <1>0, <2>2, EncFinite, FS_EmptySet
  <2> QED
    BY <1>0, <1>2, <2>2, <2>3 DEF Buffered
<1>3. CASE ~EncodeFrame /\ ~RecvPacket
  <2>0. UNCHANGED <<pts, rd, is_first_outframe, overrun, pkts, newest>>
    BY <1>3, StampsKept
  <2>1. CASE Unmoved
    <3>1. UNCHANGED <<la, enc, cur>> /\ (Pending' <=> Pending)
      BY <2>1 DEF Unmoved, Arriving
    <3> QED
      BY <2>0, <3>1 DEF Buffered
  <2>2. CASE LaTakes
    <3>1. cur = 0 /\ ~Pending' /\ enc' = enc
      BY <2>2 DEF LaTakes, Passes, Arriving
    <3>2. \/ cur' = 0 /\ Len(la') = IF Pending THEN Len(la) + 1 ELSE Len(la)
          \/ cur' # 0 /\ Len(la') = (IF Pending THEN Len(la) + 1 ELSE Len(la)) - 1
      BY <2>2 DEF LaTakes, Passes
    <3>3. Buffered' = Buffered
      BY <1>0, <3>1, <3>2 DEF Buffered
    <3> QED
      BY <2>0, <3>3
  <2>3. CASE LaSkips \/ LaFails \/ LaLoses \/ EncoderRefuses
    BY <2>3 DEF LaSkips, LaFails, LaLoses, EncoderRefuses, Lossless
  <2>4. CASE ToEncoder
    <3>1. cur # 0 /\ cur' = 0 /\ enc' = enc \cup {cur} /\ la' = la /\ ~Pending /\ ~Pending'
      BY <2>4 DEF ToEncoder, Arriving
    <3>2. cur \notin enc
      BY <1>0, <3>1 DEF Order, Typed
    <3>3. Cardinality(enc') = Cardinality(enc) + 1
      BY <3>1, <3>2, EncFinite
    <3> QED
      BY <1>0, <2>0, <3>1, <3>3 DEF Buffered
  <2>5. CASE mpsoc_vcu_encode_close
    BY <2>5 DEF mpsoc_vcu_encode_close
  <2> QED
    BY <1>3, <2>1, <2>2, <2>3, <2>4, <2>5, Moves
<1> QED
  BY <1>1, <1>2, <1>3

\* What is unread in pts_queue is bounded by what the devices hold.
LEMMA CountedStep ==
  Base /\ Reading /\ LaFits /\ EncFits /\ Counted /\ [Next]_vars => Counted'
<1> SUFFICES ASSUME Base, Reading, LaFits, EncFits, Counted, [Next]_vars, Lossless'
             PROVE  Counted'
  BY DEF Counted
<1>0. /\ Typed /\ Control /\ Lossless /\ newest \in Nat /\ rd \in Nat /\ Len(la) \in Nat
      /\ Cardinality(enc) \in Nat /\ newest = Len(pts)
      /\ LaCap \in Nat /\ EncCap \in Nat /\ QueueCap \in Nat
  BY LosslessBefore, EncFinite, LookaheadAssumption, EncoderAssumption, QueueAssumption
     DEF Base, Typed, newest
<1>p. Len(pkts) \in Nat /\ Buffered \in Nat
  BY <1>0, PacketTyped DEF Buffered
<1>1. /\ mode # "closed" => newest = Len(pkts) + Buffered
      /\ rd + 1 >= Len(pkts) /\ (is_first_outframe => rd >= Len(pkts))
      /\ newest - rd <= LaCap + EncCap + 1
      /\ overrun => QueueCap <= LaCap + EncCap
  BY <1>0 DEF Counted
<1>2. ASSUME UNCHANGED <<pts, rd, is_first_outframe, overrun, pkts, newest>>,
             mode' # "closed" => mode # "closed" /\ Buffered' = Buffered
      PROVE  Counted'
  <2>1. mode' # "closed" => newest' = Len(pkts') + Buffered'
    BY <1>1, <1>2
  <2> QED
    BY <1>1, <1>2, <2>1 DEF Counted
<1>3. CASE mode' = "closed"
  <2>1. ~EncodeFrame /\ ~RecvPacket
    BY <1>0, <1>3 DEF EncodeFrame, RecvPacket, Receiving, Return, Control
  <2> QED
    BY <1>2, <1>3, <2>1, StampsKept
<1>4. CASE mode' # "closed"
  <2>0. mode # "closed" /\ newest = Len(pkts) + Buffered
    BY <1>0, <1>1, <1>4, ClosedStays
  <2>1. CASE EncodeFrame /\ Buffered' = Buffered + 1
    <3>1. newest' = newest + 1 /\ UNCHANGED <<rd, is_first_outframe, pkts>> /\ ~Pending
      BY <1>0, <2>1, FrameArrives
    <3>2. pc = "idle" /\ cur = 0 /\ overrun' = (overrun \/ newest - rd >= QueueCap)
      BY <1>0, <2>1 DEF EncodeFrame, newest, Control
    <3>3. Buffered = Len(la) + Cardinality(enc)
      BY <1>0, <3>1, <3>2 DEF Buffered
    <3>4. Len(la) <= LaCap /\ Cardinality(enc) <= EncCap - 1
      BY <1>0, <3>2 DEF LaFits, EncFits, Lossless
    <3>5. newest - rd <= LaCap + EncCap
      BY <1>0, <1>p, <1>1, <2>0, <3>3, <3>4
    <3>6. newest' - rd' <= LaCap + EncCap + 1
      BY <1>0, <3>1, <3>5
    <3>a. newest - rd >= QueueCap => QueueCap <= LaCap + EncCap
      BY <1>0, <3>5
    <3>7. overrun' => QueueCap <= LaCap + EncCap
      BY <1>1, <3>2, <3>a, Zenon
    <3>8. newest' = Len(pkts') + Buffered'
      BY <1>0, <1>p, <2>0, <2>1, <3>1
    <3> QED
      BY <1>1, <3>1, <3>6, <3>7, <3>8 DEF Counted
  <2>2. CASE RecvPacket /\ Buffered' = Buffered - 1 /\ Buffered > 0
    <3>1. PICK f \in Codable, d \in Int :
             /\ Codes(f, d)
             /\ UNCHANGED <<pts, overrun, mode>>
             /\ \/ /\ newest > 1 /\ BFrames > 0 /\ is_first_outframe /\ DeltaFits
                   /\ d = 2 * pts_0 - pts_1 /\ rd' = rd /\ is_first_outframe' = FALSE
                \/ /\ newest > 1 /\ BFrames > 0 /\ is_first_outframe /\ ~DeltaFits
                   /\ d = NOPTS /\ rd' = rd /\ is_first_outframe' = TRUE
                \/ /\ ~(newest > 1 /\ BFrames > 0 /\ is_first_outframe)
                   /\ is_first_outframe' = is_first_outframe
                   /\ \/ rd < newest /\ d = Dequeued /\ rd' = rd + 1
                      \/ ~(rd < newest) /\ d = NOPTS /\ rd' = rd
      BY <2>2, StampMoves
    <3>2. Len(pkts') = Len(pkts) + 1 /\ newest' = newest
      BY <3>1, PacketAdded
    <3>3. newest > 1 => DeltaFits
      BY <1>0 DEF Lossless
    <3>4. ~(rd < newest) => rd >= Len(pkts) + 1
      BY <1>0, <1>p, <2>0, <2>2
    <3>5. rd' + 1 >= Len(pkts') /\ (is_first_outframe' => rd' >= Len(pkts'))
      BY <1>0, <1>p, <1>1, <3>1, <3>2, <3>3, <3>4
    <3>6. newest' = Len(pkts') + Buffered'
      BY <1>0, <1>p, <2>0, <2>2, <3>2
    <3>7. newest' - rd' <= LaCap + EncCap + 1
      BY <1>0, <1>1, <3>1, <3>2
    <3> QED
      BY <1>1, <3>1, <3>5, <3>6, <3>7 DEF Counted
  <2>3. CASE UNCHANGED <<pts, rd, is_first_outframe, overrun, pkts, newest>> /\ Buffered' = Buffered
    BY <1>2, <2>0, <2>3
  <2> QED
    BY <1>4, <2>1, <2>2, <2>3, BufferedMoves
<1> QED
  BY <1>3, <1>4

\* How large pts_queue has to be, for any size of it: as long as no frame was
\* dropped, nothing failed and the first dts fits into an int64_t, at most one
\* entry more than the two devices hold is unread, and an entry is overwritten
\* unread only in a queue with no more entries than the devices hold frames.
THEOREM QueueNotOverrun == Spec => []QueueFits
<1>1. Init => Reading /\ LaFits /\ EncFits /\ Counted
  <2> SUFFICES ASSUME Init PROVE Reading /\ LaFits /\ EncFits /\ Counted
    OBVIOUS
  <2>1. /\ pts = <<>> /\ pkts = <<>> /\ rd = 0 /\ is_first_outframe /\ newest = 0 /\ Len(pkts) = 0
        /\ la = <<>> /\ Len(la) = 0 /\ enc = {} /\ cur = 0 /\ ~Pending /\ ~overrun
    BY InitBase, EmptyAscending DEF Init
  <2>2. Reading
    BY <2>1, EmptyAscending, QueueAssumption DEF Reading
  <2>3. Cardinality(enc) = 0
    BY <2>1, FS_EmptySet
  <2>4. LaFits /\ EncFits
    BY <2>1, <2>3, LookaheadAssumption, EncoderAssumption DEF LaFits, EncFits
  <2>5. Counted
    BY <2>1, <2>3, LookaheadAssumption, EncoderAssumption DEF Counted, Buffered
  <2> QED
    BY <2>2, <2>4, <2>5
<1>2. Base /\ Reading /\ LaFits /\ EncFits /\ Counted /\ [Next]_vars
        => Reading' /\ LaFits' /\ EncFits' /\ Counted'
  BY ReadingStep, LaFitsStep, EncFitsStep, CountedStep
<1>3. Counted => QueueFits
  BY DEF Counted, QueueFits, newest
<1> QED
  BY <1>1, <1>2, <1>3, BaseInvariant, PTL DEF Spec
=============================================================================
