--------------------------- MODULE XvbmFramesProofs ---------------------------
(* Proofs about XvbmFrames: the count of a device buffer is exact. *)
EXTENDS XvbmFrames, FiniteSetTheorems, TLAPS

\* The AVFrames that show buffer b when h gives the buffer of each.
Show(h, b) == {f \in Frames : h[f] = b}

\* Only a clone that failed leaves a frame without its buf[0].
Buffered == ~unbuf => \A f \in Frames : handle[f] # NoBuf => f \in buf0

IInv == TypeOK /\ Buffered /\ CountIsExact

\* A buffer is shown by finitely many frames.
LEMMA ShowFinite ==
  ASSUME NEW h, NEW b
  PROVE  IsFiniteSet(Show(h, b)) /\ Cardinality(Show(h, b)) \in Nat
<1>1. Show(h, b) \subseteq Frames BY DEF Show
<1>2. IsFiniteSet(Show(h, b)) BY <1>1, FrameAssumption, FS_Subset
<1>3. QED BY <1>2, FS_CardinalityType

\* A frame that comes to show c is one more for c and changes nothing for others.
LEMMA ShowMore ==
  ASSUME NEW h \in [Frames -> Bufs \cup {NoBuf}], NEW f \in Frames, h[f] = NoBuf,
         NEW c \in Bufs, NEW b \in Bufs
  PROVE  Cardinality(Show([h EXCEPT ![f] = c], b))
           = Cardinality(Show(h, b)) + (IF b = c THEN 1 ELSE 0)
<1>1. NoBuf \notin Bufs BY FrameAssumption
<1>2. CASE b = c
  <2>1. Show([h EXCEPT ![f] = c], b) = Show(h, b) \cup {f} BY <1>2 DEF Show
  <2>2. f \notin Show(h, b) BY <1>1 DEF Show
  <2>3. Cardinality(Show(h, b) \cup {f}) = Cardinality(Show(h, b)) + 1
    BY <2>2, ShowFinite, FS_AddElement
  <2>4. QED BY <2>1, <2>3, <1>2
<1>3. CASE b # c
  <2>1. Show([h EXCEPT ![f] = c], b) = Show(h, b) BY <1>1, <1>3 DEF Show
  <2>2. QED BY <2>1, <1>3, ShowFinite
<1>4. QED BY <1>2, <1>3

\* A frame that stops showing its buffer is one less for that buffer.
LEMMA ShowLess ==
  ASSUME NEW h \in [Frames -> Bufs \cup {NoBuf}], NEW f \in Frames, h[f] # NoBuf,
         NEW b \in Bufs
  PROVE  Cardinality(Show([h EXCEPT ![f] = NoBuf], b))
           = Cardinality(Show(h, b)) - (IF b = h[f] THEN 1 ELSE 0)
<1>1. NoBuf \notin Bufs BY FrameAssumption
<1>2. CASE b = h[f]
  <2>1. Show([h EXCEPT ![f] = NoBuf], b) = Show(h, b) \ {f} BY <1>1, <1>2 DEF Show
  <2>2. f \in Show(h, b) BY <1>2 DEF Show
  <2>3. Cardinality(Show(h, b) \ {f}) = Cardinality(Show(h, b)) - 1
    BY <2>2, ShowFinite, FS_RemoveElement
  <2>4. QED BY <2>1, <2>3, <1>2
<1>3. CASE b # h[f]
  <2>1. Show([h EXCEPT ![f] = NoBuf], b) = Show(h, b) BY <1>1, <1>3 DEF Show
  <2>2. QED BY <2>1, <1>3, ShowFinite
<1>4. QED BY <1>2, <1>3

\* What is shown is counted at least once.
LEMMA ShownIsCounted ==
  ASSUME NEW h \in [Frames -> Bufs \cup {NoBuf}], NEW f \in Frames, NEW b, h[f] = b
  PROVE  Cardinality(Show(h, b)) > 0
<1>1. f \in Show(h, b) BY DEF Show
<1>2. Cardinality(Show(h, b)) # 0 BY <1>1, ShowFinite, FS_EmptySet
<1>3. QED BY <1>2, ShowFinite

\* CountIsExact in terms of Show.
LEMMA CountOf ==
  CountIsExact <=> (~unbuf => \A b \in Bufs : refcnt[b] = Cardinality(Show(handle, b)) + dev[b] + lost[b])
BY DEF CountIsExact, Holders, Show

\* The same for the next state.
LEMMA CountOfNext ==
  CountIsExact' <=> (~unbuf' => \A b \in Bufs : refcnt'[b] = Cardinality(Show(handle', b)) + dev'[b] + lost'[b])
BY DEF CountIsExact, Holders, Show

\* Init gives the invariant.
LEMMA InitIInv == Init => IInv
<1> SUFFICES ASSUME Init PROVE IInv OBVIOUS
<1>1. TypeOK
  <2>1. unbuf \in BOOLEAN /\ ended \in BOOLEAN BY DEF Init
  <2>2. /\ handle \in [Frames -> Bufs \cup {NoBuf}] /\ buf0 \subseteq Frames
        /\ refcnt \in [Bufs -> Nat] /\ dev \in [Bufs -> Nat] /\ lost \in [Bufs -> Nat]
        /\ \A f \in buf0 : handle[f] # NoBuf
    BY DEF Init
  <2>3. faults \in 0..MaxFaults BY BoundAssumption DEF Init
  <2>4. QED BY <2>1, <2>2, <2>3 DEF TypeOK
<1>2. Buffered BY DEF Init, Buffered
<1>3. ASSUME NEW b \in Bufs PROVE refcnt[b] = Cardinality(Show(handle, b)) + dev[b] + lost[b]
  <2>1. Show(handle, b) = {} BY FrameAssumption DEF Init, Show
  <2>2. QED BY <2>1, FS_EmptySet DEF Init
<1>4. QED BY <1>1, <1>2, <1>3, CountOf DEF IInv

\* Every step keeps the types.
LEMMA NextTypeOK == TypeOK /\ [Next]_vars => TypeOK'
<1> SUFFICES ASSUME TypeOK, [Next]_vars PROVE TypeOK' OBVIOUS
<1> USE FrameAssumption, BoundAssumption DEF TypeOK
<1>1. ASSUME NEW f \in Frames, NEW b \in Bufs, av_frame_clone_xma_frame(f, b) PROVE TypeOK'
  <2>1. CASE CloneXmaFrame(f, b) BY <2>1 DEF CloneXmaFrame, xvbm_buffer_refcnt_inc
  <2>2. CASE CloneXmaFrameNoMem(f, b)
    BY <2>2 DEF CloneXmaFrameNoMem, xvbm_buffer_refcnt_inc, Fails
  <2>3. CASE CloneXmaFrameNoBuf(f, b)
    BY <2>3 DEF CloneXmaFrameNoBuf, xvbm_buffer_refcnt_inc, Fails
  <2>4. QED BY <1>1, <2>1, <2>2, <2>3 DEF av_frame_clone_xma_frame
<1>2. ASSUME NEW dst \in Frames, NEW src \in Frames,
             av_frame_ref(dst, src) \/ FrameMoveRef(dst, src)
      PROVE TypeOK'
  <2>1. CASE FrameRef(dst, src) BY <2>1 DEF FrameRef, xvbm_buffer_refcnt_inc
  <2>2. CASE FrameRefCopies(dst, src) BY <2>2 DEF FrameRefCopies
  <2>3. CASE FrameRefFails(dst, src) BY <2>3 DEF FrameRefFails, Fails
  <2>4. CASE FrameMoveRef(dst, src) BY <2>4 DEF FrameMoveRef
  <2>5. QED BY <1>2, <2>1, <2>2, <2>3, <2>4 DEF av_frame_ref
<1>3. ASSUME NEW f \in Frames, Send(f) PROVE TypeOK'
  <2>1. CASE SendToDevice(f) BY <2>1 DEF SendToDevice, xvbm_buffer_refcnt_inc
  <2>2. CASE SendToEncoderFails(f) BY <2>2 DEF SendToEncoderFails, LosesReference, xvbm_buffer_refcnt_inc, Fails
  <2>3. CASE SendToScalerFails(f) BY <2>3 DEF SendToScalerFails, LosesReference, xvbm_buffer_refcnt_inc, Fails
  <2>4. QED BY <1>3, <2>1, <2>2, <2>3 DEF Send
<1>4. ASSUME NEW f \in Frames, FrameUnref(f) PROVE TypeOK'
  BY <1>4 DEF FrameUnref, xvbm_buffer_pool_entry_free
<1>5. ASSUME NEW b \in Bufs, DeviceDone(b) PROVE TypeOK'
  BY <1>5 DEF DeviceDone, xvbm_buffer_pool_entry_free
<1>6. CASE End BY <1>6 DEF End
<1>7. CASE UNCHANGED vars BY <1>7 DEF vars
<1>8. QED BY <1>1, <1>2, <1>3, <1>4, <1>5, <1>6, <1>7 DEF Next, Drop, Finished

\* Every step keeps the frames buffered.
LEMMA NextBuffered == TypeOK /\ Buffered /\ [Next]_vars => Buffered'
<1> SUFFICES ASSUME TypeOK, Buffered, [Next]_vars PROVE Buffered' OBVIOUS
<1> USE FrameAssumption DEF TypeOK, Buffered
<1>1. ASSUME NEW f \in Frames, NEW b \in Bufs, av_frame_clone_xma_frame(f, b) PROVE Buffered'
  BY <1>1 DEF av_frame_clone_xma_frame, CloneXmaFrame, CloneXmaFrameNoMem, CloneXmaFrameNoBuf
<1>2. ASSUME NEW dst \in Frames, NEW src \in Frames,
             av_frame_ref(dst, src) \/ FrameMoveRef(dst, src)
      PROVE Buffered'
  <2>1. CASE FrameRef(dst, src) BY <2>1 DEF FrameRef
  <2>2. CASE FrameRefCopies(dst, src) BY <2>2 DEF FrameRefCopies
  <2>3. CASE FrameRefFails(dst, src) BY <2>3 DEF FrameRefFails
  <2>4. CASE FrameMoveRef(dst, src) BY <2>4 DEF FrameMoveRef
  <2>5. QED BY <1>2, <2>1, <2>2, <2>3, <2>4 DEF av_frame_ref
<1>3. ASSUME NEW f \in Frames, Send(f) PROVE Buffered'
  BY <1>3 DEF Send, SendToDevice, SendToEncoderFails, SendToScalerFails
<1>4. ASSUME NEW f \in Frames, FrameUnref(f) PROVE Buffered' BY <1>4 DEF FrameUnref
<1>5. ASSUME NEW b \in Bufs, DeviceDone(b) PROVE Buffered' BY <1>5 DEF DeviceDone
<1>6. CASE End BY <1>6 DEF End
<1>7. CASE UNCHANGED vars BY <1>7 DEF vars
<1>8. QED BY <1>1, <1>2, <1>3, <1>4, <1>5, <1>6, <1>7 DEF Next, Drop, Finished

\* Every step keeps the count exact: a reference is counted where a frame or a
\* device gets it and dropped where it ends.
LEMMA NextCount == IInv /\ [Next]_vars => CountIsExact'
<1> SUFFICES ASSUME IInv, [Next]_vars, ~unbuf', NEW b \in Bufs
             PROVE  refcnt'[b] = Cardinality(Show(handle', b)) + dev'[b] + lost'[b]
  BY CountOfNext
<1> USE FrameAssumption DEF TypeOK
<1>0. TypeOK /\ Buffered BY DEF IInv
<1>a. Cardinality(Show(handle, b)) \in Nat BY ShowFinite
<1>b. ~unbuf => refcnt[b] = Cardinality(Show(handle, b)) + dev[b] + lost[b] BY CountOf DEF IInv
<1>1. ASSUME NEW f \in Frames, NEW c \in Bufs, av_frame_clone_xma_frame(f, c)
      PROVE  refcnt'[b] = Cardinality(Show(handle', b)) + dev'[b] + lost'[b]
  <2>1. CASE CloneXmaFrame(f, c)
    <3>0. /\ handle \in [Frames -> Bufs \cup {NoBuf}] /\ handle[f] = NoBuf
          /\ handle' = [handle EXCEPT ![f] = c]
      BY <2>1, <1>0 DEF CloneXmaFrame
    <3>1. Cardinality(Show(handle', b)) = Cardinality(Show(handle, b)) + (IF b = c THEN 1 ELSE 0)
      BY <3>0, ShowMore
    <3>2. QED BY <2>1, <3>1, <1>0, <1>a, <1>b DEF CloneXmaFrame, xvbm_buffer_refcnt_inc
  <2>2. CASE CloneXmaFrameNoMem(f, c)
    BY <2>2, <1>0, <1>a, <1>b DEF CloneXmaFrameNoMem, xvbm_buffer_refcnt_inc
  <2>3. CASE CloneXmaFrameNoBuf(f, c) BY <2>3 DEF CloneXmaFrameNoBuf
  <2>4. QED BY <1>1, <2>1, <2>2, <2>3 DEF av_frame_clone_xma_frame
<1>2. ASSUME NEW dst \in Frames, NEW src \in Frames,
             av_frame_ref(dst, src) \/ FrameMoveRef(dst, src)
      PROVE  refcnt'[b] = Cardinality(Show(handle', b)) + dev'[b] + lost'[b]
  <2>1. CASE FrameRef(dst, src)
    <3>1. /\ handle \in [Frames -> Bufs \cup {NoBuf}] /\ handle[dst] = NoBuf
          /\ handle[src] \in Bufs /\ handle' = [handle EXCEPT ![dst] = handle[src]]
      BY <2>1, <1>0 DEF FrameRef
    <3>2. Cardinality(Show(handle', b))
            = Cardinality(Show(handle, b)) + (IF b = handle[src] THEN 1 ELSE 0)
      BY <3>1, ShowMore
    <3>3. QED BY <2>1, <3>1, <3>2, <1>0, <1>a, <1>b DEF FrameRef, xvbm_buffer_refcnt_inc
  <2>2. CASE FrameRefCopies(dst, src) BY <2>2, <1>0 DEF FrameRefCopies, Buffered
  <2>3. CASE FrameRefFails(dst, src) BY <2>3, <1>b DEF FrameRefFails
  <2>4. CASE FrameMoveRef(dst, src)
    <3> DEFINE h == [handle EXCEPT ![src] = NoBuf]
    <3>1. /\ handle[src] \in Bufs /\ dst # src /\ h \in [Frames -> Bufs \cup {NoBuf}]
          /\ h[dst] = NoBuf /\ handle' = [h EXCEPT ![dst] = handle[src]]
      BY <2>4, <1>0 DEF FrameMoveRef
    <3>2. Cardinality(Show(h, b))
            = Cardinality(Show(handle, b)) - (IF b = handle[src] THEN 1 ELSE 0)
      BY <2>4, <1>0, ShowLess DEF FrameMoveRef
    <3> HIDE DEF h
    <3>3. Cardinality(Show(handle', b))
            = Cardinality(Show(h, b)) + (IF b = handle[src] THEN 1 ELSE 0)
      BY <3>1, ShowMore
    <3>4. Cardinality(Show(handle', b)) = Cardinality(Show(handle, b)) BY <3>2, <3>3, <1>a
    <3>5. QED BY <2>4, <3>4, <1>b DEF FrameMoveRef
  <2>5. QED BY <1>2, <2>1, <2>2, <2>3, <2>4 DEF av_frame_ref
<1>3. ASSUME NEW f \in Frames, Send(f)
      PROVE  refcnt'[b] = Cardinality(Show(handle', b)) + dev'[b] + lost'[b]
  <2>1. CASE SendToDevice(f)
    BY <2>1, <1>0, <1>a, <1>b DEF SendToDevice, xvbm_buffer_refcnt_inc
  <2>2. CASE SendToEncoderFails(f)
    BY <2>2, <1>0, <1>a, <1>b DEF SendToEncoderFails, LosesReference, xvbm_buffer_refcnt_inc
  <2>3. CASE SendToScalerFails(f)
    BY <2>3, <1>0, <1>a, <1>b DEF SendToScalerFails, LosesReference, xvbm_buffer_refcnt_inc
  <2>4. QED BY <1>3, <2>1, <2>2, <2>3 DEF Send
<1>4. ASSUME NEW f \in Frames, FrameUnref(f)
      PROVE  refcnt'[b] = Cardinality(Show(handle', b)) + dev'[b] + lost'[b]
  <2>1. handle[f] \in Bufs BY <1>4, <1>0 DEF FrameUnref
  <2>2. Cardinality(Show(handle', b))
          = Cardinality(Show(handle, b)) - (IF b = handle[f] THEN 1 ELSE 0)
    BY <1>4, <1>0, ShowLess DEF FrameUnref
  <2>3. b = handle[f] => Cardinality(Show(handle, b)) > 0 BY <1>0, ShownIsCounted
  <2>4. QED BY <1>4, <2>1, <2>2, <2>3, <1>0, <1>a, <1>b DEF FrameUnref, xvbm_buffer_pool_entry_free
<1>5. ASSUME NEW c \in Bufs, DeviceDone(c)
      PROVE  refcnt'[b] = Cardinality(Show(handle', b)) + dev'[b] + lost'[b]
  BY <1>5, <1>0, <1>a, <1>b DEF DeviceDone, xvbm_buffer_pool_entry_free
<1>6. CASE End BY <1>6, <1>b DEF End
<1>7. CASE UNCHANGED vars BY <1>7, <1>b DEF vars
<1>8. QED BY <1>1, <1>2, <1>3, <1>4, <1>5, <1>6, <1>7 DEF Next, Drop, Finished

\* Every step keeps the invariant.
LEMMA NextIInv == IInv /\ [Next]_vars => IInv'
BY NextTypeOK, NextBuffered, NextCount DEF IInv

\* The three together hold always.
LEMMA AlwaysIInv == Spec => []IInv
BY InitIInv, NextIInv, PTL DEF Spec

\* The frames, buffers and counts are of their types: a frame with a buf[0] shows
\* a buffer.
THEOREM TypeCorrect == Spec => []TypeOK
<1>1. IInv => TypeOK BY DEF IInv
<1>2. QED BY <1>1, AlwaysIInv, PTL

\* As long as no frame was made without its buf[0], the count of every buffer is
\* exact, for any number of frames, buffers, jobs and failures.
THEOREM CountCorrect == Spec => []CountIsExact
<1>1. IInv => CountIsExact BY DEF IInv
<1>2. QED BY <1>1, AlwaysIInv, PTL

\* A buffer the decoder may fill again is shown by no frame and used by no device.
THEOREM PoolCorrect == Spec => []PoolIsUnused
<1>1. IInv => PoolIsUnused
  <2> SUFFICES ASSUME IInv, ~unbuf, NEW b \in Bufs, refcnt[b] = 0
               PROVE  Holders(b) = {} /\ dev[b] = 0
    BY DEF PoolIsUnused
  <2>1. refcnt[b] = Cardinality(Show(handle, b)) + dev[b] + lost[b] BY CountOf DEF IInv
  <2>2. dev[b] \in Nat /\ lost[b] \in Nat BY DEF IInv, TypeOK
  <2>3. Cardinality(Show(handle, b)) = 0 /\ dev[b] = 0 BY <2>1, <2>2, ShowFinite
  <2>4. Show(handle, b) = {} BY <2>3, ShowFinite, FS_EmptySet
  <2>5. QED BY <2>3, <2>4 DEF Show, Holders
<1>2. QED BY <1>1, AlwaysIInv, PTL
=============================================================================
