------------------------------ MODULE XvbmFrames ------------------------------
(***************************************************************************)
(* libavutil/frame.c: AVFrames of format AV_PIX_FMT_XVBM.  Such a frame    *)
(* has an XmaFrame for data[0], held by the AVBuffer buf[0], and in it the *)
(* handle of a buffer of the device.  Two counts are kept beside each      *)
(* other: that of the AVBuffer, and that of the XVBM buffer, which         *)
(* av_frame_ref raises and av_frame_unref lowers.  The decoder takes       *)
(* buffers from a pool; the encoder and the scaler raise the count for the *)
(* device, which lowers it when it is done.                                *)
(*                                                                         *)
(* The pool and the device are external.                                   *)
(***************************************************************************)
EXTENDS Integers, FiniteSets

CONSTANTS Frames,     \* AVFrames the program has
          Bufs,       \* XVBM buffers in the pool
          NoBuf,      \* data[0] is NULL
          MaxDev,     \* bound: references of the device to a buffer
          MaxFaults   \* bound: allocations that fail

ASSUME FrameAssumption == IsFiniteSet(Frames) /\ IsFiniteSet(Bufs) /\ NoBuf \notin Bufs
ASSUME BoundAssumption == MaxDev \in Nat /\ MaxFaults \in Nat

VARIABLES
  handle,    \* the XVBM buffer of each AVFrame's XmaFrame, or NoBuf
  buf0,      \* AVFrames with a buf[0]
  refcnt,    \* count of each XVBM buffer; 0: it is in the pool
  dev,       \* references the device has to each buffer
  lost,      \* references nobody will give back
  unbuf,     \* an AVFrame was made without a buf[0]
  ended,     \* the stream is over
  faults

vars == <<handle, buf0, refcnt, dev, lost, unbuf, ended, faults>>

Init ==
  /\ handle = [f \in Frames |-> NoBuf] /\ buf0 = {}
  /\ refcnt = [b \in Bufs |-> 0] /\ dev = [b \in Bufs |-> 0] /\ lost = [b \in Bufs |-> 0]
  /\ unbuf = FALSE /\ ended = FALSE /\ faults = 0

Fails == faults < MaxFaults /\ faults' = faults + 1

xvbm_buffer_refcnt_inc(b) == refcnt' = [refcnt EXCEPT ![b] = @ + 1]
xvbm_buffer_pool_entry_free(b) == refcnt' = [refcnt EXCEPT ![b] = IF @ > 0 THEN @ - 1 ELSE 0]

-----------------------------------------------------------------------------
(* vcu_dec_get_out_buffer and av_frame_clone_xma_frame *)

\* The decoder has a buffer of the pool, with one reference, for a new frame.
CloneXmaFrame(f, b) ==
  /\ ~ended /\ handle[f] = NoBuf /\ refcnt[b] = 0
  /\ handle' = [handle EXCEPT ![f] = b] /\ buf0' = buf0 \cup {f}
  /\ xvbm_buffer_refcnt_inc(b)
  /\ UNCHANGED <<dev, lost, unbuf, ended, faults>>

\* No memory for the XmaFrame: the call fails and nobody frees the buffer.
CloneXmaFrameNoMem(f, b) ==
  /\ ~ended /\ handle[f] = NoBuf /\ refcnt[b] = 0 /\ Fails
  /\ xvbm_buffer_refcnt_inc(b) /\ lost' = [lost EXCEPT ![b] = @ + 1]
  /\ UNCHANGED <<handle, buf0, dev, unbuf, ended>>

\* No memory for the AVBuffer: data[0] is looked at instead of buf[0], and the
\* call succeeds.
CloneXmaFrameNoBuf(f, b) ==
  /\ ~ended /\ handle[f] = NoBuf /\ refcnt[b] = 0 /\ Fails
  /\ handle' = [handle EXCEPT ![f] = b] /\ unbuf' = TRUE
  /\ xvbm_buffer_refcnt_inc(b)
  /\ UNCHANGED <<buf0, dev, lost, ended>>

-----------------------------------------------------------------------------
(* av_frame_ref, av_frame_unref, av_frame_move_ref *)

FrameRef(dst, src) ==
  /\ ~ended /\ handle[dst] = NoBuf /\ handle[src] # NoBuf /\ src \in buf0
  /\ handle' = [handle EXCEPT ![dst] = handle[src]] /\ buf0' = buf0 \cup {dst}
  /\ xvbm_buffer_refcnt_inc(handle[src])
  /\ UNCHANGED <<dev, lost, unbuf, ended, faults>>

\* Without a buf[0] the "image" is copied: an XmaFrame with the same handle,
\* which is not counted.
FrameRefCopies(dst, src) ==
  /\ ~ended /\ handle[dst] = NoBuf /\ handle[src] # NoBuf /\ src \notin buf0
  /\ handle' = [handle EXCEPT ![dst] = handle[src]] /\ buf0' = buf0 \cup {dst}
  /\ UNCHANGED <<refcnt, dev, lost, unbuf, ended, faults>>

\* wrong: data is copied before the buffers are, so that the av_frame_unref of
\* the failure lowers a count that was not raised
FrameRefFailsLate(dst, src) ==
  /\ ~ended /\ handle[dst] = NoBuf /\ handle[src] # NoBuf /\ src \in buf0 /\ Fails
  /\ xvbm_buffer_pool_entry_free(handle[src])
  /\ UNCHANGED <<handle, buf0, dev, lost, unbuf, ended>>

\* A failure on the way: dst->data is still NULL when dst is unreferenced.
FrameRefFails(dst, src) ==
  /\ ~ended /\ handle[dst] = NoBuf /\ handle[src] # NoBuf /\ src \in buf0 /\ Fails
  /\ UNCHANGED <<handle, buf0, refcnt, dev, lost, unbuf, ended>>

\* wrong: buf[0] is dropped, the XVBM buffer is not
FrameUnrefKeeps(f) ==
  /\ handle[f] # NoBuf
  /\ handle' = [handle EXCEPT ![f] = NoBuf] /\ buf0' = buf0 \ {f}
  /\ UNCHANGED <<refcnt, dev, lost, unbuf, ended, faults>>

FrameUnref(f) ==
  /\ handle[f] # NoBuf
  /\ xvbm_buffer_pool_entry_free(handle[f])
  /\ handle' = [handle EXCEPT ![f] = NoBuf] /\ buf0' = buf0 \ {f}
  /\ UNCHANGED <<dev, lost, unbuf, ended, faults>>

\* The struct is copied and src reset.
FrameMoveRef(dst, src) ==
  /\ ~ended /\ handle[dst] = NoBuf /\ handle[src] # NoBuf
  /\ handle' = [handle EXCEPT ![dst] = handle[src], ![src] = NoBuf]
  /\ buf0' = IF src \in buf0 THEN (buf0 \ {src}) \cup {dst} ELSE buf0
  /\ UNCHANGED <<refcnt, dev, lost, unbuf, ended, faults>>

-----------------------------------------------------------------------------
(* mpsoc_vcu_encode_frame and multiscale_xma_filter_frame *)

\* A frame is sent to the device, with a reference of its own.
SendToDevice(f) ==
  /\ ~ended /\ handle[f] # NoBuf /\ dev[handle[f]] < MaxDev
  /\ xvbm_buffer_refcnt_inc(handle[f])
  /\ dev' = [dev EXCEPT ![handle[f]] = @ + 1]
  /\ UNCHANGED <<handle, buf0, lost, unbuf, ended, faults>>

\* The reference raised for a send that fails is not given back.
LosesReference(f) ==
  /\ xvbm_buffer_refcnt_inc(handle[f])
  /\ lost' = [lost EXCEPT ![handle[f]] = @ + 1]

\* The encoder gives it back when the answer is XMA_ERROR, on no other failure.
SendToEncoderFails(f) ==
  /\ ~ended /\ handle[f] # NoBuf /\ Fails
  /\ UNCHANGED <<refcnt, lost>> \/ LosesReference(f)
  /\ UNCHANGED <<handle, buf0, dev, unbuf, ended>>

\* The scaler never does.
SendToScalerFails(f) ==
  /\ ~ended /\ handle[f] # NoBuf /\ Fails
  /\ LosesReference(f)
  /\ UNCHANGED <<handle, buf0, dev, unbuf, ended>>

DeviceDone(b) ==
  /\ dev[b] > 0
  /\ dev' = [dev EXCEPT ![b] = @ - 1] /\ xvbm_buffer_pool_entry_free(b)
  /\ UNCHANGED <<handle, buf0, lost, unbuf, ended, faults>>

\* the program has no more frames to give to anyone
End == ~ended /\ ended' = TRUE /\ UNCHANGED <<handle, buf0, refcnt, dev, lost, unbuf, faults>>

Finished == ended /\ (\A f \in Frames : handle[f] = NoBuf) /\ (\A b \in Bufs : dev[b] = 0)
            /\ UNCHANGED vars

av_frame_clone_xma_frame(f, b) ==
  CloneXmaFrame(f, b) \/ CloneXmaFrameNoMem(f, b) \/ CloneXmaFrameNoBuf(f, b)
av_frame_ref(dst, src) == FrameRef(dst, src) \/ FrameRefCopies(dst, src) \/ FrameRefFails(dst, src)
Send(f) == SendToDevice(f) \/ SendToEncoderFails(f) \/ SendToScalerFails(f)
Drop == (\E f \in Frames : FrameUnref(f)) \/ (\E b \in Bufs : DeviceDone(b))

Next ==
  \/ \E f \in Frames, b \in Bufs : av_frame_clone_xma_frame(f, b)
  \/ \E dst, src \in Frames : av_frame_ref(dst, src) \/ FrameMoveRef(dst, src)
  \/ \E f \in Frames : Send(f)
  \/ Drop \/ End \/ Finished

Spec == Init /\ [][Next]_vars

\* Every AVFrame is freed in the end, and the device finishes what it has.
FairSpec == Spec /\ WF_vars(Drop)

-----------------------------------------------------------------------------
(* Properties *)

TypeOK ==
  /\ handle \in [Frames -> Bufs \cup {NoBuf}] /\ buf0 \subseteq Frames
  /\ refcnt \in [Bufs -> Nat] /\ dev \in [Bufs -> Nat] /\ lost \in [Bufs -> Nat]
  /\ unbuf \in BOOLEAN /\ ended \in BOOLEAN /\ faults \in 0..MaxFaults
  /\ \A f \in buf0 : handle[f] # NoBuf

Holders(b) == {f \in Frames : handle[f] = b}

\* The count of a buffer is that of the AVFrames and device jobs that use it:
\* av_frame_unref, which frees by format and data[0] alone, never frees the
\* buffer of a frame that was not counted, on any error path but the one that
\* leaves a frame without its buf[0].
CountIsExact ==
  ~unbuf => \A b \in Bufs : refcnt[b] = Cardinality(Holders(b)) + dev[b] + lost[b]

\* A buffer in the pool, which the decoder may fill at any time, is in no frame
\* and in no job of the device.
PoolIsUnused == ~unbuf => \A b \in Bufs : refcnt[b] = 0 => Holders(b) = {} /\ dev[b] = 0

\* At the end every buffer goes back to the pool but for the lost references.
ReturnsToPool == (ended /\ ~unbuf) ~> \A b \in Bufs : refcnt[b] = lost[b]
=============================================================================
