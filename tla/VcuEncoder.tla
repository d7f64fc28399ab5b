------------------------------ MODULE VcuEncoder ------------------------------
(***************************************************************************)
(* libavcodec/mpsoc_vcu_enc.c and xlnx_lookahead.c: the encoder on the VCU *)
(* with the lookahead in front of it, driven by encode.c and ffmpeg.c.     *)
(* A frame goes through two pipelines, and a call of mpsoc_vcu_encode_frame *)
(* returns at most one packet, of an earlier frame.  The pts of the frames *)
(* wait in pts_queue and become the dts of the packets.                    *)
(*                                                                         *)
(* A step is one call into the lookahead or into the XMA encoder session   *)
(* with what the encoder does with its result.  Frame f is the f-th frame  *)
(* given to the encoder, an XVBM buffer with a reference of its own.  The  *)
(* two devices are external.  The lookahead gives a frame back when it     *)
(* holds more than LaDepth, may lag, and refuses a frame when it is full.  *)
(* The encoder codes a frame after at most Reorder later ones (one with    *)
(* B-frames, more in a pyramid), with any delay until it is full, and      *)
(* drops its reference with the packet.  Lags are the answers by which a   *)
(* device puts the caller off in a drain, with frames left in it.  A       *)
(* packet ends up in pkts when encode.c moves it out.                      *)
(***************************************************************************)
EXTENDS Integers, Sequences, FiniteSets

CONSTANTS LaDepth,     \* external: frames the lookahead keeps back
          LaCap,       \* external: frames it holds at most
          BFrames,     \* b_frames
          Reorder,     \* external: later frames coded before a frame
          EncCap,      \* external: frames the encoder holds at most
          QueueCap,    \* entries of pts_queue (64)
          TsMin, TsMax,   \* INT64_MIN and INT64_MAX
          MaxFrames,   \* bound: frames in the input
          MaxGap,      \* bound: distance of two pts
          Lags,        \* the answers of AllLags that the devices give
          Faults       \* the kinds of fault that may happen, at most one in a run

NOPTS == TsMin   \* AV_NOPTS_VALUE

\* external: the encoder answers a frame by XMA_SEND_MORE_DATA or a flush by
\* XMA_FLUSH_AGAIN, or a drained device has nothing now (XMA_TRY_AGAIN, or
\* XMA_SUCCESS with recv_size 0)
AllLags == {"more_data", "flush_again", "nothing"}
AllFaults == {"lookahead", "encoder", "memory"}

ASSUME LookaheadAssumption ==
  LaDepth \in Nat /\ LaCap \in Nat /\ LaDepth < LaCap
ASSUME EncoderAssumption ==
  /\ BFrames \in Nat /\ Reorder \in Nat /\ EncCap \in Nat \ {0}
  /\ (BFrames = 0) = (Reorder = 0)
ASSUME QueueAssumption == QueueCap \in Nat \ {0}
ASSUME TimeAssumption ==
  TsMin \in Int /\ TsMax \in Int /\ TsMin < 0 /\ 0 < TsMax /\ MaxFrames \in Nat /\ MaxGap \in Nat
ASSUME FaultAssumption == Faults \subseteq AllFaults /\ Lags \subseteq AllLags

VARIABLES
  mode,         \* "feed", "drain" (internal->draining), "eof", "failed", "abort" (an
                \* assertion), "crash" (NULL dereferenced), "closed"
  call,         \* what encode.c is in: "none", "frame", "send_null" or "receive"
  pc,           \* "idle", or the next device call of mpsoc_vcu_encode_frame
  cur,          \* enc_in_frame, 0 for NULL
  pts,          \* pts of the frames, as written to pts_queue
  rd,           \* entries read from pts_queue
  is_first_outframe, sent_flush,
  bypass,       \* la_ctx->bypass: the lookahead passes frames through
  out_frame,    \* la_ctx->out_frame is set
  la,           \* frames in the lookahead, oldest first
  enc,          \* frames in the encoder
  encFlushed,   \* the encoder has accepted the last frame
  pkts,         \* packets given to ffmpeg
  dropped,      \* frames marked do_not_encode, or lost by an ignored error
  rel,          \* how often the reference of each frame was released
  lost,         \* frames whose reference was left by a failing answer
  late,         \* a device was put off in this call of a drain, with frames left
  overrun,      \* an unread entry of pts_queue was overwritten
  fault         \* the fault that happened, or "none"

apiVars == <<mode, call>>
tsVars == <<pts, rd, is_first_outframe, overrun>>
laVars == <<bypass, out_frame, la>>
encVars == <<enc, encFlushed>>
vars == <<apiVars, pc, cur, tsVars, sent_flush, laVars, encVars, pkts, dropped, rel, lost, late, fault>>

\* mpsoc_vcu_encode_init has succeeded.
Init ==
  /\ mode = "feed" /\ call = "none" /\ pc = "idle" /\ cur = 0
  /\ pts = <<>> /\ rd = 0 /\ is_first_outframe = TRUE /\ overrun = FALSE
  /\ sent_flush = FALSE /\ bypass \in BOOLEAN /\ out_frame = TRUE /\ la = <<>>
  /\ enc = {} /\ encFlushed = FALSE
  /\ pkts = <<>> /\ dropped = {} /\ rel = <<>> /\ lost = {} /\ late = FALSE /\ fault = "none"

Happens(kind) == fault = "none" /\ kind \in Faults /\ fault' = kind

\* xvbm_buffer_pool_entry_free
Free(f) == rel' = [rel EXCEPT ![f] = @ + 1]

-----------------------------------------------------------------------------
(* encode.c and ffmpeg.c *)

\* wrong: a call without a packet is never the end
ReturnGoesOn(got) == pc' = "idle" /\ call' = "none" /\ cur' = 0 /\ mode' = mode

\* do_encode returns 0: a call of avcodec_receive_packet without a packet is
\* the end for encode.c, the call of avcodec_send_frame(NULL) is not.
Return(got) ==
  /\ pc' = "idle" /\ call' = "none" /\ cur' = 0
  /\ mode' = IF call = "receive" /\ ~got THEN "eof" ELSE mode

\* ... returns an error: ffmpeg gives up.
ReturnError == pc' = "idle" /\ call' = "none" /\ cur' = 0 /\ mode' = "failed"

\* ... AVERROR_EOF, which is the end only from avcodec_receive_packet
ReturnEof ==
  /\ pc' = "idle" /\ call' = "none" /\ cur' = 0
  /\ mode' = IF call = "receive" THEN "eof" ELSE "failed"

Crash == pc' = "idle" /\ call' = "none" /\ cur' = 0 /\ mode' = "crash"

SendNull ==
  /\ mode = "feed" /\ pc = "idle"
  /\ mode' = "drain" /\ call' = "send_null" /\ pc' = "la"
  /\ UNCHANGED <<cur, tsVars, sent_flush, laVars, encVars, pkts, dropped, rel, lost, late, fault>>

Receive ==
  /\ mode = "drain" /\ pc = "idle"
  /\ call' = "receive" /\ pc' = "la" /\ late' = FALSE
  /\ UNCHANGED <<mode, cur, tsVars, sent_flush, laVars, encVars, pkts, dropped, rel, lost, fault>>

-----------------------------------------------------------------------------
(* mpsoc_vcu_encode_frame: the timestamps *)

pts_0 == pts[1]
pts_1 == pts[2]

\* av_fifo_generic_read: the slot of entry rd + 1, with what was written into it last
Dequeued == CHOOSE p \in {pts[j] : j \in {j \in (rd + 1)..Len(pts) :
                            j + QueueCap > Len(pts) /\ (j - rd - 1) % QueueCap = 0}} : TRUE

\* a packet's dts and what giving it does to rd and is_first_outframe
Stamp(dts, read, first) == [dts |-> dts, rd |-> read, first |-> first]

\* wrong: the read does not move on
mpsoc_vcu_encode_dequeue_pts_peek ==
  Stamp(IF rd < Len(pts) THEN Dequeued ELSE NOPTS, rd, is_first_outframe)

mpsoc_vcu_encode_dequeue_pts ==
  IF rd < Len(pts) THEN Stamp(Dequeued, rd + 1, is_first_outframe)
                   ELSE Stamp(NOPTS, rd, is_first_outframe)

\* neither pts_1 - pts_0 nor pts_0 - (pts_1 - pts_0) leaves the range of int64_t
DeltaFits ==
  LET delta == pts_1 - pts_0
  IN /\ ~(pts_0 < 0 /\ pts_1 > TsMax + pts_0) /\ ~(pts_0 > 0 /\ pts_1 < TsMin + pts_0)
     /\ ~(delta < 0 /\ pts_0 > TsMax + delta) /\ ~(delta > 0 /\ pts_0 < TsMin + delta)

\* wrong: every packet takes its dts from the queue
prepare_out_timestamp_plain == mpsoc_vcu_encode_dequeue_pts

\* wrong: is_first_outframe stays set
prepare_out_timestamp_sticky ==
  IF Len(pts) > 1 /\ BFrames > 0 /\ is_first_outframe
  THEN Stamp(IF DeltaFits THEN 2 * pts_0 - pts_1 ELSE NOPTS, rd, TRUE)
  ELSE mpsoc_vcu_encode_dequeue_pts

\* With B-frames the first packet gets a dts before that of the first frame,
\* so that the dts of the others are late by one frame.
mpsoc_vcu_encode_prepare_out_timestamp ==
  IF Len(pts) > 1 /\ BFrames > 0 /\ is_first_outframe
  THEN IF DeltaFits THEN Stamp(2 * pts_0 - pts_1, rd, FALSE)
                    ELSE Stamp(NOPTS, rd, TRUE)
  ELSE mpsoc_vcu_encode_dequeue_pts

-----------------------------------------------------------------------------
(* mpsoc_vcu_encode_frame: input and lookahead *)

\* With a frame: a reference is taken and its pts queued, with no look at the
\* space in the queue.
EncodeFrame ==
  /\ mode = "feed" /\ pc = "idle" /\ Len(pts) < MaxFrames
  /\ \E p \in (TsMin + 1)..TsMax :
       /\ pts # <<>> => p - pts[Len(pts)] \in 1..MaxGap
       /\ pts' = Append(pts, p)
  /\ overrun' = (overrun \/ Len(pts) - rd >= QueueCap)
  /\ rel' = Append(rel, 0)
  /\ call' = "frame" /\ pc' = "la"
  /\ UNCHANGED <<mode, cur, rd, is_first_outframe, sent_flush, laVars, encVars, pkts, dropped, lost, late, fault>>

newest == Len(pts)   \* la_in_frame in a call with a frame

\* xlnx_la_send_recv_frame in bypass mode: what comes in goes out
LaBypass ==
  /\ pc = "la" /\ bypass
  /\ IF call = "frame" THEN cur' = newest /\ pc' = "enc" ELSE cur' = 0 /\ pc' = "flush"
  /\ UNCHANGED <<apiVars, tsVars, sent_flush, laVars, encVars, pkts, dropped, rel, lost, late, fault>>

\* xma_filter_session_recv_frame from the frames held: one is handed out in
\* out_frame, or there is none yet and the call is over (XMA_SEND_MORE_DATA).
LaRecv(held) ==
  \/ /\ Len(held) > LaDepth
     /\ cur' = Head(held) /\ la' = Tail(held) /\ out_frame' = FALSE /\ pc' = "enc"
     /\ UNCHANGED apiVars
  \/ /\ la' = held /\ Return(FALSE) /\ UNCHANGED out_frame

LaSendFrame ==
  /\ pc = "la" /\ call = "frame" /\ ~bypass /\ out_frame /\ Len(la) < LaCap
  /\ LaRecv(Append(la, newest))
  /\ UNCHANGED <<tsVars, sent_flush, bypass, encVars, pkts, dropped, rel, lost, late, fault>>

\* wrong: the buffer of a frame that is not encoded stays referenced
LaSendSkippedKeeps ==
  /\ pc = "la" /\ call = "frame" /\ ~bypass /\ out_frame
  /\ dropped' = dropped \cup {newest}
  /\ LaRecv(la)
  /\ UNCHANGED <<tsVars, sent_flush, bypass, encVars, pkts, rel, lost, late, fault>>

\* A frame marked do_not_encode is not sent: its reference is dropped at once.
LaSendSkipped ==
  /\ pc = "la" /\ call = "frame" /\ ~bypass /\ out_frame
  /\ Free(newest) /\ dropped' = dropped \cup {newest}
  /\ LaRecv(la)
  /\ UNCHANGED <<tsVars, sent_flush, bypass, encVars, pkts, lost, late, fault>>

\* The frame is refused (XMA_TRY_AGAIN): one is received, then it is sent again.
LaSendAgain ==
  /\ pc = "la" /\ call = "frame" /\ ~bypass /\ out_frame /\ Len(la) = LaCap
  /\ cur' = Head(la) /\ la' = Append(Tail(la), newest) /\ out_frame' = FALSE /\ pc' = "enc"
  /\ UNCHANGED <<apiVars, tsVars, sent_flush, bypass, encVars, pkts, dropped, rel, lost, late, fault>>

\* no frame for the encoder, and no XMA_SEND_MORE_DATA with a frame: goto start_flush
StartFlush == pc' = "flush" /\ UNCHANGED <<cur, apiVars>>

\* ... but nothing is received, or the second try fails.  An answer that is
\* neither an error nor XMA_SEND_MORE_DATA makes the encoder flush, and what was
\* received stays in out_frame, to be overwritten.
LaSendAgainFails ==
  /\ pc = "la" /\ call = "frame" /\ ~bypass /\ out_frame /\ Happens("lookahead")
  /\ \/ /\ la' = la /\ lost' = lost \cup {newest} /\ UNCHANGED rel
        /\ Return(FALSE) \/ StartFlush
     \/ /\ la # <<>> /\ la' = Tail(la) /\ lost' = lost \cup {Head(la)} /\ Free(newest)
        /\ ReturnError
     \/ /\ la # <<>> /\ la' = Tail(la) /\ lost' = lost \cup {Head(la), newest} /\ UNCHANGED rel
        /\ StartFlush
     \/ /\ la # <<>> /\ la' = Append(Tail(la), newest) /\ lost' = lost \cup {Head(la)} /\ UNCHANGED rel
        /\ Return(FALSE)
  /\ UNCHANGED <<tsVars, sent_flush, bypass, out_frame, encVars, pkts, dropped, late>>

\* In a drain NULL is sent and the remaining frames come out.  When there are
\* none (XMA_EOS), or none yet, the encoder is flushed.
LaDrain ==
  /\ pc \in {"la", "la2"} /\ call # "frame" /\ ~bypass /\ out_frame
  /\ \/ /\ la # <<>>
        /\ cur' = Head(la) /\ la' = Tail(la) /\ out_frame' = FALSE
        /\ pc' = IF pc = "la" THEN "enc" ELSE "enc2"
        /\ UNCHANGED late
     \/ /\ la = <<>> \/ "nothing" \in Lags
        /\ pc' = "flush" /\ late' = (late \/ la # <<>>)
        /\ UNCHANGED <<cur, la, out_frame>>
  /\ UNCHANGED <<apiVars, tsVars, sent_flush, bypass, encVars, pkts, dropped, rel, lost, fault>>

\* XMA_ERROR of the lookahead for a frame: from the send, or from the receive
\* after the frame was taken.  Its reference is dropped in both cases.
LaError ==
  /\ pc = "la" /\ call = "frame" /\ ~bypass /\ Happens("lookahead")
  /\ \/ la' = la /\ Free(newest)
     \/ Len(la) < LaCap /\ la' = Append(la, newest) /\ Free(newest)
     \/ la' = la /\ rel' = [rel EXCEPT ![newest] = @ + 2]   \* do_not_encode
  /\ ReturnError
  /\ UNCHANGED <<tsVars, sent_flush, bypass, out_frame, encVars, pkts, dropped, lost, late>>

\* ... in a drain: the error path reads the buffer of la_in_frame, which is NULL.
LaErrorDrain ==
  /\ pc \in {"la", "la2"} /\ call # "frame" /\ ~bypass /\ Happens("lookahead")
  /\ Crash
  /\ UNCHANGED <<tsVars, sent_flush, laVars, encVars, pkts, dropped, rel, lost, late>>

\* NULL refused twice: the frame received in between is lost.
LaDrainAgainFails ==
  /\ pc \in {"la", "la2"} /\ call # "frame" /\ ~bypass /\ out_frame /\ la # <<>>
  /\ Happens("lookahead")
  /\ la' = Tail(la) /\ lost' = lost \cup {Head(la)} /\ pc' = "flush"
  /\ UNCHANGED <<apiVars, cur, tsVars, sent_flush, bypass, out_frame, encVars, pkts, dropped, rel, late>>

-----------------------------------------------------------------------------
(* mpsoc_vcu_encode_frame: the encoder session *)

\* wrong: the frame is not given back to the lookahead
EncSendKeeps ==
  /\ pc \in {"enc", "enc2"}
  /\ enc' = enc \cup {cur}
  /\ cur' = 0 /\ pc' = "recv" /\ UNCHANGED apiVars
  /\ UNCHANGED <<tsVars, sent_flush, laVars, encFlushed, pkts, dropped, rel, lost, late, fault>>

\* xma_enc_session_send_frame and xlnx_la_release_frame.  XMA_SEND_MORE_DATA
\* ends the call, but in the recv loop of a drain it starts the flush.
EncSend ==
  /\ pc \in {"enc", "enc2"}
  /\ enc' = enc \cup {cur} /\ out_frame' = TRUE
  /\ \/ pc' = "recv" /\ cur' = 0 /\ UNCHANGED <<apiVars, late>>
     \/ /\ "more_data" \in Lags /\ Cardinality(enc') < EncCap
        /\ \/ pc = "enc" /\ Return(FALSE) /\ late' = (late \/ call # "frame")
           \/ pc = "enc2" /\ pc' = "flush" /\ cur' = 0 /\ UNCHANGED <<apiVars, late>>
  /\ UNCHANGED <<tsVars, sent_flush, bypass, la, encFlushed, pkts, dropped, rel, lost, fault>>

\* XMA_ERROR: the reference is dropped.  Any other failing answer leaves it.
\* Either is an error, but the recv loop of a drain goes on.
EncSendError ==
  /\ pc \in {"enc", "enc2"} /\ Happens("encoder")
  /\ out_frame' = TRUE
  /\ \/ Free(cur) /\ UNCHANGED lost
     \/ lost' = lost \cup {cur} /\ UNCHANGED rel
  /\ \/ pc = "enc" /\ ReturnError /\ UNCHANGED dropped
     \/ pc = "enc2" /\ pc' = "recv" /\ cur' = 0 /\ dropped' = dropped \cup {cur} /\ UNCHANGED apiVars
  /\ UNCHANGED <<tsVars, sent_flush, bypass, la, encVars, pkts, late>>

\* later frames coded before f
Ahead(f) == Cardinality({i \in DOMAIN pkts : pkts[i].frame > f})

\* the frames of which the encoder may give the packet next; the first comes first
Codable == {f \in enc : \A g \in enc : g < f => pkts # <<>> /\ Ahead(g) < Reorder}

\* xma_enc_session_recv_data is called in the loop, after a flush, and in the
\* calls after that.
Receiving == pc \in {"recv", "flush_recv"} \/ (pc = "flush" /\ sent_flush)

RecvPacket ==
  /\ Receiving
  /\ \E f \in Codable :
       LET ts == mpsoc_vcu_encode_prepare_out_timestamp
       IN /\ pkts' = Append(pkts, [frame |-> f, pts |-> pts[f], dts |-> ts.dts])
          /\ rd' = ts.rd /\ is_first_outframe' = ts.first
          /\ enc' = enc \ {f} /\ Free(f)
  /\ Return(TRUE)
  /\ UNCHANGED <<pts, overrun, sent_flush, laVars, encFlushed, dropped, lost, late, fault>>

\* vcu_alloc_ff_packet fails; "ret = ... < 0" makes the return value 1.
RecvNoMem ==
  /\ Receiving /\ Codable # {} /\ Happens("memory")
  /\ pc' = "idle" /\ call' = "none" /\ cur' = 0 /\ mode' = "abort"
  /\ UNCHANGED <<tsVars, sent_flush, laVars, encVars, pkts, dropped, rel, lost, late>>

\* XMA_ERROR: no packet, and no error either; XMA_EOS in the loop is the end.
RecvError ==
  /\ Receiving /\ Happens("encoder")
  /\ Return(FALSE) \/ (pc = "recv" /\ ReturnEof)
  /\ UNCHANGED <<tsVars, sent_flush, laVars, encVars, pkts, dropped, rel, lost, late>>

\* In the loop: a full encoder has a packet.  XMA_TRY_AGAIN ends the call with a
\* frame, a drain feeds the next frame of the lookahead; recv_size 0 ends both.
RecvAgain ==
  /\ pc = "recv" /\ Cardinality(enc) < EncCap
  /\ \/ call = "frame" /\ Return(FALSE) /\ UNCHANGED late
     \/ call # "frame" /\ pc' = "la2" /\ UNCHANGED <<cur, apiVars, late>>
     \/ call # "frame" /\ "nothing" \in Lags /\ Return(FALSE) /\ late' = TRUE
  /\ UNCHANGED <<tsVars, sent_flush, laVars, encVars, pkts, dropped, rel, lost, fault>>

\* wrong: the call ends with the flush
FlushSendReturns ==
  /\ pc = "flush" /\ ~sent_flush
  /\ sent_flush' = TRUE /\ encFlushed' = TRUE
  /\ Return(FALSE)
  /\ UNCHANGED <<tsVars, laVars, enc, pkts, dropped, rel, lost, late, fault>>

\* start_flush: the last frame is sent once, or again after XMA_FLUSH_AGAIN.
FlushSend ==
  /\ pc = "flush" /\ ~sent_flush
  /\ \/ sent_flush' = TRUE /\ encFlushed' = TRUE
     \/ "flush_again" \in Lags /\ UNCHANGED <<sent_flush, encFlushed>>
  /\ pc' = "flush_recv"
  /\ UNCHANGED <<apiVars, cur, tsVars, laVars, enc, pkts, dropped, rel, lost, late, fault>>

FlushSendError ==
  /\ pc = "flush" /\ ~sent_flush /\ Happens("encoder")
  /\ sent_flush' = TRUE
  /\ Return(FALSE)
  /\ UNCHANGED <<tsVars, laVars, encVars, pkts, dropped, rel, lost, late>>

\* After a flush anything but a packet ends the call, frames left or not.
FlushRecvNothing ==
  /\ Receiving /\ pc # "recv"
  /\ enc = {} \/ ~encFlushed \/ "nothing" \in Lags
  /\ Return(FALSE) /\ late' = (late \/ (call # "frame" /\ enc # {}))
  /\ UNCHANGED <<tsVars, sent_flush, laVars, encVars, pkts, dropped, rel, lost, fault>>

-----------------------------------------------------------------------------
Held(f) == IF f \in enc \/ \E i \in DOMAIN la : la[i] = f THEN 1 ELSE 0

\* mpsoc_vcu_encode_close: the sessions are destroyed with the frames they hold.
mpsoc_vcu_encode_close ==
  /\ mode \in {"eof", "failed"}
  /\ mode' = "closed" /\ la' = <<>> /\ enc' = {}
  /\ rel' = [f \in DOMAIN rel |-> rel[f] + Held(f)]
  /\ UNCHANGED <<call, pc, cur, tsVars, sent_flush, bypass, out_frame, encFlushed, pkts, dropped, lost, late, fault>>

Finished == mode \in {"closed", "abort", "crash"} /\ UNCHANGED vars

xlnx_la_send_recv_frame == LaBypass \/ LaSendFrame \/ LaSendSkipped \/ LaSendAgain \/ LaDrain
EncoderSession == EncSend \/ RecvPacket \/ RecvAgain \/ FlushSend \/ FlushRecvNothing
Fault == LaError \/ LaErrorDrain \/ LaSendAgainFails \/ LaDrainAgainFails \/ EncSendError \/ RecvNoMem \/ RecvError \/ FlushSendError
mpsoc_vcu_encode_frame == EncodeFrame \/ xlnx_la_send_recv_frame \/ EncoderSession \/ Fault

Next == mpsoc_vcu_encode_frame \/ SendNull \/ Receive \/ mpsoc_vcu_encode_close \/ Finished

Spec == Init /\ [][Next]_vars

\* A call runs to its end, and flush_encoders goes on receiving.
FairSpec == Spec /\ WF_vars(Receive \/ xlnx_la_send_recv_frame \/ EncoderSession)

-----------------------------------------------------------------------------
(* Properties *)

\* enc_in_frame is set exactly between the lookahead and the encoder.
TypeOK ==
  /\ mode \in {"feed", "drain", "eof", "failed", "abort", "crash", "closed"}
  /\ call \in {"none", "frame", "send_null", "receive"}
  /\ pc \in {"idle", "la", "la2", "enc", "enc2", "recv", "flush", "flush_recv"}
  /\ pts \in Seq((TsMin + 1)..TsMax) /\ rd \in 0..Len(pts) /\ rel \in Seq(0..2)
  /\ Len(rel) = Len(pts)
  /\ is_first_outframe \in BOOLEAN /\ overrun \in BOOLEAN /\ sent_flush \in BOOLEAN
  /\ bypass \in BOOLEAN /\ out_frame \in BOOLEAN /\ encFlushed \in BOOLEAN
  /\ cur \in 0..Len(pts) /\ (cur = 0) = (pc \notin {"enc", "enc2"})
  /\ la \in Seq(1..Len(pts)) /\ enc \subseteq 1..Len(pts) /\ dropped \subseteq 1..Len(pts)
  /\ lost \subseteq 1..Len(pts) /\ late \in BOOLEAN
  /\ pkts \in Seq([frame : 1..Len(pts), pts : TsMin..TsMax, dts : TsMin..TsMax])
  /\ fault \in AllFaults \cup {"none"}

\* The dts of the packets increase, as long as pts_queue was not overrun, through
\* lagging devices and dropped frames: with one exception.  A first packet given
\* before the second frame has come takes pts_0, and the extrapolated dts, which
\* lies before pts_0, follows it.
DtsMonotone ==
  ~overrun => \A i, j \in DOMAIN pkts :
    (i < j /\ pkts[i].dts # NOPTS /\ pkts[j].dts # NOPTS) =>
       \/ pkts[i].dts < pkts[j].dts
       \/ /\ BFrames > 0 /\ Len(pts) > 1
          /\ pkts[i].dts = pts_0 /\ pkts[j].dts = 2 * pts_0 - pts_1

\* A packet is not decoded after it is shown.
DtsNotAbovePts ==
  ~overrun => \A i \in DOMAIN pkts : pkts[i].dts # NOPTS => pkts[i].dts <= pkts[i].pts

\* nothing failed, no frame was dropped, and the first dts can be computed
Lossless == fault = "none" /\ dropped = {} /\ (Len(pts) < 2 \/ DeltaFits)

\* How many entries pts_queue needs, which is written without a look at its
\* space ("TODO: find a proper way to find pts_queue size"): without a loss one
\* more than the two devices hold, and fewer overrun only if it has fewer.
QueueFits ==
  Lossless => /\ Len(pts) - rd <= LaCap + EncCap + 1
              /\ overrun => QueueCap <= LaCap + EncCap

\* Every frame has been coded or was marked do_not_encode.
Flushed == \A f \in 1..Len(pts) : f \in dropped \/ \E i \in DOMAIN pkts : pkts[i].frame = f

\* When avcodec_receive_packet reports the end, both pipelines were drained, one
\* after the other, unless a device put this very call off with frames left in
\* it: what was put off in an earlier call is made up for.
EofMeansFlushed == (mode = "eof" /\ fault = "none" /\ ~late) => Flushed

\* "AVERROR_EOF: the encoder has been fully flushed, and there will be no more
\* output packets", whatever the devices answer.
EofIsTheEnd == (mode = "eof" /\ fault = "none") => Flushed

\* The reference taken for a frame is released exactly once.  A failing answer
\* may leave it for good: any but XMA_ERROR of the encoder (1603, 1676), a second
\* refusal of the lookahead; the frame with which the lookahead failed may be
\* released twice.
ReleasedOnce ==
  \A f \in DOMAIN rel :
     \/ f \notin lost /\ rel[f] <= 1 /\ (mode = "closed" => rel[f] = 1)
     \/ f \in lost /\ rel[f] = 0 /\ fault \in {"lookahead", "encoder"}
     \/ fault = "lookahead" /\ f = Len(rel)

\* The lookahead has its output frame back whenever it is called.
FrameHome == pc \in {"idle", "la", "la2"} => out_frame

\* A drain ends.
DrainEnds == mode = "drain" ~> mode \notin {"feed", "drain"}
=============================================================================
