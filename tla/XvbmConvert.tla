----------------------------- MODULE XvbmConvert -----------------------------
(***************************************************************************)
(* libavfilter/vf_xvbm_convert.c: the filter that copies frames from the   *)
(* device (XVBM buffers) to host memory.  The filter-graph thread ("main") *)
(* hands frames to a worker through ReqMsgQ and takes the converted ones   *)
(* from RspMsgQ, without waiting for them except when it flushes.          *)
(*                                                                         *)
(* The two queues are AVThreadMessageQueues: ThreadMessage implements      *)
(* atomic bounded FIFOs (MessageChannel), so a blocking send is a step     *)
(* enabled while there is room and a blocking recv one enabled while the   *)
(* queue is not empty.  Frame n is the n-th frame given to filter_frame;   *)
(* its converted frame carries the same number.  The format of a link is   *)
(* fixed: on one that carries host frames filter_frame passes them through *)
(* and touches neither queue, which is left out.                           *)
(***************************************************************************)
EXTENDS Integers, Sequences

CONSTANTS ReqCap,     \* MAX_REQ_MSGQ_SIZE
          RspCap,     \* MAX_RSP_MSGQ_SIZE
          MaxFrames   \* bound: frames the upstream filter delivers

ASSUME CapAssumption == ReqCap \in Nat \ {0} /\ RspCap \in Nat \ {0}
ASSUME FramesAssumption == MaxFrames \in Nat

VARIABLES
  reqQ, rspQ,   \* ReqMsgQ and RspMsgQ
  mpc,          \* where main is: "idle" between calls, else the call it is in
  wpc,          \* the worker: "recv", "send" (blocking send of rspMsg), "exited"
  rspMsg,       \* the worker's local rspMsg, kept from one request to the next
  link,         \* "open", or "closed": it has a status_out, no frame or flush comes any more
  sent,         \* frames put into ReqMsgQ
  taken,        \* converted frames taken from RspMsgQ by main
  delivered,    \* frames passed to ff_filter_frame, in order
  flush,        \* "no", "ok" or "early": how xvbm_convert_filter_flush ended
  made,         \* output frames allocated by the worker
  released,     \* output frames given away (ff_filter_frame) or freed
  twice         \* output frames given away or freed a second time

vars == <<reqQ, rspQ, mpc, wpc, rspMsg, link, sent, taken, delivered, flush,
          made, released, twice>>

mainVars == <<mpc, link, sent, taken, delivered, flush>>
frameVars == <<made, released, twice>>

Req(state, frame) == [state |-> state, frame |-> frame]
Rsp(state, frame, pFrame) == [state |-> state, frame |-> frame, pFrame |-> pFrame]

ReqMsg == [state : {"NEW", "FLUSH", "END"}, frame : Nat]
RspMsg == [state : {"UNSET", "DONE", "FLUSH_COMPLETE"}, frame : Nat,
           pFrame : {"set", "NULL"}]

\* xvbm_conv_init: both queues and the thread exist, or the program exits.
Init ==
  /\ reqQ = <<>> /\ rspQ = <<>>
  /\ mpc = "idle" /\ wpc = "recv"
  /\ rspMsg = Rsp("UNSET", 0, "set")
  /\ link = "open" /\ sent = 0 /\ taken = 0 /\ delivered = <<>> /\ flush = "no"
  /\ made = {} /\ released = {} /\ twice = {}

\* Main passes the frames F on or frees them.
Release(F) ==
  /\ released' = released \cup F
  /\ twice' = twice \cup (F \cap released)

-----------------------------------------------------------------------------
(* xvbm_conv_thread *)

ThreadConvert ==
  /\ wpc = "recv" /\ reqQ # <<>> /\ Head(reqQ).state = "NEW"
  /\ \E pFrame \in {"set", "NULL"} :   \* conv_xmaframe2avframe fails or not
       /\ rspMsg' = Rsp("DONE", Head(reqQ).frame, pFrame)
       /\ made' = IF pFrame = "NULL" THEN made ELSE made \cup {Head(reqQ).frame}
  /\ reqQ' = Tail(reqQ)
  /\ wpc' = "send"
  /\ UNCHANGED <<rspQ, mainVars, released, twice>>

\* wrong: the state of the request is echoed
ThreadFlushEcho ==
  /\ wpc = "recv" /\ reqQ # <<>> /\ Head(reqQ).state = "FLUSH"
  /\ rspMsg' = [rspMsg EXCEPT !.state = Head(reqQ).state]
  /\ reqQ' = Tail(reqQ) /\ wpc' = "send"
  /\ UNCHANGED <<rspQ, mainVars, frameVars>>

\* wrong: the flush is not answered
ThreadFlushSilent ==
  /\ wpc = "recv" /\ reqQ # <<>> /\ Head(reqQ).state = "FLUSH"
  /\ reqQ' = Tail(reqQ)
  /\ UNCHANGED <<wpc, rspMsg, rspQ, mainVars, frameVars>>

\* Only the state of rspMsg is assigned: pFrame is that of the last request.
ThreadFlush ==
  /\ wpc = "recv" /\ reqQ # <<>> /\ Head(reqQ).state = "FLUSH"
  /\ rspMsg' = [rspMsg EXCEPT !.state = "FLUSH_COMPLETE"]
  /\ reqQ' = Tail(reqQ)
  /\ wpc' = "send"
  /\ UNCHANGED <<rspQ, mainVars, frameVars>>

\* wrong: END leaves the switch, not the loop
ThreadEndOnlyBreaks ==
  /\ wpc = "recv" /\ reqQ # <<>> /\ Head(reqQ).state = "END"
  /\ reqQ' = Tail(reqQ)
  /\ UNCHANGED <<wpc, rspQ, rspMsg, mainVars, frameVars>>

ThreadEnd ==
  /\ wpc = "recv" /\ reqQ # <<>> /\ Head(reqQ).state = "END"
  /\ reqQ' = Tail(reqQ)
  /\ wpc' = "exited"
  /\ UNCHANGED <<rspQ, rspMsg, mainVars, frameVars>>

ThreadSend ==
  /\ wpc = "send" /\ Len(rspQ) < RspCap
  /\ rspQ' = Append(rspQ, rspMsg)
  /\ wpc' = "recv"
  /\ UNCHANGED <<reqQ, rspMsg, mainVars, frameVars>>

xvbm_conv_thread == ThreadConvert \/ ThreadFlush \/ ThreadEnd \/ ThreadSend

-----------------------------------------------------------------------------
(* xvbm_convert_filter_frame.  A negative return makes ff_filter_frame_to_filter *)
(* close the input link.                                                         *)

FilterFrame ==
  /\ mpc = "idle" /\ link = "open" /\ sent < MaxFrames
  /\ mpc' = "frame_send"
  /\ UNCHANGED <<reqQ, rspQ, wpc, rspMsg, link, sent, taken, delivered, flush, frameVars>>

FrameSend ==
  /\ mpc = "frame_send" /\ Len(reqQ) < ReqCap
  /\ reqQ' = Append(reqQ, Req("NEW", sent + 1))
  /\ sent' = sent + 1
  /\ mpc' = "frame_recv"
  /\ UNCHANGED <<rspQ, wpc, rspMsg, link, taken, delivered, flush, frameVars>>

\* wrong: filter_frame may return although a frame is ready
FrameRecvSkipped ==
  /\ mpc = "frame_recv"
  /\ mpc' = "idle"
  /\ UNCHANGED <<reqQ, rspQ, wpc, rspMsg, link, sent, taken, delivered, flush, frameVars>>

\* the non-blocking recv has nothing: the frame comes out of a later call
FrameRecvAgain ==
  /\ mpc = "frame_recv" /\ rspQ = <<>>
  /\ mpc' = "idle"
  /\ UNCHANGED <<reqQ, rspQ, wpc, rspMsg, link, sent, taken, delivered, flush, frameVars>>

\* wrong: a failed conversion is passed over
FrameRecvFailedIgnored ==
  /\ mpc = "frame_recv" /\ rspQ # <<>> /\ Head(rspQ).pFrame = "NULL"
  /\ rspQ' = Tail(rspQ) /\ taken' = taken + 1 /\ mpc' = "idle"
  /\ UNCHANGED <<reqQ, wpc, rspMsg, link, sent, delivered, flush, frameVars>>

FrameRecvFailed ==
  /\ mpc = "frame_recv" /\ rspQ # <<>> /\ Head(rspQ).pFrame = "NULL"
  /\ rspQ' = Tail(rspQ) /\ taken' = taken + 1
  /\ mpc' = "idle" /\ link' = "closed"
  /\ UNCHANGED <<reqQ, wpc, rspMsg, sent, delivered, flush, frameVars>>

FrameRecvFrame ==
  /\ mpc = "frame_recv" /\ rspQ # <<>> /\ Head(rspQ).pFrame = "set"
  /\ rspQ' = Tail(rspQ) /\ taken' = taken + 1
  /\ delivered' = Append(delivered, Head(rspQ).frame)
  /\ Release({Head(rspQ).frame})
  /\ link' \in {"open", "closed"}     \* ff_filter_frame succeeds or fails downstream
  /\ mpc' = "idle"
  /\ UNCHANGED <<reqQ, wpc, rspMsg, sent, flush, made>>

xvbm_convert_filter_frame ==
  FilterFrame \/ FrameSend \/ FrameRecvAgain \/ FrameRecvFailed \/ FrameRecvFrame

-----------------------------------------------------------------------------
(* xvbm_convert_filter_flush, called by ff_request_frame when the input link  *)
(* has ended; the status is then acknowledged, so it is called at most once.  *)
(* Before the first frame xvbm_filterLink is not set and it does nothing.     *)

FlushMismatch ==
  /\ mpc = "idle" /\ link = "open" /\ sent = 0
  /\ link' = "closed"
  /\ UNCHANGED <<reqQ, rspQ, wpc, rspMsg, mpc, sent, taken, delivered, flush, frameVars>>

FilterFlush ==
  /\ mpc = "idle" /\ link = "open" /\ sent > 0
  /\ mpc' = "flush_send" /\ link' = "closed"
  /\ UNCHANGED <<reqQ, rspQ, wpc, rspMsg, sent, taken, delivered, flush, frameVars>>

FlushSend ==
  /\ mpc = "flush_send" /\ Len(reqQ) < ReqCap
  /\ reqQ' = Append(reqQ, Req("FLUSH", 0))
  /\ mpc' = "flush_recv"
  /\ UNCHANGED <<rspQ, wpc, rspMsg, link, sent, taken, delivered, flush, frameVars>>

FlushRecvFailed ==
  /\ mpc = "flush_recv" /\ rspQ # <<>>
  /\ Head(rspQ).state # "FLUSH_COMPLETE" /\ Head(rspQ).pFrame = "NULL"
  /\ rspQ' = Tail(rspQ) /\ taken' = taken + 1
  /\ mpc' = "idle" /\ flush' = "early"
  /\ UNCHANGED <<reqQ, wpc, rspMsg, link, sent, delivered, frameVars>>

\* wrong: one frame is taken for the whole flush
FlushRecvFrameOnce ==
  /\ mpc = "flush_recv" /\ rspQ # <<>>
  /\ Head(rspQ).state # "FLUSH_COMPLETE" /\ Head(rspQ).pFrame = "set"
  /\ rspQ' = Tail(rspQ) /\ taken' = taken + 1
  /\ delivered' = Append(delivered, Head(rspQ).frame)
  /\ Release({Head(rspQ).frame})
  /\ mpc' = "idle" /\ flush' = "ok"
  /\ UNCHANGED <<reqQ, wpc, rspMsg, link, sent, made>>

FlushRecvFrame ==
  /\ mpc = "flush_recv" /\ rspQ # <<>>
  /\ Head(rspQ).state # "FLUSH_COMPLETE" /\ Head(rspQ).pFrame = "set"
  /\ rspQ' = Tail(rspQ) /\ taken' = taken + 1
  /\ delivered' = Append(delivered, Head(rspQ).frame)
  /\ Release({Head(rspQ).frame})
  /\ \/ mpc' = mpc /\ flush' = flush
     \/ mpc' = "idle" /\ flush' = "early"     \* ff_filter_frame failed
  /\ UNCHANGED <<reqQ, wpc, rspMsg, link, sent, made>>

FlushRecvComplete ==
  /\ mpc = "flush_recv" /\ rspQ # <<>> /\ Head(rspQ).state = "FLUSH_COMPLETE"
  /\ rspQ' = Tail(rspQ)
  /\ mpc' = "idle" /\ flush' = "ok"
  /\ UNCHANGED <<reqQ, wpc, rspMsg, link, sent, taken, delivered, frameVars>>

xvbm_convert_filter_flush ==
  FlushMismatch \/ FilterFlush \/ FlushSend \/ FlushRecvFailed \/ FlushRecvFrame
  \/ FlushRecvComplete

-----------------------------------------------------------------------------
(* xvbm_conv_uninit.  The graph may be torn down at any time between calls:  *)
(* after a flush, after an error or in mid-stream.                           *)

Uninit ==
  /\ mpc = "idle"
  /\ mpc' = "end_send"
  /\ UNCHANGED <<reqQ, rspQ, wpc, rspMsg, link, sent, taken, delivered, flush, frameVars>>

\* wrong: END overtakes the frames
EndSendFirst ==
  /\ mpc = "end_send" /\ Len(reqQ) < ReqCap
  /\ reqQ' = <<Req("END", 0)>> \o reqQ
  /\ mpc' = "join"
  /\ UNCHANGED <<rspQ, wpc, rspMsg, link, sent, taken, delivered, flush, frameVars>>

EndSend ==
  /\ mpc = "end_send" /\ Len(reqQ) < ReqCap
  /\ reqQ' = Append(reqQ, Req("END", 0))
  /\ mpc' = "join"
  /\ UNCHANGED <<rspQ, wpc, rspMsg, link, sent, taken, delivered, flush, frameVars>>

\* what the drain of RspMsgQ frees: pFrame of every message that has one
LeftOver == {rspQ[i].frame : i \in {j \in 1..Len(rspQ) : rspQ[j].pFrame = "set"}}

\* released once more by this drain: earlier, or by another message of the queue
Duplicates ==
  {rspQ[i].frame : i \in {j \in 1..Len(rspQ) :
     rspQ[j].pFrame = "set" /\ \E k \in 1..(j - 1) : rspQ[k].pFrame = "set" /\ rspQ[k].frame = rspQ[j].frame}}

\* wrong: the responses are dropped with their queue
JoinWithoutDrain ==
  /\ mpc = "join" /\ wpc = "exited"
  /\ reqQ' = <<>> /\ rspQ' = <<>> /\ mpc' = "done"
  /\ UNCHANGED <<wpc, rspMsg, link, sent, taken, delivered, flush, frameVars>>

JoinAndFree ==
  /\ mpc = "join" /\ wpc = "exited"
  /\ reqQ' = <<>> /\ rspQ' = <<>>
  /\ released' = released \cup LeftOver
  /\ twice' = twice \cup (LeftOver \cap released) \cup Duplicates
  /\ mpc' = "done"
  /\ UNCHANGED <<wpc, rspMsg, link, sent, taken, delivered, flush, made>>

xvbm_conv_uninit == Uninit \/ EndSend \/ JoinAndFree

\* The filter is gone.
Gone == mpc = "done" /\ UNCHANGED vars

-----------------------------------------------------------------------------
main == xvbm_convert_filter_frame \/ xvbm_convert_filter_flush \/ xvbm_conv_uninit

Next == xvbm_conv_thread \/ main \/ Gone

Spec == Init /\ [][Next]_vars

\* Both threads run.  Whether another frame comes, and when the graph is
\* flushed or torn down, is up to the caller.
InCall == FrameSend \/ FrameRecvAgain \/ FrameRecvFailed \/ FrameRecvFrame
          \/ FlushSend \/ FlushRecvFailed \/ FlushRecvFrame \/ FlushRecvComplete
          \/ EndSend \/ JoinAndFree
FairSpec == Spec /\ WF_vars(xvbm_conv_thread) /\ WF_vars(InCall)

-----------------------------------------------------------------------------
(* Properties *)

TypeOK ==
  /\ reqQ \in Seq(ReqMsg) /\ rspQ \in Seq(RspMsg)
  /\ Len(reqQ) <= ReqCap /\ Len(rspQ) <= RspCap
  /\ mpc \in {"idle", "frame_send", "frame_recv", "flush_send", "flush_recv",
              "end_send", "join", "done"}
  /\ wpc \in {"recv", "send", "exited"}
  /\ rspMsg \in RspMsg
  /\ link \in {"open", "closed"}
  /\ sent \in Nat /\ taken \in Nat
  /\ delivered \in Seq(Nat)
  /\ flush \in {"no", "ok", "early"}

busy == IF wpc = "send" THEN 1 ELSE 0
pending == Len(reqQ) + busy + Len(rspQ)

\* Although filter_frame takes at most one frame per frame it puts in and
\* never waits, no more than MAX_REQ_MSGQ_SIZE + 1 messages are in flight
\* between calls: the queue for requests bounds the whole pipeline.
InFlightBound ==
  pending <= ReqCap + (IF mpc \in {"frame_recv", "flush_recv", "join"} THEN 2 ELSE 1)

\* Main and worker never block in their sends on each other's full queue,
\* during a frame, a flush or the teardown.
NeverMutuallyBlocked ==
  ~ /\ mpc \in {"frame_send", "flush_send", "end_send"} /\ Len(reqQ) >= ReqCap
    /\ wpc = "send" /\ Len(rspQ) >= RspCap

\* Frames leave the filter in the order they came in, none skipped, whatever
\* the worker's delays and failures (filter_frame, filter_flush).
OutputInOrder == \A i \in 1..Len(delivered) : delivered[i] = i

\* A flush that ends at FLUSH_COMPLETE has passed on every frame that came in.
FlushDeliversAll == flush = "ok" => Len(delivered) = sent

\* The drain of ReqMsgQ in uninit never finds a frame: the worker has freed
\* every input frame when it exits.
NoInputLeft == wpc = "exited" => reqQ = <<>>

\* After uninit every output frame the worker made was released, and unless
\* a flush returned early, exactly once.
FramesAccounted ==
  /\ mpc = "done" => made \subseteq released
  /\ flush # "early" => twice = {} /\ released \subseteq made

\* The worker can be stuck in its send while main waits in pthread_join only
\* when the pipeline is completely full and END is (for equal capacities) the
\* only request left: with one more slot in RspMsgQ it never would be.
HangNeedsFullPipeline ==
  (mpc = "join" /\ wpc = "send" /\ Len(rspQ) >= RspCap)
    => Len(reqQ) \in 1..(ReqCap - RspCap + 1)

\* "The receiving filter will free this reference": a frame given away by
\* ff_filter_frame is not freed again by uninit.
ReleasedOnce == twice = {}

\* filter_frame and filter_flush always return.
CallsReturn ==
  /\ (mpc \in {"frame_send", "frame_recv"}) ~> (mpc = "idle")
  /\ (mpc \in {"flush_send", "flush_recv"}) ~> (mpc = "idle")

\* uninit returns after a completed flush, and whenever no more messages are
\* in flight than RspMsgQ holds.
UninitReturnsIfRoom ==
  (mpc = "end_send" /\ (flush = "ok" \/ pending <= RspCap)) ~> (mpc = "done")

\* "trigger thread exit", "join with ffmpeg thread": uninit always gets there.
UninitReturns == (mpc = "end_send") ~> (mpc = "done")

-----------------------------------------------------------------------------
(* The inductive invariant behind the properties above: where each message   *)
(* in flight is, counted from the next frame main will take.                 *)

\* main is inside filter_frame only on an open link, inside flush only once
Phases ==
  /\ mpc \in {"frame_send", "frame_recv"} => link = "open"
  /\ mpc \in {"flush_send", "flush_recv"} => link = "closed" /\ flush = "no"
  /\ flush # "no" => link = "closed"

\* the k-th message from the front of the pipeline carries frame taken + k
Positions ==
  /\ \A i \in 1..Len(rspQ) : rspQ[i].state = "DONE" => rspQ[i].frame = taken + i
  /\ wpc = "send" /\ rspMsg.state = "DONE" => rspMsg.frame = taken + Len(rspQ) + 1
  /\ \A i \in 1..Len(reqQ) :
       reqQ[i].state = "NEW" => reqQ[i].frame = taken + Len(rspQ) + busy + i

\* the flush marker is behind every frame that came in
Markers ==
  /\ \A i \in 1..Len(rspQ) : /\ rspQ[i].state # "UNSET"
                             /\ rspQ[i].state = "FLUSH_COMPLETE" => sent = taken + i - 1
  /\ wpc = "send" => /\ rspMsg.state # "UNSET"
                     /\ rspMsg.state = "FLUSH_COMPLETE" => sent = taken + Len(rspQ)
  /\ \A i \in 1..Len(reqQ) :
       reqQ[i].state = "FLUSH" => sent = taken + Len(rspQ) + busy + i - 1

\* END is the last request and ends the worker
EndIsLast ==
  /\ \A i \in 1..Len(reqQ) : reqQ[i].state = "END" => i = Len(reqQ) /\ mpc = "join"
  /\ mpc = "join" /\ wpc # "exited" => reqQ # <<>> /\ reqQ[Len(reqQ)].state = "END"
  /\ wpc = "exited" => reqQ = <<>> /\ mpc \in {"join", "done"}
  /\ mpc = "done" => wpc = "exited"

\* nothing is lost: frames that came in are taken or in flight, beside a marker
Counts ==
  /\ mpc \in {"idle", "frame_send", "frame_recv", "flush_send", "end_send"}
       => sent = taken + pending - (IF flush = "early" THEN 1 ELSE 0)
  /\ mpc = "flush_recv" => sent = taken + pending - 1

\* what main took it delivered, except a failed conversion, after which it stops
Outputs ==
  /\ OutputInOrder
  /\ \/ Len(delivered) = taken
     \/ Len(delivered) = taken - 1 /\ link = "closed" /\ flush # "ok"
        /\ mpc \notin {"flush_send", "flush_recv"}
  /\ flush = "ok" => taken = sent

IInv == /\ TypeOK /\ InFlightBound /\ Phases /\ Positions /\ Markers
        /\ EndIsLast /\ Counts /\ Outputs
=============================================================================
