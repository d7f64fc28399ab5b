------------------------------ MODULE MultiScaler ------------------------------
(***************************************************************************)
(* libavfilter/vf_multiscale_xma.c: one input frame is scaled to several   *)
(* outputs, each at the full or at half the frame rate.  If an output runs *)
(* at half rate there are two scaler sessions that take the input frames   *)
(* in turn, one that feeds all outputs and one that feeds the first        *)
(* full-rate ones, each with a pipeline of frames of its own.              *)
(*                                                                         *)
(* A step is one call of multiscale_xma_filter_frame, from the graph or    *)
(* from the loop of xma_multiscaler_filter_flush.  Frame n is the n-th     *)
(* frame given to the filter.  The scaler sessions are external: each      *)
(* gives a frame for a frame once it holds more than its depth, and the    *)
(* frames it holds, one for each call, in a flush.                         *)
(***************************************************************************)
EXTENDS Integers, Sequences, FiniteSets

CONSTANTS Rates,       \* out_rate: "full" or "half" for each output
          Depth,       \* external: frames each session keeps back
          MaxFrames,   \* bound: frames the graph delivers
          MaxFaults    \* bound: calls that fail are counted up to it; more may fail

SC_SESSION_ALL_RATE == 0
SC_SESSION_FULL_RATE == 1
SC_MAX_SESSIONS == 2
Sessions == {SC_SESSION_ALL_RATE, SC_SESSION_FULL_RATE}
Outputs == DOMAIN Rates

ASSUME RatesAssumption ==   \* validate_rate_config
  Rates \in Seq({"full", "half"}) /\ \E i \in Outputs : Rates[i] = "full"
ASSUME DepthAssumption == Depth \in Nat
ASSUME BoundAssumption == MaxFrames \in Nat /\ MaxFaults \in Nat \ {0}

VARIABLES
  mode,           \* "feed", "flush" (in the flush loop), "done", "failed": the
                  \* input link is closed without a flush, or "crash"
  count,          \* count of the flush loop
  session_frame,
  send_status,
  held,           \* frames in the pipeline of each session, oldest first
  out,            \* frames delivered to each output
  frames,         \* frames received from the graph
  faults          \* calls that failed, MaxFaults for as many or more

vars == <<mode, count, session_frame, send_status, held, out, frames, faults>>

get_num_scaler_sessions == IF \A i \in Outputs : Rates[i] = "full" THEN 1 ELSE 2
get_num_full_rate_outputs == Cardinality({i \in Outputs : Rates[i] = "full"})

session_nb_outputs(s) ==
  IF s = SC_SESSION_ALL_RATE THEN Len(Rates) ELSE get_num_full_rate_outputs

\* multiscale_xma_config_props has succeeded.
Init ==
  /\ mode = "feed" /\ count = 0 /\ session_frame = 0 /\ send_status = "XMA_SUCCESS"
  /\ held = [s \in Sessions |-> <<>>] /\ out = [i \in Outputs |-> <<>>]
  /\ frames = 0 /\ faults = 0

-----------------------------------------------------------------------------
(* multiscale_xma_filter_frame *)

session_type ==
  IF get_num_scaler_sessions > 1 /\ session_frame % 2 = 1 THEN SC_SESSION_FULL_RATE
                                                          ELSE SC_SESSION_ALL_RATE

NextSession ==
  session_frame' = IF get_num_scaler_sessions > 1 THEN (session_frame + 1) % SC_MAX_SESSIONS
                                                  ELSE session_frame

\* The frame goes to the outputs before k; the session feeds the first ones.
DeliverBefore(k, frame) ==
  out' = [i \in Outputs |-> IF i <= session_nb_outputs(session_type) /\ i < k
                            THEN Append(out[i], frame) ELSE out[i]]

Deliver(frame) == DeliverBefore(Len(Rates) + 1, frame)

\* Nothing in the filter limits the calls that fail.
Fails == faults' = IF faults < MaxFaults THEN faults + 1 ELSE faults

\* wrong: every frame goes to the same session
FilterFrameOneSession ==
  LET queue == Append(held[session_type], frames + 1)
  IN /\ mode = "feed" /\ frames < MaxFrames
     /\ frames' = frames + 1
     /\ IF Len(queue) <= Depth
        THEN /\ send_status' = "XMA_SEND_MORE_DATA"
             /\ held' = [held EXCEPT ![session_type] = queue] /\ UNCHANGED out
        ELSE /\ send_status' = "XMA_SUCCESS"
             /\ held' = [held EXCEPT ![session_type] = Tail(queue)] /\ Deliver(Head(queue))
     /\ UNCHANGED <<mode, count, session_frame, faults>>

\* wrong: the turn passes only when a frame comes out
FilterFrameWaits ==
  LET queue == Append(held[session_type], frames + 1)
  IN /\ mode = "feed" /\ frames < MaxFrames
     /\ frames' = frames + 1
     /\ IF Len(queue) <= Depth
        THEN /\ send_status' = "XMA_SEND_MORE_DATA" /\ UNCHANGED session_frame
             /\ held' = [held EXCEPT ![session_type] = queue] /\ UNCHANGED out
        ELSE /\ send_status' = "XMA_SUCCESS" /\ NextSession
             /\ held' = [held EXCEPT ![session_type] = Tail(queue)] /\ Deliver(Head(queue))
     /\ UNCHANGED <<mode, count, faults>>

\* A frame of the graph: output comes once the session's pipeline is full.
FilterFrame ==
  LET queue == Append(held[session_type], frames + 1)
  IN /\ mode = "feed" /\ frames < MaxFrames
     /\ frames' = frames + 1 /\ NextSession
     /\ IF Len(queue) <= Depth
        THEN /\ send_status' = "XMA_SEND_MORE_DATA"
             /\ held' = [held EXCEPT ![session_type] = queue] /\ UNCHANGED out
        ELSE /\ send_status' = "XMA_SUCCESS"
             /\ held' = [held EXCEPT ![session_type] = Tail(queue)] /\ Deliver(Head(queue))
     /\ UNCHANGED <<mode, count, faults>>

\* XMA_ERROR of the send: the frame is lost and the call succeeds.
FilterFrameSendError ==
  /\ mode = "feed" /\ frames < MaxFrames /\ Fails
  /\ frames' = frames + 1 /\ NextSession /\ send_status' = "XMA_ERROR"
  /\ UNCHANGED <<mode, count, held, out>>

\* No memory for the output frames: the session keeps the frame.  No frame list
\* from the session, or an output refuses its frame: the outputs before it have
\* theirs.  The call fails and the graph closes the link.
FilterFrameRecvError ==
  LET queue == Append(held[session_type], frames + 1)
  IN /\ mode = "feed" /\ frames < MaxFrames /\ Fails
     /\ Len(queue) > Depth
     /\ frames' = frames + 1 /\ NextSession /\ send_status' = "XMA_SUCCESS"
     /\ \/ held' = [held EXCEPT ![session_type] = queue] /\ UNCHANGED out
        \/ /\ held' = [held EXCEPT ![session_type] = Tail(queue)]
           /\ \E k \in Outputs : /\ k <= session_nb_outputs(session_type)
                                 /\ DeliverBefore(k, Head(queue))
     /\ mode' = "failed" /\ UNCHANGED count

-----------------------------------------------------------------------------
(* xma_multiscaler_filter_flush *)

\* The end of the input: copyOutLink is set once a frame has come.
FlushStart ==
  /\ mode = "feed"
  /\ mode' = IF frames > 0 THEN "flush" ELSE "done"
  /\ UNCHANGED <<count, session_frame, send_status, held, out, frames, faults>>

\* No memory for the picture of the dummy frame: no flush.  None for the AVFrame
\* itself: the NULL is dereferenced.
FlushStartError ==
  /\ mode = "feed" /\ Fails
  /\ mode' \in {"failed", "crash"}
  /\ UNCHANGED <<count, session_frame, send_status, held, out, frames>>

\* after a call: XMA_EOS ends the while loop, for each session once
Looped(status) ==
  /\ send_status' = status
  /\ count' = IF status = "XMA_EOS" THEN count + 1 ELSE count
  /\ mode' = IF count' = get_num_scaler_sessions THEN "done" ELSE "flush"

\* wrong: the flush stays with one session until its end, then stops
FlushFrameOnce ==
  /\ mode = "flush" /\ NextSession
  /\ IF held[session_type] = <<>>
     THEN send_status' = "XMA_EOS" /\ mode' = "done" /\ UNCHANGED <<held, out, count>>
     ELSE /\ Looped("XMA_FLUSH_AGAIN")
          /\ held' = [held EXCEPT ![session_type] = Tail(@)]
          /\ Deliver(Head(held[session_type]))
  /\ UNCHANGED <<frames, faults>>

\* wrong: the flush does not see the end of a session
FlushFrameNoEos ==
  /\ mode = "flush" /\ NextSession
  /\ IF held[session_type] = <<>>
     THEN send_status' = "XMA_SUCCESS" /\ UNCHANGED <<held, out, count, mode>>
     ELSE /\ Looped("XMA_FLUSH_AGAIN")
          /\ held' = [held EXCEPT ![session_type] = Tail(@)]
          /\ Deliver(Head(held[session_type]))
  /\ UNCHANGED <<frames, faults>>

\* wrong: the frame received stays in the session
FlushFrameRepeats ==
  /\ mode = "flush" /\ NextSession
  /\ IF held[session_type] = <<>> THEN Looped("XMA_EOS") /\ UNCHANGED out
     ELSE Looped("XMA_FLUSH_AGAIN") /\ Deliver(Head(held[session_type]))
  /\ UNCHANGED <<held, frames, faults>>

\* A call with the dummy frame: the sessions still take turns.
FlushFrame ==
  /\ mode = "flush" /\ NextSession
  /\ IF held[session_type] = <<>> THEN Looped("XMA_EOS") /\ UNCHANGED <<held, out>>
     ELSE /\ Looped("XMA_FLUSH_AGAIN")
          /\ held' = [held EXCEPT ![session_type] = Tail(@)]
          /\ Deliver(Head(held[session_type]))
  /\ UNCHANGED <<frames, faults>>

\* XMA_ERROR of the send: the loop asks the next session.
FlushFrameSendError ==
  /\ mode = "flush" /\ NextSession /\ Fails /\ Looped("XMA_ERROR")
  /\ UNCHANGED <<held, out, frames>>

\* The call fails after the send; the loop goes on.
FlushFrameRecvError ==
  /\ mode = "flush" /\ NextSession /\ Fails /\ held[session_type] # <<>>
  /\ Looped("XMA_FLUSH_AGAIN")
  /\ \/ UNCHANGED <<held, out>>
     \/ /\ held' = [held EXCEPT ![session_type] = Tail(@)]
        /\ \E k \in Outputs : /\ k <= session_nb_outputs(session_type)
                              /\ DeliverBefore(k, Head(held[session_type]))
  /\ UNCHANGED frames

\* multiscale_xma_uninit destroys the sessions with what they hold.
Finished == mode \in {"done", "failed", "crash"} /\ UNCHANGED vars

multiscale_xma_filter_frame == FilterFrame \/ FilterFrameSendError \/ FilterFrameRecvError
xma_multiscaler_filter_flush == FlushFrame \/ FlushFrameSendError \/ FlushFrameRecvError

Next == multiscale_xma_filter_frame \/ FlushStart \/ FlushStartError
        \/ xma_multiscaler_filter_flush \/ Finished

Spec == Init /\ [][Next]_vars

\* The flush loop runs without a break.
FairSpec == Spec /\ WF_vars(xma_multiscaler_filter_flush)

-----------------------------------------------------------------------------
(* Properties *)

\* The loop counts the ends of sessions, never more than there are sessions.
TypeOK ==
  /\ mode \in {"feed", "flush", "done", "failed", "crash"} /\ count \in 0..get_num_scaler_sessions
  /\ session_frame \in 0..1
  /\ send_status \in {"XMA_SUCCESS", "XMA_SEND_MORE_DATA", "XMA_FLUSH_AGAIN", "XMA_EOS", "XMA_ERROR"}
  /\ held \in [Sessions -> Seq(1..frames)] /\ out \in [Outputs -> Seq(1..frames)]
  /\ frames \in 0..MaxFrames /\ faults \in 0..MaxFaults

Increasing(s) == \A a, b \in DOMAIN s : a < b => s[a] < s[b]

\* No output gets its frames out of order, though they come from two pipelines:
\* while frames come in, and in the flush if an even number came or both
\* pipelines were full.
OutputsInOrder ==
  (faults = 0 /\ (mode = "feed" \/ frames % 2 = 0 \/ frames > 2 * Depth)) =>
     \A i \in Outputs : Increasing(out[i])

\* An output has a frame at most once, whatever fails.
NoFrameTwice == \A i \in Outputs : \A a, b \in DOMAIN out[i] : a # b => out[i][a] # out[i][b]

\* A full-rate output gets every frame, a half-rate one every second.
Wanted(i) == {f \in 1..frames : Rates[i] = "full" \/ f % 2 = 1}
Got(i) == {out[i][a] : a \in DOMAIN out[i]}

\* "flush pipeline for all sessions": without a fault the flush, which ends when it
\* has seen the end of a session as often as there are sessions, has delivered every
\* frame.  A failed call puts the sessions out of step, so that it may see the end of
\* one of them twice; even so it leaves no more frames behind than calls have failed,
\* as far as these were counted.
FlushLeavesFew ==
  (mode = "done" /\ faults < MaxFaults) =>
    /\ Len(held[SC_SESSION_ALL_RATE]) + Len(held[SC_SESSION_FULL_RATE]) <= faults
    /\ faults = 0 => \A i \in Outputs : Wanted(i) \subseteq Got(i)

\* "set rate of output N": an output at half the rate gets no other frames.
RateAsConfigured == \A i \in Outputs : Got(i) \subseteq Wanted(i)

\* The flush ends, unless its calls fail again and again: the while loop repeats on
\* every answer but XMA_EOS and nothing bounds it.
FlushCallFails == FlushFrameSendError \/ FlushFrameRecvError
FlushEnds == []<><<FlushCallFails>>_vars \/ (mode = "flush" ~> mode = "done")
=============================================================================
