# TLA+ verification of the XMA-accelerated FFmpeg path

The repository is FFmpeg 4.1 with a transcoding path on Xilinx VCU cards: a
hardware decoder, a scaler, a hardware encoder with lookahead, and a filter that
copies frames from device memory to the host. This directory models the parts of
that path that carry its own control logic, checks them with TLC and proves their
main invariants with TLAPS.

## 1. The system

| component | source | state | operations | hard parts |
|---|---|---|---|---|
| thread message queue | `libavutil/threadmessage.c` | fifo, two sticky errors, one mutex, two condition variables | alloc, free, send, recv (blocking or not), set_err_send, set_err_recv, flush | one signal per message, flush wakes senders only, errors racing sleepers |
| xvbm_convert filter | `libavfilter/vf_xvbm_convert.c` | two message queues, a worker thread, the worker's local response | filter_frame, filter_flush, init, uninit, the worker's loop | two threads with two bounded queues, frames that come out of later calls, early returns, teardown |
| VCU decoder | `libavcodec/mpsoc_vcu_dec.c` | `pkt_fifo`, `flush_sent`, `first_idr_found`, `genpts` | decode with a packet, decode at end of stream, flush, init, close | a device that refuses packets, retries and queueing at three places, an unbounded drain loop, output buffers that must return to the device |
| VCU encoder | `libavcodec/mpsoc_vcu_enc.c` | `pts_queue`, `pts_0`/`pts_1`, `sent_flush`, `is_first_outframe`, `la_in_frame` | encode with a frame, drain, init, close | timestamps that must be monotone, two pipelines (lookahead, encoder) drained one after the other, buffer ownership on errors |
| lookahead | `libavcodec/xlnx_lookahead.c` | `out_frame`, the session, bypass | send_recv_frame, release_frame, create, destroy | one output frame handed to and fro |
| multiscaler filter | `libavfilter/vf_multiscale_xma.c` | up to two sessions, `send_status`, `frames_out`, `flush` | filter_frame, flush, init, uninit | outputs at full and half rate on different sessions, a flush through filter_frame itself |
| XRM resources | decoder, encoder, lookahead and scaler | CUs, contexts and sessions held | open, each call of an init, close | several calls of which any may fail, instances that compete for one device, close not called after a failed init |
| XVBM frames | `libavutil/frame.c` | reference counts of device buffers and of their AVBuffers | clone, ref, unref, move, send to a device | two counts side by side, failures between them, who drops the last reference |
| filter graph | `libavfilter/avfilter.c` | link status, frame queues | request_frame with the flush hooks, filter_frame | a flush from inside request_frame |
| decode, encode drivers | `libavcodec/decode.c`, `encode.c` | draining, draining_done | send/receive | what a codec's return values mean in a drain |
| byte FIFO | `libavutil/fifo.c` | ring buffer, two 32-bit counters | read, write, grow | no bound checks on write, counters modulo 2^32 |

They interact as follows. `ffmpeg.c` feeds packets to the decoder through `decode.c`;
the decoder hands device frames (XVBM) to the filter graph; the scaler and the
encoder take them by reference count, `xvbm_convert` copies them to host memory in a
thread of its own, with two thread message queues in between. At the end of the
stream every part is drained: the decoder by empty packets, the filters by a hook in
`ff_request_frame`, lookahead and encoder by NULL frames. `PROJECT.json` lists the
hazards, each at its line.

What makes each part correct: packets, frames and end-of-stream markers arrive in
order, each once and none left behind; every buffer is released exactly once; nobody
waits for somebody who waits for him; every call, flush and teardown returns.

## 2. Modules

`MessageChannel` is the abstract specification of a message queue: a bounded FIFO
whose calls take effect at one instant. `ThreadMessage` is `threadmessage.c` with its
mutex and condition variables, one action per critical section, and implements it.
`XvbmConvert` uses two such channels (a blocking send is a step enabled while there is
room), so the result about `ThreadMessage` carries it. `VcuDecoder`, `VcuEncoder` (with
the lookahead) and `MultiScaler` model one device client each, call by call, against an
external device. `XvbmFrames` and `XrmResources` cut across them: the first follows a
device buffer through the frames and devices that share it, the second what several
instances of decoder, encoder and scaler take from one device. Each component has a
module `MC...` with its cfg files for TLC; modules `...Proofs` are for TLAPS, with
`AscendingFrames`, what they share about sequences of frames in order.

*ThreadMessage.* A thread at `block` or `try` is inside send or recv and about to get
the mutex, at `wait` it sleeps in `pthread_cond_wait`. `SendPut`, `SendWait` and
`SendFail` are the three ways through `send_locked`, likewise for recv. A signal moves
one sleeper to `block` if there is one, a broadcast all of them, and a spurious wakeup
any. pthreads are external.

*XvbmConvert.* Main is the filter-graph thread; `mpc` says in which call, and before
which queue operation, it is. The worker's local `rspMsg` is a variable because its
`pFrame` outlives the request that set it. Frames are numbered as they come in.
`released` and `twice` record frames given to `ff_filter_frame` or freed. A negative
return of filter_frame closes the input link, as `ff_filter_frame_to_filter` does, and
no flush follows then; otherwise the flush hook of `ff_request_frame` runs at most once.
Uninit may come between any two calls.

*VcuDecoder.* One action per call into the XMA library. `pkt_fifo` holds packet
numbers. The device is external and as weak as the code allows: a packet is refused
when InCap packets are undecoded, each packet gives one frame, a frame needs one of
OutBufs output buffers, which come back with a send after the frame was dropped
downstream; a refused send returns them too (otherwise the drain loop could not work at
all). XMA_ERROR and failed allocations are faults, bounded by MaxFaults.
`EofNeedsRoom` says whether the end of stream can be refused like a packet. `lost` is
the set of packets never decoded: those before the first IDR and those of failed calls.
A copy that `av_packet_clone` could not make is queued as NULL (`nulls`) and ends the
process when a later call dereferences it (mode `crash`). A packet is sent at once: the
loop of `mpsoc_send_data` over the part the device has used is one step (hazard at
`mpsoc_vcu_dec.c:226`).

*VcuEncoder.* One action per call into the lookahead or the encoder session, with the
work `mpsoc_vcu_encode_frame` does on its result. `call` says which function of
`encode.c` is running and `pc` the next device call. `pts` is everything ever written to
`pts_queue` and `rd` how much was read; `overrun` is set when a write finds QueueCap
unread entries, and what is read later is then no longer determined. dts arithmetic
keeps its range (TsMin to TsMax for int64_t, `DeltaFits` for the two overflow checks).
The lookahead and the encoder are external: pipelines that hold frames back, may lag and
are emptied by a NULL frame; the encoder gives a packet after any delay, at the latest
when it is full, and codes a frame after at most Reorder later ones. `Lags` are the
answers by which a device puts the caller off in a drain with frames left in it:
XMA_SEND_MORE_DATA, XMA_FLUSH_AGAIN, and nothing (XMA_TRY_AGAIN, or XMA_SUCCESS with
`recv_size` 0); `late` remembers one in the current call. Whether the lookahead is
bypassed is chosen in the initial state. `rel` counts the releases of the reference each
XVBM input frame is given, `lost` has the frames whose reference a failing answer left.
A fault of one kind (lookahead, encoder, memory) may happen at any call. Where the code dereferences NULL or runs into an
assertion the mode is `crash` or `abort`.

*MultiScaler.* `session_type` alternates between the sessions as in the code, `held` are
the frames in each session, `out` what each output got. `Rates` gives the outputs' rates
in the order they are configured; the session of the odd frames feeds the first
`get_num_full_rate_outputs` of them. The flush calls filter_frame with a dummy frame and
counts XMA_EOS answers. Send, receive and allocation may fail at any call, any number of
times: `faults` counts them up to MaxFaults and stays there.

*XvbmFrames.* A buffer's count is external (`xvbm_buffer_refcnt_inc`,
`xvbm_buffer_pool_entry_free`); a frame is described by the buffer it shows (`handle`) and
whether it has a `buf[0]`; `dev` counts the devices' references, `lost` those nobody will
give back: the encoder gives its reference back when the answer is XMA_ERROR only, the
scaler never. Cloning from a decoded frame, `av_frame_ref`,
`av_frame_unref`, `av_frame_move_ref` and handing a frame to encoder or scaler each come
with their failures.

*XrmResources.* `Plan` is the list of calls an init makes, in order; `held` what the
instance has. Any call may fail, for want of CUs or for a reason of its own (MaxFaults).
A failed codec init is not followed by close (no FF_CODEC_CAP_INIT_CLEANUP), a failed
filter configuration is followed by uninit. Whether XRM_RESERVE_ID is set and whether the
encoders use the lookahead is chosen in the initial state.

Definitions whose comment starts with "wrong:" are faulty variants of the definition
that follows them, used to make sure that each property can fail.

## 3. Runs

| run | bounds | shows |
|---|---|---|
| queue | 2 senders, 2 receivers, 2 message contents, capacity 2 | no overflow (`TypeOK`), `NoLostWakeup`, `NotAllAsleep`, errors release everybody, `MessagesMove`, and `ThreadMessage` implements `MessageChannel` (`ChannelSpec`) |
| convert | capacities 3 and 3, 8 frames | order, complete flush, bounded pipeline, no mutual blocking, ownership of frames, calls return |
| convert_teardown | capacities 2 and 2, 4 frames | violation: uninit can hang |
| convert_stale | capacities 2 and 2, 3 frames | violation: a frame is released twice |
| decoder | watermark 1, fifo 3, device queue 1, 2 buffers, 6 packets, 1 fault, 1 rewind | order, end of stream last, complete drain, buffers conserved, growth rule, the drain ends unless all output buffers stay downstream |
| decoder_eof_refused | the same without faults, end of stream refusable | violation: the drain does not end |
| encoder | lookahead of depth 1 and capacity 2 or bypassed, one B-frame, encoder of capacity 2, 5 queue entries, 6 frames, pts up to 2 apart within -1..5, every lag, one fault of any kind | dts not above pts and monotone but for one pair, how many entries `pts_queue` needs, both pipelines drained at an end of stream that was not put off, references released once but for those a failing answer leaves, the lookahead's frame comes home, the drain ends |
| encoder_short | encoder of capacity 3, 5 frames, no lag but XMA_SEND_MORE_DATA | violation: the end of stream is reported with frames left |
| scaler | two sessions of depth 2, 7 frames, failures counted up to 3 | outputs in order, no frame twice, complete flush, at most one frame left behind per failed call, rates, the flush ends unless its calls fail for ever |
| scaler_half_first | a half-rate output before a full-rate one | violation: the rates are exchanged |
| frames | 3 frames, 2 buffers, 2 references by devices, 2 faults | the count of a buffer is exact, all buffers return |
| resources | 2 encoders, 1 decoder, 1 scaler, 5 CUs, 1 fault beside want of CUs | a closed instance holds nothing but what the lookahead forgets, a failed init keeps no session and at most one CU beside its lookahead |

The bounds are the smallest at which the interesting cases happen. Two threads a
side let one slip in between the signal to the other and its wakeup. Eight frames fill
two queues of three, the worker and main. Six packets with a watermark of one reach
every send site with a queue below, at and above the watermark, and beyond the
allocated fifo. Six frames are one more than the encoder's `pts_queue` has entries,
and the five entries are one more than both pipelines hold, the least that suffices
(`QueueFits`); dropped frames and a refused first dts overrun them all the same. Seven
frames fill two scaler sessions of two and leave some to come out before the flush. Five CUs let two instances be open while a third finds too few. For the
properties proved (section 4) the bounds do not matter.

Fairness. `ThreadMessage`: a thread that wants the mutex gets it (weak fairness of the
critical sections); nothing is assumed of callers. `XvbmConvert`: both threads run once
inside a call; whether another frame, a flush or a teardown comes is free.
`VcuDecoder`: the decoder runs once called, `decode.c` keeps calling in a drain (its
loop does), and the device decodes when it has a packet and a buffer. That the users of a
frame drop it is not assumed: filters and encoder run on the thread that the drain loop
keeps, and only the worker of `xvbm_convert` frees frames from another. `VcuEncoder`: a call runs to its end and `flush_encoders` goes
on receiving until it is told to stop; faults need not happen. `MultiScaler`: the flush
loop runs; nothing is assumed of the answers it gets. `XvbmFrames`: every AVFrame is unreferenced some time and a device finishes
with what it was given; new frames need not come.

### Findings

1. *Teardown hang* (`convert_teardown`). uninit joins the worker before it empties
   RspMsgQ. filter_frame takes at most one frame per frame it sends, so RspMsgQ can be
   full with the worker blocked in a send; a teardown without a completed flush then
   waits for ever. `HangNeedsFullPipeline` (proved) says precisely when,
   `UninitReturnsIfRoom` (checked) when not.
2. *Stale response* (`convert_stale`). The answer to FLUSH carries the last frame's
   pointer. When filter_flush returned early, uninit finds that message and frees a
   frame that was passed on. `FramesAccounted` (proved): without an early return no
   frame is released twice.
3. *Refused end of stream* (`decoder_eof_refused`). `flush_sent` is set before the
   result of the send is known; if the device answers XMA_TRY_AGAIN, the end of stream
   is never repeated and the drain loop does not end. Whether the device does so cannot
   be seen in this repository; where it takes the end of stream at once, the drain
   ends (run `decoder`).
4. *Short stream* (`encoder_short`). In a drain a frame of the lookahead that the encoder
   answers by XMA_SEND_MORE_DATA ends the call without a packet, which `encode.c` reports
   as AVERROR_EOF although frames are left in both pipelines. XMA_FLUSH_AGAIN without a
   packet (line 1689), XMA_TRY_AGAIN after the flush (1704, 1722), `recv_size` 0 (1619,
   1693, 1711) and a lookahead that has no frame yet (`xlnx_lookahead.c:534`) end the drain
   in the same way. `EofMeansFlushed` (proved): a call that was not put off by one of
   these reports the end only with both pipelines empty. Which of them the devices give
   cannot be seen in this repository.
5. *Rates by position* (`scaler_half_first`). The session of the odd frames feeds the
   first outputs, whatever their rates: a half-rate output configured before a full-rate
   one gets its frames, and the other way round.

Weak spots the models contain, for which no run of their own is kept:

- A decoder drain spins for ever in `mpsoc_vcu_dec.c:793-848` when every output buffer is
  held downstream and the device has more to decode: the loop does not return, so the
  thread that would free the frames never runs. `DrainTerminates` excludes that case
  (`Starved`), and TLC finds the spin without the exclusion.
- With B-frames a first packet given before the second frame has come takes `pts_0` for
  its dts (`mpsoc_vcu_enc.c:352`) and leaves `is_first_outframe` set; the next packet is
  given `2 * pts_0 - pts_1`, which lies before it. `DtsMonotone` admits exactly this pair.
  Whether the device answers so early cannot be seen here; line 334 allows for it.
- The reference of a frame is given back on XMA_ERROR of the encoder only
  (`mpsoc_vcu_enc.c:1603`, `1651`). Any other failing answer returns EIO (1676), or is
  ignored in the drain loop (1649), and leaves it; so does a lookahead that refuses a
  frame, and then its second try (`xlnx_lookahead.c:540`): what was received in between
  is overwritten in `out_frame`. `ReleasedOnce` names these frames (`lost`).
- `pts_queue` has 64 entries, a TODO in the source. `QueueFits` says when that is enough:
  lookahead and encoder may hold 63 frames together, if no frame is dropped, nothing
  fails, and the first dts can be computed. Dropped frames leave entries behind that
  nobody reads.
- A scaler flush spins for ever when its sessions keep failing
  (`vf_multiscale_xma.c:603`); `FlushEnds` says that it ends otherwise. Without memory for
  the dummy frame, line 583 dereferences NULL (mode `crash`); so does the decoder with a
  packet it could not copy (`mpsoc_vcu_dec.c:746`, `778`).
- One frame of dts delay is enough with `Reorder = 1` only; in a pyramid of B-frames
  (`Reorder = 2`) `DtsNotAbovePts` fails (`mpsoc_vcu_enc.c:333`, a TODO there).
- A lookahead that fails in a drain reaches `la_in_frame->data[0]` with a NULL
  `la_in_frame` (mode `crash`), and `ret = vcu_alloc_ff_packet(...) < 0` returns 1 for a
  failed allocation, against an `av_assert0` in `encode.c` (mode `abort`).
- A scaler send that fails puts the two sessions out of step; the flush may then end with
  frames in one of them (`FlushLeavesFew` bounds their number). With an odd number of
  frames, no more than the sessions hold, the flush starts with the wrong session and a
  full-rate output gets its frames out of order; `OutputsInOrder` excludes that case.
- Without XRM_RESERVE_ID the lookahead's CU and context are never released
  (`Forgotten`); a codec whose init fails keeps what it took (`FailedKeepsOne` says how
  much); `create_xlnx_la` returns an error code as a pointer, which passes the NULL test
  (`badLa`, state `crash`).

## 4. Proofs

All theorems hold for every value of the constants; the assumptions are those named in
the modules (positive capacities, finite disjoint sets of threads, error codes distinct
from "no error", a lookahead that can hold more than it keeps back, reordering exactly
with B-frames, at least one full-rate output; nothing about the size of `pts_queue` but
that it is positive). In `VcuEncoder` at most one fault happens in a run; in `MultiScaler`
any number, those counted being fewer than MaxFaults where a theorem speaks of their
number. Three theorems have a hypothesis of their own: `DtsBelowPts` holds for
`Reorder <= 1`, `RatesKept` and `FlushIsThorough` for `FullFirst` (the full-rate outputs
are configured first). TLC refutes each without it (with `Reorder = 2`, and with the rates of run
`scaler_half_first`), and the passing runs satisfy it. The inductive invariants were
checked by TLC on small instances before they were proved.

*ThreadMessageProofs.* `IInv` is the type invariant, "no calls on a freed queue", and
`NoLostWakeup`: while a sender sleeps, the free slots are at most as many as senders
already woken, and likewise for receivers and messages. This counting form is what
makes one signal per message inductive; "a sleeper implies a full queue" is false as
soon as a woken thread has not yet run. `NotAllAsleep` follows since a queue that is
both full and empty does not exist. `ImplementsChannel` is the refinement of
`MessageChannel`: a sleeper is a blocking call that has not taken effect (`CallBar`), so
going to sleep, a signal, a broadcast and a spurious wakeup are stutters
(`WakeupsInvisible`), and each of the other critical sections is one step of the channel.

*XvbmConvertProofs.* `IInv` places every message: the k-th one from the front of the
pipeline (responses, the worker, requests) carries frame `taken + k` (`Positions`), the
flush marker is behind all frames (`Markers`), END is last (`EndIsLast`), and the
messages in flight are the frames sent and not taken (`Counts`), whose number
`InFlightBound` limits. From it follow `OutputInOrder` and `FlushDeliversAll`,
`NeverMutuallyBlocked`, `NoInputLeft` and `HangNeedsFullPipeline`. `FramesAccounted` needs
more: who owns an output frame (`Owners`: it is on its way in a response that carries it,
or released), that only frames already taken are released before the teardown
(`ReleasedWereTaken`), and that outside a flush no flush marker is on its way, unless
main left a flush early (`MarkersInFlush`). The last is where finding 2 sits: the stale
pointer travels with the marker.

*VcuDecoderProofs.* `Line` is the packet accepted last, the queue, and the packet to be
dealt with next; `InOrder` says that each follows the one before it but for packets
given up. In the middle of a call the queue is what it will be after the receive
(`Waiting`), because the code removes the sent packet only then. Every action takes
the head off the line, appends to it, or gives its last packet up, and one lemma
covers each. With `Modes` (which calls happen when), `FrameCount` and `RetriesUsed` it
gives `FedInOrder`, `EofIsLast`, `DrainComplete` and `GrowsOnlyWhenRefused`;
`BuffersConserved` is inductive by itself.

*VcuEncoderProofs.* `Base` has the types, which calls happen when (`Control`) and that the
frames lie in order along encoder, hand, lookahead (`Order`); a lemma describes what each
step does to the frames (one moves from a place to the next, is coded, or is released),
and the invariants after it are proved from these moves. `Accounts` (a frame neither
released nor lost is in one place, any other in none) gives `ReleasedOnce`; `FrameHome` is part of
`Control`. `Covered` (a frame that is nowhere was coded or dropped) and `FlushPhase` (the
encoder is flushed only when the lookahead is empty, or the call was put off) give `EofMeansFlushed`. For the
timestamps, `Reading` relates the read position of `pts_queue` to the number of packets,
one behind once the first dts was extrapolated, and `Stamped` bounds every dts by the
entry read last: `DtsMonotone`. `DtsNotAbovePts` needs `ToBeCoded`: a frame still to be
coded after n packets is at least the n-th, and the next one if no later frame overtook
it, which is what `Reorder <= 1` means. `Counted` (without a loss every frame received is
in a packet or in one of the places) with the capacities of the devices (`LaFits`,
`EncFits`) bounds the unread entries, and so the queue it takes: `QueueFits`.

*MultiScalerProofs.* `Lanes` is the invariant about the frames: a session holds frames of
its own class (odd or even) in ascending order, and an output has a frame once, from a
session that feeds it, and before the frames that session still holds. With `Turns` (in
the feed, the session whose turn it is, is that of the next frame) it is inductive under
all faults, and gives `NoFrameTwice`; with `FullFirst` also `RateAsConfigured`.
`FlushLeavesFew` rests on `Balance`: how far the sessions are out of step is bounded by
the failed calls, with another bound in the feed, in the flush, and after the first end
of a session was seen; and on `Complete`, a wanted frame is at the output or in its
session. For `OutputsInOrder` the sessions must be in step without a fault: each holds
every second frame up to its last one (`Run`), and `Phase` says how their lengths and the
turn go together. It follows that the frame that comes out is the oldest of all
(`FeedOldest`, `FlushOldest`), so the outputs stay ahead of nothing held (`Sorted`). The
case that `OutputsInOrder` excludes is the one where `Phase` cannot be kept when the flush
starts.

*XvbmFramesProofs.* `CountIsExact` is not inductive alone: `FrameRefCopies` makes an
uncounted frame out of one without a `buf[0]`. `Buffered` says there is none as long as
no clone failed that way. The rest is counting: the set of frames that show a buffer
grows or shrinks by the frame an action touches (`ShowMore`, `ShowLess`). `PoolIsUnused`
follows.

*XrmResourcesProofs.* The invariant is local to an instance (`Good`): an init has a call
left to make, and everything held was taken by a call of the plan that was made
(`TakenBy`). What close releases is then compared with the plan, and a call that fails
for want of CUs stands so early in the plan that only the context and one CU come before
it. Since a step changes one instance only, the number of instances does not matter.

Only model-checked: the liveness properties (`ErrorReleasesSenders`,
`ErrorReleasesReceivers`, `MessagesMove`, `CallsReturn`, `UninitReturnsIfRoom`,
`DrainTerminates`, `DrainEnds`, `FlushEnds`, `ReturnsToPool`), since fairness is beyond the
prover. Every invariant and action property of a passing run is a theorem.

## 5. Not modelled, and the plan

Next, in this order:

1. Proofs: the type invariant of `VcuEncoder` with the range of the dts, for which
   `DeltaFits` has to be carried through `Reading`.
2. `AvFifo`: the ring buffer with counters modulo 2^32, refining a bounded sequence.

Left out for good: formats, plane copies, the parsing of extradata and options, logging,
the JSON properties file, and the codecs, containers and filters of upstream FFmpeg.
