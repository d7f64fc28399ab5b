------------------------------ MODULE VcuDecoder ------------------------------
(***************************************************************************)
(* libavcodec/mpsoc_vcu_dec.c: the H.264/HEVC decoder on the VCU, driven   *)
(* by decode_simple_internal (libavcodec/decode.c).  Packets the device    *)
(* refuses (XMA_TRY_AGAIN) wait in pkt_fifo; every call of mpsoc_vcu_decode *)
(* sends at most one new packet and fetches at most one frame, and at the  *)
(* end of the stream it loops until the device has given everything back.  *)
(*                                                                         *)
(* A step is one call into the XMA library together with what the decoder  *)
(* does with its result.  The device runs concurrently; it is external and *)
(* modelled from the way the decoder uses it: an input queue of InCap      *)
(* packets, one frame per packet, and OutBufs output buffers that travel   *)
(* device -> decoder -> downstream -> (with the next send) device.         *)
(* Packets are numbered as the demuxer delivers them.                      *)
(***************************************************************************)
EXTENDS Integers, Sequences

CONSTANTS Watermark,     \* PKT_FIFO_WATERMARK_SIZE
          FifoAlloc,     \* packets pkt_fifo holds before av_fifo_grow is needed
          InCap,         \* external: packets the device accepts at once
          OutBufs,       \* external: output buffers of the session
          EofNeedsRoom,  \* external: the end of stream is refused like a packet
          Idr,           \* numbers of the packets that contain an IDR picture
          MaxPkts,       \* bound: packets in the input, all loops together
          MaxFaults,     \* bound: device errors and failed allocations
          MaxLoops       \* bound: times ffmpeg rewinds the input (-stream_loop)

ASSUME BoundAssumption == Watermark \in Nat /\ FifoAlloc \in Nat \ {0} /\ MaxPkts \in Nat
                          /\ MaxFaults \in Nat /\ MaxLoops \in Nat
ASSUME DeviceAssumption == InCap \in Nat \ {0} /\ OutBufs \in Nat \ {0}
                           /\ EofNeedsRoom \in BOOLEAN

VARIABLES
  mode,             \* decode.c: "data", "drain" (internal->draining), "done"; or "crash"
  pc,               \* "idle", or the next XMA call of mpsoc_vcu_decode
  next,             \* packets handed to mpsoc_vcu_decode; during a data call the current one
  first_idr_found, flush_sent,
  pkt_fifo,         \* queued packets
  nulls,            \* queued packets that av_packet_clone failed to copy: NULL is queued
  retries,          \* local to a data call
  send_ret,         \* local to a call: "ok" or "again"
  devIn, devOut,    \* device: packets not decoded, frames not fetched
  devEof,           \* device: it has accepted the end of stream
  devFree, held, pool,  \* output buffers free on the device, downstream, freed on the host
  nacc, lastAcc,    \* packets the device accepted: how many, and the last of them
  genpts,           \* frames returned with got_frame
  lost,             \* packets not decoded: before the first IDR, or after an error
  faults, loops

decVars == <<mode, next, first_idr_found, flush_sent, loops>>
devVars == <<devIn, devOut, devEof>>
bufVars == <<devFree, held, pool>>
ghostVars == <<nacc, lastAcc, genpts, lost, faults>>
vars == <<decVars, pc, pkt_fifo, nulls, retries, send_ret, devVars, bufVars, ghostVars>>

\* mpsoc_vcu_decode_init has succeeded.
Init ==
  /\ mode = "data" /\ pc = "idle" /\ next = 0 /\ loops = 0
  /\ first_idr_found = FALSE /\ flush_sent = FALSE
  /\ pkt_fifo = <<>> /\ nulls = {} /\ retries = 0 /\ send_ret = "ok"
  /\ devIn = 0 /\ devOut = 0 /\ devEof = FALSE
  /\ devFree = OutBufs /\ held = 0 /\ pool = 0
  /\ nacc = 0 /\ lastAcc = 0 /\ genpts = 0 /\ lost = {} /\ faults = 0

\* a device error or a failed allocation
Fails == faults < MaxFaults /\ faults' = faults + 1

-----------------------------------------------------------------------------
(* The device (external) *)

\* wrong: the list of freed buffers is not emptied
GiveBuffersAgain == devFree' = devFree + pool /\ UNCHANGED <<held, pool>>

\* Every send tells the device which output buffers were freed on the host.
GiveBuffers == devFree' = devFree + pool /\ pool' = 0 /\ UNCHANGED held

\* xma_dec_session_send_data of packet p: XMA_SUCCESS
SendOk(p) ==
  /\ devIn < InCap
  /\ devIn' = devIn + 1 /\ nacc' = nacc + 1 /\ lastAcc' = p
  /\ GiveBuffers
  /\ UNCHANGED <<devOut, devEof>>

\* XMA_TRY_AGAIN
SendAgain ==
  /\ devIn >= InCap
  /\ GiveBuffers
  /\ UNCHANGED <<devVars, nacc, lastAcc>>

\* XMA_ERROR
SendError ==
  /\ Fails
  /\ UNCHANGED <<devVars, bufVars, nacc, lastAcc>>

\* the device decodes a packet into a free output buffer
DevDecode ==
  /\ devIn > 0 /\ devFree > 0
  /\ devIn' = devIn - 1 /\ devFree' = devFree - 1 /\ devOut' = devOut + 1
  /\ UNCHANGED <<decVars, pc, pkt_fifo, nulls, retries, send_ret, devEof, held, pool, ghostVars>>

\* a frame is dropped by its last user downstream: the buffer returns to the pool
Downstream ==
  /\ held > 0
  /\ held' = held - 1 /\ pool' = pool + 1
  /\ UNCHANGED <<decVars, pc, pkt_fifo, nulls, retries, send_ret, devVars, devFree, ghostVars>>

\* xma_dec_session_recv_frame without a frame: the end of the stream; otherwise
\* XMA_TRY_AGAIN
RecvEos == devOut = 0 /\ devEof /\ devIn = 0

set_pts == genpts' = genpts + 1

\* A frame is fetched; vcu_dec_get_out_buffer attaches it to the AVFrame, or
\* fails to allocate, and then the output buffer is leaked.
Fetched(got) ==
  /\ devOut > 0
  /\ devOut' = devOut - 1
  /\ IF got THEN held' = held + 1 /\ set_pts ELSE UNCHANGED <<held, genpts>>
  /\ UNCHANGED <<devIn, devEof, devFree, pool>>
RecvFrame(got) == Fetched(got) /\ IF got THEN faults' = faults ELSE Fails

RecvNothing == devOut = 0 /\ UNCHANGED <<devVars, bufVars, genpts, faults>>

\* XMA_ERROR
RecvError ==
  /\ Fails
  /\ UNCHANGED <<devVars, bufVars, genpts>>

-----------------------------------------------------------------------------
(* mpsoc_vcu_decode with a packet *)

\* the scan for a NAL unit of an IDR picture, H.264 or HEVC
mpsoc_decode_is_idr(p) == p \in Idr

\* Packets before the first IDR are dropped.
DecodeSkip ==
  /\ mode = "data" /\ pc = "idle" /\ next < MaxPkts
  /\ ~first_idr_found /\ ~mpsoc_decode_is_idr(next + 1)
  /\ next' = next + 1 /\ lost' = lost \cup {next + 1}
  /\ UNCHANGED <<mode, first_idr_found, flush_sent, loops, pc, pkt_fifo, nulls, retries, send_ret,
                 devVars, bufVars, nacc, lastAcc, genpts, faults>>

DecodeCall ==
  /\ mode = "data" /\ pc = "idle" /\ next < MaxPkts
  /\ first_idr_found \/ mpsoc_decode_is_idr(next + 1)
  /\ next' = next + 1 /\ first_idr_found' = TRUE
  /\ retries' = 0 /\ pc' = "water"
  /\ UNCHANGED <<mode, flush_sent, loops, pkt_fifo, nulls, send_ret, devVars, bufVars, ghostVars>>

\* The packet at the head of pkt_fifo is NULL,
HeadIsNull == pkt_fifo # <<>> /\ Head(pkt_fifo) \in nulls

\* and mpsoc_send_data is given its fields.
HeadDereferenced ==
  /\ HeadIsNull
  /\ (pc = "water" /\ Len(pkt_fifo) > Watermark) \/ pc \in {"send", "eof_send"}
  /\ mode' = "crash" /\ pc' = "idle"
  /\ lost' = IF mode = "data" THEN lost \cup {next} ELSE lost
  /\ UNCHANGED <<next, first_idr_found, flush_sent, loops, pkt_fifo, nulls, retries, send_ret,
                 devVars, bufVars, nacc, lastAcc, genpts, faults>>

\* the loop that empties pkt_fifo down to the watermark
WaterDone ==
  /\ pc = "water" /\ Len(pkt_fifo) <= Watermark
  /\ pc' = "send"
  /\ UNCHANGED <<decVars, pkt_fifo, nulls, retries, send_ret, devVars, bufVars, ghostVars>>

\* wrong: no limit of retries
WaterSendForever ==
  /\ pc = "water" /\ Len(pkt_fifo) > Watermark /\ ~HeadIsNull
  /\ \/ SendOk(Head(pkt_fifo)) /\ pkt_fifo' = Tail(pkt_fifo) /\ UNCHANGED retries
     \/ SendAgain /\ retries' = retries + 1 /\ UNCHANGED pkt_fifo
  /\ UNCHANGED <<decVars, pc, nulls, send_ret, genpts, lost, faults>>

\* wrong: the first refusal ends the loop
WaterSendOnce ==
  /\ pc = "water" /\ Len(pkt_fifo) > Watermark /\ ~HeadIsNull
  /\ \/ SendOk(Head(pkt_fifo)) /\ pkt_fifo' = Tail(pkt_fifo) /\ UNCHANGED pc
     \/ SendAgain /\ pc' = "send" /\ UNCHANGED pkt_fifo
  /\ UNCHANGED <<decVars, nulls, retries, send_ret, genpts, lost, faults>>

WaterSend ==
  /\ pc = "water" /\ Len(pkt_fifo) > Watermark /\ ~HeadIsNull
  /\ \/ /\ SendOk(Head(pkt_fifo))
        /\ pkt_fifo' = Tail(pkt_fifo) /\ UNCHANGED <<pc, retries>>
     \/ /\ SendAgain /\ retries # 2
        /\ retries' = retries + 1 /\ UNCHANGED <<pc, pkt_fifo>>
     \/ /\ SendAgain /\ retries = 2
        /\ pc' = "send" /\ UNCHANGED <<pkt_fifo, retries>>
  /\ UNCHANGED <<decVars, nulls, send_ret, genpts, lost, faults>>

\* the caller drops the packet of a failed call (av_packet_unref in decode.c)
WaterError ==
  /\ pc = "water" /\ Len(pkt_fifo) > Watermark /\ ~HeadIsNull
  /\ SendError
  /\ pc' = "idle" /\ lost' = lost \cup {next}
  /\ UNCHANGED <<decVars, pkt_fifo, nulls, retries, send_ret, genpts>>

\* wrong: the new packet is sent before the queued ones
DataSendNewest ==
  /\ pc = "send"
  /\ \/ SendOk(next) /\ send_ret' = "ok" /\ pkt_fifo' = pkt_fifo
     \/ SendAgain /\ send_ret' = "again" /\ pkt_fifo' = Append(pkt_fifo, next)
  /\ pc' = "recv"
  /\ UNCHANGED <<decVars, nulls, retries, genpts, lost, faults>>

\* av_packet_clone, whose result is queued without a look at it
CloneOk == UNCHANGED <<nulls, faults>>
CloneFails == Fails /\ nulls' = nulls \cup {next}

\* The packet is queued behind the others and the oldest is sent, or it is
\* sent itself.
DataSend ==
  /\ pc = "send" /\ ~HeadIsNull
  /\ LET q == IF pkt_fifo = <<>> THEN <<>> ELSE Append(pkt_fifo, next)
         p == IF pkt_fifo = <<>> THEN next ELSE Head(pkt_fifo)
     IN /\ pkt_fifo' = q
        /\ \/ SendOk(p) /\ send_ret' = "ok"
           \/ SendAgain /\ send_ret' = "again"
  /\ CloneOk \/ (pkt_fifo # <<>> /\ CloneFails)
  /\ pc' = "recv"
  /\ UNCHANGED <<decVars, retries, genpts, lost>>

\* After an error the packet is kept if it was queued and lost otherwise.
DataError ==
  /\ pc = "send" /\ ~HeadIsNull
  /\ SendError
  /\ IF pkt_fifo = <<>>
     THEN UNCHANGED <<pkt_fifo, nulls>> /\ lost' = lost \cup {next}
     ELSE /\ pkt_fifo' = Append(pkt_fifo, next) /\ UNCHANGED lost
          /\ nulls' \in {nulls, nulls \cup {next}}
  /\ pc' = "idle"
  /\ UNCHANGED <<decVars, retries, send_ret, genpts>>

\* av_fifo_grow fails
DataNoMem ==
  /\ pc = "send" /\ Len(pkt_fifo) >= FifoAlloc /\ Fails
  /\ lost' = lost \cup {next}
  /\ pc' = "idle"
  /\ UNCHANGED <<decVars, pkt_fifo, nulls, retries, send_ret, devVars, bufVars, nacc, lastAcc, genpts>>

\* what becomes of the queue after the recv of a data call
QueueAfterSend ==
  CASE send_ret = "again" /\ pkt_fifo = <<>> -> <<next>>
    [] send_ret = "ok" /\ pkt_fifo # <<>>    -> Tail(pkt_fifo)
    [] OTHER                                 -> pkt_fifo

DataRecv ==
  /\ pc = "recv"
  /\ \/ /\ (\E got \in BOOLEAN : RecvFrame(got)) \/ RecvNothing \/ RecvError
        /\ nulls' = nulls
     \/ /\ send_ret = "again" /\ pkt_fifo = <<>> /\ CloneFails
        /\ (\E got \in BOOLEAN : Fetched(got)) \/ UNCHANGED <<devVars, bufVars, genpts>>
  /\ pkt_fifo' = QueueAfterSend
  /\ pc' = "idle"
  /\ UNCHANGED <<decVars, retries, send_ret, nacc, lastAcc, lost>>

-----------------------------------------------------------------------------
(* The end of the stream: decode.c calls with an empty packet until a call    *)
(* succeeds without a frame.                                                  *)

StartDrain ==
  /\ mode = "data" /\ pc = "idle"
  /\ mode' = "drain"
  /\ UNCHANGED <<next, first_idr_found, flush_sent, loops, pc, pkt_fifo, nulls, retries, send_ret,
                 devVars, bufVars, ghostVars>>

DrainCall ==
  /\ mode = "drain" /\ pc = "idle"
  /\ pc' = "eof_send"
  /\ UNCHANGED <<decVars, pkt_fifo, nulls, retries, send_ret, devVars, bufVars, ghostVars>>

\* one iteration of the loop sends the oldest queued packet,
EofSendPacket ==
  /\ pc = "eof_send" /\ pkt_fifo # <<>> /\ ~HeadIsNull
  /\ \/ SendOk(Head(pkt_fifo)) /\ pkt_fifo' = Tail(pkt_fifo)
     \/ SendAgain /\ UNCHANGED pkt_fifo
  /\ pc' = "eof_recv"
  /\ UNCHANGED <<decVars, nulls, retries, send_ret, genpts, lost, faults>>

\* wrong: the end of stream does not wait for the queue
EofSendFlushEarly ==
  /\ pc = "eof_send" /\ ~flush_sent
  /\ flush_sent' = TRUE /\ devEof' = TRUE
  /\ GiveBuffers
  /\ pc' = "eof_recv"
  /\ UNCHANGED <<mode, next, first_idr_found, loops, pkt_fifo, nulls, retries, send_ret,
                 devIn, devOut, ghostVars>>

\* or, once, the end of stream, whether the device takes it or not,
EofSendFlush ==
  /\ pc = "eof_send" /\ pkt_fifo = <<>> /\ ~flush_sent
  /\ flush_sent' = TRUE
  /\ devEof' = (devEof \/ ~EofNeedsRoom \/ devIn < InCap)
  /\ GiveBuffers
  /\ pc' = "eof_recv"
  /\ UNCHANGED <<mode, next, first_idr_found, loops, pkt_fifo, nulls, retries, send_ret,
                 devIn, devOut, ghostVars>>

\* wrong: nothing is sent any more
EofSendNothing ==
  /\ pc = "eof_send" /\ pkt_fifo = <<>> /\ flush_sent
  /\ pc' = "eof_recv"
  /\ UNCHANGED <<decVars, pkt_fifo, nulls, retries, send_ret, devVars, bufVars, ghostVars>>

\* or an empty buffer, which only returns output buffers to the device.
EofSendEmpty ==
  /\ pc = "eof_send" /\ pkt_fifo = <<>> /\ flush_sent
  /\ GiveBuffers
  /\ pc' = "eof_recv"
  /\ UNCHANGED <<decVars, pkt_fifo, nulls, retries, send_ret, devVars, ghostVars>>

\* An error ends the call, not the drain: decode.c allows 21 of them.
EofError ==
  /\ pc = "eof_send" /\ ~HeadIsNull
  /\ SendError
  /\ flush_sent' = (flush_sent \/ pkt_fifo = <<>>)
  /\ pc' = "idle"
  /\ UNCHANGED <<mode, next, first_idr_found, loops, pkt_fifo, nulls, retries, send_ret, genpts, lost>>

\* A frame ends the call; when it could not be attached, got_frame is 0 and
\* decode.c takes the decoder for drained.
EofRecvFrame ==
  /\ pc = "eof_recv"
  /\ \E got \in BOOLEAN : RecvFrame(got) /\ mode' = IF got THEN "drain" ELSE "done"
  /\ pc' = "idle"
  /\ UNCHANGED <<next, first_idr_found, flush_sent, loops, pkt_fifo, nulls, retries, send_ret,
                 nacc, lastAcc, lost>>

\* wrong: XMA_TRY_AGAIN ends the drain like the end of the stream
EofRecvGivesUp ==
  /\ pc = "eof_recv"
  /\ RecvNothing \/ RecvError
  /\ IF flush_sent THEN mode' = "done" /\ pc' = "idle" ELSE mode' = mode /\ pc' = "eof_send"
  /\ UNCHANGED <<next, first_idr_found, flush_sent, loops, pkt_fifo, nulls, retries, send_ret,
                 nacc, lastAcc, lost>>

\* Without a frame the loop goes on, unless the end of stream was sent and the
\* answer is anything but XMA_TRY_AGAIN.
EofRecvNothing ==
  /\ pc = "eof_recv"
  /\ RecvNothing \/ RecvError
  /\ IF flush_sent /\ (RecvEos \/ faults' # faults) THEN mode' = "done" /\ pc' = "idle"
                                                   ELSE mode' = mode /\ pc' = "eof_send"
  /\ UNCHANGED <<next, first_idr_found, flush_sent, loops, pkt_fifo, nulls, retries, send_ret,
                 nacc, lastAcc, lost>>

\* avcodec_flush_buffers after a drain (-stream_loop): mpsoc_vcu_flush.  The
\* device starts a new stream.
mpsoc_vcu_flush ==
  /\ mode = "done" /\ loops < MaxLoops
  /\ mode' = "data" /\ flush_sent' = FALSE /\ devEof' = FALSE /\ loops' = loops + 1
  /\ UNCHANGED <<next, first_idr_found, pc, pkt_fifo, nulls, retries, send_ret, devIn, devOut,
                 bufVars, ghostVars>>

Finished == (mode = "crash" \/ (mode = "done" /\ loops = MaxLoops)) /\ UNCHANGED vars

-----------------------------------------------------------------------------
DataPath == DecodeSkip \/ DecodeCall \/ WaterDone \/ WaterSend \/ WaterError
            \/ DataSend \/ DataError \/ DataNoMem \/ DataRecv
EofPath == StartDrain \/ DrainCall \/ EofSendPacket \/ EofSendFlush \/ EofSendEmpty \/ EofError
           \/ EofRecvFrame \/ EofRecvNothing
mpsoc_vcu_decode == DataPath \/ EofPath \/ HeadDereferenced

Next == mpsoc_vcu_decode \/ mpsoc_vcu_flush \/ DevDecode \/ Downstream \/ Finished

Spec == Init /\ [][Next]_vars

\* Once called the decoder runs and decode.c goes on draining; the device
\* decodes what it can.  Nothing makes the users of the frames drop them: most
\* of them run on the thread that the loop of the end of stream keeps.
InCall == WaterDone \/ WaterSend \/ DataSend \/ DataRecv \/ DrainCall \/ EofSendPacket
          \/ EofSendFlush \/ EofSendEmpty \/ EofRecvFrame \/ EofRecvNothing
FairSpec == Spec /\ WF_vars(InCall) /\ WF_vars(DevDecode)

-----------------------------------------------------------------------------
(* Properties *)

TypeOK ==
  /\ mode \in {"data", "drain", "done", "crash"}
  /\ pc \in {"idle", "water", "send", "recv", "eof_send", "eof_recv"}
  /\ next \in Nat /\ loops \in Nat /\ retries \in 0..2
  /\ first_idr_found \in BOOLEAN /\ flush_sent \in BOOLEAN /\ devEof \in BOOLEAN
  /\ pkt_fifo \in Seq(Nat) /\ send_ret \in {"ok", "again"}
  /\ devIn \in 0..InCap /\ devOut \in Nat
  /\ devFree \in Nat /\ held \in Nat /\ pool \in Nat
  /\ nacc \in Nat /\ lastAcc \in Nat /\ genpts \in Nat /\ faults \in Nat
  /\ lost \subseteq Nat /\ nulls \subseteq Nat

\* b follows a in the input, but for the packets in gone
Follows(a, b, gone) == a < b /\ \A p \in (a + 1)..(b - 1) : p \in gone

\* The device gets the packets in input order, each once, and none is left
\* out but those before the first IDR and those given up after an error:
\* through every mixture of refusals, queueing and retries.
FedInOrder == [][nacc' # nacc => Follows(lastAcc, lastAcc', lost)]_<<nacc, lastAcc>>

\* The device sees the end of stream only after every packet.
EofIsLast == devEof => pkt_fifo = <<>> /\ Follows(lastAcc, next + 1, lost)

\* A drain that ends without a fault has returned a frame for every packet
\* the device accepted, and no packet is left in the queue.
DrainComplete ==
  (mode = "done" /\ faults = 0) => pkt_fifo = <<>> /\ devIn = 0 /\ devOut = 0 /\ genpts = nacc

\* pkt_fifo grows above the watermark only in a call in which the device has
\* refused a queued packet and both retries of it or of the ones after it.
GrowsOnlyWhenRefused ==
  [][Len(pkt_fifo') > Len(pkt_fifo) /\ Len(pkt_fifo) > Watermark => retries = 2]_pkt_fifo

\* Output buffers are neither lost nor duplicated unless a fault leaks one.
BuffersConserved ==
  /\ devFree + devOut + held + pool <= OutBufs
  /\ devFree + devOut + held + pool + faults >= OutBufs

\* every output buffer is in use downstream, and the device has more to decode
Starved == held = OutBufs /\ devIn > 0

\* Without a fault every drain ends, although the loop of the end of stream has
\* no other way out than the device's answers; unless in the end all output
\* buffers stay downstream: the loop does not return to let them go.
DrainTerminates ==
  <>[]Starved \/ ((mode = "drain" /\ faults = 0) ~> (mode = "done" \/ faults > 0))

-----------------------------------------------------------------------------
(* The inductive invariant.  Line is the input as far as it is known, from    *)
(* the packet the device accepted last to the one that will be dealt with     *)
(* next: every packet in it follows the one before it.                        *)

Waiting == IF pc = "recv" THEN QueueAfterSend ELSE pkt_fifo
current == IF pc \in {"water", "send"} THEN next ELSE next + 1
Line == <<lastAcc>> \o Waiting \o <<current>>
Chain(s, gone) == \A i \in 1..(Len(s) - 1) : Follows(s[i], s[i + 1], gone)
InOrder == Chain(Line, lost)

\* A data call is made in mode "data" only, a drain call in mode "drain"; the
\* end of stream is accepted in a drain, with nothing left to send, and a drain
\* ends well only when the device has said so.
Modes ==
  /\ pc \in {"water", "send", "recv"} => mode = "data"
  /\ pc \in {"eof_send", "eof_recv"} => mode = "drain"
  /\ devEof => mode # "data" /\ pkt_fifo = <<>>
  /\ (mode = "done" /\ faults = 0) => devEof /\ devIn = 0 /\ devOut = 0

\* every accepted packet is in the device or was returned, or a fault lost it
FrameCount ==
  /\ devIn + devOut + genpts <= nacc
  /\ devIn + devOut + genpts + faults >= nacc

RetriesUsed == pc = "send" /\ Len(pkt_fifo) > Watermark => retries = 2

IInv == TypeOK /\ InOrder /\ Modes /\ FrameCount /\ BuffersConserved /\ RetriesUsed
=============================================================================
