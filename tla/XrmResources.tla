----------------------------- MODULE XrmResources -----------------------------
(***************************************************************************)
(* What the decoder, the encoder with its lookahead, and the scaler take   *)
(* from the device and give back: contexts and compute units (CUs) of the  *)
(* Xilinx resource manager, XMA sessions and the memory that goes with     *)
(* them.  mpsoc_vcu_dec.c, mpsoc_vcu_enc.c, xlnx_lookahead.c,              *)
(* vf_multiscale_xma.c, and the part of avcodec_open2 that decides whether *)
(* close is called.                                                        *)
(*                                                                         *)
(* An instance is one codec or filter of the process.  Its init makes the  *)
(* calls of Plan one after the other, each of which may fail; instances    *)
(* are opened and closed in any order and share the CUs of one device.     *)
(* The resource manager is external.                                       *)
(***************************************************************************)
EXTENDS Integers, Sequences, FiniteSets

CONSTANTS Decoders, Encoders, Scalers,   \* the instances
          Cap,         \* external: CUs of the device
          MaxFaults    \* bound: calls that fail though there are CUs

Instances == Decoders \cup Encoders \cup Scalers

ASSUME InstanceAssumption ==
  /\ IsFiniteSet(Instances)
  /\ Decoders \cap Encoders = {} /\ Decoders \cap Scalers = {} /\ Encoders \cap Scalers = {}
ASSUME BoundAssumption == Cap \in Nat /\ MaxFaults \in Nat

VARIABLES
  reserved,    \* XRM_RESERVE_ID is set (else XRM_DEVICE_ID)
  lookahead,   \* the encoders use the lookahead (it is not bypassed)
  st,      \* "new", "init", "open", "failed" (init returned an error), "closed" or
           \* "crash" (an invalid pointer is followed)
  step,    \* calls of Plan made
  held,    \* what each instance holds
  badLa,   \* ctx->la is what create_xlnx_la returns when XRM fails: (void *)XMA_ERROR
  free,    \* CUs free
  faults

config == <<reserved, lookahead>>
vars == <<config, st, step, held, badLa, free, faults>>

\* The calls of an init, in their order, by what they take.
LaPlan == IF lookahead THEN <<"la_context", "la_load", "la_cu", "la_session", "la_frame">> ELSE <<>>

\* wrong: the session is created before the CUs are there
CodecPlanSessionFirst ==
  IF reserved THEN <<"context", "session", "load", "list", "fifo">>
              ELSE <<"context", "session", "load", "hw", "sw", "fifo">>

CodecPlan == IF reserved THEN <<"context", "load", "list", "session", "fifo">>
                         ELSE <<"context", "load", "hw", "sw", "session", "fifo">>

ScalerPlan == <<"context", "load", "cu1", "session1", "load", "cu2", "session2">>
Plan(i) == IF i \in Encoders THEN LaPlan \o CodecPlan
           ELSE IF i \in Decoders THEN CodecPlan ELSE ScalerPlan

Call(i) == Plan(i)[step[i] + 1]

Units(r) == IF r = "list" THEN 2 ELSE IF r \in {"hw", "sw", "la_cu", "cu1", "cu2"} THEN 1 ELSE 0
Cus(R) == Cardinality(R \cap {"hw", "sw", "la_cu", "cu1", "cu2"}) + IF "list" \in R THEN 2 ELSE 0

Init ==
  /\ reserved \in BOOLEAN /\ lookahead \in BOOLEAN
  /\ st = [i \in Instances |-> "new"] /\ step = [i \in Instances |-> 0]
  /\ held = [i \in Instances |-> {}] /\ badLa = {}
  /\ free = Cap /\ faults = 0

Release(i, R) ==
  /\ held' = [held EXCEPT ![i] = @ \ R]
  /\ free' = free + Cus(held[i] \cap R)

-----------------------------------------------------------------------------
(* init *)

Open(i) ==
  /\ st[i] = "new" /\ st' = [st EXCEPT ![i] = "init"]
  /\ UNCHANGED <<step, held, badLa, free, faults>>

\* A call succeeds; after the last one the instance is open.
Take(i) ==
  /\ st[i] = "init" /\ Units(Call(i)) <= free
  /\ Call(i) # "context" => "context" \in held[i] \/ Call(i) \in {LaPlan[n] : n \in DOMAIN LaPlan}
  /\ held' = [held EXCEPT ![i] = IF Call(i) \in {"load", "la_load"} THEN @ ELSE @ \cup {Call(i)}]
  /\ free' = free - Units(Call(i))
  /\ step' = [step EXCEPT ![i] = @ + 1]
  /\ st' = [st EXCEPT ![i] = IF step[i] + 1 = Len(Plan(i)) THEN "open" ELSE @]
  /\ UNCHANGED <<badLa, faults>>

\* A call fails: for want of CUs, of a context, or for a reason of its own.
Fails(i) ==
  /\ st[i] = "init"
  /\ \/ faults < MaxFaults /\ faults' = faults + 1
     \/ Units(Call(i)) > free /\ UNCHANGED faults
     \/ Call(i) = "load" /\ "context" \notin held[i] /\ UNCHANGED faults

\* The init of a codec returns an error, and as the codecs are not marked
\* FF_CODEC_CAP_INIT_CLEANUP avcodec_open2 does not call close.
CodecFails(i) ==
  /\ i \in Decoders \cup Encoders /\ Fails(i)
  /\ Call(i) \notin {LaPlan[n] : n \in DOMAIN LaPlan}
  /\ st' = [st EXCEPT ![i] = "failed"]
  /\ UNCHANGED <<step, held, badLa, free>>

\* XRM fails the lookahead: create_xlnx_la returns XMA_ERROR, which init_la,
\* looking for NULL, takes for a lookahead.  The context stays allocated.
\* Unless the input is XVBM the next line follows the pointer.
LookaheadXrmFails(i) ==
  /\ i \in Encoders /\ Fails(i) /\ Call(i) \in {"la_context", "la_load", "la_cu"}
  /\ badLa' = badLa \cup {i}
  /\ \/ step' = [step EXCEPT ![i] = Len(LaPlan)] /\ UNCHANGED st
     \/ st' = [st EXCEPT ![i] = "crash"] /\ UNCHANGED step
  /\ UNCHANGED <<held, free>>

\* free_res: the CU and the context are released under a reservation only.
LaReleased == {"la_session", "la_frame"} \cup (IF reserved THEN {"la_cu", "la_context"} ELSE {})

\* ... its session or its frame: destroy_xlnx_la, and init fails.
LookaheadFails(i) ==
  /\ i \in Encoders /\ Fails(i) /\ Call(i) \in {"la_session", "la_frame"}
  /\ Release(i, LaReleased)
  /\ st' = [st EXCEPT ![i] = "failed"]
  /\ UNCHANGED <<step, badLa>>

\* wrong: the first session's CU only
ScalerReleasedFirst == {"session1", "session2", "cu1", "context"}

\* multiscale_xma_uninit: every session, every CU whose xrm_alloc_st is set
ScalerReleased == {"session1", "session2", "cu1", "cu2", "context"}

\* The graph is freed when config_props fails, with its filters.
ScalerFails(i) ==
  /\ i \in Scalers /\ Fails(i) /\ Call(i) # "context"
  /\ Release(i, ScalerReleased)
  /\ st' = [st EXCEPT ![i] = "closed"]
  /\ UNCHANGED <<step, badLa>>

\* A missing context goes unnoticed: ctx is tested instead of s->xrm_ctx.
ScalerContextFails(i) ==
  /\ i \in Scalers /\ Fails(i) /\ Call(i) = "context"
  /\ step' = [step EXCEPT ![i] = @ + 1]
  /\ UNCHANGED <<st, held, badLa, free>>

-----------------------------------------------------------------------------
(* close *)

\* by decode_res_inuse and encode_res_inuse: the list, or the two CUs
CodecReleased == {"session", "fifo", "context"} \cup (IF reserved THEN {"list"} ELSE {"hw", "sw"})

CloseDecoder(i) ==
  /\ i \in Decoders /\ st[i] = "open"
  /\ Release(i, CodecReleased) /\ st' = [st EXCEPT ![i] = "closed"]
  /\ UNCHANGED <<step, badLa, faults>>

\* with deinit_la
CloseEncoder(i) ==
  /\ i \in Encoders \ badLa /\ st[i] = "open"
  /\ Release(i, CodecReleased \cup LaReleased) /\ st' = [st EXCEPT ![i] = "closed"]
  /\ UNCHANGED <<step, badLa, faults>>

\* The first frame, or close, follows the pointer of a lookahead that failed.
UseBadLookahead(i) ==
  /\ i \in badLa /\ st[i] = "open"
  /\ st' = [st EXCEPT ![i] = "crash"]
  /\ UNCHANGED <<step, held, badLa, free, faults>>

CloseScaler(i) ==
  /\ i \in Scalers /\ st[i] = "open"
  /\ Release(i, ScalerReleased) /\ st' = [st EXCEPT ![i] = "closed"]
  /\ UNCHANGED <<step, badLa, faults>>

Crashed == \E i \in Instances : st[i] = "crash"

Finished == (Crashed \/ \A i \in Instances : st[i] \in {"failed", "closed"}) /\ UNCHANGED vars

InitStep(i) == Open(i) \/ Take(i) \/ CodecFails(i) \/ LookaheadXrmFails(i) \/ LookaheadFails(i)
               \/ ScalerFails(i) \/ ScalerContextFails(i)
Close(i) == CloseDecoder(i) \/ CloseEncoder(i) \/ UseBadLookahead(i) \/ CloseScaler(i)

Next == (~Crashed /\ UNCHANGED config /\ \E i \in Instances : InitStep(i) \/ Close(i)) \/ Finished

Spec == Init /\ [][Next]_vars

-----------------------------------------------------------------------------
(* Properties *)

TypeOK ==
  /\ reserved \in BOOLEAN /\ lookahead \in BOOLEAN
  /\ st \in [Instances -> {"new", "init", "open", "failed", "closed", "crash"}]
  /\ \A i \in Instances : step[i] \in 0..Len(Plan(i)) /\ held[i] \subseteq {Plan(i)[n] : n \in DOMAIN Plan(i)}
  /\ badLa \subseteq Encoders /\ free \in 0..Cap /\ faults \in 0..MaxFaults

\* What free_res forgets without a reservation.
Forgotten(i) == IF reserved \/ i \notin Encoders THEN {} ELSE {"la_cu", "la_context"}

\* An instance that was closed holds nothing, whatever failed in it or in others,
\* but for the CU and the context of a lookahead without a reservation.
ClosedHoldsNothing == \A i \in Instances : st[i] = "closed" => held[i] \subseteq Forgotten(i)

\* An init that fails for want of CUs, with no other fault, leaves no session behind:
\* beside its lookahead it keeps its context and, of CUs taken one by one, the first;
\* of a reservation it keeps no CU.
FailedKeepsOne ==
  faults = 0 => \A i \in Instances :
    st[i] = "failed" => /\ held[i] \subseteq {"context", "hw"} \cup {LaPlan[n] : n \in DOMAIN LaPlan}
                        /\ reserved => "hw" \notin held[i]

=============================================================================
