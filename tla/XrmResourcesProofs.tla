-------------------------- MODULE XrmResourcesProofs --------------------------
(***************************************************************************)
(* Proofs about XrmResources: what a closed instance and a failed init     *)
(* hold.  The invariant says of everything held which call of the plan     *)
(* took it, and that the call was made.                                    *)
(***************************************************************************)
EXTENDS XrmResources, SequenceTheorems, FiniteSetTheorems, TLAPS

\* the calls of all plans
Calls == {"la_context", "la_load", "la_cu", "la_session", "la_frame", "context", "load", "list",
          "hw", "sw", "session", "fifo", "cu1", "session1", "cu2", "session2"}

Codecs == Decoders \cup Encoders
States == {"new", "init", "open", "failed", "closed", "crash"}

\* calls of the lookahead, which come before those of the codec
Off(i) == IF i \in Encoders THEN Len(LaPlan) ELSE 0
\* what the lookahead holds
LaSet(i) == IF i \in Encoders /\ lookahead THEN {"la_context", "la_cu", "la_session", "la_frame"} ELSE {}

Types ==
  /\ st \in [Instances -> States] /\ step \in [Instances -> Nat]
  /\ held \in [Instances -> SUBSET Calls] /\ free \in Nat /\ faults \in Nat

\* x was taken by a call that i has made.
TakenBy(i, x) ==
  \/ x \in LaSet(i)
  \/ \E n \in DOMAIN CodecPlan : x = CodecPlan[n] /\ x # "load" /\ n + Off(i) <= step[i]

\* What FailedKeepsOne says of one instance.
KeepsOne(i) ==
  (faults = 0 /\ st[i] = "failed") =>
    /\ held[i] \subseteq {"context", "hw"} \cup {LaPlan[n] : n \in DOMAIN LaPlan}
    /\ reserved => "hw" \notin held[i]

\* The invariant for one instance: an init has a call left to make, all that is held
\* was taken by a call that was made, and the two properties.
Good(i) ==
  /\ st[i] = "new" => step[i] = 0
  /\ st[i] \in {"new", "init"} => step[i] < Len(Plan(i))
  /\ i \in Codecs => \A x \in held[i] : TakenBy(i, x)
  /\ i \in Scalers => held[i] \subseteq ScalerReleased
  /\ st[i] = "closed" => held[i] \subseteq Forgotten(i)
  /\ KeepsOne(i)

IInv == Types /\ \A i \in Instances : Good(i)

\* The plan of the lookahead, call by call.
LEMMA LaPlanIs ==
  /\ LaPlan \in Seq(Calls) /\ Len(LaPlan) = IF lookahead THEN 5 ELSE 0
  /\ DOMAIN LaPlan = 1..Len(LaPlan)
  /\ lookahead => /\ LaPlan[1] = "la_context" /\ LaPlan[2] = "la_load" /\ LaPlan[3] = "la_cu"
                  /\ LaPlan[4] = "la_session" /\ LaPlan[5] = "la_frame"
<1>1. CASE lookahead BY <1>1 DEF LaPlan, Calls
<1>2. CASE ~lookahead BY <1>2 DEF LaPlan
<1>3. QED BY <1>1, <1>2

\* The plan of a codec, call by call.
LEMMA CodecPlanIs ==
  /\ CodecPlan \in Seq(Calls) /\ Len(CodecPlan) = IF reserved THEN 5 ELSE 6
  /\ DOMAIN CodecPlan = 1..Len(CodecPlan)
  /\ CodecPlan[1] = "context" /\ CodecPlan[2] = "load"
  /\ reserved => CodecPlan[3] = "list" /\ CodecPlan[4] = "session" /\ CodecPlan[5] = "fifo"
  /\ ~reserved => /\ CodecPlan[3] = "hw" /\ CodecPlan[4] = "sw"
                  /\ CodecPlan[5] = "session" /\ CodecPlan[6] = "fifo"
<1>1. CASE reserved BY <1>1 DEF CodecPlan, Calls
<1>2. CASE ~reserved BY <1>2 DEF CodecPlan, Calls
<1>3. QED BY <1>1, <1>2

\* The plan of a scaler takes what uninit releases.
LEMMA ScalerPlanIs ==
  /\ Len(ScalerPlan) = 7
  /\ \A n \in 1..7 : ScalerPlan[n] \in Calls /\ (ScalerPlan[n] = "load" \/ ScalerPlan[n] \in ScalerReleased)
<1>1. Len(ScalerPlan) = 7 BY DEF ScalerPlan
<1>2. ASSUME NEW n \in 1..7 
      PROVE ScalerPlan[n] \in Calls /\ (ScalerPlan[n] = "load" \/ ScalerPlan[n] \in ScalerReleased)
  <2>1. n = 1 \/ n = 2 \/ n = 3 \/ n = 4 \/ n = 5 \/ n = 6 \/ n = 7 OBVIOUS
  <2>2. QED BY <2>1 DEF ScalerPlan, ScalerReleased, Calls
<1>3. QED BY <1>1, <1>2

\* The plan of a codec instance is that of its lookahead followed by the codec's.
LEMMA PlanIs ==
  ASSUME NEW i \in Codecs
  PROVE  /\ Len(Plan(i)) = Off(i) + Len(CodecPlan)
         /\ \A n \in 1..Len(Plan(i)) :
              Plan(i)[n] = IF n <= Off(i) THEN LaPlan[n] ELSE CodecPlan[n - Off(i)]
<1>1. CASE i \in Encoders
  <2>1. Plan(i) = LaPlan \o CodecPlan BY <1>1 DEF Plan
  <2>2. QED BY <1>1, <2>1, LaPlanIs, CodecPlanIs, ConcatProperties DEF Off
<1>2. CASE i \notin Encoders
  <2>1. Plan(i) = CodecPlan BY <1>2 DEF Plan, Codecs
  <2>2. QED BY <1>2, <2>1, CodecPlanIs DEF Off
<1>3. QED BY <1>1, <1>2

\* A scaler has the scaler's plan and is no codec.
LEMMA ScalerPlanOf ==
  ASSUME NEW i \in Scalers PROVE Plan(i) = ScalerPlan /\ i \notin Codecs
BY InstanceAssumption DEF Plan, Codecs

\* Where the next call of a codec instance stands in the two plans.
LEMMA CallIs ==
  ASSUME NEW i \in Codecs, step[i] \in Nat, step[i] < Len(Plan(i))
  PROVE  /\ Call(i) \in Calls
         /\ step[i] < Off(i) => /\ lookahead /\ i \in Encoders /\ step[i] + 1 \in DOMAIN LaPlan
                                /\ Call(i) = LaPlan[step[i] + 1]
                                /\ Call(i) \in LaSet(i) \cup {"la_load"}
         /\ step[i] >= Off(i) => /\ (step[i] + 1) - Off(i) \in DOMAIN CodecPlan
                                 /\ Call(i) = CodecPlan[(step[i] + 1) - Off(i)]
<1>0. Off(i) \in Nat BY LaPlanIs DEF Off
<1>1. CASE step[i] < Off(i)
  <2>1. lookahead /\ i \in Encoders /\ Off(i) = 5 BY <1>1, LaPlanIs DEF Off
  <2>2. Call(i) = LaPlan[step[i] + 1] BY <1>1, <2>1, PlanIs DEF Call
  <2>3. step[i] = 0 \/ step[i] = 1 \/ step[i] = 2 \/ step[i] = 3 \/ step[i] = 4 BY <1>1, <2>1
  <2>4. QED BY <1>1, <2>1, <2>2, <2>3, LaPlanIs DEF LaSet, Calls
<1>2. CASE step[i] >= Off(i)
  <2>0. Len(CodecPlan) \in Nat BY CodecPlanIs
  <2>1. step[i] + 1 \in 1..Len(Plan(i)) /\ ~(step[i] + 1 <= Off(i)) BY <1>0, <1>2, <2>0, PlanIs
  <2>2. Call(i) = CodecPlan[(step[i] + 1) - Off(i)] BY <2>1, PlanIs DEF Call
  <2>3. (step[i] + 1) - Off(i) \in DOMAIN CodecPlan BY <1>0, <1>2, <2>0, PlanIs, CodecPlanIs
  <2>4. CodecPlan[(step[i] + 1) - Off(i)] \in Calls BY <2>3, CodecPlanIs, ElementOfSeq
  <2>5. QED BY <1>0, <1>2, <2>2, <2>3, <2>4
<1>3. QED BY <1>0, <1>1, <1>2

-----------------------------------------------------------------------------
(* Steps *)

\* CUs are counted by natural numbers.
LEMMA CusNat == ASSUME NEW X PROVE Cus(X) \in Nat
<1> DEFINE U == {"hw", "sw", "la_cu", "cu1", "cu2"}
<1>1. IsFiniteSet(U)
  <2> DEFINE V == {"cu1"} \cup {"cu2"}
            W == {"la_cu"} \cup V
            X2 == {"sw"} \cup W
  <2>1. IsFiniteSet(V) BY FS_Singleton, FS_Union
  <2>2. IsFiniteSet(W) BY <2>1, FS_Singleton, FS_Union
  <2>3. IsFiniteSet(X2) BY <2>2, FS_Singleton, FS_Union
  <2>4. IsFiniteSet({"hw"} \cup X2) BY <2>3, FS_Singleton, FS_Union
  <2>5. U = {"hw"} \cup X2 OBVIOUS
  <2>6. QED BY <2>4, <2>5
<1>2. IsFiniteSet(X \cap U) BY <1>1, FS_Subset
<1>3. Cardinality(X \cap U) \in Nat BY <1>2, FS_CardinalityType
<1>4. QED BY <1>3 DEF Cus

\* The plans depend on the configuration only.
LEMMA ConfigKept ==
  ASSUME UNCHANGED config
  PROVE  /\ LaPlan' = LaPlan /\ CodecPlan' = CodecPlan /\ reserved' = reserved
         /\ \A i : /\ Plan(i)' = Plan(i) /\ Off(i)' = Off(i) /\ LaSet(i)' = LaSet(i)
                   /\ Forgotten(i)' = Forgotten(i)
BY DEF config, LaPlan, CodecPlan, Plan, Off, LaSet, Forgotten

\* A step of one instance does not concern the others.
LEMMA OthersGood ==
  ASSUME UNCHANGED config, NEW j \in Instances, Good(j), faults \in Nat,
         st'[j] = st[j], step'[j] = step[j], held'[j] = held[j],
         faults' = 0 => faults = 0
  PROVE  Good(j)'
BY ConfigKept DEF Good, KeepsOne, TakenBy, ScalerReleased

\* A failing call counts as a fault or wants what is not there.
LEMMA FailsFaults ==
  ASSUME NEW i \in Instances, Types, Fails(i)
  PROVE  /\ st[i] = "init" /\ faults' \in Nat /\ (faults' = 0 => faults = 0)
         /\ faults' = 0 => \/ Call(i) \in {"list", "hw", "sw", "la_cu", "cu1", "cu2"}
                          \/ Call(i) = "load"
BY DEF Fails, Types, Units

\* A release keeps the types.
LEMMA ReleaseTypes ==
  ASSUME NEW i \in Instances, NEW X, Types, Release(i, X)
  PROVE  /\ held' \in [Instances -> SUBSET Calls] /\ free' \in Nat
         /\ held'[i] = held[i] \ X /\ \A j \in Instances : j # i => held'[j] = held[j]
<1>1. Cus(held[i] \cap X) \in Nat BY CusNat
<1>2. QED BY <1>1 DEF Release, Types

\* The initial states satisfy the invariant.
LEMMA InitIInv == Init => IInv
<1> SUFFICES ASSUME Init PROVE IInv OBVIOUS
<1>1. Types BY BoundAssumption DEF Init, Types, States
<1>2. ASSUME NEW i \in Instances PROVE Good(i)
  <2>1. st[i] = "new" /\ step[i] = 0 /\ held[i] = {} BY DEF Init
  <2>2. 0 < Len(Plan(i))
    <3>1. CASE i \in Codecs
      <4>1. Off(i) \in Nat /\ Len(CodecPlan) \in Nat /\ Len(CodecPlan) > 0
        BY LaPlanIs, CodecPlanIs DEF Off
      <4>2. QED BY <3>1, <4>1, PlanIs
    <3>2. CASE i \in Scalers BY <3>2, ScalerPlanOf, ScalerPlanIs
    <3>3. QED BY <3>1, <3>2 DEF Instances, Codecs
  <2>3. QED BY <2>1, <2>2 DEF Good, KeepsOne
<1>3. QED BY <1>1, <1>2 DEF IInv

\* A call that succeeds: what is held now was taken by it or before.
LEMMA TakeGood ==
  ASSUME NEW i \in Instances, IInv, UNCHANGED config, Take(i)
  PROVE  Good(i)'
<1> USE DEF IInv, Types
<1>1. Good(i) /\ st[i] = "init" /\ step[i] \in Nat /\ step[i] < Len(Plan(i)) BY DEF Take, Good
<1>2. /\ step'[i] = step[i] + 1
      /\ st'[i] = IF step[i] + 1 = Len(Plan(i)) THEN "open" ELSE "init"
      /\ held'[i] = IF Call(i) \in {"load", "la_load"} THEN held[i] ELSE held[i] \cup {Call(i)}
  BY <1>1 DEF Take
<1>3. CASE i \in Codecs
  <2>1. Off(i) \in Nat /\ Len(Plan(i)) \in Nat
    BY <1>3, PlanIs, LaPlanIs, CodecPlanIs DEF Off
  <2>2. st'[i] = "init" => step'[i] < Len(Plan(i)) BY <1>1, <1>2, <2>1
  <2>3. ASSUME NEW x \in held'[i] PROVE TakenBy(i, x)'
    <3>1. CASE x \in held[i]
      <4>1. TakenBy(i, x) BY <1>1, <1>3, <3>1 DEF Good
      <4>2. ASSUME NEW n \in DOMAIN CodecPlan, n + Off(i) <= step[i] PROVE n + Off(i) <= step'[i]
        BY <1>1, <1>2, <2>1, <4>2, CodecPlanIs
      <4>3. QED BY <4>1, <4>2, ConfigKept DEF TakenBy
    <3>2. CASE x \notin held[i]
      <4>1. x = Call(i) /\ x \notin {"load", "la_load"} BY <1>2, <3>2
      <4>2. CASE step[i] < Off(i)
        BY <1>1, <1>3, <4>1, <4>2, CallIs, ConfigKept DEF TakenBy
      <4>3. CASE step[i] >= Off(i)
        <5> DEFINE n == (step[i] + 1) - Off(i)
        <5>1. n \in DOMAIN CodecPlan /\ x = CodecPlan[n] BY <1>1, <1>3, <4>1, <4>3, CallIs
        <5>2. n + Off(i) <= step'[i] BY <1>1, <1>2, <2>1
        <5> HIDE DEF n
        <5>3. QED BY <4>1, <5>1, <5>2, ConfigKept DEF TakenBy
      <4>4. QED BY <1>1, <2>1, <4>2, <4>3
    <3>3. QED BY <3>1, <3>2
  <2>4. i \notin Scalers BY <1>3, ScalerPlanOf
  <2>5. QED BY <1>2, <2>2, <2>3, <2>4, ConfigKept DEF Good, KeepsOne
<1>4. CASE i \in Scalers
  <2>1. Plan(i) = ScalerPlan /\ i \notin Codecs BY <1>4, ScalerPlanOf
  <2>2. step[i] + 1 \in 1..7 BY <1>1, <2>1, ScalerPlanIs
  <2>3. Call(i) = "load" \/ Call(i) \in ScalerReleased BY <2>1, <2>2, ScalerPlanIs DEF Call
  <2>4. held'[i] \subseteq ScalerReleased BY <1>1, <1>2, <1>4, <2>3 DEF Good
  <2>5. st'[i] = "init" => step'[i] < Len(Plan(i)) BY <1>1, <1>2, <2>1, ScalerPlanIs
  <2>6. QED BY <1>2, <2>1, <2>4, <2>5, ConfigKept DEF Good, KeepsOne, ScalerReleased
<1>5. QED BY <1>3, <1>4 DEF Instances, Codecs

\* An init that fails for want of CUs has made no call after the CUs'.
LEMMA CodecFailsGood ==
  ASSUME NEW i \in Instances, IInv, UNCHANGED config, CodecFails(i)
  PROVE  Good(i)'
<1> USE DEF IInv, Types
<1>1. /\ Good(i) /\ i \in Codecs /\ st[i] = "init" /\ step[i] \in Nat /\ step[i] < Len(Plan(i))
      /\ st'[i] = "failed" /\ step'[i] = step[i] /\ held'[i] = held[i]
  BY FailsFaults DEF CodecFails, Good, Codecs
<1>2. i \notin Scalers BY <1>1, ScalerPlanOf
<1>3. \A x \in held'[i] : TakenBy(i, x)' BY <1>1, ConfigKept DEF Good, TakenBy
<1>4. ASSUME faults' = 0, NEW x \in held[i]
      PROVE  /\ x \in {"context", "hw"} \cup {LaPlan[n] : n \in DOMAIN LaPlan}
             /\ reserved => x # "hw"
  <2>0. Off(i) \in Nat BY LaPlanIs DEF Off
  <2>1. step[i] >= Off(i)
    <3>1. step[i] < Off(i) => Call(i) \in {LaPlan[n] : n \in DOMAIN LaPlan} BY <1>1, CallIs
    <3>2. Call(i) \notin {LaPlan[n] : n \in DOMAIN LaPlan} BY DEF CodecFails
    <3>3. QED BY <1>1, <2>0, <3>1, <3>2
  <2> DEFINE p == (step[i] + 1) - Off(i)
  <2>2. p \in DOMAIN CodecPlan /\ Call(i) = CodecPlan[p] /\ p \in Nat BY <1>1, <2>0, <2>1, CallIs
  <2>3. Call(i) \in {"list", "hw", "sw", "la_cu", "cu1", "cu2", "load"}
    BY <1>4, FailsFaults DEF CodecFails
  <2>4. p <= 4 /\ (reserved => p <= 3)
    <3>1. p = 1 \/ p = 2 \/ p = 3 \/ p = 4 \/ p = 5 \/ p = 6 BY <2>2, CodecPlanIs
    <3> HIDE DEF p
    <3>2. QED BY <2>2, <2>3, <3>1, CodecPlanIs
  <2>5. CASE x \in LaSet(i)
    <3>1. lookahead BY <2>5 DEF LaSet
    <3>2. x \in {LaPlan[n] : n \in DOMAIN LaPlan} BY <2>5, <3>1, LaPlanIs DEF LaSet
    <3>3. x # "hw" BY <2>5 DEF LaSet
    <3>4. QED BY <3>2, <3>3
  <2>6. CASE x \notin LaSet(i)
    <3>1. PICK n \in DOMAIN CodecPlan : x = CodecPlan[n] /\ x # "load" /\ n + Off(i) <= step[i]
      BY <1>1, <2>6 DEF Good, TakenBy
    <3>2. n \in Nat /\ n >= 1 /\ n < p BY <1>1, <2>0, <3>1, CodecPlanIs
    <3>3. n = 1 \/ n = 2 \/ (n = 3 /\ ~reserved) BY <2>2, <2>4, <3>2
    <3>4. QED BY <3>1, <3>3, CodecPlanIs
  <2>7. QED BY <2>5, <2>6
<1>5. KeepsOne(i)' BY <1>1, <1>4, ConfigKept DEF KeepsOne
<1>6. QED BY <1>1, <1>2, <1>3, <1>5 DEF Good

\* What is left of what an instance was to hold after a release.
LEMMA ReleasedGood ==
  ASSUME NEW i \in Instances, NEW X, Good(i), UNCHANGED config, step'[i] = step[i],
         held'[i] = held[i] \ X, st'[i] \notin {"new", "init"},
         st'[i] = "closed" => held[i] \ X \subseteq Forgotten(i),
         faults' = 0 => st'[i] # "failed"
  PROVE  Good(i)'
<1>1. i \in Codecs => \A x \in held'[i] : TakenBy(i, x)' BY ConfigKept DEF Good, TakenBy
<1>2. i \in Scalers => held'[i] \subseteq ScalerReleased BY DEF Good
<1>3. QED BY <1>1, <1>2, ConfigKept DEF Good, KeepsOne, ScalerReleased

\* A codec holds what its plan takes.
LEMMA CodecHolds ==
  ASSUME NEW i \in Codecs, Good(i), NEW x \in held[i]
  PROVE  x \in LaSet(i) \cup CodecReleased
<1>1. CASE x \in LaSet(i) BY <1>1
<1>2. CASE x \notin LaSet(i)
  <2>1. PICK n \in DOMAIN CodecPlan : x = CodecPlan[n] /\ x # "load" BY <1>2 DEF Good, TakenBy
  <2>2. n = 1 \/ n = 2 \/ n = 3 \/ n = 4 \/ n = 5 \/ (n = 6 /\ ~reserved) BY CodecPlanIs
  <2>3. QED BY <2>1, <2>2, CodecPlanIs DEF CodecReleased
<1>3. QED BY <1>1, <1>2

\* Only instance i changes, its types stay and it stays good: the invariant holds.
LEMMA OneStep ==
  ASSUME NEW i \in Instances, IInv, UNCHANGED config, Types', Good(i)',
         faults' = 0 => faults = 0,
         \A j \in Instances : j # i => st'[j] = st[j] /\ step'[j] = step[j] /\ held'[j] = held[j]
  PROVE  IInv'
<1>1. ASSUME NEW j \in Instances, j # i PROVE Good(j)'
  BY <1>1, OthersGood DEF IInv, Types
<1>2. QED BY <1>1 DEF IInv

\* The calls of an init.
LEMMA InitStepIInv ==
  ASSUME NEW i \in Instances, IInv, UNCHANGED config, InitStep(i)
  PROVE  IInv'
<1>0. Types /\ Good(i) BY DEF IInv
<1>1. CASE Open(i)
  <2>1. Types' BY <1>0, <1>1 DEF Open, Types, States
  <2>2. Good(i)'
    BY <1>0, <1>1, ConfigKept DEF Open, Good, KeepsOne, TakenBy, ScalerReleased, Types
  <2>3. QED BY <1>0, <1>1, <2>1, <2>2, OneStep DEF Open, Types
<1>2. CASE Take(i)
  <2>1. Call(i) \in Calls
    <3>1. step[i] \in Nat /\ step[i] < Len(Plan(i)) BY <1>0, <1>2 DEF Take, Types, Good
    <3>2. CASE i \in Codecs BY <3>1, <3>2, CallIs
    <3>3. CASE i \in Scalers
      <4>1. Plan(i) = ScalerPlan BY <3>3, ScalerPlanOf
      <4>2. step[i] + 1 \in 1..7 BY <3>1, <4>1, ScalerPlanIs
      <4>3. QED BY <4>1, <4>2, ScalerPlanIs DEF Call
    <3>4. QED BY <3>2, <3>3 DEF Instances, Codecs
  <2>2. free' \in Nat BY <1>0, <1>2 DEF Take, Types, Units
  <2>3. held' \in [Instances -> SUBSET Calls] BY <1>0, <1>2, <2>1 DEF Take, Types
  <2>4. Types' BY <1>0, <1>2, <2>2, <2>3 DEF Take, Types, States
  <2>5. Good(i)' BY <1>2, TakeGood
  <2>6. QED BY <1>0, <1>2, <2>4, <2>5, OneStep DEF Take, Types
<1>3. CASE CodecFails(i)
  <2>1. faults' \in Nat /\ (faults' = 0 => faults = 0) BY <1>0, <1>3, FailsFaults DEF CodecFails
  <2>2. Types' BY <1>0, <1>3, <2>1 DEF CodecFails, Types, States
  <2>3. Good(i)' BY <1>3, CodecFailsGood
  <2>4. QED BY <1>0, <1>3, <2>1, <2>2, <2>3, OneStep DEF CodecFails, Types
<1>4. CASE LookaheadXrmFails(i)
  <2>1. faults' \in Nat /\ (faults' = 0 => faults = 0) /\ st[i] = "init"
    BY <1>0, <1>4, FailsFaults DEF LookaheadXrmFails
  <2>2. i \in Codecs /\ i \in Encoders /\ i \notin Scalers /\ held'[i] = held[i]
    BY <1>4, InstanceAssumption DEF LookaheadXrmFails, Codecs
  <2>3. Len(LaPlan) \in Nat /\ Off(i) = Len(LaPlan) /\ Len(LaPlan) < Len(Plan(i))
    BY <2>2, LaPlanIs, CodecPlanIs, PlanIs DEF Off
  <2>4. Types' BY <1>0, <1>4, <2>1, <2>3 DEF LookaheadXrmFails, Types, States
  <2>5. step[i] < Len(LaPlan)
    <3>1. step[i] \in Nat /\ step[i] < Len(Plan(i)) BY <1>0, <2>1 DEF Types, Good
    <3>2. CASE step[i] >= Off(i)
      <4> DEFINE p == (step[i] + 1) - Off(i)
      <4>1. p \in DOMAIN CodecPlan /\ Call(i) = CodecPlan[p] BY <2>2, <3>1, <3>2, CallIs
      <4>2. p = 1 \/ p = 2 \/ p = 3 \/ p = 4 \/ p = 5 \/ (p = 6 /\ ~reserved) BY <4>1, CodecPlanIs
      <4> HIDE DEF p
      <4>3. Call(i) \notin {"la_context", "la_load", "la_cu"} BY <4>1, <4>2, CodecPlanIs
      <4>4. QED BY <1>4, <4>3 DEF LookaheadXrmFails
    <3>3. QED BY <2>3, <3>1, <3>2
  <2>6. step[i] \in Nat /\ step'[i] \in Nat /\ step'[i] >= step[i] /\ step'[i] < Len(Plan(i))
        /\ st'[i] \in {"init", "crash"}
    BY <1>0, <1>4, <2>1, <2>3, <2>5 DEF LookaheadXrmFails, Types, Good
  <2>7. ASSUME NEW x \in held'[i] PROVE TakenBy(i, x)'
    <3>1. TakenBy(i, x) BY <1>0, <2>2 DEF Good
    <3>2. ASSUME NEW n \in DOMAIN CodecPlan, n + Off(i) <= step[i] PROVE n + Off(i) <= step'[i]
      BY <2>3, <2>6, <3>2, CodecPlanIs
    <3>3. QED BY <3>1, <3>2, ConfigKept DEF TakenBy
  <2>8. Good(i)' BY <2>2, <2>6, <2>7, ConfigKept DEF Good, KeepsOne
  <2>9. QED BY <1>0, <1>4, <2>1, <2>4, <2>8, OneStep DEF LookaheadXrmFails, Types
<1>5. CASE LookaheadFails(i)
  <2>1. faults' \in Nat /\ (faults' = 0 => faults = 0) /\ faults' # 0
    BY <1>0, <1>5, FailsFaults DEF LookaheadFails
  <2>2. /\ held' \in [Instances -> SUBSET Calls] /\ free' \in Nat /\ held'[i] = held[i] \ LaReleased
        /\ \A j \in Instances : j # i => held'[j] = held[j]
    BY <1>0, <1>5, ReleaseTypes DEF LookaheadFails
  <2>3. Types' BY <1>0, <1>5, <2>1, <2>2 DEF LookaheadFails, Types, States
  <2>4. st'[i] = "failed" /\ step'[i] = step[i] BY <1>0, <1>5 DEF LookaheadFails, Types
  <2>5. Good(i)' BY <1>0, <2>1, <2>2, <2>4, ReleasedGood
  <2>6. QED BY <1>0, <1>5, <2>1, <2>2, <2>3, <2>5, OneStep DEF LookaheadFails, Types
<1>6. CASE ScalerFails(i)
  <2>1. faults' \in Nat /\ (faults' = 0 => faults = 0) BY <1>0, <1>6, FailsFaults DEF ScalerFails
  <2>2. /\ held' \in [Instances -> SUBSET Calls] /\ free' \in Nat /\ held'[i] = held[i] \ ScalerReleased
        /\ \A j \in Instances : j # i => held'[j] = held[j]
    BY <1>0, <1>6, ReleaseTypes DEF ScalerFails
  <2>3. Types' BY <1>0, <1>6, <2>1, <2>2 DEF ScalerFails, Types, States
  <2>4. st'[i] = "closed" /\ step'[i] = step[i] /\ i \in Scalers BY <1>0, <1>6 DEF ScalerFails, Types
  <2>5. held[i] \ ScalerReleased \subseteq Forgotten(i) BY <1>0, <2>4 DEF Good
  <2>6. Good(i)' BY <1>0, <2>2, <2>4, <2>5, ReleasedGood
  <2>7. QED BY <1>0, <1>6, <2>1, <2>2, <2>3, <2>6, OneStep DEF ScalerFails, Types
<1>7. CASE ScalerContextFails(i)
  <2>1. faults' \in Nat /\ (faults' = 0 => faults = 0) /\ st[i] = "init"
    BY <1>0, <1>7, FailsFaults DEF ScalerContextFails
  <2>2. Types' BY <1>0, <1>7, <2>1 DEF ScalerContextFails, Types
  <2>3. /\ st'[i] = "init" /\ held'[i] = held[i] /\ step'[i] = step[i] + 1 /\ i \in Scalers
        /\ i \notin Codecs /\ Plan(i) = ScalerPlan /\ step[i] \in Nat /\ step[i] < 7
    BY <1>0, <1>7, <2>1, ScalerPlanOf, ScalerPlanIs DEF ScalerContextFails, Types, Good
  <2>4. step[i] # 6
    <3>1. ScalerPlan[7] # "context" BY DEF ScalerPlan
    <3>2. Call(i) = "context" BY <1>7 DEF ScalerContextFails
    <3>3. QED BY <2>3, <3>1, <3>2 DEF Call
  <2>5. step'[i] < Len(Plan(i)) BY <2>3, <2>4, ScalerPlanIs
  <2>6. Good(i)' BY <1>0, <2>3, <2>5, ConfigKept DEF Good, KeepsOne, ScalerReleased
  <2>7. QED BY <1>0, <1>7, <2>1, <2>2, <2>6, OneStep DEF ScalerContextFails, Types
<1>8. QED BY <1>1, <1>2, <1>3, <1>4, <1>5, <1>6, <1>7 DEF InitStep

\* close and uninit release all that the plan takes, but for what is forgotten.
LEMMA CloseIInv ==
  ASSUME NEW i \in Instances, IInv, UNCHANGED config, Close(i)
  PROVE  IInv'
<1>0. Types /\ Good(i) BY DEF IInv
<1>1. ASSUME NEW X, Release(i, X), st' = [st EXCEPT ![i] = "closed"], UNCHANGED <<step, faults>>,
             held[i] \ X \subseteq Forgotten(i)
      PROVE  IInv'
  <2>1. /\ held' \in [Instances -> SUBSET Calls] /\ free' \in Nat /\ held'[i] = held[i] \ X
        /\ \A j \in Instances : j # i => held'[j] = held[j]
    BY <1>0, <1>1, ReleaseTypes
  <2>2. Types' BY <1>0, <1>1, <2>1 DEF Types, States
  <2>3. st'[i] = "closed" /\ step'[i] = step[i] BY <1>0, <1>1 DEF Types
  <2>4. Good(i)' BY <1>0, <1>1, <2>1, <2>3, ReleasedGood
  <2>5. QED BY <1>0, <1>1, <2>1, <2>2, <2>4, OneStep DEF Types
<1>2. CASE CloseDecoder(i)
  <2>1. i \in Codecs /\ i \notin Encoders BY <1>2, InstanceAssumption DEF CloseDecoder, Codecs
  <2>2. held[i] \ CodecReleased \subseteq Forgotten(i) BY <1>0, <2>1, CodecHolds DEF LaSet
  <2>3. QED BY <1>1, <1>2, <2>2 DEF CloseDecoder
<1>3. CASE CloseEncoder(i)
  <2>1. i \in Codecs /\ i \in Encoders BY <1>3 DEF CloseEncoder, Codecs
  <2>2. held[i] \ (CodecReleased \cup LaReleased) \subseteq Forgotten(i)
    BY <1>0, <2>1, CodecHolds DEF LaSet, LaReleased, Forgotten
  <2>3. QED BY <1>1, <1>3, <2>2 DEF CloseEncoder
<1>4. CASE UseBadLookahead(i)
  <2>1. Types' BY <1>0, <1>4 DEF UseBadLookahead, Types, States
  <2>2. st'[i] = "crash" /\ step'[i] = step[i] /\ held'[i] = held[i] \ {}
    BY <1>0, <1>4 DEF UseBadLookahead, Types
  <2>3. Good(i)' BY <1>0, <2>2, ReleasedGood
  <2>4. QED BY <1>0, <1>4, <2>1, <2>3, OneStep DEF UseBadLookahead, Types
<1>5. CASE CloseScaler(i)
  <2>1. held[i] \ ScalerReleased \subseteq Forgotten(i) BY <1>0, <1>5 DEF CloseScaler, Good
  <2>2. QED BY <1>1, <1>5, <2>1 DEF CloseScaler
<1>6. QED BY <1>2, <1>3, <1>4, <1>5 DEF Close

\* Every step keeps the invariant.
LEMMA NextIInv == IInv /\ [Next]_vars => IInv'
<1> SUFFICES ASSUME IInv, [Next]_vars PROVE IInv' OBVIOUS
<1>1. ASSUME UNCHANGED config, NEW i \in Instances, InitStep(i) \/ Close(i) PROVE IInv'
  BY <1>1, InitStepIInv, CloseIInv
<1>2. CASE UNCHANGED vars
  <2>1. UNCHANGED <<config, st, step, held, free, faults>> BY <1>2 DEF vars
  <2>2. Types' BY <2>1 DEF IInv, Types
  <2>3. ASSUME NEW j \in Instances PROVE Good(j)' BY <2>1, OthersGood DEF IInv, Types
  <2>4. QED BY <2>2, <2>3 DEF IInv
<1>3. QED BY <1>1, <1>2 DEF Next, Finished

\* The invariant holds always.
LEMMA AlwaysIInv == Spec => []IInv
BY InitIInv, NextIInv, PTL DEF Spec

\* Whatever fails and however the instances compete, close and uninit give back all
\* that an instance took but for the CU and context free_res forgets: for any number
\* of instances, any device and any number of faults.
THEOREM ClosedClean == Spec => []ClosedHoldsNothing
<1>1. IInv => ClosedHoldsNothing BY DEF IInv, Good, ClosedHoldsNothing
<1>2. QED BY <1>1, AlwaysIInv, PTL

\* A codec whose init fails for want of CUs keeps no session and, beside its
\* lookahead, at most its context and the first of two CUs.
THEOREM FailedKeepsLittle == Spec => []FailedKeepsOne
<1>1. IInv => FailedKeepsOne BY DEF IInv, Good, KeepsOne, FailedKeepsOne
<1>2. QED BY <1>1, AlwaysIInv, PTL
=============================================================================
