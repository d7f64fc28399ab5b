-------------------------- MODULE MultiScalerProofs --------------------------
(***************************************************************************)
(* Proofs about MultiScaler for all rates, depths of the sessions, numbers *)
(* of outputs, frames and faults.                                          *)
(***************************************************************************)
EXTENDS MultiScaler, AscendingFrames, FiniteSetTheorems, SequenceTheorems, TLAPS

Two == get_num_scaler_sessions = 2

\* the session a frame of the graph belongs to while no turn is lost
Class(f) == IF Two /\ f % 2 = 0 THEN SC_SESSION_FULL_RATE ELSE SC_SESSION_ALL_RATE

Distinct(s) == \A a, b \in 1..Len(s) : a # b => s[a] # s[b]

-----------------------------------------------------------------------------
(* The inductive invariants.                                               *)

Typed ==
  /\ mode \in {"feed", "flush", "done", "failed", "crash"}
  /\ held \in [Sessions -> Seq(Nat)] /\ out \in [Outputs -> Seq(Nat)]
  /\ frames \in Nat /\ faults \in Nat /\ count \in Nat
  /\ session_frame \in {0, 1} /\ (~Two => session_frame = 0)

\* With h in the sessions, o at the outputs and n frames received: a session
\* holds frames of its class in their order, an output has a frame once, from a
\* session that feeds it, and before the frames that session still holds.
Lanes(h, o, n) ==
  /\ \A s \in Sessions : Ascending(h[s]) /\ \A f \in Elems(h[s]) : f \in 1..n /\ Class(f) = s
  /\ \A i \in Outputs :
       /\ Distinct(o[i])
       /\ \A x \in Elems(o[i]) : /\ x \in 1..n /\ i <= session_nb_outputs(Class(x))
                                 /\ \A f \in Elems(h[Class(x)]) : x < f

\* The sessions take the frames in turn.
Turns == mode = "feed" => session_type = Class(frames + 1)

LaneInv == Typed /\ Lanes(held, out, frames) /\ Turns

turn == Len(held[session_type])
other == Len(held[1 - session_type])

\* What is left in the sessions: how far they are out of step is bounded by the
\* failed calls as long as these are counted, before and after the first end of a session was seen.
Balance ==
  /\ mode = "feed" => count = 0 /\ turn <= Depth /\ other <= Depth
  /\ mode = "flush" => count < get_num_scaler_sessions
  /\ ~Two => /\ other = 0
             /\ mode = "done" => turn = 0
  /\ (Two /\ faults < MaxFaults) =>
            /\ mode = "feed" => turn - other <= faults /\ other - turn - 1 <= faults
            /\ mode = "flush" /\ count = 0 => other - turn - 1 <= faults /\ turn - other - 2 <= faults
            /\ mode = "flush" /\ count = 1 => other - turn <= faults /\ turn - other - 1 <= faults
            /\ mode = "done" => turn + other <= faults

\* the full-rate outputs come first, as vf_multiscale_xma.c expects
FullFirst == \A i, j \in Outputs : Rates[i] = "half" /\ Rates[j] = "full" => j < i

\* A frame wanted is at the output or still in its session.
OnTheWay(h, o, n) ==
  \A i \in Outputs : \A f \in 1..n :
     (Rates[i] = "full" \/ f % 2 = 1) => f \in Elems(o[i]) \cup Elems(h[Class(f)])
Complete == faults = 0 => OnTheWay(held, out, frames)

InTime == faults = 0 /\ (mode = "feed" \/ frames % 2 = 0 \/ frames > 2 * Depth)

\* the last of n frames of the graph that went to session s
Last(s, n) == IF Class(n) = s THEN n ELSE n - 1

\* q holds every second frame up to l
Run(q, l) == \A k \in 1..Len(q) : q[k] = l - 2 * (Len(q) - k)

\* After n frames, in mode m with the turn at session s: how many frames a that
\* session and b the other one hold.
Phase(m, n, s, a, b) ==
  /\ m = "feed" => \/ a = b /\ a = Depth
                   \/ a = b /\ n = 2 * a
                   \/ b = a + 1 /\ n = 2 * a + 1
  /\ m = "flush" => \/ s # Class(n) /\ a = b
                    \/ s = Class(n) /\ a = b + 1
                    \/ a = 0 /\ b = 0

\* Without a fault a session holds the last frames of its class, and the two
\* are in step: the next frame to come out is the oldest of all.
InStep ==
  (InTime /\ Two) => /\ \A s \in Sessions : Run(held[s], Last(s, frames))
                     /\ Phase(mode, frames, session_type, turn, other)

\* No output is ahead of a frame held.
Sorted(h, o) ==
  \A i \in Outputs : /\ Ascending(o[i])
                     /\ \A x \in Elems(o[i]) : \A s \in Sessions : \A f \in Elems(h[s]) : x < f
InOrder == InTime => Sorted(held, out)

-----------------------------------------------------------------------------
(* Sessions and turns.                                                     *)

\* There are two sessions exactly if an output runs at half rate.
LEMMA SessionCount ==
  /\ get_num_scaler_sessions = IF Two THEN 2 ELSE 1
  /\ ~Two <=> \A i \in Outputs : Rates[i] = "full"
  /\ get_num_scaler_sessions > 1 <=> Two
  /\ \A f : Class(f) \in Sessions /\ (~Two => Class(f) = 0)
BY DEF Two, get_num_scaler_sessions, Class, Sessions, SC_SESSION_ALL_RATE, SC_SESSION_FULL_RATE

\* The classes alternate.
LEMMA ClassTurns ==
  ASSUME NEW n \in Nat
  PROVE  Two => Class(n + 1) = 1 - Class(n)
<1>1. n % 2 \in {0, 1} /\ ((n + 1) % 2 = 0 <=> n % 2 # 0)
  OBVIOUS
<1> QED
  BY <1>1 DEF Class, SC_SESSION_ALL_RATE, SC_SESSION_FULL_RATE

\* The session of a call, and of the next one.
LEMMA SessionType ==
  ASSUME Typed
  PROVE  /\ session_type \in Sessions /\ 1 - session_type \in Sessions
         /\ session_type \in {0, 1} /\ session_type # 1 - session_type
         /\ ~Two => session_type = 0
         /\ session_type = session_frame
<1>1. session_frame \in {0, 1} /\ (~Two => session_frame = 0)
  BY DEF Typed
<1>2. 0 % 2 = 0 /\ 1 % 2 = 1
  OBVIOUS
<1> QED
  BY <1>1, <1>2, SessionCount DEF session_type, Sessions, SC_SESSION_ALL_RATE, SC_SESSION_FULL_RATE

\* The turn passes with every call.
LEMMA TurnPasses ==
  ASSUME Typed, NextSession
  PROVE  /\ session_frame' \in {0, 1} /\ (~Two => session_frame' = 0)
         /\ session_type' = IF Two THEN 1 - session_type ELSE session_type
<1>1. session_frame \in {0, 1} /\ (~Two => session_frame = 0) /\ session_type = session_frame
  BY SessionType DEF Typed
<1>2. (0 + 1) % 2 = 1 /\ (1 + 1) % 2 = 0 /\ 0 % 2 = 0 /\ 1 % 2 = 1
  OBVIOUS
<1>3. session_frame' = IF Two THEN 1 - session_frame ELSE session_frame
  BY <1>1, <1>2, SessionCount DEF NextSession, SC_MAX_SESSIONS
<1>4. session_type' = session_frame'
  BY <1>1, <1>2, <1>3, SessionCount DEF session_type, SC_SESSION_ALL_RATE, SC_SESSION_FULL_RATE
<1> QED
  BY <1>1, <1>3, <1>4

-----------------------------------------------------------------------------
(* What a call does to the frames.                                         *)

Put(h, s, x) == [h EXCEPT ![s] = Append(h[s], x)]
Drop(h, s) == [h EXCEPT ![s] = Tail(h[s])]
Spread(o, s, k, x) ==
  [i \in Outputs |-> IF i <= session_nb_outputs(s) /\ i < k THEN Append(o[i], x) ELSE o[i]]

\* An output has one more frame.
LEMMA AppendElems ==
  ASSUME NEW s \in Seq(Nat), NEW x \in Nat
  PROVE  /\ Append(s, x) \in Seq(Nat) /\ Elems(Append(s, x)) = Elems(s) \cup {x}
         /\ Distinct(s) /\ x \notin Elems(s) => Distinct(Append(s, x))
<1>1. /\ Len(Append(s, x)) = Len(s) + 1 /\ Len(s) \in Nat /\ Append(s, x) \in Seq(Nat)
      /\ \A a \in 1..Len(s) : Append(s, x)[a] = s[a] /\ s[a] \in Elems(s)
      /\ Append(s, x)[Len(s) + 1] = x
      /\ \A a \in 1..(Len(s) + 1) : a \in 1..Len(s) \/ a = Len(s) + 1
      /\ Len(s) + 1 \in 1..(Len(s) + 1) /\ \A a \in 1..Len(s) : a \in 1..(Len(s) + 1)
  BY DEF Elems
<1>2. Elems(Append(s, x)) = Elems(s) \cup {x}
  <2>1. \A e : e \in Elems(Append(s, x)) => e \in Elems(s) \cup {x}
    BY <1>1 DEF Elems
  <2>2. \A e : e \in Elems(s) => e \in Elems(Append(s, x))
    BY <1>1 DEF Elems
  <2>3. x \in Elems(Append(s, x))
    BY <1>1 DEF Elems
  <2> QED
    BY <2>1, <2>2, <2>3
<1>3. Distinct(s) /\ x \notin Elems(s) => Distinct(Append(s, x))
  <2> SUFFICES ASSUME Distinct(s), x \notin Elems(s),
                      NEW a \in 1..(Len(s) + 1), NEW b \in 1..(Len(s) + 1), a # b
               PROVE  Append(s, x)[a] # Append(s, x)[b]
    BY <1>1 DEF Distinct
  <2>1. CASE a \in 1..Len(s) /\ b \in 1..Len(s)
    BY <1>1, <2>1 DEF Distinct
  <2>2. CASE a = Len(s) + 1 /\ b \in 1..Len(s)
    BY <1>1, <2>2
  <2>3. CASE a \in 1..Len(s) /\ b = Len(s) + 1
    BY <1>1, <2>3
  <2> QED
    BY <1>1, <2>1, <2>2, <2>3
<1> QED
  BY <1>1, <1>2, <1>3

\* A frame that was lost leaves the others as they are.
LEMMA LostLanes ==
  ASSUME NEW h, NEW o, NEW n \in Nat, Lanes(h, o, n)
  PROVE  Lanes(h, o, n + 1)
<1>1. \A x \in 1..n : x \in 1..(n + 1)
  OBVIOUS
<1> QED
  BY <1>1 DEF Lanes

\* what that makes of the frames held and delivered
Moved(h, o, n, s, k) ==
  LET p == Spread(o, s, k, Head(h[s]))
  IN /\ Drop(h, s) \in [Sessions -> Seq(Nat)] /\ p \in [Outputs -> Seq(Nat)]
     /\ Lanes(Drop(h, s), p, n)
     /\ Len(Drop(h, s)[s]) = Len(h[s]) - 1
     /\ \A t \in Sessions : t # s => Drop(h, s)[t] = h[t]
     /\ Head(h[s]) \in Nat /\ Elems(Drop(h, s)[s]) = Elems(h[s]) \ {Head(h[s])}
     /\ \A i \in Outputs :
          Elems(p[i]) = IF i <= session_nb_outputs(s) /\ i < k
                        THEN Elems(o[i]) \cup {Head(h[s])} ELSE Elems(o[i])

\* The oldest frame of a session goes to the outputs before k.
LEMMA DropLanes ==
  ASSUME NEW h \in [Sessions -> Seq(Nat)], NEW o \in [Outputs -> Seq(Nat)], NEW n \in Nat,
         Lanes(h, o, n), NEW s \in Sessions, h[s] # <<>>, NEW k \in Nat
  PROVE  Moved(h, o, n, s, k)
<1> DEFINE x == Head(h[s])
           g == Drop(h, s)
           p == Spread(o, s, k, x)
<1>1. h[s] \in Seq(Nat) /\ Ascending(h[s])
  BY DEF Lanes
<1>2. /\ Tail(h[s]) \in Seq(Nat) /\ Ascending(Tail(h[s])) /\ Len(Tail(h[s])) = Len(h[s]) - 1
      /\ x \in Elems(h[s]) /\ x \in Nat /\ Elems(Tail(h[s])) = Elems(h[s]) \ {x}
      /\ \A e \in Elems(Tail(h[s])) : x < e
  BY <1>1, TailAscending
<1>3. g \in [Sessions -> Seq(Nat)] /\ g[s] = Tail(h[s]) /\ \A t \in Sessions : t # s => g[t] = h[t]
  BY <1>2 DEF Drop
<1>4. \A t \in Sessions : Elems(g[t]) \subseteq Elems(h[t])
  BY <1>2, <1>3
<1>5. x \in 1..n /\ Class(x) = s
  BY <1>2 DEF Lanes
<1>6. \A i \in Outputs : x \notin Elems(o[i])
  <2> SUFFICES ASSUME NEW i \in Outputs, x \in Elems(o[i]) PROVE FALSE
    OBVIOUS
  <2>1. x < x
    BY <1>2, <1>5 DEF Lanes
  <2> QED
    BY <1>2, <2>1
<1> HIDE DEF x
<1>7. ASSUME NEW i \in Outputs
      PROVE  /\ p[i] = IF i <= session_nb_outputs(s) /\ i < k THEN Append(o[i], x) ELSE o[i]
             /\ p[i] \in Seq(Nat) /\ Distinct(p[i])
             /\ Elems(p[i]) = IF i <= session_nb_outputs(s) /\ i < k
                              THEN Elems(o[i]) \cup {x} ELSE Elems(o[i])
  <2>1. p[i] = IF i <= session_nb_outputs(s) /\ i < k THEN Append(o[i], x) ELSE o[i]
    BY <1>7 DEF Spread
  <2>2. o[i] \in Seq(Nat) /\ Distinct(o[i])
    BY <1>7 DEF Lanes
  <2>3. Append(o[i], x) \in Seq(Nat) /\ Distinct(Append(o[i], x))
        /\ Elems(Append(o[i], x)) = Elems(o[i]) \cup {x}
    BY <1>2, <1>6, <1>7, <2>2, AppendElems
  <2> HIDE DEF p
  <2> QED
    BY <2>1, <2>2, <2>3
<1>8. p \in [Outputs -> Seq(Nat)]
  <2>1. p = [i \in Outputs |-> p[i]]
    BY DEF Spread
  <2> HIDE DEF p
  <2> QED
    BY <1>7, <2>1
<1> HIDE DEF g, p
<1>9. Lanes(g, p, n)
  <2>1. \A t \in Sessions : Ascending(g[t]) /\ \A f \in Elems(g[t]) : f \in 1..n /\ Class(f) = t
    BY <1>2, <1>3, <1>4 DEF Lanes
  <2>2. ASSUME NEW i \in Outputs, NEW y \in Elems(p[i])
        PROVE  /\ y \in 1..n /\ i <= session_nb_outputs(Class(y))
               /\ \A f \in Elems(g[Class(y)]) : y < f
    <3>1. CASE y \in Elems(o[i])
      BY <1>4, <2>2, <3>1, SessionCount DEF Lanes
    <3>2. CASE y \notin Elems(o[i])
      <4>1. y = x /\ i <= session_nb_outputs(s)
        BY <1>7, <2>2, <3>2
      <4> QED
        BY <1>2, <1>3, <1>5, <4>1
    <3> QED
      BY <3>1, <3>2
  <2> QED
    BY <1>7, <2>1, <2>2 DEF Lanes
<1>10. /\ g \in [Sessions -> Seq(Nat)] /\ p \in [Outputs -> Seq(Nat)]
       /\ Lanes(g, p, n) /\ Len(g[s]) = Len(h[s]) - 1
       /\ \A t \in Sessions : t # s => g[t] = h[t]
       /\ x \in Nat /\ Elems(g[s]) = Elems(h[s]) \ {x}
       /\ \A i \in Outputs : Elems(p[i]) = IF i <= session_nb_outputs(s) /\ i < k
                                           THEN Elems(o[i]) \cup {x} ELSE Elems(o[i])
  BY <1>2, <1>3, <1>7, <1>8, <1>9
<1> QED
  BY <1>10 DEF Moved, g, p, x

-----------------------------------------------------------------------------
(* The calls, by what they do to the frames.                               *)

Queue == Append(held[session_type], frames + 1)

FeedCall == mode = "feed" /\ frames' = frames + 1 /\ NextSession /\ count' = count
FlushCall == mode = "flush" /\ frames' = frames /\ NextSession

FilterTakes == /\ FeedCall /\ mode' = "feed" /\ faults' = faults /\ Len(Queue) <= Depth
               /\ held' = Put(held, session_type, frames + 1) /\ out' = out
FilterGives == /\ FeedCall /\ mode' = "feed" /\ faults' = faults /\ ~(Len(Queue) <= Depth)
               /\ held' = Drop(Put(held, session_type, frames + 1), session_type)
               /\ out' = Spread(out, session_type, Len(Rates) + 1, Head(Queue))
FilterLoses == FeedCall /\ mode' = "feed" /\ Fails /\ UNCHANGED <<held, out>>
FilterFails ==
  /\ FeedCall /\ mode' = "failed" /\ Fails
  /\ \/ held' = Put(held, session_type, frames + 1) /\ out' = out
     \/ /\ held' = Drop(Put(held, session_type, frames + 1), session_type)
        /\ \E k \in Nat : out' = Spread(out, session_type, k, Head(Queue))

Rests ==
  /\ UNCHANGED <<held, out, frames, session_frame, count>>
  /\ \/ UNCHANGED <<mode, faults>>
     \/ faults' = faults /\ mode = "feed" /\ mode' = IF frames > 0 THEN "flush" ELSE "done"
     \/ Fails /\ mode = "feed" /\ mode' \in {"failed", "crash"}

FlushSeesEnd == /\ FlushCall /\ held[session_type] = <<>> /\ UNCHANGED <<held, out, faults>>
                /\ count' = count + 1
                /\ mode' = IF count + 1 = get_num_scaler_sessions THEN "done" ELSE "flush"
GoesOn == count' = count /\ mode' = IF count = get_num_scaler_sessions THEN "done" ELSE "flush"
FlushGives ==
  /\ FlushCall /\ GoesOn /\ held[session_type] # <<>> /\ held' = Drop(held, session_type)
  /\ \E k \in Nat : /\ out' = Spread(out, session_type, k, Head(held[session_type]))
                    /\ Fails \/ (faults' = faults /\ k = Len(Rates) + 1)
FlushKeeps == FlushCall /\ GoesOn /\ Fails /\ UNCHANGED <<held, out>>

\* A failed call is counted, up to MaxFaults; a count of none is none.
LEMMA Counted ==
  ASSUME faults \in Nat, Fails
  PROVE  faults' \in Nat /\ faults' # 0 /\ (faults' < MaxFaults => faults' = faults + 1)
         /\ faults <= faults'
BY BoundAssumption DEF Fails

\* The outputs are numbered from one.
LEMMA OutputNumbers ==
  /\ Len(Rates) \in Nat /\ Outputs = 1..Len(Rates) /\ Len(Rates) + 1 \in Nat
  /\ \A i \in Outputs : i \in Nat /\ i < Len(Rates) + 1 /\ Rates[i] \in {"full", "half"}
BY RatesAssumption DEF Outputs

\* Every step is one of these.
LEMMA Calls ==
  ASSUME Typed, [Next]_vars
  PROVE  \/ FilterTakes \/ FilterGives \/ FilterLoses \/ FilterFails \/ Rests
         \/ FlushSeesEnd \/ FlushGives \/ FlushKeeps
<1>0. /\ held \in [Sessions -> Seq(Nat)] /\ session_type \in Sessions /\ frames + 1 \in Nat
  BY SessionType DEF Typed
<1>1. held[session_type] \in Seq(Nat) /\ Queue \in Seq(Nat)
  BY <1>0 DEF Queue
<1>2. [held EXCEPT ![session_type] = Queue] = Put(held, session_type, frames + 1)
  BY DEF Queue, Put
<1>3. [held EXCEPT ![session_type] = Tail(Queue)]
        = Drop(Put(held, session_type, frames + 1), session_type)
  <2>1. Put(held, session_type, frames + 1)[session_type] = Queue
    BY <1>0 DEF Put, Queue
  <2>2. DOMAIN held = Sessions
    BY <1>0
  <2> QED
    BY <1>0, <2>1, <2>2 DEF Drop, Put
<1>4. \A k, f : DeliverBefore(k, f) => out' = Spread(out, session_type, k, f)
  BY DEF DeliverBefore, Spread
<1>5. Queue = Append(held[session_type], frames + 1)
  BY DEF Queue
<1>6. CASE FilterFrame
  <2>1. CASE Len(Queue) <= Depth
    BY <1>2, <1>5, <1>6, <2>1 DEF FilterFrame, FilterTakes, FeedCall
  <2>2. CASE ~(Len(Queue) <= Depth)
    BY <1>3, <1>4, <1>5, <1>6, <2>2 DEF FilterFrame, FilterGives, FeedCall, Deliver
  <2> QED
    BY <2>1, <2>2
<1>7. CASE FilterFrameSendError
  BY <1>7 DEF FilterFrameSendError, FilterLoses, FeedCall
<1>8. CASE FilterFrameRecvError
  <2>1. FeedCall /\ mode' = "failed" /\ Fails
    BY <1>8 DEF FilterFrameRecvError, FeedCall
  <2>2. \/ held' = [held EXCEPT ![session_type] = Queue] /\ UNCHANGED out
        \/ /\ held' = [held EXCEPT ![session_type] = Tail(Queue)]
           /\ \E k \in Outputs : DeliverBefore(k, Head(Queue))
    BY <1>5, <1>8 DEF FilterFrameRecvError
  <2> QED
    BY <1>2, <1>3, <1>4, <2>1, <2>2, OutputNumbers DEF FilterFails
<1>9. CASE FlushStart
  BY <1>9 DEF FlushStart, Rests
<1>10. CASE FlushStartError
  BY <1>10 DEF FlushStartError, Rests
<1>11. CASE FlushFrame
  <2>1. CASE held[session_type] = <<>>
    BY <1>11, <2>1 DEF FlushFrame, FlushSeesEnd, FlushCall, Looped
  <2>2. CASE held[session_type] # <<>>
    <3>1. /\ FlushCall /\ GoesOn /\ held' = Drop(held, session_type) /\ faults' = faults
          /\ DeliverBefore(Len(Rates) + 1, Head(held[session_type]))
      BY <1>11, <2>2 DEF FlushFrame, FlushCall, GoesOn, Looped, Drop, Deliver
    <3> QED
      BY <1>4, <2>2, <3>1, OutputNumbers DEF FlushGives
  <2> QED
    BY <2>1, <2>2
<1>12. CASE FlushFrameSendError
  BY <1>12 DEF FlushFrameSendError, FlushKeeps, FlushCall, GoesOn, Looped
<1>13. CASE FlushFrameRecvError
  <2>1. FlushCall /\ GoesOn /\ Fails /\ held[session_type] # <<>>
    BY <1>13 DEF FlushFrameRecvError, FlushCall, GoesOn, Looped
  <2>2. CASE UNCHANGED <<held, out>>
    BY <2>1, <2>2 DEF FlushKeeps
  <2>3. CASE ~UNCHANGED <<held, out>>
    <3>1. /\ held' = [held EXCEPT ![session_type] = Tail(held[session_type])]
          /\ \E k \in Outputs : DeliverBefore(k, Head(held[session_type]))
      BY <1>13, <2>3 DEF FlushFrameRecvError
    <3> QED
      BY <1>4, <2>1, <3>1, OutputNumbers DEF FlushGives, Drop
  <2> QED
    BY <2>2, <2>3
<1>14. CASE Finished \/ UNCHANGED vars
  BY <1>14 DEF Finished, vars, Rests
<1> QED
  BY <1>6, <1>7, <1>8, <1>9, <1>10, <1>11, <1>12, <1>13, <1>14
     DEF Next, multiscale_xma_filter_frame, xma_multiscaler_filter_flush

\* What a call makes of the frames held: the session whose turn it is takes or
\* gives one.
LEMMA FeedLanes ==
  ASSUME LaneInv, mode = "feed"
  PROVE  LET h == Put(held, session_type, frames + 1)
         IN /\ h \in [Sessions -> Seq(Nat)] /\ Lanes(h, out, frames + 1)
            /\ h[session_type] = Queue /\ Queue # <<>> /\ Len(Queue) = Len(held[session_type]) + 1
            /\ Elems(Queue) = Elems(held[session_type]) \cup {frames + 1}
            /\ \A t \in Sessions : t # session_type => h[t] = held[t]
<1>1. /\ held \in [Sessions -> Seq(Nat)] /\ out \in [Outputs -> Seq(Nat)] /\ frames \in Nat
      /\ Lanes(held, out, frames) /\ session_type \in Sessions /\ session_type = Class(frames + 1)
  BY SessionType DEF LaneInv, Typed, Turns
<1>2. held[session_type] \in Seq(Nat)
  BY <1>1
<1>3. Queue # <<>> /\ Len(Queue) = Len(held[session_type]) + 1
  <2>1. PICK q \in Seq(Nat), x \in Nat : q = held[session_type] /\ x = frames + 1
    BY <1>1, <1>2
  <2>2. Append(q, x) # <<>> /\ Len(Append(q, x)) = Len(q) + 1
    OBVIOUS
  <2> QED
    BY <2>1, <2>2 DEF Queue
<1>4. PICK s \in Sessions, m \in Nat : s = session_type /\ m = frames + 1
  BY <1>1
<1>5. s = Class(m)
  BY <1>1, <1>4
<1>6. /\ Put(held, s, m) \in [Sessions -> Seq(Nat)] /\ Lanes(Put(held, s, m), out, m)
      /\ Put(held, s, m)[s] = Append(held[s], m)
      /\ \A t \in Sessions : t # s => Put(held, s, m)[t] = held[t]
      /\ Elems(Append(held[s], m)) = Elems(held[s]) \cup {m}
  <2> DEFINE g == Put(held, s, m)
  <2>1. held[s] \in Seq(Nat) /\ Ascending(held[s]) /\ m \in Nat /\ \A e \in Elems(held[s]) : e < m
    BY <1>1, <1>4 DEF Lanes
  <2>2. /\ Append(held[s], m) \in Seq(Nat) /\ Ascending(Append(held[s], m))
        /\ Elems(Append(held[s], m)) = Elems(held[s]) \cup {m}
    BY <2>1, AppendAscending
  <2>3. g \in [Sessions -> Seq(Nat)] /\ g[s] = Append(held[s], m)
        /\ \A t \in Sessions : t # s => g[t] = held[t]
    BY <1>1, <2>2 DEF Put
  <2> HIDE DEF g
  <2>4. \A t \in Sessions : \A f \in Elems(g[t]) : f \in Elems(held[t]) \/ (f = m /\ t = s)
    <3> SUFFICES ASSUME NEW t \in Sessions, NEW f \in Elems(g[t]), t # s \/ f # m
                 PROVE  f \in Elems(held[t])
      OBVIOUS
    <3>1. CASE t = s
      <4>1. Elems(g[t]) = Elems(held[s]) \cup {m}
        BY <2>2, <2>3, <3>1
      <4> QED
        BY <3>1, <4>1
    <3>2. CASE t # s
      BY <2>3, <3>2
    <3> QED
      BY <3>1, <3>2
  <2>5. \A t \in Sessions : Ascending(g[t])
    BY <1>1, <2>2, <2>3 DEF Lanes
  <2>6. \A x \in 1..frames : x \in 1..m /\ x < m
    BY <1>1, <1>4
  <2>7. m \in 1..m
    BY <1>1, <1>4
  <2>8. Lanes(g, out, m)
    <3>1. \A t \in Sessions : Ascending(g[t]) /\ \A f \in Elems(g[t]) : f \in 1..m /\ Class(f) = t
      BY <1>1, <1>5, <2>4, <2>5, <2>6, <2>7 DEF Lanes
    <3>2. ASSUME NEW i \in Outputs, NEW x \in Elems(out[i])
          PROVE  /\ x \in 1..m /\ i <= session_nb_outputs(Class(x))
                 /\ \A f \in Elems(g[Class(x)]) : x < f
      <4>1. x \in 1..frames /\ i <= session_nb_outputs(Class(x)) /\ \A f \in Elems(held[Class(x)]) : x < f
        BY <1>1, <3>2 DEF Lanes
      <4> QED
        BY <2>4, <2>6, <4>1, SessionCount
    <3>3. \A i \in Outputs : Distinct(out[i])
      BY <1>1 DEF Lanes
    <3> QED
      BY <3>1, <3>2, <3>3 DEF Lanes
  <2> QED
    BY <2>2, <2>3, <2>8 DEF g
<1> QED
  BY <1>3, <1>4, <1>6 DEF Queue

\* The lanes are kept, whatever fails.
LEMMA LaneStep == LaneInv /\ [Next]_vars => LaneInv'
<1> SUFFICES ASSUME LaneInv, [Next]_vars PROVE LaneInv'
  OBVIOUS
<1>0. /\ Typed /\ Lanes(held, out, frames) /\ Turns /\ held \in [Sessions -> Seq(Nat)]
      /\ out \in [Outputs -> Seq(Nat)] /\ frames \in Nat /\ faults \in Nat /\ count \in Nat
      /\ session_type \in Sessions
  BY SessionType DEF LaneInv, Typed
<1>a. Fails => faults' \in Nat
  BY <1>0, Counted
<1>1. FeedCall => Turns' /\ session_frame' \in {0, 1} /\ (~Two => session_frame' = 0)
  <2> SUFFICES ASSUME FeedCall PROVE Turns' /\ session_frame' \in {0, 1} /\ (~Two => session_frame' = 0)
    OBVIOUS
  <2>1. /\ session_frame' \in {0, 1} /\ (~Two => session_frame' = 0)
        /\ session_type' = IF Two THEN 1 - session_type ELSE session_type
    BY <1>0, TurnPasses DEF FeedCall
  <2>2. session_type = Class(frames + 1) /\ frames' = frames + 1
    BY <1>0 DEF FeedCall, Turns
  <2>3. Two => Class((frames + 1) + 1) = 1 - Class(frames + 1)
    BY <1>0, ClassTurns
  <2>4. session_type' = Class(frames' + 1)
    BY <1>0, <2>1, <2>2, <2>3, SessionType, SessionCount
  <2> QED
    BY <2>1, <2>4 DEF Turns, Class, Two, get_num_scaler_sessions
<1>2. FlushCall => session_frame' \in {0, 1} /\ (~Two => session_frame' = 0)
  BY <1>0, TurnPasses DEF FlushCall
<1>3. CASE FilterTakes
  <2>1. Typed'
    BY <1>0, <1>1, <1>3, FeedLanes DEF Typed, FilterTakes, FeedCall
  <2> QED
    BY <1>1, <1>3, <2>1, FeedLanes DEF LaneInv, FilterTakes, FeedCall
<1>4. ASSUME FeedCall, faults' \in Nat, mode' \in {"feed", "failed"}, NEW k \in Nat,
             held' = Drop(Put(held, session_type, frames + 1), session_type),
             out' = Spread(out, session_type, k, Head(Queue))
      PROVE  LaneInv'
  <2>1. PICK h : h = Put(held, session_type, frames + 1)
    OBVIOUS
  <2>2. /\ h \in [Sessions -> Seq(Nat)] /\ Lanes(h, out, frames + 1) /\ frames + 1 \in Nat
        /\ h[session_type] = Queue /\ h[session_type] # <<>>
    BY <1>0, <1>4, <2>1, FeedLanes DEF FeedCall
  <2>3. /\ Drop(h, session_type) \in [Sessions -> Seq(Nat)]
        /\ Spread(out, session_type, k, Head(h[session_type])) \in [Outputs -> Seq(Nat)]
        /\ Lanes(Drop(h, session_type), Spread(out, session_type, k, Head(h[session_type])), frames + 1)
    <3>1. Moved(h, out, frames + 1, session_type, k)
      BY <1>0, <2>2, DropLanes
    <3> QED
      BY <3>1 DEF Moved
  <2>4. held' \in [Sessions -> Seq(Nat)] /\ out' \in [Outputs -> Seq(Nat)] /\ Lanes(held', out', frames')
    BY <1>4, <2>1, <2>2, <2>3 DEF FeedCall
  <2>5. Typed'
    BY <1>0, <1>1, <1>4, <2>4 DEF Typed, FeedCall
  <2> QED
    BY <1>1, <1>4, <2>4, <2>5 DEF LaneInv
<1>5. CASE FilterGives
  BY <1>0, <1>4, <1>5, OutputNumbers DEF FilterGives
<1>6. CASE FilterLoses
  <2>1. Lanes(held', out', frames')
    BY <1>0, <1>6, LostLanes DEF FilterLoses, FeedCall
  <2>2. Typed'
    BY <1>0, <1>a, <1>1, <1>6 DEF Typed, FilterLoses, FeedCall
  <2> QED
    BY <1>1, <1>6, <2>1, <2>2 DEF LaneInv, FilterLoses
<1>7. CASE FilterFails
  <2>1. CASE held' = Put(held, session_type, frames + 1) /\ out' = out
    <3>1. Typed'
      BY <1>0, <1>a, <1>1, <1>7, <2>1, FeedLanes DEF Typed, FilterFails, FeedCall
    <3> QED
      BY <1>1, <1>7, <2>1, <3>1, FeedLanes DEF LaneInv, FilterFails, FeedCall
  <2>2. CASE /\ held' = Drop(Put(held, session_type, frames + 1), session_type)
             /\ \E k \in Nat : out' = Spread(out, session_type, k, Head(Queue))
    BY <1>0, <1>a, <1>4, <1>7, <2>2 DEF FilterFails
  <2> QED
    BY <1>7, <2>1, <2>2 DEF FilterFails
<1>8. CASE Rests
  <2>1. Typed'
    BY <1>0, <1>a, <1>8 DEF Typed, Rests
  <2>2. Turns'
    <3>1. session_type' = session_type /\ frames' = frames /\ (mode' = "feed" => mode = "feed")
      BY <1>8 DEF Rests, session_type
    <3> QED
      BY <1>0, <3>1 DEF Turns, Class, Two, get_num_scaler_sessions
  <2> QED
    BY <1>0, <1>8, <2>1, <2>2 DEF LaneInv, Rests
<1>9. CASE FlushSeesEnd \/ FlushKeeps
  <2>1. /\ FlushCall /\ UNCHANGED <<held, out>> /\ mode' \in {"done", "flush"}
        /\ faults' \in Nat /\ count' \in Nat
    BY <1>0, <1>a, <1>9 DEF FlushSeesEnd, FlushKeeps, GoesOn
  <2>2. Typed'
    BY <1>0, <1>2, <2>1 DEF Typed, FlushCall
  <2>3. Turns'
    BY <2>1 DEF Turns
  <2> QED
    BY <1>0, <2>1, <2>2, <2>3 DEF LaneInv, FlushCall
<1>10. CASE FlushGives
  <2>1. PICK k \in Nat : out' = Spread(out, session_type, k, Head(held[session_type]))
    BY <1>10 DEF FlushGives
  <2>2. /\ FlushCall /\ held' = Drop(held, session_type) /\ held[session_type] # <<>>
        /\ mode' \in {"done", "flush"} /\ faults' \in Nat /\ count' \in Nat
    BY <1>0, <1>a, <1>10 DEF FlushGives, GoesOn
  <2>3. held' \in [Sessions -> Seq(Nat)] /\ out' \in [Outputs -> Seq(Nat)] /\ Lanes(held', out', frames)
    <3>1. Moved(held, out, frames, session_type, k)
      BY <1>0, <2>2, DropLanes
    <3> QED
      BY <2>1, <2>2, <3>1 DEF Moved
  <2>4. Typed'
    BY <1>0, <1>2, <2>2, <2>3 DEF Typed, FlushCall
  <2>5. Turns'
    BY <2>2 DEF Turns
  <2> QED
    BY <2>2, <2>3, <2>4, <2>5 DEF LaneInv, FlushCall
<1> QED
  BY <1>0, <1>3, <1>5, <1>6, <1>7, <1>8, <1>9, <1>10, Calls

\* Frames stay in the lanes of their sessions, with any number of failing calls.
THEOREM LaneInvariant == Spec => []LaneInv
<1>1. Init => LaneInv
  <2> SUFFICES ASSUME Init PROVE LaneInv
    OBVIOUS
  <2>1. /\ held = [s \in Sessions |-> <<>>] /\ out = [i \in Outputs |-> <<>>] /\ frames = 0
        /\ session_frame = 0 /\ mode = "feed" /\ count = 0 /\ faults = 0
    BY DEF Init
  <2>2. Typed
    BY <2>1, EmptyAscending DEF Typed
  <2>3. /\ \A s \in Sessions : Ascending(held[s]) /\ Elems(held[s]) = {}
        /\ \A i \in Outputs : Elems(out[i]) = {} /\ Len(out[i]) = 0
    BY <2>1, EmptyAscending
  <2>a. \A i \in Outputs : Distinct(out[i])
    <3>1. \A n : n = 0 => \A a \in 1..n : FALSE
      OBVIOUS
    <3> QED
      BY <2>3, <3>1 DEF Distinct
  <2>4. Lanes(held, out, frames)
    BY <2>3, <2>a DEF Lanes
  <2>5. Turns
    <3>1. session_type = 0
      BY <2>1, <2>2, SessionType
    <3>2. (0 + 1) % 2 # 0
      OBVIOUS
    <3> QED
      BY <2>1, <3>1, <3>2 DEF Turns, Class, SC_SESSION_ALL_RATE
  <2> QED
    BY <2>2, <2>4, <2>5 DEF LaneInv
<1>2. LaneInv /\ [Next]_vars => LaneInv'
  BY LaneStep
<1> QED
  BY <1>1, <1>2, PTL DEF Spec

\* No output gets a frame twice, whatever fails: also not when the flush loop
\* goes on after a call that failed.
THEOREM NeverTwice == Spec => []NoFrameTwice
<1>1. LaneInv => NoFrameTwice
  <2> SUFFICES ASSUME LaneInv, NEW i \in Outputs, NEW a \in DOMAIN out[i], NEW b \in DOMAIN out[i], a # b
               PROVE  out[i][a] # out[i][b]
    BY DEF NoFrameTwice
  <2>1. out[i] \in Seq(Nat) /\ Distinct(out[i])
    BY DEF LaneInv, Typed, Lanes
  <2>2. DOMAIN out[i] = 1..Len(out[i])
    BY <2>1
  <2> QED
    BY <2>1, <2>2 DEF Distinct
<1> QED
  BY <1>1, LaneInvariant, PTL

\* With the full-rate outputs first the session for the even frames feeds them
\* and no others.
LEMMA FullOutputs ==
  ASSUME FullFirst, NEW i \in Outputs
  PROVE  Rates[i] = "full" <=> i <= get_num_full_rate_outputs
<1> DEFINE F == {j \in Outputs : Rates[j] = "full"}
<1>1. /\ Len(Rates) \in Nat /\ Outputs = 1..Len(Rates) /\ i \in Nat /\ i >= 1
      /\ \A j \in Outputs : j \in Nat /\ j >= 1 /\ Rates[j] \in {"full", "half"}
  BY OutputNumbers
<1>2. get_num_full_rate_outputs = Cardinality(F)
  BY DEF get_num_full_rate_outputs
<1>3. IsFiniteSet(F)
  <2>1. IsFiniteSet(1..Len(Rates)) /\ F \subseteq 1..Len(Rates)
    BY <1>1, FS_Interval
  <2> QED
    BY <2>1, FS_Subset
<1>4. CASE Rates[i] = "full"
  <2>1. 1..i \subseteq F
    BY <1>1, <1>4 DEF FullFirst
  <2>2. Cardinality(1..i) = i
    BY <1>1, FS_Interval
  <2>3. Cardinality(1..i) <= Cardinality(F)
    BY <1>3, <2>1, FS_Subset
  <2> QED
    BY <1>2, <1>4, <2>2, <2>3
<1>5. CASE Rates[i] = "half"
  <2>1. F \subseteq 1..(i - 1) /\ i - 1 \in Nat
    BY <1>1, <1>5 DEF FullFirst
  <2>2. IsFiniteSet(1..(i - 1)) /\ Cardinality(1..(i - 1)) = i - 1
    <3>1. PICK m \in Nat : m = i - 1
      BY <2>1
    <3>2. IsFiniteSet(1..m) /\ Cardinality(1..m) = m
      BY FS_Interval
    <3> QED
      BY <3>1, <3>2
  <2>3. Cardinality(F) <= i - 1 /\ Cardinality(F) \in Nat
    BY <1>3, <2>1, <2>2, FS_Subset, FS_CardinalityType
  <2> QED
    BY <1>1, <1>2, <1>5, <2>3
<1> QED
  BY <1>1, <1>4, <1>5

\* An output at half the rate gets the odd frames only, if the full-rate outputs
\* come first; the filter does not demand that order, and without it the theorem
\* fails.
THEOREM RatesKept == FullFirst => (Spec => []RateAsConfigured)
<1> SUFFICES ASSUME FullFirst PROVE Spec => []RateAsConfigured
  OBVIOUS
<1>1. LaneInv => RateAsConfigured
  <2> SUFFICES ASSUME LaneInv, NEW i \in Outputs, NEW x \in Got(i) PROVE x \in Wanted(i)
    BY DEF RateAsConfigured
  <2>1. out[i] \in Seq(Nat) /\ DOMAIN out[i] = 1..Len(out[i])
    BY DEF LaneInv, Typed
  <2>2. x \in Elems(out[i])
    BY <2>1 DEF Got, Elems
  <2>3. x \in 1..frames /\ i <= session_nb_outputs(Class(x)) /\ x \in Nat
    BY <2>2 DEF LaneInv, Lanes, Typed
  <2>4. x % 2 = 0 \/ x % 2 = 1
    BY <2>3
  <2>5. Rates[i] = "full" \/ x % 2 = 1
    <3> SUFFICES ASSUME Rates[i] # "full", x % 2 = 0 PROVE FALSE
      BY <2>4
    <3>1. Two
      BY SessionCount
    <3>2. session_nb_outputs(Class(x)) = get_num_full_rate_outputs
      BY <3>1 DEF Class, session_nb_outputs, SC_SESSION_FULL_RATE, SC_SESSION_ALL_RATE
    <3> QED
      BY <2>3, <3>2, FullOutputs
  <2> QED
    BY <2>3, <2>5 DEF Wanted
<1> QED
  BY <1>1, LaneInvariant, PTL

-----------------------------------------------------------------------------
(* What a flush leaves.                                                    *)

\* The session that gives a frame has one less.
LEMMA DropLength ==
  ASSUME NEW h \in [Sessions -> Seq(Nat)], NEW s \in Sessions, h[s] # <<>>
  PROVE  /\ Len(Drop(h, s)[s]) = Len(h[s]) - 1 /\ Drop(h, s)[s] = Tail(h[s])
         /\ \A t \in Sessions : t # s => Drop(h, s)[t] = h[t]
<1>1. h[s] \in Seq(Nat)
  OBVIOUS
<1>2. Len(Tail(h[s])) = Len(h[s]) - 1
  BY <1>1
<1>3. Drop(h, s)[s] = Tail(h[s]) /\ \A t \in Sessions : t # s => Drop(h, s)[t] = h[t]
  BY DEF Drop
<1> QED
  BY <1>2, <1>3

\* The lengths of the two pipelines after a call, in which the turn passes.
LEMMA Lengths ==
  ASSUME LaneInv, [Next]_vars
  PROVE  LET a == Len(held'[session_type])
             b == Len(held'[1 - session_type])
         IN /\ turn \in Nat /\ other \in Nat /\ a \in Nat /\ b \in Nat
            /\ NextSession => IF Two THEN turn' = b /\ other' = a ELSE turn' = a /\ other' = b
            /\ FilterTakes => a = turn + 1 /\ b = other /\ turn + 1 <= Depth
            /\ FilterGives => a = turn /\ b = other /\ turn + 1 > Depth
            /\ FlushGives => a = turn - 1 /\ b = other /\ turn > 0
            /\ FlushSeesEnd => a = 0 /\ turn = 0 /\ b = other
            /\ FilterLoses \/ FlushKeeps => a = turn /\ b = other
            /\ Rests => turn' = turn /\ other' = other
<1>0. /\ Typed /\ Lanes(held, out, frames) /\ held \in [Sessions -> Seq(Nat)]
      /\ out \in [Outputs -> Seq(Nat)] /\ frames \in Nat /\ Depth \in Nat
      /\ session_type \in Sessions /\ 1 - session_type \in Sessions
      /\ session_type \in {0, 1} /\ session_type # 1 - session_type
  BY SessionType, DepthAssumption DEF LaneInv, Typed
<1>1. LaneInv' /\ held' \in [Sessions -> Seq(Nat)]
  BY LaneStep DEF LaneInv, Typed
<1>2. turn \in Nat /\ other \in Nat
  BY <1>0 DEF turn, other
<1>3. Len(held'[session_type]) \in Nat /\ Len(held'[1 - session_type]) \in Nat
  BY <1>0, <1>1
<1>4. NextSession => IF Two THEN turn' = Len(held'[1 - session_type]) /\ other' = Len(held'[session_type])
                            ELSE turn' = Len(held'[session_type]) /\ other' = Len(held'[1 - session_type])
  <2> SUFFICES ASSUME NextSession
               PROVE  IF Two THEN turn' = Len(held'[1 - session_type]) /\ other' = Len(held'[session_type])
                             ELSE turn' = Len(held'[session_type]) /\ other' = Len(held'[1 - session_type])
    OBVIOUS
  <2>1. session_type' = IF Two THEN 1 - session_type ELSE session_type
    BY <1>0, TurnPasses
  <2>2. 1 - (1 - session_type) = session_type
    BY <1>0
  <2> QED
    BY <2>1, <2>2 DEF turn, other
<1>5. mode = "feed" =>
        /\ Len(Queue) = turn + 1
        /\ Len(Put(held, session_type, frames + 1)[session_type]) = turn + 1
        /\ Put(held, session_type, frames + 1)[1 - session_type] = held[1 - session_type]
  BY <1>0, FeedLanes DEF turn
<1>6. FilterTakes => /\ Len(held'[session_type]) = turn + 1 /\ Len(held'[1 - session_type]) = other
                     /\ turn + 1 <= Depth
  BY <1>5 DEF FilterTakes, FeedCall, other
<1>7. FilterGives => /\ Len(held'[session_type]) = turn /\ Len(held'[1 - session_type]) = other
                     /\ turn + 1 > Depth
  <2> SUFFICES ASSUME FilterGives
               PROVE  /\ Len(held'[session_type]) = turn /\ Len(held'[1 - session_type]) = other
                      /\ turn + 1 > Depth
    OBVIOUS
  <2>0. mode = "feed" /\ ~(Len(Queue) <= Depth)
    BY DEF FilterGives, FeedCall
  <2>1. PICK h : h = Put(held, session_type, frames + 1)
    OBVIOUS
  <2>2. /\ h \in [Sessions -> Seq(Nat)] /\ Lanes(h, out, frames + 1) /\ frames + 1 \in Nat
        /\ h[session_type] # <<>> /\ Len(h[session_type]) = turn + 1
        /\ h[1 - session_type] = held[1 - session_type]
    BY <1>0, <1>5, <2>0, <2>1, FeedLanes
  <2>3. /\ Len(Drop(h, session_type)[session_type]) = Len(h[session_type]) - 1
        /\ Drop(h, session_type)[1 - session_type] = h[1 - session_type]
    BY <1>0, <2>2, DropLength
  <2>4. held' = Drop(h, session_type)
    BY <2>1 DEF FilterGives
  <2> QED
    BY <1>0, <1>2, <1>5, <2>0, <2>2, <2>3, <2>4 DEF other
<1>8. FlushGives => /\ Len(held'[session_type]) = turn - 1 /\ Len(held'[1 - session_type]) = other
                    /\ turn > 0
  <2> SUFFICES ASSUME FlushGives
               PROVE  /\ Len(held'[session_type]) = turn - 1 /\ Len(held'[1 - session_type]) = other
                      /\ turn > 0
    OBVIOUS
  <2>1. held' = Drop(held, session_type) /\ held[session_type] # <<>>
    BY DEF FlushGives
  <2>2. /\ Len(Drop(held, session_type)[session_type]) = Len(held[session_type]) - 1
        /\ Drop(held, session_type)[1 - session_type] = held[1 - session_type]
    BY <1>0, <2>1, DropLength
  <2> QED
    BY <1>2, <1>3, <2>1, <2>2 DEF turn, other
<1>9. FlushSeesEnd => /\ Len(held'[session_type]) = 0 /\ turn = 0
                      /\ Len(held'[1 - session_type]) = other
  BY EmptyAscending DEF FlushSeesEnd, turn, other
<1>10. FilterLoses \/ FlushKeeps
         => Len(held'[session_type]) = turn /\ Len(held'[1 - session_type]) = other
  BY DEF FilterLoses, FlushKeeps, turn, other
<1>11. Rests => turn' = turn /\ other' = other
  BY DEF Rests, turn, other, session_type
<1> QED
  BY <1>2, <1>3, <1>4, <1>6, <1>7, <1>8, <1>9, <1>10, <1>11

\* Before the first frame the sessions are empty.
LEMMA NoFramesHeld ==
  ASSUME LaneInv, frames = 0
  PROVE  turn = 0 /\ other = 0
<1>1. /\ held \in [Sessions -> Seq(Nat)] /\ session_type \in Sessions /\ 1 - session_type \in Sessions
      /\ \A s \in Sessions : \A f \in Elems(held[s]) : f \in 1..0
  BY SessionType DEF LaneInv, Typed, Lanes
<1>2. \A s \in Sessions : Len(held[s]) = 0
  <2> SUFFICES ASSUME NEW s \in Sessions, Len(held[s]) # 0 PROVE FALSE
    OBVIOUS
  <2>1. held[s] \in Seq(Nat)
    BY <1>1
  <2>2. 1 \in 1..Len(held[s])
    BY <2>1
  <2>3. held[s][1] \in Elems(held[s])
    BY <2>2 DEF Elems
  <2>4. held[s][1] \in 1..0
    BY <1>1, <2>3
  <2> QED
    BY <2>4
<1> QED
  BY <1>1, <1>2 DEF turn, other

\* Each failed call puts the sessions out of step by one frame at most.
LEMMA BalanceStep == LaneInv /\ Balance /\ [Next]_vars => Balance'
<1> SUFFICES ASSUME LaneInv, Balance, [Next]_vars PROVE Balance'
  OBVIOUS
<1>0. /\ Typed /\ faults \in Nat /\ count \in Nat /\ Depth \in Nat /\ turn \in Nat /\ other \in Nat
      /\ get_num_scaler_sessions = (IF Two THEN 2 ELSE 1)
      /\ MaxFaults \in Nat
  BY DepthAssumption, BoundAssumption, SessionCount, Lengths DEF LaneInv, Typed
<1>a. Fails => faults' \in Nat /\ (faults' < MaxFaults => faults' = faults + 1) /\ faults <= faults'
  BY <1>0, Counted
<1>1. CASE FilterTakes
  <2>1. /\ mode = "feed" /\ mode' = "feed" /\ count' = count /\ faults' = faults /\ NextSession
        /\ turn + 1 <= Depth
    BY <1>1, Lengths DEF FilterTakes, FeedCall
  <2>2. IF Two THEN turn' = other /\ other' = turn + 1 ELSE turn' = turn + 1 /\ other' = other
    BY <1>1, <2>1, Lengths
  <2> QED
    BY <1>0, <2>1, <2>2 DEF Balance, Two, get_num_scaler_sessions
<1>2. CASE FilterGives
  <2>1. /\ mode = "feed" /\ mode' = "feed" /\ count' = count /\ faults' = faults /\ NextSession
        /\ turn + 1 > Depth
    BY <1>2, Lengths DEF FilterGives, FeedCall
  <2>2. IF Two THEN turn' = other /\ other' = turn ELSE turn' = turn /\ other' = other
    BY <1>2, <2>1, Lengths
  <2> QED
    BY <1>0, <2>1, <2>2 DEF Balance, Two, get_num_scaler_sessions
<1>3. CASE FilterLoses
  <2>1. /\ mode = "feed" /\ mode' = "feed" /\ count' = count /\ NextSession /\ faults' \in Nat
        /\ faults' < MaxFaults => faults' = faults + 1
    BY <1>a, <1>3 DEF FilterLoses, FeedCall
  <2>2. IF Two THEN turn' = other /\ other' = turn ELSE turn' = turn /\ other' = other
    BY <1>3, <2>1, Lengths
  <2> QED
    BY <1>0, <2>1, <2>2 DEF Balance, Two, get_num_scaler_sessions
<1>4. CASE FilterFails
  <2>1. mode' = "failed" /\ (~Two => other' = 0)
    <3> SUFFICES ASSUME ~Two PROVE other' = 0
      BY <1>4 DEF FilterFails
    <3>1. other' = Len(held'[1 - session_type]) /\ other = 0
      BY <1>4, Lengths DEF FilterFails, FeedCall, Balance
    <3>2. PICK h : h = Put(held, session_type, frames + 1)
      OBVIOUS
    <3>3. /\ h \in [Sessions -> Seq(Nat)] /\ h[session_type] # <<>>
          /\ h[1 - session_type] = held[1 - session_type]
      BY <1>0, <1>4, <3>2, FeedLanes, SessionType DEF FilterFails, FeedCall
    <3>4. Drop(h, session_type)[1 - session_type] = h[1 - session_type]
      BY <1>0, <3>3, DropLength, SessionType
    <3>5. held' = h \/ held' = Drop(h, session_type)
      BY <1>4, <3>2 DEF FilterFails
    <3> QED
      BY <3>1, <3>3, <3>4, <3>5 DEF other
  <2> QED
    BY <2>1 DEF Balance, Two, get_num_scaler_sessions
<1>5. CASE Rests
  <2>1. /\ turn' = turn /\ other' = other /\ count' = count /\ faults' \in Nat /\ faults' >= faults
        /\ \/ mode' = mode
           \/ mode = "feed" /\ mode' = "flush"
           \/ mode = "feed" /\ mode' = "done" /\ frames = 0
           \/ mode' \in {"failed", "crash"}
    <3>1. frames \in Nat
      BY <1>0 DEF Typed
    <3> QED
      BY <1>0, <1>a, <1>5, <3>1, Lengths DEF Rests
  <2>2. frames = 0 => turn = 0 /\ other = 0
    BY NoFramesHeld
  <2> QED
    BY <1>0, <2>1, <2>2 DEF Balance, Two, get_num_scaler_sessions
<1>6. CASE FlushSeesEnd
  <2>1. /\ mode = "flush" /\ count' = count + 1 /\ faults' = faults /\ NextSession /\ turn = 0
        /\ mode' = IF count + 1 = get_num_scaler_sessions THEN "done" ELSE "flush"
    BY <1>6, Lengths DEF FlushSeesEnd, FlushCall
  <2>2. IF Two THEN turn' = other /\ other' = 0 ELSE turn' = 0 /\ other' = other
    BY <1>6, <2>1, Lengths
  <2> QED
    BY <1>0, <2>1, <2>2 DEF Balance, Two, get_num_scaler_sessions
<1>7. CASE FlushGives
  <2>1. /\ mode = "flush" /\ count' = count /\ NextSession /\ turn > 0 /\ faults' \in Nat
        /\ faults' < MaxFaults => faults' \in {faults, faults + 1}
        /\ count < get_num_scaler_sessions
        /\ mode' = IF count = get_num_scaler_sessions THEN "done" ELSE "flush"
    BY <1>0, <1>a, <1>7, Lengths DEF FlushGives, FlushCall, GoesOn, Balance
  <2>2. IF Two THEN turn' = other /\ other' = turn - 1 ELSE turn' = turn - 1 /\ other' = other
    BY <1>7, <2>1, Lengths
  <2>3. mode' = "flush"
    BY <1>0, <2>1
  <2> QED
    BY <1>0, <2>1, <2>2, <2>3 DEF Balance, Two, get_num_scaler_sessions
<1>8. CASE FlushKeeps
  <2>1. /\ mode = "flush" /\ count' = count /\ NextSession /\ faults' \in Nat
        /\ faults' < MaxFaults => faults' = faults + 1
        /\ count < get_num_scaler_sessions
        /\ mode' = IF count = get_num_scaler_sessions THEN "done" ELSE "flush"
    BY <1>a, <1>8 DEF FlushKeeps, FlushCall, GoesOn, Balance
  <2>2. IF Two THEN turn' = other /\ other' = turn ELSE turn' = turn /\ other' = other
    BY <1>8, <2>1, Lengths
  <2>3. mode' = "flush"
    BY <1>0, <2>1
  <2> QED
    BY <1>0, <2>1, <2>2, <2>3 DEF Balance, Two, get_num_scaler_sessions
<1> QED
  BY <1>0, <1>1, <1>2, <1>3, <1>4, <1>5, <1>6, <1>7, <1>8, Calls

\* A session feeds the outputs that want its frames.
LEMMA FeedsWanted ==
  ASSUME FullFirst, NEW i \in Outputs, NEW f \in Nat, Rates[i] = "full" \/ f % 2 = 1
  PROVE  i <= session_nb_outputs(Class(f)) /\ i < Len(Rates) + 1
<1>1. i \in Nat /\ i <= Len(Rates) /\ i < Len(Rates) + 1
  BY OutputNumbers
<1>2. CASE Two /\ f % 2 = 0
  <2>1. f % 2 # 1
    BY <1>2
  <2> QED
    BY <1>1, <1>2, <2>1, FullOutputs DEF Class, session_nb_outputs, SC_SESSION_FULL_RATE, SC_SESSION_ALL_RATE
<1>3. CASE ~(Two /\ f % 2 = 0)
  BY <1>1, <1>3 DEF Class, session_nb_outputs, SC_SESSION_FULL_RATE, SC_SESSION_ALL_RATE
<1> QED
  BY <1>2, <1>3

\* A frame that leaves its session reaches all outputs that want it.
LEMMA DropOnTheWay ==
  ASSUME FullFirst, NEW h \in [Sessions -> Seq(Nat)], NEW o \in [Outputs -> Seq(Nat)], NEW n \in Nat,
         Lanes(h, o, n), OnTheWay(h, o, n), NEW s \in Sessions, h[s] # <<>>
  PROVE  OnTheWay(Drop(h, s), Spread(o, s, Len(Rates) + 1, Head(h[s])), n)
<1>1. PICK k \in Nat : k = Len(Rates) + 1
  BY OutputNumbers
<1> DEFINE g == Drop(h, s)
           p == Spread(o, s, k, Head(h[s]))
<1>2. /\ g \in [Sessions -> Seq(Nat)] /\ p \in [Outputs -> Seq(Nat)] /\ Lanes(g, p, n)
      /\ \A t \in Sessions : t # s => g[t] = h[t]
      /\ Head(h[s]) \in Nat /\ Elems(g[s]) = Elems(h[s]) \ {Head(h[s])}
      /\ \A i \in Outputs :
           Elems(p[i]) = IF i <= session_nb_outputs(s) /\ i < k
                         THEN Elems(o[i]) \cup {Head(h[s])} ELSE Elems(o[i])
  <2>1. Moved(h, o, n, s, k)
    BY DropLanes
  <2> QED
    BY <2>1 DEF Moved
<1> HIDE DEF g, p
<1>3. SUFFICES ASSUME NEW i \in Outputs, NEW f \in 1..n, Rates[i] = "full" \/ f % 2 = 1
               PROVE  f \in Elems(p[i]) \cup Elems(g[Class(f)])
  BY <1>1 DEF OnTheWay, g, p
<1>4. f \in Elems(o[i]) \cup Elems(h[Class(f)]) /\ f \in Nat
  BY <1>3 DEF OnTheWay
<1>5. CASE f \in Elems(o[i])
  BY <1>2, <1>5
<1>6. CASE f \in Elems(h[Class(f)]) /\ Class(f) # s
  BY <1>2, <1>6, SessionCount
<1>7. CASE f \in Elems(h[Class(f)]) /\ Class(f) = s
  <2>1. CASE f = Head(h[s])
    <3>1. i <= session_nb_outputs(s) /\ i < k
      BY <1>1, <1>3, <1>4, <1>7, FeedsWanted
    <3> QED
      BY <1>2, <2>1, <3>1
  <2>2. CASE f # Head(h[s])
    BY <1>2, <1>7, <2>2
  <2> QED
    BY <2>1, <2>2
<1> QED
  BY <1>4, <1>5, <1>6, <1>7

\* A new frame is on its way in the session it goes to.
LEMMA PutOnTheWay ==
  ASSUME LaneInv, mode = "feed", OnTheWay(held, out, frames)
  PROVE  OnTheWay(Put(held, session_type, frames + 1), out, frames + 1)
<1>1. PICK h : h = Put(held, session_type, frames + 1)
  OBVIOUS
<1>2. /\ h[session_type] = Queue /\ Elems(Queue) = Elems(held[session_type]) \cup {frames + 1}
      /\ \A t \in Sessions : t # session_type => h[t] = held[t]
  BY <1>1, FeedLanes
<1>3. session_type = Class(frames + 1) /\ frames \in Nat
  BY DEF LaneInv, Turns, Typed
<1>4. \A t \in Sessions : Elems(held[t]) \subseteq Elems(h[t])
  BY <1>2
<1>5. SUFFICES ASSUME NEW i \in Outputs, NEW f \in 1..(frames + 1), Rates[i] = "full" \/ f % 2 = 1
               PROVE  f \in Elems(out[i]) \cup Elems(h[Class(f)])
  BY <1>1 DEF OnTheWay
<1>6. CASE f \in 1..frames
  BY <1>4, <1>5, <1>6, SessionCount DEF OnTheWay
<1>7. CASE f = frames + 1
  BY <1>2, <1>3, <1>7
<1> QED
  BY <1>3, <1>6, <1>7

\* Without a fault no frame is lost.
LEMMA CompleteStep == FullFirst /\ LaneInv /\ Complete /\ [Next]_vars => Complete'
<1> SUFFICES ASSUME FullFirst, LaneInv, Complete, [Next]_vars, faults' = 0 PROVE Complete'
  BY DEF Complete
<1>0. /\ Typed /\ held \in [Sessions -> Seq(Nat)] /\ out \in [Outputs -> Seq(Nat)]
      /\ frames \in Nat /\ faults \in Nat /\ Lanes(held, out, frames) /\ session_type \in Sessions
  BY SessionType DEF LaneInv, Typed
<1>1. ~Fails
  BY <1>0, Counted
<1>2. CASE FilterTakes
  BY <1>2, PutOnTheWay DEF FilterTakes, FeedCall, Complete
<1>3. CASE FilterGives
  <2>1. PICK h : h = Put(held, session_type, frames + 1)
    OBVIOUS
  <2>2. /\ h \in [Sessions -> Seq(Nat)] /\ Lanes(h, out, frames + 1) /\ frames + 1 \in Nat
        /\ h[session_type] = Queue /\ h[session_type] # <<>>
    BY <1>0, <1>3, <2>1, FeedLanes DEF FilterGives, FeedCall
  <2>3. OnTheWay(h, out, frames + 1)
    BY <1>3, <2>1, PutOnTheWay DEF FilterGives, FeedCall, Complete
  <2>4. OnTheWay(Drop(h, session_type), Spread(out, session_type, Len(Rates) + 1, Head(h[session_type])),
                 frames + 1)
    BY <1>0, <2>2, <2>3, DropOnTheWay
  <2> QED
    BY <1>3, <2>1, <2>2, <2>4 DEF FilterGives, FeedCall, Complete
<1>4. CASE FlushGives
  <2>1. /\ faults' = faults /\ held[session_type] # <<>> /\ held' = Drop(held, session_type)
        /\ out' = Spread(out, session_type, Len(Rates) + 1, Head(held[session_type])) /\ frames' = frames
    BY <1>1, <1>4 DEF FlushGives, FlushCall
  <2>2. OnTheWay(Drop(held, session_type),
                 Spread(out, session_type, Len(Rates) + 1, Head(held[session_type])), frames)
    BY <1>0, <2>1, DropOnTheWay DEF Complete
  <2> QED
    BY <2>1, <2>2 DEF Complete
<1>5. CASE FlushSeesEnd
  BY <1>5 DEF FlushSeesEnd, FlushCall, Complete
<1>6. CASE Rests
  BY <1>1, <1>6 DEF Rests, Complete
<1>7. CASE FilterLoses \/ FilterFails \/ FlushKeeps
  BY <1>1, <1>7 DEF FilterLoses, FilterFails, FlushKeeps
<1> QED
  BY <1>0, <1>2, <1>3, <1>4, <1>5, <1>6, <1>7, Calls

\* The sessions are never further out of step than calls have failed, for any
\* number of calls that is counted.
THEOREM BalanceInvariant == Spec => []Balance
<1>1. Init => Balance
  <2> SUFFICES ASSUME Init PROVE Balance
    OBVIOUS
  <2>1. /\ held = [s \in Sessions |-> <<>>] /\ frames = 0 /\ faults = 0 /\ count = 0 /\ mode = "feed"
        /\ session_frame = 0
    BY DEF Init
  <2>2. session_type \in Sessions /\ 1 - session_type \in Sessions
    <3>1. 0 % 2 = 0
      OBVIOUS
    <3> QED
      BY <2>1, <3>1 DEF session_type, Sessions, SC_SESSION_ALL_RATE, SC_SESSION_FULL_RATE
  <2>3. turn = 0 /\ other = 0
    BY <2>1, <2>2 DEF turn, other
  <2> QED
    BY <2>1, <2>3, DepthAssumption DEF Balance
<1>2. LaneInv /\ Balance /\ [Next]_vars => Balance'
  BY BalanceStep
<1> QED
  BY <1>1, <1>2, LaneInvariant, PTL DEF Spec

\* When the flush loop ends it leaves no more frames in the sessions than calls
\* have failed (fewer than MaxFaults, which is any number), and if none has, every output got every frame it wants.
THEOREM FlushIsThorough == FullFirst => (Spec => []FlushLeavesFew)
<1> SUFFICES ASSUME FullFirst PROVE Spec => []FlushLeavesFew
  OBVIOUS
<1>1. Init => Complete
  BY DEF Init, Complete, OnTheWay
<1>2. LaneInv /\ Complete /\ [Next]_vars => Complete'
  BY CompleteStep
<1>3. LaneInv /\ Balance /\ Complete => FlushLeavesFew
  <2> SUFFICES ASSUME LaneInv, Balance, Complete, mode = "done", faults < MaxFaults
               PROVE  /\ Len(held[0]) + Len(held[1]) <= faults
                      /\ faults = 0 => \A i \in Outputs : Wanted(i) \subseteq Got(i)
    BY DEF FlushLeavesFew, SC_SESSION_ALL_RATE, SC_SESSION_FULL_RATE
  <2>1. /\ session_type \in {0, 1} /\ faults \in Nat /\ frames \in Nat
        /\ held \in [Sessions -> Seq(Nat)] /\ out \in [Outputs -> Seq(Nat)] /\ Sessions = {0, 1}
    BY SessionType DEF LaneInv, Typed, Sessions, SC_SESSION_ALL_RATE, SC_SESSION_FULL_RATE
  <2>2. Len(held[0]) \in Nat /\ Len(held[1]) \in Nat
    BY <2>1
  <2>3. \/ turn = Len(held[0]) /\ other = Len(held[1])
        \/ turn = Len(held[1]) /\ other = Len(held[0])
    BY <2>1 DEF turn, other
  <2>4. Len(held[0]) + Len(held[1]) <= faults
    BY <2>1, <2>2, <2>3 DEF Balance
  <2>5. ASSUME faults = 0, NEW i \in Outputs, NEW f \in Wanted(i) PROVE f \in Got(i)
    <3>1. Len(held[0]) = 0 /\ Len(held[1]) = 0
      <4>1. PICK a \in Nat, b \in Nat : a = Len(held[0]) /\ b = Len(held[1])
        BY <2>2
      <4>2. a + b <= 0
        BY <2>4, <2>5, <4>1
      <4>3. a = 0 /\ b = 0
        BY <4>2
      <4> QED
        BY <4>1, <4>3
    <3>2. Elems(held[0]) = {} /\ Elems(held[1]) = {}
      BY <3>1 DEF Elems
    <3>3. f \in Elems(out[i]) \cup Elems(held[Class(f)]) /\ Class(f) \in {0, 1}
      BY <2>1, <2>5, SessionCount DEF Complete, OnTheWay, Wanted
    <3>4. f \in Elems(out[i])
      BY <3>2, <3>3
    <3>5. DOMAIN out[i] = 1..Len(out[i])
      BY <2>1
    <3> QED
      BY <3>4, <3>5 DEF Got, Elems
  <2> QED
    BY <2>4, <2>5
<1> QED
  BY <1>1, <1>2, <1>3, LaneInvariant, BalanceInvariant, PTL DEF Spec

-----------------------------------------------------------------------------
(* The order of the frames.                                                *)

\* A session that holds every second frame still does when its oldest frame has
\* left, and when the second next has come.
LEMMA RunMoves ==
  ASSUME NEW q \in Seq(Nat), NEW l \in Int, Run(q, l)
  PROVE  /\ Run(Append(q, l + 2), l + 2)
         /\ q # <<>> => Run(Tail(q), l) /\ Head(q) = l - 2 * (Len(q) - 1)
         /\ \A f \in Elems(q) : f >= l - 2 * (Len(q) - 1)
<1>1. Len(q) \in Nat /\ \A k \in 1..Len(q) : q[k] = l - 2 * (Len(q) - k) /\ k \in Int /\ k >= 1
  BY DEF Run
<1>2. Run(Append(q, l + 2), l + 2)
  <2>1. /\ Len(Append(q, l + 2)) = Len(q) + 1 /\ Append(q, l + 2)[Len(q) + 1] = l + 2
        /\ \A k \in 1..Len(q) : Append(q, l + 2)[k] = q[k]
    OBVIOUS
  <2> SUFFICES ASSUME NEW k \in 1..(Len(q) + 1)
               PROVE  Append(q, l + 2)[k] = (l + 2) - 2 * ((Len(q) + 1) - k)
    BY <2>1 DEF Run
  <2>2. CASE k \in 1..Len(q)
    BY <1>1, <2>1, <2>2
  <2>3. CASE k = Len(q) + 1
    BY <1>1, <2>1, <2>3
  <2> QED
    BY <1>1, <2>2, <2>3
<1>3. ASSUME q # <<>> PROVE Run(Tail(q), l) /\ Head(q) = l - 2 * (Len(q) - 1)
  <2>1. /\ Len(Tail(q)) = Len(q) - 1 /\ Head(q) = q[1] /\ 1 \in 1..Len(q)
        /\ \A k \in 1..(Len(q) - 1) : Tail(q)[k] = q[k + 1] /\ k + 1 \in 1..Len(q) /\ k \in Int
    BY <1>3
  <2>2. ASSUME NEW k \in 1..(Len(q) - 1) PROVE Tail(q)[k] = l - 2 * ((Len(q) - 1) - k)
    <3>1. Tail(q)[k] = l - 2 * (Len(q) - (k + 1)) /\ k \in Int
      BY <1>1, <2>1
    <3> QED
      BY <1>1, <3>1
  <2> QED
    BY <1>1, <2>1, <2>2 DEF Run
<1>4. \A f \in Elems(q) : f >= l - 2 * (Len(q) - 1)
  <2> SUFFICES ASSUME NEW k \in 1..Len(q) PROVE q[k] >= l - 2 * (Len(q) - 1)
    BY DEF Elems
  <2> QED
    BY <1>1
<1> QED
  BY <1>2, <1>3, <1>4

\* no session holds an older frame than session s
Oldest(h, s) == \A t \in Sessions : \A f \in Elems(h[t]) : Head(h[s]) <= f

\* In a single session the first frame is the oldest.
LEMMA OneOldest ==
  ASSUME ~Two, NEW h \in [Sessions -> Seq(Nat)], NEW o, NEW n \in Nat, Lanes(h, o, n), h[0] # <<>>
  PROVE  Oldest(h, 0)
<1>1. Sessions = {0, 1} /\ h[0] \in Seq(Nat) /\ Ascending(h[0])
  BY DEF Lanes, Sessions, SC_SESSION_ALL_RATE, SC_SESSION_FULL_RATE
<1>2. /\ Head(h[0]) \in Nat /\ Elems(Tail(h[0])) = Elems(h[0]) \ {Head(h[0])}
      /\ \A e \in Elems(Tail(h[0])) : Head(h[0]) < e
  BY <1>1, TailAscending
<1>3. \A f \in Elems(h[0]) : f \in 1..n
  BY <1>1 DEF Lanes
<1>4. \A f \in Elems(h[0]) : Head(h[0]) <= f
  BY <1>2, <1>3
<1>5. \A f \in Elems(h[1]) : FALSE
  BY <1>1, SessionCount DEF Lanes
<1> QED
  BY <1>1, <1>4, <1>5 DEF Oldest

\* Of two sessions that hold every second frame, the one with the lower first.
LEMMA TwoOldest ==
  ASSUME NEW h \in [Sessions -> Seq(Nat)], NEW s \in Sessions, h[s] # <<>>,
         NEW l \in Int, Run(h[s], l), NEW m \in Int, Run(h[1 - s], m),
         l - 2 * (Len(h[s]) - 1) <= m - 2 * (Len(h[1 - s]) - 1)
  PROVE  Oldest(h, s)
<1>1. /\ s \in {0, 1} /\ 1 - s \in Sessions /\ \A t \in Sessions : t = s \/ t = 1 - s
  BY DEF Sessions, SC_SESSION_ALL_RATE, SC_SESSION_FULL_RATE
<1>2. h[s] \in Seq(Nat) /\ h[1 - s] \in Seq(Nat)
  BY <1>1
<1>3. /\ Head(h[s]) = l - 2 * (Len(h[s]) - 1)
      /\ \A f \in Elems(h[s]) : f >= l - 2 * (Len(h[s]) - 1)
  BY <1>2, RunMoves
<1>4. \A f \in Elems(h[1 - s]) : f >= m - 2 * (Len(h[1 - s]) - 1)
  BY <1>2, RunMoves
<1>5. /\ Len(h[s]) \in Nat /\ Len(h[1 - s]) \in Nat
      /\ \A t \in Sessions : \A f \in Elems(h[t]) : f \in Int
  BY <1>1, <1>2 DEF Elems
<1>6. \A f \in Elems(h[s]) : Head(h[s]) <= f
  BY <1>3, <1>5
<1>7. \A f \in Elems(h[1 - s]) : Head(h[s]) <= f
  BY <1>1, <1>3, <1>4, <1>5
<1> QED
  BY <1>1, <1>6, <1>7 DEF Oldest

\* A frame older than all others that leaves keeps the outputs in order.
LEMMA SpreadSorted ==
  ASSUME NEW h \in [Sessions -> Seq(Nat)], NEW o \in [Outputs -> Seq(Nat)], NEW n \in Nat,
         Lanes(h, o, n), Sorted(h, o), NEW s \in Sessions, h[s] # <<>>, Oldest(h, s), NEW k \in Nat
  PROVE  Sorted(Drop(h, s), Spread(o, s, k, Head(h[s])))
<1> DEFINE g == Drop(h, s)
           p == Spread(o, s, k, Head(h[s]))
<1>1. /\ \A t \in Sessions : t # s => g[t] = h[t]
      /\ Head(h[s]) \in Nat /\ Elems(g[s]) = Elems(h[s]) \ {Head(h[s])}
      /\ \A i \in Outputs :
           Elems(p[i]) = IF i <= session_nb_outputs(s) /\ i < k
                         THEN Elems(o[i]) \cup {Head(h[s])} ELSE Elems(o[i])
  <2>1. Moved(h, o, n, s, k)
    BY DropLanes
  <2> QED
    BY <2>1 DEF Moved
<1>2. \A i \in Outputs : p[i] = IF i <= session_nb_outputs(s) /\ i < k THEN Append(o[i], Head(h[s])) ELSE o[i]
  BY DEF Spread
<1> HIDE DEF g, p
<1>3. /\ Head(h[s]) \in Elems(h[s]) /\ Class(Head(h[s])) = s
      /\ \A t \in Sessions : \A f \in Elems(h[t]) : f \in Nat /\ Class(f) = t
  <2>1. h[s] \in Seq(Nat) /\ Ascending(h[s])
    BY DEF Lanes
  <2>2. Head(h[s]) \in Elems(h[s])
    BY <2>1, TailAscending
  <2> QED
    BY <2>2 DEF Lanes
<1>4. \A t \in Sessions : \A f \in Elems(g[t]) : f \in Elems(h[t]) /\ Head(h[s]) < f
  <2> SUFFICES ASSUME NEW t \in Sessions, NEW f \in Elems(g[t])
               PROVE  f \in Elems(h[t]) /\ Head(h[s]) < f
    OBVIOUS
  <2>1. f \in Elems(h[t]) /\ f # Head(h[s])
    <3>1. CASE t = s
      BY <1>1, <3>1
    <3>2. CASE t # s
      <4>1. f \in Elems(h[t])
        BY <1>1, <3>2
      <4> QED
        BY <1>3, <3>2, <4>1
    <3> QED
      BY <3>1, <3>2
  <2>2. Head(h[s]) <= f /\ f \in Nat
    BY <1>3, <2>1 DEF Oldest
  <2> QED
    BY <1>1, <2>1, <2>2
<1>5. ASSUME NEW i \in Outputs PROVE Ascending(p[i])
  <2>1. /\ o[i] \in Seq(Nat) /\ Ascending(o[i]) /\ \A e \in Elems(o[i]) : e < Head(h[s])
    BY <1>3, <1>5 DEF Sorted
  <2>2. Ascending(Append(o[i], Head(h[s])))
    BY <1>1, <2>1, AppendAscending
  <2> QED
    BY <1>2, <1>5, <2>1, <2>2
<1>6. ASSUME NEW i \in Outputs, NEW x \in Elems(p[i]), NEW t \in Sessions, NEW f \in Elems(g[t])
      PROVE  x < f
  <2>1. CASE x \in Elems(o[i])
    BY <1>4, <1>6, <2>1 DEF Sorted
  <2>2. CASE x = Head(h[s])
    BY <1>4, <1>6, <2>2
  <2> QED
    BY <1>1, <1>6, <2>1, <2>2
<1>7. Sorted(g, p)
  BY <1>5, <1>6 DEF Sorted
<1> QED
  BY <1>7 DEF g, p

\* A new frame is newer than those delivered.
LEMMA PutSorted ==
  ASSUME LaneInv, mode = "feed", Sorted(held, out)
  PROVE  Sorted(Put(held, session_type, frames + 1), out)
<1>1. PICK h : h = Put(held, session_type, frames + 1)
  OBVIOUS
<1>2. /\ h[session_type] = Queue /\ Elems(Queue) = Elems(held[session_type]) \cup {frames + 1}
      /\ \A t \in Sessions : t # session_type => h[t] = held[t]
  BY <1>1, FeedLanes
<1>3. /\ frames \in Nat /\ session_type \in Sessions
      /\ \A i \in Outputs : \A x \in Elems(out[i]) : x \in 1..frames
  BY SessionType DEF LaneInv, Typed, Lanes
<1>4. ASSUME NEW i \in Outputs, NEW x \in Elems(out[i]), NEW t \in Sessions, NEW f \in Elems(h[t])
      PROVE  x < f
  <2>1. f \in Elems(held[t]) \/ f = frames + 1
    BY <1>2, <1>4
  <2>2. x \in 1..frames
    BY <1>3, <1>4
  <2>3. CASE f \in Elems(held[t])
    BY <1>4, <2>3 DEF Sorted
  <2>4. CASE f = frames + 1
    BY <1>3, <2>2, <2>4
  <2> QED
    BY <2>1, <2>3, <2>4
<1>5. Sorted(h, out)
  BY <1>4 DEF Sorted
<1> QED
  BY <1>1, <1>5

\* A step that leaves the outputs in time has no fault, and was in time before.
LEMMA StillInTime ==
  ASSUME LaneInv, [Next]_vars, InTime'
  PROVE  /\ InTime /\ faults' = faults
         /\ \/ FilterTakes \/ FilterGives \/ FlushSeesEnd \/ FlushGives
            \/ /\ UNCHANGED <<held, out, frames, session_frame>>
               /\ \/ mode' = mode
                  \/ mode = "feed" /\ mode' = IF frames > 0 THEN "flush" ELSE "done"
<1>1. faults \in Nat /\ faults' = 0 /\ frames \in Nat /\ Typed
  BY DEF LaneInv, Typed, InTime
<1>2. ~Fails
  BY <1>1, Counted
<1>3. CASE FilterTakes
  BY <1>1, <1>3 DEF FilterTakes, FeedCall, InTime
<1>4. CASE FilterGives
  BY <1>1, <1>4 DEF FilterGives, FeedCall, InTime
<1>5. CASE FlushSeesEnd
  BY <1>1, <1>5 DEF FlushSeesEnd, FlushCall, InTime
<1>6. CASE FlushGives
  BY <1>1, <1>2, <1>6 DEF FlushGives, FlushCall, GoesOn, InTime
<1>7. CASE Rests
  BY <1>1, <1>2, <1>7 DEF Rests, InTime
<1>8. CASE FilterLoses \/ FilterFails \/ FlushKeeps
  BY <1>2, <1>8 DEF FilterLoses, FilterFails, FlushKeeps
<1> QED
  BY <1>1, <1>3, <1>4, <1>5, <1>6, <1>7, <1>8, Calls

\* The next frame goes to the session that did not get the last one.
LEMMA LastTurns ==
  ASSUME Two, NEW n \in Nat, NEW s, s = Class(n + 1)
  PROVE  /\ s \in {0, 1} /\ Class(n) = 1 - s /\ Class(n) # s
         /\ Last(s, n) = n - 1 /\ Last(s, n + 1) = n + 1
         /\ Last(1 - s, n) = n /\ Last(1 - s, n + 1) = n
<1>1. s \in {0, 1} /\ Class(n) \in {0, 1}
  BY SessionCount DEF Sessions, SC_SESSION_ALL_RATE, SC_SESSION_FULL_RATE
<1>2. s = 1 - Class(n)
  BY ClassTurns
<1>3. Class(n) = 1 - s /\ Class(n) # s /\ 1 - s # s
  BY <1>1, <1>2
<1> QED
  BY <1>1, <1>3 DEF Last

\* A frame that goes in, and one that comes out, of sessions in step.
LEMMA FeedRuns ==
  ASSUME LaneInv, Two, mode = "feed", \A s \in Sessions : Run(held[s], Last(s, frames)),
         NEW h, h = Put(held, session_type, frames + 1)
  PROVE  \A s \in Sessions : Run(h[s], Last(s, frames + 1))
<1>1. /\ frames \in Nat /\ session_type = Class(frames + 1) /\ session_type \in Sessions
      /\ held[session_type] \in Seq(Nat) /\ Sessions = {0, 1}
  BY SessionType DEF LaneInv, Typed, Turns, Sessions, SC_SESSION_ALL_RATE, SC_SESSION_FULL_RATE
<1>2. /\ h[session_type] = Append(held[session_type], frames + 1)
      /\ \A t \in Sessions : t # session_type => h[t] = held[t]
  BY FeedLanes DEF Queue
<1>3. /\ session_type \in {0, 1} /\ Last(session_type, frames) = frames - 1
      /\ Last(session_type, frames + 1) = frames + 1
      /\ Last(1 - session_type, frames) = frames /\ Last(1 - session_type, frames + 1) = frames
  BY <1>1, LastTurns
<1>4. Run(h[session_type], Last(session_type, frames + 1))
  <2>1. PICK l \in Int : l = frames - 1
    BY <1>1
  <2>2. Run(held[session_type], l) /\ l + 2 = frames + 1
    BY <1>1, <1>3, <2>1
  <2>3. Run(Append(held[session_type], l + 2), l + 2)
    BY <1>1, <2>2, RunMoves
  <2> QED
    BY <1>2, <1>3, <2>2, <2>3
<1>5. ASSUME NEW t \in Sessions, t # session_type PROVE Run(h[t], Last(t, frames + 1))
  <2>1. t = 1 - session_type
    BY <1>1, <1>3, <1>5
  <2>2. Last(t, frames + 1) = Last(t, frames)
    BY <1>3, <2>1
  <2> QED
    BY <1>2, <1>5, <2>2
<1> QED
  BY <1>4, <1>5

\* The frames left are every second one still.
LEMMA DropRuns ==
  ASSUME NEW h \in [Sessions -> Seq(Nat)], NEW n \in Nat, \A s \in Sessions : Run(h[s], Last(s, n)),
         NEW t \in Sessions, h[t] # <<>>
  PROVE  \A s \in Sessions : Run(Drop(h, t)[s], Last(s, n))
<1>1. Drop(h, t)[t] = Tail(h[t]) /\ \A s \in Sessions : s # t => Drop(h, t)[s] = h[s]
  BY DropLength
<1>2. PICK l \in Int : l = Last(t, n)
  BY DEF Last
<1>3. h[t] \in Seq(Nat) /\ Run(h[t], l)
  BY <1>2
<1>4. Run(Tail(h[t]), l)
  BY <1>3, RunMoves
<1> QED
  BY <1>1, <1>2, <1>4

\* While frames come in, one comes out only when both pipelines are full; it is
\* the oldest.
LEMMA FeedOldest ==
  ASSUME LaneInv, Balance, InStep, InTime, [Next]_vars, FilterGives,
         NEW h, h = Put(held, session_type, frames + 1)
  PROVE  /\ Oldest(h, session_type)
         /\ Two => turn = Depth /\ other = Depth
<1>1. /\ mode = "feed" /\ frames \in Nat /\ Typed /\ session_type \in Sessions /\ session_type \in {0, 1}
      /\ 1 - session_type \in Sessions /\ session_type # 1 - session_type
      /\ ~Two => session_type = 0
  BY SessionType DEF LaneInv, Typed, FilterGives, FeedCall
<1>2. /\ h \in [Sessions -> Seq(Nat)] /\ Lanes(h, out, frames + 1) /\ h[session_type] # <<>>
      /\ Len(h[session_type]) = turn + 1 /\ h[1 - session_type] = held[1 - session_type]
      /\ Len(h[1 - session_type]) = other
  BY <1>1, FeedLanes DEF turn, other
<1>3. CASE ~Two
  <2>1. h[0] # <<>> /\ frames + 1 \in Nat
    BY <1>1, <1>2, <1>3
  <2>2. Oldest(h, 0)
    BY <1>2, <1>3, <2>1, OneOldest
  <2> QED
    BY <1>1, <1>3, <2>2
<1>4. CASE Two
  <2>1. turn \in Nat /\ other \in Nat /\ Depth \in Nat /\ turn + 1 > Depth
    BY Lengths, DepthAssumption
  <2>2. turn <= Depth /\ other <= Depth
    BY <1>1 DEF Balance
  <2>3. Phase(mode, frames, session_type, turn, other) /\ \A s \in Sessions : Run(held[s], Last(s, frames))
    BY <1>4 DEF InStep
  <2>4. turn = Depth /\ other = Depth
    BY <1>1, <2>1, <2>2, <2>3 DEF Phase
  <2>5. \A s \in Sessions : Run(h[s], Last(s, frames + 1))
    BY <1>1, <1>4, <2>3, FeedRuns
  <2>6. Last(session_type, frames + 1) = frames + 1 /\ Last(1 - session_type, frames + 1) = frames
    <3>1. session_type = Class(frames + 1)
      BY <1>1 DEF LaneInv, Turns
    <3> QED
      BY <1>1, <1>4, <3>1, LastTurns
  <2>7. PICK l \in Int, m \in Int : l = frames + 1 /\ m = frames
    BY <1>1
  <2>8. Run(h[session_type], l) /\ Run(h[1 - session_type], m)
    BY <1>1, <2>5, <2>6, <2>7
  <2>9. l - 2 * (Len(h[session_type]) - 1) <= m - 2 * (Len(h[1 - session_type]) - 1)
    <3>1. Len(h[session_type]) = Depth + 1 /\ Len(h[1 - session_type]) = Depth
      BY <1>2, <2>4
    <3>2. (frames + 1) - 2 * ((Depth + 1) - 1) <= frames - 2 * (Depth - 1)
      BY <1>1, <2>1
    <3> QED
      BY <2>7, <3>1, <3>2
  <2>10. Oldest(h, session_type)
    BY <1>1, <1>2, <2>8, <2>9, TwoOldest
  <2> QED
    BY <2>4, <2>10
<1> QED
  BY <1>3, <1>4

\* In the flush too the frame that comes out is the oldest.
LEMMA FlushOldest ==
  ASSUME LaneInv, InStep, InTime, [Next]_vars, FlushGives
  PROVE  Oldest(held, session_type)
<1>1. /\ mode = "flush" /\ frames \in Nat /\ session_type \in Sessions /\ session_type \in {0, 1}
      /\ 1 - session_type \in Sessions /\ session_type # 1 - session_type
      /\ ~Two => session_type = 0
      /\ held \in [Sessions -> Seq(Nat)] /\ Lanes(held, out, frames) /\ held[session_type] # <<>>
  BY SessionType DEF LaneInv, Typed, FlushGives, FlushCall
<1>2. CASE ~Two
  <2>1. Oldest(held, 0)
    BY <1>1, <1>2, OneOldest
  <2> QED
    BY <1>1, <1>2, <2>1
<1>3. CASE Two
  <2>1. turn \in Nat /\ other \in Nat /\ turn > 0
    BY Lengths
  <2>2. Phase(mode, frames, session_type, turn, other) /\ \A s \in Sessions : Run(held[s], Last(s, frames))
    BY <1>3 DEF InStep
  <2>3. Class(frames) \in {0, 1}
    BY SessionCount DEF Sessions, SC_SESSION_ALL_RATE, SC_SESSION_FULL_RATE
  <2>4. PICK l \in Int, m \in Int : l = Last(session_type, frames) /\ m = Last(1 - session_type, frames)
    BY <1>1 DEF Last
  <2>5. Run(held[session_type], l) /\ Run(held[1 - session_type], m)
    BY <1>1, <2>2, <2>4
  <2>6. Len(held[session_type]) = turn /\ Len(held[1 - session_type]) = other
    BY DEF turn, other
  <2>7. CASE session_type # Class(frames) /\ turn = other
    <3>1. l = frames - 1 /\ m = frames
      BY <1>1, <2>3, <2>4, <2>7 DEF Last
    <3>2. l - 2 * (Len(held[session_type]) - 1) <= m - 2 * (Len(held[1 - session_type]) - 1)
      BY <1>1, <2>1, <2>6, <2>7, <3>1
    <3> QED
      BY <1>1, <2>5, <3>2, TwoOldest
  <2>8. CASE session_type = Class(frames) /\ turn = other + 1
    <3>1. l = frames /\ m = frames - 1
      BY <1>1, <2>4, <2>8 DEF Last
    <3>2. l - 2 * (Len(held[session_type]) - 1) <= m - 2 * (Len(held[1 - session_type]) - 1)
      BY <1>1, <2>1, <2>6, <2>8, <3>1
    <3> QED
      BY <1>1, <2>5, <3>2, TwoOldest
  <2> QED
    BY <1>1, <2>1, <2>2, <2>7, <2>8 DEF Phase
<1> QED
  BY <1>2, <1>3

\* The sessions stay in step.
LEMMA InStepStep == LaneInv /\ Balance /\ InStep /\ [Next]_vars => InStep'
<1> SUFFICES ASSUME LaneInv, Balance, InStep, [Next]_vars, InTime', Two
             PROVE  /\ \A s \in Sessions : Run(held'[s], Last(s, frames'))
                    /\ Phase(mode', frames', session_type', turn', other')
  BY DEF InStep, Two, get_num_scaler_sessions
<1>1. /\ frames \in Nat /\ Typed /\ held \in [Sessions -> Seq(Nat)] /\ session_type \in Sessions
      /\ session_type \in {0, 1} /\ Depth \in Nat /\ turn \in Nat /\ other \in Nat
      /\ Class(frames) \in {0, 1}
  BY SessionType, SessionCount, DepthAssumption, Lengths
     DEF LaneInv, Typed, Sessions, SC_SESSION_ALL_RATE, SC_SESSION_FULL_RATE
<1>2. /\ InTime /\ \A s \in Sessions : Run(held[s], Last(s, frames))
      /\ Phase(mode, frames, session_type, turn, other)
  BY StillInTime DEF InStep
<1>3. mode = "feed" => turn <= Depth /\ other <= Depth
  BY DEF Balance
<1>4. NextSession => session_type' = 1 - session_type
  BY <1>1, TurnPasses
<1>5. CASE FilterTakes
  <2>1. mode = "feed" /\ mode' = "feed" /\ frames' = frames + 1 /\ NextSession
    BY <1>5 DEF FilterTakes, FeedCall
  <2>2. turn' = other /\ other' = turn + 1 /\ turn + 1 <= Depth
    BY <1>5, <2>1, Lengths
  <2>3. held' = Put(held, session_type, frames + 1)
    BY <1>5 DEF FilterTakes
  <2>4. \A s \in Sessions : Run(held'[s], Last(s, frames'))
    BY <1>2, <2>1, <2>3, FeedRuns
  <2>5. Phase(mode', frames', session_type', turn', other')
    BY <1>1, <1>2, <2>1, <2>2 DEF Phase
  <2> QED
    BY <2>4, <2>5
<1>6. CASE FilterGives
  <2>1. /\ mode = "feed" /\ mode' = "feed" /\ frames' = frames + 1 /\ NextSession
    BY <1>6 DEF FilterGives, FeedCall
  <2>2. turn' = other /\ other' = turn
    BY <1>6, <2>1, Lengths
  <2>3. PICK h : h = Put(held, session_type, frames + 1)
    OBVIOUS
  <2>4. turn = Depth /\ other = Depth
    BY <1>2, <1>6, <2>3, FeedOldest
  <2>5. \A s \in Sessions : Run(h[s], Last(s, frames + 1))
    BY <1>2, <2>1, <2>3, FeedRuns
  <2>6. /\ h \in [Sessions -> Seq(Nat)] /\ h[session_type] # <<>> /\ frames + 1 \in Nat
        /\ held' = Drop(h, session_type)
    BY <1>1, <1>6, <2>1, <2>3, FeedLanes DEF FilterGives
  <2>7. \A s \in Sessions : Run(held'[s], Last(s, frames'))
    BY <1>1, <2>1, <2>5, <2>6, DropRuns
  <2>8. Phase(mode', frames', session_type', turn', other')
    BY <2>1, <2>2, <2>4 DEF Phase
  <2> QED
    BY <2>7, <2>8
<1>7. CASE FlushGives
  <2>1. /\ mode = "flush" /\ mode' \in {"flush", "done"} /\ frames' = frames /\ NextSession
        /\ held' = Drop(held, session_type) /\ held[session_type] # <<>>
    BY <1>7 DEF FlushGives, FlushCall, GoesOn
  <2>2. turn' = other /\ other' = turn - 1 /\ turn > 0
    BY <1>7, <2>1, Lengths
  <2>3. \A s \in Sessions : Run(held'[s], Last(s, frames'))
    BY <1>1, <1>2, <2>1, DropRuns
  <2>4. session_type' = 1 - session_type
    BY <1>4, <2>1
  <2>5. Phase(mode', frames', session_type', turn', other')
    BY <1>1, <1>2, <2>1, <2>2, <2>4 DEF Phase
  <2> QED
    BY <2>3, <2>5
<1>8. CASE FlushSeesEnd
  <2>1. mode = "flush" /\ mode' \in {"flush", "done"} /\ frames' = frames /\ NextSession /\ held' = held
    BY <1>8 DEF FlushSeesEnd, FlushCall
  <2>2. turn' = other /\ other' = 0 /\ turn = 0
    BY <1>8, <2>1, Lengths
  <2>3. Phase(mode', frames', session_type', turn', other')
    BY <1>1, <1>2, <2>1, <2>2 DEF Phase
  <2> QED
    BY <1>2, <2>1, <2>3
<1>9. CASE /\ UNCHANGED <<held, out, frames, session_frame>>
           /\ \/ mode' = mode
              \/ mode = "feed" /\ mode' = IF frames > 0 THEN "flush" ELSE "done"
  <2>1. session_type' = session_type /\ turn' = turn /\ other' = other /\ held' = held /\ frames' = frames
    BY <1>9 DEF session_type, turn, other, get_num_scaler_sessions
  <2>2. CASE mode' = mode
    BY <1>2, <2>1, <2>2
  <2>3. CASE mode = "feed" /\ mode' \in {"flush", "done"}
    <3>1. session_type # Class(frames)
      <4>1. session_type = Class(frames + 1)
        BY <2>3 DEF LaneInv, Turns
      <4> QED
        BY <1>1, <4>1, LastTurns
    <3>2. frames % 2 = 0 \/ frames > 2 * Depth
      BY <2>1, <2>3 DEF InTime
    <3>3. turn = other
      <4> SUFFICES ASSUME other = turn + 1, frames = 2 * turn + 1 PROVE FALSE
        BY <1>2, <2>3 DEF Phase
      <4>1. frames <= 2 * Depth
        BY <1>1, <1>3, <2>3
      <4>2. (2 * turn + 1) % 2 = 1
        BY <1>1
      <4> QED
        BY <1>1, <3>2, <4>1, <4>2
    <3> QED
      BY <1>2, <2>1, <2>3, <3>1, <3>3 DEF Phase
  <2> QED
    BY <1>9, <2>2, <2>3
<1> QED
  BY <1>5, <1>6, <1>7, <1>8, <1>9, StillInTime

\* The outputs stay in order.
LEMMA InOrderStep == LaneInv /\ Balance /\ InStep /\ InOrder /\ [Next]_vars => InOrder'
<1> SUFFICES ASSUME LaneInv, Balance, InStep, InOrder, [Next]_vars, InTime'
             PROVE  Sorted(held', out')
  BY DEF InOrder
<1>1. /\ InTime /\ Sorted(held, out) /\ faults' = faults /\ faults \in Nat
      /\ held \in [Sessions -> Seq(Nat)] /\ out \in [Outputs -> Seq(Nat)] /\ frames \in Nat
      /\ Lanes(held, out, frames) /\ session_type \in Sessions /\ Len(Rates) + 1 \in Nat
  BY StillInTime, SessionType, OutputNumbers DEF InOrder, LaneInv, Typed
<1>a. ~Fails
  BY <1>1, Counted DEF InTime
<1>2. CASE FilterTakes
  BY <1>1, <1>2, PutSorted DEF FilterTakes, FeedCall
<1>3. CASE FilterGives
  <2>1. PICK h : h = Put(held, session_type, frames + 1)
    OBVIOUS
  <2>2. /\ h \in [Sessions -> Seq(Nat)] /\ Lanes(h, out, frames + 1) /\ frames + 1 \in Nat
        /\ h[session_type] = Queue /\ h[session_type] # <<>> /\ Sorted(h, out)
    BY <1>1, <1>3, <2>1, FeedLanes, PutSorted DEF FilterGives, FeedCall
  <2>3. Oldest(h, session_type)
    BY <1>1, <1>3, <2>1, FeedOldest
  <2>4. Sorted(Drop(h, session_type), Spread(out, session_type, Len(Rates) + 1, Head(h[session_type])))
    BY <1>1, <2>2, <2>3, SpreadSorted
  <2> QED
    BY <1>3, <2>1, <2>2, <2>4 DEF FilterGives
<1>4. CASE FlushGives
  <2>1. /\ held[session_type] # <<>> /\ held' = Drop(held, session_type)
        /\ out' = Spread(out, session_type, Len(Rates) + 1, Head(held[session_type]))
    BY <1>1, <1>4, <1>a DEF FlushGives
  <2>2. Oldest(held, session_type)
    BY <1>1, <1>4, FlushOldest
  <2>3. Sorted(Drop(held, session_type), Spread(out, session_type, Len(Rates) + 1, Head(held[session_type])))
    BY <1>1, <2>1, <2>2, SpreadSorted
  <2> QED
    BY <2>1, <2>3
<1>5. CASE UNCHANGED <<held, out>>
  BY <1>1, <1>5
<1> QED
  BY <1>2, <1>3, <1>4, <1>5, StillInTime DEF FlushSeesEnd

\* No output gets its frames out of order, though they come from two pipelines:
\* the one whose turn it is holds the oldest, while frames come in and in a flush
\* that starts with both equally long.
THEOREM FramesInOrder == Spec => []OutputsInOrder
<1>1. Init => InStep /\ InOrder
  <2> SUFFICES ASSUME Init PROVE InStep /\ InOrder
    OBVIOUS
  <2>1. /\ held = [s \in Sessions |-> <<>>] /\ out = [i \in Outputs |-> <<>>] /\ frames = 0 /\ mode = "feed"
        /\ session_frame = 0
    BY DEF Init
  <2>2. session_type \in Sessions /\ 1 - session_type \in Sessions
    <3>1. 0 % 2 = 0
      OBVIOUS
    <3> QED
      BY <2>1, <3>1 DEF session_type, Sessions, SC_SESSION_ALL_RATE, SC_SESSION_FULL_RATE
  <2>3. turn = 0 /\ other = 0
    BY <2>1, <2>2 DEF turn, other
  <2>4. InStep
    <3>1. \A s \in Sessions : Run(held[s], Last(s, frames))
      BY <2>1 DEF Run
    <3>2. Phase(mode, frames, session_type, turn, other)
      BY <2>1, <2>3 DEF Phase
    <3> QED
      BY <3>1, <3>2 DEF InStep
  <2>5. InOrder
    BY <2>1, EmptyAscending DEF InOrder, Sorted
  <2> QED
    BY <2>4, <2>5
<1>2. LaneInv /\ Balance /\ InStep /\ InOrder /\ [Next]_vars => InStep' /\ InOrder'
  BY InStepStep, InOrderStep
<1>3. LaneInv /\ InOrder => OutputsInOrder
  <2> SUFFICES ASSUME LaneInv, InOrder, InTime, NEW i \in Outputs PROVE Increasing(out[i])
    BY DEF OutputsInOrder, InTime
  <2>1. out[i] \in Seq(Nat) /\ Ascending(out[i])
    BY DEF InOrder, Sorted, LaneInv, Typed
  <2>2. DOMAIN out[i] = 1..Len(out[i])
    BY <2>1
  <2> QED
    BY <2>1, <2>2 DEF Ascending, Increasing
<1> QED
  BY <1>1, <1>2, <1>3, LaneInvariant, BalanceInvariant, PTL DEF Spec

-----------------------------------------------------------------------------
(* The type invariant.                                                     *)

Bounds ==
  /\ frames \in 0..MaxFrames /\ faults \in 0..MaxFaults
  /\ send_status \in {"XMA_SUCCESS", "XMA_SEND_MORE_DATA", "XMA_FLUSH_AGAIN", "XMA_EOS", "XMA_ERROR"}
  /\ count \in 0..get_num_scaler_sessions /\ (mode # "done" => count < get_num_scaler_sessions)

\* The flush loop ends before it could count too many sessions.
LEMMA BoundsStep == Bounds /\ [Next]_vars => Bounds'
<1> SUFFICES ASSUME Bounds, [Next]_vars PROVE Bounds'
  OBVIOUS
<1>0. /\ MaxFrames \in Nat /\ MaxFaults \in Nat /\ get_num_scaler_sessions \in {1, 2}
      /\ frames \in 0..MaxFrames /\ faults \in 0..MaxFaults
  BY BoundAssumption DEF Bounds, get_num_scaler_sessions
<1>1. PICK n \in {1, 2} : n = get_num_scaler_sessions /\ n = get_num_scaler_sessions'
  BY <1>0 DEF get_num_scaler_sessions
<1>2. ASSUME NEW status \in {"XMA_FLUSH_AGAIN", "XMA_EOS", "XMA_ERROR"}, Looped(status), mode = "flush"
      PROVE  /\ count' \in 0..n /\ (mode' # "done" => count' < n)
             /\ send_status' \in {"XMA_FLUSH_AGAIN", "XMA_EOS", "XMA_ERROR"}
  BY <1>1, <1>2 DEF Looped, Bounds
<1>3. CASE multiscale_xma_filter_frame
  BY <1>0, <1>1, <1>3 DEF multiscale_xma_filter_frame, FilterFrame, FilterFrameSendError,
     FilterFrameRecvError, Fails, Bounds
<1>4. CASE FlushStart \/ FlushStartError \/ Finished \/ UNCHANGED vars
  BY <1>0, <1>1, <1>4 DEF FlushStart, FlushStartError, Finished, Fails, vars, Bounds
<1>5. CASE FlushFrame
  BY <1>0, <1>1, <1>2, <1>5 DEF FlushFrame, Bounds
<1>6. CASE FlushFrameSendError
  BY <1>0, <1>1, <1>2, <1>6 DEF FlushFrameSendError, Fails, Bounds
<1>7. CASE FlushFrameRecvError
  BY <1>0, <1>1, <1>2, <1>7 DEF FlushFrameRecvError, Fails, Bounds
<1> QED
  BY <1>3, <1>4, <1>5, <1>6, <1>7 DEF Next, xma_multiscaler_filter_flush

\* Frames that are all in a set.
LEMMA SeqOfElems ==
  ASSUME NEW S, NEW q \in Seq(Nat), \A f \in Elems(q) : f \in S
  PROVE  q \in Seq(S)
<1>1. \A k \in 1..Len(q) : q[k] \in S
  BY DEF Elems
<1>2. PICK n \in Nat : n = Len(q) /\ q = [k \in 1..n |-> q[k]]
  OBVIOUS
<1>3. q \in [1..n -> S]
  BY <1>1, <1>2
<1>4. q \in UNION {[1..m -> S] : m \in Nat}
  BY <1>3
<1> QED
  BY <1>4, SeqDef, Zenon

\* The loop counts the ends of sessions, never more than there are sessions, and
\* the frames held and delivered are frames that were received.
THEOREM TypeCorrect == Spec => []TypeOK
<1>1. Init => Bounds
  BY BoundAssumption DEF Init, Bounds, get_num_scaler_sessions
<1>2. Bounds /\ [Next]_vars => Bounds'
  BY BoundsStep
<1>3. LaneInv /\ Bounds => TypeOK
  <2> SUFFICES ASSUME LaneInv, Bounds PROVE TypeOK
    OBVIOUS
  <2>1. /\ mode \in {"feed", "flush", "done", "failed", "crash"} /\ session_frame \in 0..1
        /\ held \in [Sessions -> Seq(Nat)] /\ out \in [Outputs -> Seq(Nat)]
    BY DEF LaneInv, Typed
  <2>2. ASSUME NEW s \in Sessions PROVE held[s] \in Seq(1..frames)
    <3>1. held[s] \in Seq(Nat) /\ \A f \in Elems(held[s]) : f \in 1..frames
      BY <2>1, <2>2 DEF LaneInv, Lanes
    <3> QED
      BY <3>1, SeqOfElems
  <2>3. ASSUME NEW i \in Outputs PROVE out[i] \in Seq(1..frames)
    <3>1. out[i] \in Seq(Nat) /\ \A f \in Elems(out[i]) : f \in 1..frames
      BY <2>1, <2>3 DEF LaneInv, Lanes
    <3> QED
      BY <3>1, SeqOfElems
  <2>4. held \in [Sessions -> Seq(1..frames)] /\ out \in [Outputs -> Seq(1..frames)]
    BY <2>1, <2>2, <2>3
  <2> QED
    BY <2>1, <2>4 DEF TypeOK, Bounds
<1> QED
  BY <1>1, <1>2, <1>3, LaneInvariant, PTL DEF Spec
=============================================================================
