----------------------------- MODULE AscendingFrames ------------------------
(***************************************************************************)
(* Sequences of numbers in ascending order: the frames a device holds,     *)
(* oldest first.  A frame enters at the end and leaves at the front.       *)
(***************************************************************************)
EXTENDS Integers, Sequences, TLAPS

Elems(s) == {s[i] : i \in 1..Len(s)}
Ascending(s) == \A i, j \in 1..Len(s) : i < j => s[i] < s[j]

\* A frame newer than all of them goes to the end of the frames.
LEMMA AppendAscending ==
  ASSUME NEW s \in Seq(Nat), Ascending(s), NEW x \in Nat, \A e \in Elems(s) : e < x
  PROVE  /\ Append(s, x) \in Seq(Nat) /\ Ascending(Append(s, x))
         /\ Elems(Append(s, x)) = Elems(s) \cup {x} /\ Len(Append(s, x)) = Len(s) + 1
         /\ Append(s, x) # <<>> /\ Len(s) \in Nat
<1>1. /\ Len(Append(s, x)) = Len(s) + 1 /\ Len(s) \in Nat /\ Append(s, x) \in Seq(Nat)
      /\ \A i \in 1..Len(s) : Append(s, x)[i] = s[i] /\ s[i] \in Elems(s)
      /\ Append(s, x)[Len(s) + 1] = x
  BY DEF Elems
<1>2. Ascending(Append(s, x))
  <2> SUFFICES ASSUME NEW i \in 1..(Len(s) + 1), NEW j \in 1..(Len(s) + 1), i < j
               PROVE  Append(s, x)[i] < Append(s, x)[j]
    BY <1>1 DEF Ascending
  <2>1. CASE j \in 1..Len(s)
    BY <1>1, <2>1 DEF Ascending
  <2>2. CASE j = Len(s) + 1
    BY <1>1, <2>2
  <2> QED
    BY <1>1, <2>1, <2>2
<1>3. Elems(Append(s, x)) = Elems(s) \cup {x}
  <2>1. \A e : e \in Elems(Append(s, x)) => e \in Elems(s) \cup {x}
    BY <1>1 DEF Elems
  <2>2. \A e : e \in Elems(s) => e \in Elems(Append(s, x))
    BY <1>1 DEF Elems
  <2>3. x \in Elems(Append(s, x))
    BY <1>1 DEF Elems
  <2> QED
    BY <2>1, <2>2, <2>3
<1> QED
  BY <1>1, <1>2, <1>3

\* The oldest frame leaves.
LEMMA TailAscending ==
  ASSUME NEW s \in Seq(Nat), Ascending(s), s # <<>>
  PROVE  /\ Tail(s) \in Seq(Nat) /\ Ascending(Tail(s)) /\ Len(Tail(s)) = Len(s) - 1
         /\ Head(s) \in Elems(s) /\ Head(s) \in Nat /\ Len(s) \in Nat \ {0}
         /\ Elems(Tail(s)) = Elems(s) \ {Head(s)}
         /\ \A e \in Elems(Tail(s)) : Head(s) < e
<1>1. /\ Tail(s) \in Seq(Nat) /\ Len(Tail(s)) = Len(s) - 1 /\ Len(s) \in Nat \ {0}
      /\ \A i \in 1..Len(Tail(s)) : Tail(s)[i] = s[i + 1] /\ i + 1 \in 1..Len(s)
      /\ Head(s) = s[1] /\ 1 \in 1..Len(s) /\ s[1] \in Nat
  OBVIOUS
<1>2. Ascending(Tail(s))
  <2> SUFFICES ASSUME NEW i \in 1..Len(Tail(s)), NEW j \in 1..Len(Tail(s)), i < j
               PROVE  Tail(s)[i] < Tail(s)[j]
    BY DEF Ascending
  <2>1. i + 1 < j + 1
    BY <1>1
  <2> QED
    BY <1>1, <2>1 DEF Ascending
<1>3. \A e \in Elems(Tail(s)) : Head(s) < e /\ e \in Elems(s) /\ e \in Nat
  <2> SUFFICES ASSUME NEW i \in 1..Len(Tail(s))
               PROVE  Head(s) < Tail(s)[i] /\ Tail(s)[i] \in Elems(s) /\ Tail(s)[i] \in Nat
    BY DEF Elems
  <2>1. 1 < i + 1
    BY <1>1
  <2> QED
    BY <1>1, <2>1 DEF Ascending, Elems
<1>4. \A e \in Elems(s) : e # Head(s) => e \in Elems(Tail(s))
  <2> SUFFICES ASSUME NEW i \in 1..Len(s), s[i] # Head(s)
               PROVE  s[i] \in Elems(Tail(s))
    BY DEF Elems
  <2>1. i - 1 \in 1..Len(Tail(s)) /\ (i - 1) + 1 = i
    BY <1>1
  <2>2. Tail(s)[i - 1] = s[i]
    BY <1>1, <2>1
  <2> QED
    BY <2>1, <2>2 DEF Elems
<1>5. Elems(Tail(s)) = Elems(s) \ {Head(s)}
  BY <1>1, <1>3, <1>4
<1>6. Head(s) \in Elems(s)
  BY <1>1 DEF Elems
<1> QED
  BY <1>1, <1>2, <1>3, <1>5, <1>6

\* Nothing is in an empty sequence.
LEMMA EmptyAscending ==
  /\ <<>> \in Seq(Nat) /\ Len(<<>>) = 0 /\ Ascending(<<>>) /\ Elems(<<>>) = {}
BY DEF Ascending, Elems
=============================================================================
