------------------------- MODULE WeightMinimProofs --------------------------
(***************************************************************************)
(* minim_weights.py implements Greedy, for any number of weight lines, and *)
(* what Greedy promises holds of its output: an item that was needed when  *)
(* it was tried is still needed when others have been removed, so that one *)
(* pass is enough.                                                         *)
(***************************************************************************)
EXTENDS WeightMinim, SequenceTheorems, TLAPS

Places == Seq(Nat)

Increasing(list) == \A j, k \in 1..Len(list) : j < k => list[j] < list[k]

-----------------------------------------------------------------------------
(***************************************************************************)
(* What leaving out one line does to a list.                               *)
(***************************************************************************)

\* The elements before the place stay where they are, those after it move up.
LEMMA WithoutElements ==
  ASSUME NEW list \in Places, NEW j \in Nat, j < Len(list)
  PROVE  /\ Without(list, j) \in Places
         /\ Len(Without(list, j)) = Len(list) - 1
         /\ \A k \in 1..(Len(list) - 1) :
               Without(list, j)[k] = IF k <= j THEN list[k] ELSE list[k + 1]
<1> DEFINE front == SubSeq(list, 1, j)
           back  == SubSeq(list, j + 2, Len(list))
<1>0. Len(list) \in Nat /\ \A k \in 1..Len(list) : list[k] \in Nat
  BY DEF Places
<1>1. /\ front \in Seq(Nat)
      /\ Len(front) = j
      /\ \A k \in 1..j : front[k] = list[k]
  <2>1. \A k \in 1..j : list[k] \in Nat
    BY <1>0
  <2> QED
    BY <2>1, SubSeqProperties
<1>2. /\ back \in Seq(Nat)
      /\ Len(back) = Len(list) - j - 1
      /\ \A k \in 1..(Len(list) - j - 1) : back[k] = list[j + 1 + k]
  <2>1. \A k \in (j + 2)..Len(list) : list[k] \in Nat
    BY <1>0
  <2>2. /\ back \in Seq(Nat)
        /\ Len(back) = IF j + 2 <= Len(list) THEN Len(list) - (j + 2) + 1 ELSE 0
        /\ \A k \in 1..(Len(list) - (j + 2) + 1) : back[k] = list[(j + 2) + k - 1]
    BY <2>1, <1>0, SubSeqProperties
  <2> QED
    BY <2>2, <1>0
<1>3. /\ front \o back \in Seq(Nat)
      /\ Len(front \o back) = Len(front) + Len(back)
      /\ \A k \in 1..(Len(front) + Len(back)) :
            (front \o back)[k] = IF k <= Len(front) THEN front[k]
                                 ELSE back[k - Len(front)]
  BY <1>1, <1>2, ConcatProperties
<1>4. Without(list, j) = front \o back
  BY DEF Without
<1> HIDE DEF front, back
<1>5. ASSUME NEW k \in 1..(Len(list) - 1)
      PROVE  (front \o back)[k] = IF k <= j THEN list[k] ELSE list[k + 1]
  <2>1. CASE k <= j
    BY <2>1, <1>0, <1>1, <1>2, <1>3
  <2>2. CASE k > j
    <3>1. k - j \in 1..(Len(list) - j - 1)
      BY <2>2, <1>0
    <3>2. back[k - j] = list[j + 1 + (k - j)]
      BY <3>1, <1>2
    <3> QED
      BY <2>2, <3>1, <3>2, <1>0, <1>1, <1>2, <1>3
  <2>3. k <= j \/ k > j
    OBVIOUS
  <2> QED
    BY <2>1, <2>2, <2>3
<1>6. Len(front \o back) = Len(list) - 1
  BY <1>0, <1>1, <1>2, <1>3
<1> QED
  BY <1>3, <1>4, <1>5, <1>6, Zenon DEF Places

\* In a list without repetitions, it removes that line and no other, and the lines
\* that were not tried yet remain those at and behind the index.
LEMMA WithoutLines ==
  ASSUME NEW list \in Places, Increasing(list), NEW j \in Nat, j < Len(list)
  PROVE  /\ Increasing(Without(list, j))
         /\ Lines(Without(list, j)) = Lines(list) \ {list[j + 1]}
         /\ {Without(list, j)[k] : k \in (j + 1)..Len(Without(list, j))}
            = {list[k] : k \in (j + 1)..Len(list)} \ {list[j + 1]}
<1> DEFINE rest == Without(list, j)
<1>0. Len(list) \in Nat /\ \A k \in 1..Len(list) : list[k] \in Nat
  BY DEF Places
<1>1. /\ Len(rest) = Len(list) - 1
      /\ \A k \in 1..(Len(list) - 1) : rest[k] = IF k <= j THEN list[k] ELSE list[k + 1]
  BY WithoutElements
<1> HIDE DEF rest
<1>2. Increasing(rest)
  <2> SUFFICES ASSUME NEW k \in 1..Len(rest), NEW l \in 1..Len(rest), k < l
               PROVE  rest[k] < rest[l]
    BY DEF Increasing
  <2> DEFINE Before(m) == IF m <= j THEN m ELSE m + 1
  <2>1. /\ Before(k) \in 1..Len(list) /\ Before(l) \in 1..Len(list)
        /\ Before(k) < Before(l)
    BY <1>0, <1>1
  <2>2. rest[k] = list[Before(k)] /\ rest[l] = list[Before(l)]
    BY <1>0, <1>1
  <2> HIDE DEF Before
  <2> QED
    BY <2>1, <2>2 DEF Increasing
<1>3. \A k \in 1..Len(list) : k # j + 1 => list[k] # list[j + 1]
  BY <1>0 DEF Increasing
<1>4. ASSUME NEW x PROVE x \in Lines(rest) <=> x \in Lines(list) \ {list[j + 1]}
  <2>1. ASSUME x \in Lines(rest) PROVE x \in Lines(list) \ {list[j + 1]}
    <3>1. PICK k \in 1..(Len(list) - 1) : x = rest[k]
      BY <2>1, <1>1 DEF Lines
    <3>2. CASE k <= j
      BY <3>1, <3>2, <1>0, <1>1, <1>3 DEF Lines
    <3>3. CASE k > j
      <4>1. x = list[k + 1] /\ k + 1 \in 1..Len(list) /\ k + 1 # j + 1
        BY <3>1, <3>3, <1>0, <1>1
      <4> QED
        BY <4>1, <1>3 DEF Lines
    <3> QED
      BY <3>2, <3>3, <1>0
  <2>2. ASSUME x \in Lines(list) \ {list[j + 1]} PROVE x \in Lines(rest)
    <3>1. PICK k \in 1..Len(list) : x = list[k] /\ k # j + 1
      BY <2>2 DEF Lines
    <3>2. CASE k <= j
      BY <3>1, <3>2, <1>0, <1>1 DEF Lines
    <3>3. CASE k > j + 1
      <4>1. k - 1 \in 1..(Len(list) - 1) /\ k - 1 > j /\ rest[k - 1] = list[(k - 1) + 1]
        BY <3>3, <1>0, <1>1
      <4>2. (k - 1) + 1 = k
        OBVIOUS
      <4> QED
        BY <3>1, <4>1, <4>2, <1>1 DEF Lines
    <3> QED
      BY <3>1, <3>2, <3>3, <1>0
  <2> QED
    BY <2>1, <2>2
<1>5. ASSUME NEW x
      PROVE  x \in {rest[k] : k \in (j + 1)..Len(rest)}
             <=> x \in {list[k] : k \in (j + 1)..Len(list)} \ {list[j + 1]}
  <2>1. ASSUME x \in {rest[k] : k \in (j + 1)..Len(rest)}
        PROVE  x \in {list[k] : k \in (j + 1)..Len(list)} \ {list[j + 1]}
    <3>1. PICK k \in (j + 1)..Len(rest) : x = rest[k]
      BY <2>1
    <3>2. x = list[k + 1] /\ k + 1 \in (j + 1)..Len(list) /\ k + 1 # j + 1
      BY <3>1, <1>0, <1>1
    <3> QED
      BY <3>2, <1>0, <1>3
  <2>2. ASSUME x \in {list[k] : k \in (j + 1)..Len(list)} \ {list[j + 1]}
        PROVE  x \in {rest[k] : k \in (j + 1)..Len(rest)}
    <3>1. PICK k \in (j + 1)..Len(list) : x = list[k] /\ k # j + 1
      BY <2>2
    <3>2. k - 1 \in (j + 1)..Len(rest) /\ rest[k - 1] = list[(k - 1) + 1] /\ (k - 1) + 1 = k
      BY <3>1, <1>0, <1>1
    <3> QED
      BY <3>1, <3>2
  <2> QED
    BY <2>1, <2>2
<1> QED
  BY <1>2, <1>4, <1>5 DEF rest

-----------------------------------------------------------------------------
(***************************************************************************)
(* The inductive invariant.                                                *)
(***************************************************************************)

\* The lines of the file, each named by its place, and what is left of them.
ListsOK ==
    /\ \E n \in 0..MaxWeights : weight_lines = [j \in 1..n |-> j]
    /\ crashes \subseteq SUBSET Lines(weight_lines)
    /\ current_weights \in Places
    /\ Increasing(current_weights)
    /\ Lines(current_weights) \subseteq Lines(weight_lines)
    /\ i \in 0..Len(current_weights)

\* What is left crashes, unless nothing was left out and the original file was not
\* the one that the program writes.
Crashing ==
    test_crash(current_weights) \/ (~weights_last /\ current_weights = weight_lines)

\* What is known at each place of the program.
Stages ==
    /\ pc \in {"start", "loop", "verified", "warned", "refused"}
    /\ weights_last \in BOOLEAN
    /\ pc = "start" => current_weights = weight_lines
    /\ pc \in {"start", "loop", "refused"} => output = Absent
    /\ pc \in {"loop", "verified", "warned"} => Crashing
    /\ pc \in {"verified", "warned"} =>
          /\ i = Len(current_weights)
          /\ output = current_weights
          /\ pc = "warned" => ~test_crash(current_weights)

IndInv == ListsOK /\ Stages

LEMMA OriginalLines ==
  ASSUME NEW n \in Nat, weight_lines = [j \in 1..n |-> j]
  PROVE  /\ weight_lines \in Places
         /\ Len(weight_lines) = n
         /\ Increasing(weight_lines)
         /\ Lines(weight_lines) = 1..n
<1>1. weight_lines \in Places /\ Len(weight_lines) = n
  BY DEF Places
<1>2. \A j \in 1..n : weight_lines[j] = j
  OBVIOUS
<1> QED
  BY <1>1, <1>2 DEF Increasing, Lines

LEMMA InitInv == Init => IndInv
<1> SUFFICES ASSUME Init PROVE IndInv
  OBVIOUS
<1>1. PICK n \in 0..MaxWeights : weight_lines = [j \in 1..n |-> j]
  BY DEF Init
<1>2. weight_lines \in Places /\ Increasing(weight_lines) /\ Len(weight_lines) = n
  BY <1>1, WeightAssumption, OriginalLines
<1>3. ListsOK
  BY <1>1, <1>2, WeightAssumption DEF ListsOK, Init
<1>4. Stages
  BY DEF Stages, Init
<1> QED
  BY <1>3, <1>4 DEF IndInv

\* What TryWeight does when the rest crashes, and when it does not.
LEMMA TryWeightStep ==
  ASSUME IndInv, TryWeight
  PROVE  /\ i \in Nat /\ i < Len(current_weights) /\ Len(current_weights) \in Nat
         /\ pc = "loop" /\ pc' = "loop"
         /\ UNCHANGED <<weights_last, weight_lines, crashes, output>>
         /\ \/ /\ test_crash(Without(current_weights, i))
               /\ current_weights' = Without(current_weights, i)
               /\ i' = i
            \/ /\ ~test_crash(Without(current_weights, i))
               /\ current_weights' = current_weights
               /\ i' = i + 1
<1>1. current_weights \in Seq(Nat) /\ i \in 0..Len(current_weights)
  BY DEF IndInv, ListsOK, Places
<1>2. Len(current_weights) \in Nat /\ i \in Nat
  BY <1>1
<1> QED
  BY <1>2 DEF TryWeight

LEMMA NextInv == IndInv /\ [Next]_vars => IndInv'
<1> SUFFICES ASSUME IndInv, [Next]_vars PROVE IndInv'
  OBVIOUS
<1>1. CASE Confirm
  <2>1. ListsOK'
    BY <1>1 DEF Confirm, IndInv, ListsOK, Lines
  <2>2. weights_last => (pc' = "loop" => test_crash(weight_lines))
    BY <1>1 DEF Confirm
  <2>3. Stages'
    BY <1>1, <2>2 DEF Confirm, IndInv, Stages, Crashing, test_crash, Lines
  <2> QED
    BY <2>1, <2>3 DEF IndInv
<1>2. CASE TryWeight
  <2>1. CASE /\ test_crash(Without(current_weights, i))
             /\ current_weights' = Without(current_weights, i)
             /\ i' = i
    <3>1. /\ Without(current_weights, i) \in Places
          /\ Len(Without(current_weights, i)) = Len(current_weights) - 1
      BY <1>2, TryWeightStep, WithoutElements DEF IndInv, ListsOK
    <3>2. /\ Increasing(Without(current_weights, i))
          /\ Lines(Without(current_weights, i)) \subseteq Lines(current_weights)
      BY <1>2, TryWeightStep, WithoutLines DEF IndInv, ListsOK
    <3>3. i \in 0..Len(Without(current_weights, i))
      BY <1>2, <3>1, TryWeightStep
    <3>4. ListsOK'
      <4>1. Lines(weight_lines)' = Lines(weight_lines)
        BY <1>2, TryWeightStep DEF Lines
      <4> QED
        BY <1>2, <2>1, <3>1, <3>2, <3>3, <4>1, TryWeightStep
        DEF IndInv, ListsOK, Lines, Increasing
    <3>5. test_crash(current_weights)'
      BY <1>2, <2>1, TryWeightStep DEF test_crash, Lines
    <3>6. Stages'
      BY <1>2, <3>5, TryWeightStep DEF IndInv, Stages, Crashing
    <3> QED
      BY <3>4, <3>6 DEF IndInv
  <2>2. CASE current_weights' = current_weights /\ i' = i + 1
    <3>0. i + 1 \in 0..Len(current_weights)
      BY <1>2, TryWeightStep
    <3>1. ListsOK'
      <4>1. UNCHANGED <<weight_lines, crashes, current_weights>>
        BY <1>2, <2>2, TryWeightStep
      <4>2. Lines(weight_lines)' = Lines(weight_lines)
            /\ Lines(current_weights)' = Lines(current_weights)
            /\ Increasing(current_weights)' = Increasing(current_weights)
        BY <4>1 DEF Lines, Increasing
      <4> QED
        BY <2>2, <3>0, <4>1, <4>2 DEF IndInv, ListsOK
    <3>2. Stages'
      BY <1>2, <2>2, TryWeightStep DEF IndInv, Stages, Crashing, test_crash, Lines
    <3> QED
      BY <3>1, <3>2 DEF IndInv
  <2> QED
    BY <1>2, <2>1, <2>2, TryWeightStep
<1>3. CASE Output
  <2>1. i = Len(current_weights)
    <3>1. current_weights \in Seq(Nat) /\ i \in 0..Len(current_weights)
      BY DEF IndInv, ListsOK, Places
    <3> QED
      BY <1>3, <3>1 DEF Output
  <2>2. ListsOK'
    BY <1>3 DEF Output, IndInv, ListsOK, Lines
  <2>3. Stages'
    BY <1>3, <2>1 DEF Output, IndInv, Stages, Crashing, test_crash, Lines
  <2> QED
    BY <2>2, <2>3 DEF IndInv
<1>4. CASE UNCHANGED vars
  BY <1>4 DEF vars, IndInv, ListsOK, Stages, Crashing, test_crash, Lines, Increasing
<1> QED
  BY <1>1, <1>2, <1>3, <1>4 DEF Next, Done

LEMMA Invariance == Spec => []IndInv
  BY InitInv, NextInv, PTL DEF Spec

\* The lists are parts of the file in its order, and the index stays in the list.
THEOREM TypeCorrect == Spec => []TypeOK
<1>1. IndInv => TypeOK
  <2> SUFFICES ASSUME IndInv PROVE TypeOK
    OBVIOUS
  <2>1. PICK n \in 0..MaxWeights : weight_lines = [j \in 1..n |-> j]
    BY DEF IndInv, ListsOK
  <2>2. Len(weight_lines) = n /\ Lines(weight_lines) = 1..n
    BY <2>1, WeightAssumption, OriginalLines
  <2>3. \A j \in 1..Len(current_weights) :
           /\ current_weights[j] \in 1..Len(weight_lines)
           /\ \A k \in 1..(j - 1) : current_weights[k] < current_weights[j]
    <3> SUFFICES ASSUME NEW j \in 1..Len(current_weights)
                 PROVE  /\ current_weights[j] \in 1..Len(weight_lines)
                        /\ \A k \in 1..(j - 1) : current_weights[k] < current_weights[j]
      OBVIOUS
    <3>1. current_weights[j] \in Lines(weight_lines)
      BY DEF IndInv, ListsOK, Lines
    <3>2. \A k \in 1..(j - 1) : k \in 1..Len(current_weights) /\ k < j
      BY DEF IndInv, ListsOK, Places
    <3> QED
      BY <2>2, <3>1, <3>2 DEF IndInv, ListsOK, Increasing
  <2>4. output = Absent \/ output = current_weights
    BY DEF IndInv, Stages
  <2> QED
    BY <2>3, <2>4 DEF TypeOK, IndInv, ListsOK, Stages
<1> QED
  BY <1>1, Invariance, PTL

\* The output may only fail to crash if it is the whole file, written in another
\* order than it was: every line that is left out was seen not to matter.
THEOREM WarningMeansReordered == Spec => []WarnsOnlyReordered
<1>1. IndInv => WarnsOnlyReordered
  BY DEF IndInv, Stages, Crashing, WarnsOnlyReordered
<1> QED
  BY <1>1, Invariance, PTL

-----------------------------------------------------------------------------
(***************************************************************************)
(* The loop is Greedy.                                                     *)
(***************************************************************************)

LEMMA AbstractInit == Init => Abstract!Init
<1> SUFFICES ASSUME Init PROVE Abstract!Init
  OBVIOUS
<1>1. PICK n \in 0..MaxWeights : weight_lines = [j \in 1..n |-> j]
  BY DEF Init
<1>2. Lines(weight_lines) = 1..n /\ Len(weight_lines) = n
  BY <1>1, WeightAssumption, OriginalLines
<1>3. Lines(weight_lines) \in SUBSET (1..MaxWeights)
  BY <1>2, WeightAssumption
<1>4. {current_weights[k] : k \in (i + 1)..Len(current_weights)} = Lines(weight_lines)
  BY DEF Init, Lines
<1> QED
  BY <1>3, <1>4 DEF Init, Abstract!Init

LEMMA AbstractNext == IndInv /\ [Next]_vars => [Abstract!Next]_Abstract!vars
<1> SUFFICES ASSUME IndInv, [Next]_vars PROVE [Abstract!Next]_Abstract!vars
  OBVIOUS
<1> DEFINE untried == {current_weights[k] : k \in (i + 1)..Len(current_weights)}
           x == current_weights[i + 1]
<1>1. CASE TryWeight
  <2>1. /\ current_weights \in Places /\ Increasing(current_weights)
        /\ Lines(current_weights) \subseteq Lines(weight_lines)
    BY DEF IndInv, ListsOK
  <2>2. i + 1 \in (i + 1)..Len(current_weights) /\ i + 1 \in 1..Len(current_weights)
    BY <1>1, TryWeightStep
  <2>3. x \in untried /\ x \in Lines(current_weights)
    BY <2>2 DEF Lines
  <2>4. x \in 1..MaxWeights
    <3>1. PICK n \in 0..MaxWeights : weight_lines = [j \in 1..n |-> j]
      BY DEF IndInv, ListsOK
    <3>2. Lines(weight_lines) = 1..n
      BY <3>1, WeightAssumption, OriginalLines
    <3> QED
      BY <2>1, <2>3, <3>2, WeightAssumption
  <2>9. PICK y \in 1..MaxWeights : y = x
    BY <2>4
  <2>5. UNCHANGED <<Lines(weight_lines), crashes>>
    BY <1>1, TryWeightStep DEF Lines
  <2>6. /\ Lines(Without(current_weights, i)) = Lines(current_weights) \ {x}
        /\ {Without(current_weights, i)[k] : k \in (i + 1)..Len(Without(current_weights, i))}
           = untried \ {x}
    BY <1>1, <2>1, TryWeightStep, WithoutLines
  <2>7. CASE /\ test_crash(Without(current_weights, i))
             /\ current_weights' = Without(current_weights, i)
             /\ i' = i
    <3>1. Abstract!Remove(y)
      BY <2>3, <2>5, <2>6, <2>7, <2>9 DEF Abstract!Remove, test_crash, Lines
    <3> QED
      BY <3>1 DEF Abstract!Next
  <2>8. CASE /\ ~test_crash(Without(current_weights, i))
             /\ current_weights' = current_weights
             /\ i' = i + 1
    <3>1. {current_weights[k] : k \in (i + 2)..Len(current_weights)} = untried \ {x}
      <4>1. ASSUME NEW z \in untried, z # x
            PROVE  z \in {current_weights[k] : k \in (i + 2)..Len(current_weights)}
        <5>1. PICK k \in (i + 1)..Len(current_weights) : z = current_weights[k]
          OBVIOUS
        <5>2. k # i + 1
          BY <4>1, <5>1
        <5>3. k \in (i + 2)..Len(current_weights)
          BY <5>2, <1>1, TryWeightStep
        <5> QED
          BY <5>1, <5>3
      <4>2. ASSUME NEW k \in (i + 2)..Len(current_weights)
            PROVE  current_weights[k] \in untried /\ current_weights[k] # x
        <5>1. /\ k \in (i + 1)..Len(current_weights) /\ k \in 1..Len(current_weights)
              /\ i + 1 < k
          BY <1>1, TryWeightStep
        <5>2. current_weights[i + 1] < current_weights[k]
          BY <2>1, <2>2, <5>1 DEF Increasing
        <5>3. current_weights[i + 1] \in Nat /\ current_weights[k] \in Nat
          BY <2>1, <2>2, <5>1 DEF Places
        <5> QED
          BY <5>1, <5>2, <5>3
      <4> HIDE DEF untried, x
      <4>3. untried \ {x} \subseteq {current_weights[k] : k \in (i + 2)..Len(current_weights)}
        BY <4>1
      <4> QED
        BY <4>2, <4>3
    <3>2. (i + 1) + 1 = i + 2
      BY <1>1, TryWeightStep
    <3>3. {current_weights[k] : k \in (i + 1)..Len(current_weights)}' = untried \ {x}
      BY <2>8, <3>1, <3>2
    <3>4. Abstract!Need(y)
      BY <2>3, <2>5, <2>6, <2>8, <2>9, <3>3 DEF Abstract!Need, test_crash, Lines
    <3> QED
      BY <3>4 DEF Abstract!Next
  <2> QED
    BY <1>1, <2>7, <2>8, TryWeightStep
<1>2. CASE UNCHANGED <<weight_lines, crashes, current_weights, i>>
  BY <1>2 DEF Abstract!vars, Lines
<1> QED
  BY <1>1, <1>2 DEF Next, Confirm, Output, Done, vars

\* The loop of minim_weights.py implements the abstract minimizer: every line is
\* tried once, whichever lines before it were removed.
THEOREM Refinement == Spec => TriesEachOnce
  BY InitInv, AbstractInit, NextInv, AbstractNext, PTL
  DEF Spec, TriesEachOnce, Abstract!Spec

-----------------------------------------------------------------------------
(***************************************************************************)
(* What Greedy promises.                                                   *)
(***************************************************************************)

\* Of any set of items: an item that was tried and kept is needed, and stays so when
\* others are removed.
GreedyInv(items, crashing, kept, untried) ==
    /\ kept \subseteq items /\ untried \subseteq kept /\ crashing \subseteq SUBSET items
    /\ items \in crashing => kept \in crashing
    /\ (\A s, r \in SUBSET items : s \in crashing /\ s \subseteq r => r \in crashing) =>
          \A x \in kept \ untried : kept \ {x} \notin crashing

LEMMA GreedyRemove ==
  ASSUME NEW items, NEW crashing, NEW kept, NEW untried, NEW x \in untried,
         GreedyInv(items, crashing, kept, untried), kept \ {x} \in crashing
  PROVE  GreedyInv(items, crashing, kept \ {x}, untried \ {x})
<1>1. ASSUME \A s, r \in SUBSET items : s \in crashing /\ s \subseteq r => r \in crashing,
             NEW y \in (kept \ {x}) \ (untried \ {x})
      PROVE  (kept \ {x}) \ {y} \notin crashing
  <2>1. y \in kept \ untried
    OBVIOUS
  <2>2. kept \ {y} \notin crashing
    BY <1>1, <2>1 DEF GreedyInv
  <2>3. (kept \ {x}) \ {y} \subseteq kept \ {y} /\ kept \ {y} \in SUBSET items
    BY DEF GreedyInv
  <2> QED
    BY <1>1, <2>2, <2>3
<1>2. kept \ {x} \subseteq items /\ untried \ {x} \subseteq kept \ {x}
  BY DEF GreedyInv
<1> QED
  BY <1>1, <1>2 DEF GreedyInv

LEMMA GreedyNeed ==
  ASSUME NEW items, NEW crashing, NEW kept, NEW untried, NEW x \in untried,
         GreedyInv(items, crashing, kept, untried), kept \ {x} \notin crashing
  PROVE  GreedyInv(items, crashing, kept, untried \ {x})
BY DEF GreedyInv

\* Removing any number of items removes one of them first.
LEMMA GreedyMinimal ==
  ASSUME NEW items, NEW crashing, NEW kept, GreedyInv(items, crashing, kept, {}),
         \A s, r \in SUBSET items : s \in crashing /\ s \subseteq r => r \in crashing,
         NEW s \in SUBSET kept, s \in crashing
  PROVE  s = kept
<1> SUFFICES ASSUME s # kept PROVE FALSE
  OBVIOUS
<1>1. PICK x \in kept : x \notin s
  OBVIOUS
<1>2. kept \ {x} \notin crashing
  BY DEF GreedyInv
<1>3. s \subseteq kept \ {x} /\ kept \ {x} \in SUBSET items /\ s \in SUBSET items
  BY <1>1 DEF GreedyInv
<1> QED
  BY <1>2, <1>3

Untried == {current_weights[k] : k \in (i + 1)..Len(current_weights)}

LinesInv == GreedyInv(Lines(weight_lines), crashes, Lines(current_weights), Untried)

LEMMA LinesInitInv == Abstract!Init => LinesInv
BY DEF Abstract!Init, LinesInv, GreedyInv, Untried

LEMMA LinesNextInv == LinesInv /\ [Abstract!Next]_Abstract!vars => LinesInv'
<1> SUFFICES ASSUME LinesInv, [Abstract!Next]_Abstract!vars PROVE LinesInv'
  OBVIOUS
<1> DEFINE items == Lines(weight_lines)
           kept == Lines(current_weights)
<1>1. ASSUME NEW x, Abstract!Remove(x) PROVE LinesInv'
  <2>1. /\ x \in Untried /\ kept \ {x} \in crashes
        /\ kept' = kept \ {x} /\ Untried' = Untried \ {x}
        /\ items' = items /\ crashes' = crashes
    BY <1>1 DEF Abstract!Remove, Untried
  <2> HIDE DEF items, kept
  <2>2. GreedyInv(items, crashes, kept \ {x}, Untried \ {x})
    BY <2>1, GreedyRemove DEF LinesInv, items, kept
  <2>3. GreedyInv(items', crashes', kept', Untried')
    BY <2>1, <2>2
  <2> QED
    BY <2>3 DEF LinesInv, GreedyInv, items, kept
<1>2. ASSUME NEW x, Abstract!Need(x) PROVE LinesInv'
  <2>1. /\ x \in Untried /\ kept \ {x} \notin crashes
        /\ kept' = kept /\ Untried' = Untried \ {x}
        /\ items' = items /\ crashes' = crashes
    BY <1>2 DEF Abstract!Need, Untried
  <2> HIDE DEF items, kept
  <2>2. GreedyInv(items, crashes, kept, Untried \ {x})
    BY <2>1, GreedyNeed DEF LinesInv, items, kept
  <2>3. GreedyInv(items', crashes', kept', Untried')
    BY <2>1, <2>2
  <2> QED
    BY <2>3 DEF LinesInv, GreedyInv, items, kept
<1>3. CASE UNCHANGED Abstract!vars
  <2>1. kept' = kept /\ Untried' = Untried /\ items' = items /\ crashes' = crashes
    BY <1>3 DEF Abstract!vars, Untried
  <2> HIDE DEF items, kept
  <2>2. GreedyInv(items', crashes', kept', Untried')
    BY <2>1 DEF LinesInv, items, kept
  <2> QED
    BY <2>2 DEF LinesInv, GreedyInv, items, kept
<1> QED
  BY <1>1, <1>2, <1>3 DEF Abstract!Next

LEMMA LinesInvariance == Abstract!Spec => []LinesInv
  BY LinesInitInv, LinesNextInv, PTL DEF Abstract!Spec

\* Whatever is tried next, the abstract minimizer never loses the crash.
THEOREM GreedyCrashes == Abstract!Spec => []Abstract!StillCrashes
<1>1. LinesInv => Abstract!StillCrashes
  BY DEF LinesInv, GreedyInv, Abstract!StillCrashes
<1> QED
  BY <1>1, LinesInvariance, PTL

\* Whatever is tried next, the abstract minimizer needs one pass: if more items never
\* stop the crash, no proper part of what it leaves crashes.
THEOREM OnePassIsEnough == Abstract!Spec => []Abstract!Minimal
<1>1. LinesInv => Abstract!Minimal
  <2> SUFFICES ASSUME LinesInv, Untried = {}, Abstract!Monotone,
                      NEW s \in SUBSET Lines(current_weights), s \in crashes
               PROVE  s = Lines(current_weights)
    BY DEF Abstract!Minimal, Untried
  <2> QED
    BY GreedyMinimal DEF LinesInv, Abstract!Monotone
<1> QED
  BY <1>1, LinesInvariance, PTL

\* For a counter that keeps crashing when weights are added, no proper part of the
\* lines that minim_weights.py leaves crashes.
THEOREM OnePassIsMinimal == Spec => []MinimalIfMonotone
<1>1. IndInv /\ Abstract!Minimal => MinimalIfMonotone
  <2> SUFFICES ASSUME IndInv, Abstract!Minimal, Monotone, pc = "verified",
                      NEW s \in SUBSET Lines(output), s \in crashes
               PROVE  s = Lines(output)
    BY DEF MinimalIfMonotone
  <2>1. i = Len(current_weights) /\ output = current_weights /\ i \in Nat
    BY DEF IndInv, ListsOK, Stages, Places
  <2>2. (i + 1)..Len(current_weights) = {}
    BY <2>1
  <2>3. {current_weights[k] : k \in (i + 1)..Len(current_weights)} = {}
    BY <2>2
  <2>4. Abstract!Monotone
    BY DEF Monotone, Abstract!Monotone
  <2> QED
    BY <2>1, <2>3, <2>4 DEF Abstract!Minimal
<1> QED
  BY <1>1, Invariance, Refinement, OnePassIsEnough, PTL DEF TriesEachOnce

=============================================================================
