---------------------------- MODULE WeightMinim -----------------------------
(***************************************************************************)
(* minim_weights.py: leaving out the weight lines of a crashing formula,   *)
(* each one once.  The other lines never change.  The counter is external  *)
(* and, unlike DeltaDebug's, a function of the file.                       *)
(***************************************************************************)
EXTENDS Naturals, Sequences, FiniteSets

CONSTANTS
    MaxWeights    \* bound: the weight lines of the file

ASSUME WeightAssumption == MaxWeights \in Nat

VARIABLES
    weights_last,     \* do they end the file, as write_cnf_file has them?
    weight_lines,     \* of the original file, each named by its place
    crashes,          \* the sets of weight lines with which the counter crashes
    pc,
    current_weights,
    i,                \* the index of the loop, from 0
    output            \* the file "_min_weights.cnf": absent, or its weight lines

vars == <<weights_last, weight_lines, crashes, pc, current_weights, i, output>>

Absent == <<0>>

Lines(list) == {list[k] : k \in 1..Len(list)}

test_crash(list) == Lines(list) \in crashes

Without(list, j) == SubSeq(list, 1, j) \o SubSeq(list, j + 2, Len(list))

Init ==
    /\ weights_last \in BOOLEAN
    /\ \E k \in 0..MaxWeights : weight_lines = [j \in 1..k |-> j]
    /\ crashes \in SUBSET SUBSET Lines(weight_lines)
    /\ pc = "start"
    /\ current_weights = weight_lines
    /\ i = 0
    /\ output = Absent

\* The original file is run first.  If its weight lines come last, it is the file
\* with all the weights as the program writes it.
Confirm ==
    /\ pc = "start"
    /\ \E crashed \in IF weights_last THEN {test_crash(weight_lines)} ELSE BOOLEAN :
          pc' = IF crashed THEN "loop" ELSE "refused"
    /\ UNCHANGED <<weights_last, weight_lines, crashes, current_weights, i, output>>

\* Mutant: i moves on after a removal as well.
TryWeightSkips ==
    /\ pc = "loop"
    /\ i < Len(current_weights)
    /\ current_weights' = IF test_crash(Without(current_weights, i))
                          THEN Without(current_weights, i) ELSE current_weights
    /\ i' = i + 1
    /\ UNCHANGED <<weights_last, weight_lines, crashes, pc, output>>

\* Mutant: the list is tried without one line and loses the one before it.
TryWeightOther ==
    /\ pc = "loop"
    /\ i < Len(current_weights)
    /\ IF test_crash(Without(current_weights, i))
       THEN /\ current_weights' = Without(current_weights, IF i = 0 THEN 0 ELSE i - 1)
            /\ UNCHANGED i
       ELSE /\ i' = i + 1
            /\ UNCHANGED current_weights
    /\ UNCHANGED <<weights_last, weight_lines, crashes, pc, output>>

\* The line at i is left out for good if the rest crashes.
TryWeight ==
    /\ pc = "loop"
    /\ i < Len(current_weights)
    /\ IF test_crash(Without(current_weights, i))
       THEN /\ current_weights' = Without(current_weights, i)
            /\ UNCHANGED i
       ELSE /\ i' = i + 1
            /\ UNCHANGED current_weights
    /\ UNCHANGED <<weights_last, weight_lines, crashes, pc, output>>

\* The output is written and run once more, which decides what is printed.
Output ==
    /\ pc = "loop"
    /\ i >= Len(current_weights)
    /\ output' = current_weights
    /\ pc' = IF test_crash(current_weights) THEN "verified" ELSE "warned"
    /\ UNCHANGED <<weights_last, weight_lines, crashes, current_weights, i>>

Done == pc \in {"verified", "warned", "refused"} /\ UNCHANGED vars

Next == Confirm \/ TryWeight \/ Output \/ Done

Spec == Init /\ [][Next]_vars

-----------------------------------------------------------------------------

\* Every list holds lines of the file in their order; the index stays in the list.
TypeOK ==
    /\ weights_last \in BOOLEAN
    /\ crashes \subseteq SUBSET Lines(weight_lines)
    /\ pc \in {"start", "loop", "verified", "warned", "refused"}
    /\ \A list \in {current_weights, output} \ {Absent} :
          \A j \in 1..Len(list) :
             /\ list[j] \in 1..Len(weight_lines)
             /\ \A k \in 1..(j - 1) : list[k] < list[j]
    /\ i \in 0..Len(current_weights)

\* More weights never stop the crash.
Monotone ==
    \A s, r \in SUBSET Lines(weight_lines) :
        s \in crashes /\ s \subseteq r => r \in crashes

\* The output is minimal, by one line and by any number of lines, if the crash
\* never goes away when weights are added.
MinimalIfMonotone ==
    Monotone /\ pc = "verified" =>
        \A s \in SUBSET Lines(output) : s \in crashes => s = Lines(output)

\* The output is not known to crash only if no line could be left out and the
\* program writes the file in another order than it was.
WarnsOnlyReordered ==
    pc = "warned" => ~weights_last /\ output = weight_lines

\* The loop is the abstract minimizer: each line is tried once, with the index
\* telling the lines that were tried from the others.
Abstract == INSTANCE Greedy WITH
    Item <- 1..MaxWeights,
    items <- Lines(weight_lines),
    crashing <- crashes,
    kept <- Lines(current_weights),
    untried <- {current_weights[k] : k \in (i + 1)..Len(current_weights)}

TriesEachOnce == Abstract!Spec

=============================================================================
