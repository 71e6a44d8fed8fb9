------------------------------- MODULE Greedy -------------------------------
(***************************************************************************)
(* What a minimizer that tries every item once promises: a part of the     *)
(* items on which the counter still crashes.  Which item is tried next is  *)
(* left open.                                                              *)
(***************************************************************************)
EXTENDS FiniteSets

CONSTANTS Item

VARIABLES
    items,     \* what there is to remove
    crashing,  \* the sets of items on which the counter crashes
    kept,      \* what is left
    untried    \* the items whose removal was not tried yet

vars == <<items, crashing, kept, untried>>

Init ==
    /\ items \in SUBSET Item
    /\ crashing \in SUBSET SUBSET items
    /\ kept = items
    /\ untried = items

Remove(x) ==
    /\ x \in untried
    /\ kept \ {x} \in crashing
    /\ kept' = kept \ {x}
    /\ untried' = untried \ {x}
    /\ UNCHANGED <<items, crashing>>

Need(x) ==
    /\ x \in untried
    /\ kept \ {x} \notin crashing
    /\ untried' = untried \ {x}
    /\ UNCHANGED <<items, crashing, kept>>

Next == \E x \in Item : Remove(x) \/ Need(x)

Spec == Init /\ [][Next]_vars

-----------------------------------------------------------------------------

\* More of the items never stop the crash.
Monotone ==
    \A s, r \in SUBSET items : s \in crashing /\ s \subseteq r => r \in crashing

TypeOK ==
    /\ items \subseteq Item
    /\ crashing \subseteq SUBSET items
    /\ kept \subseteq items
    /\ untried \subseteq kept

\* Whenever the minimizer stops, what it has left crashes if all the items did.
StillCrashes == items \in crashing => kept \in crashing

\* Trying every item once is enough if the crash is monotone: then no proper part
\* of the result crashes, not only none with one item less.
Minimal ==
    untried = {} /\ Monotone => \A s \in SUBSET kept : s \in crashing => s = kept

=============================================================================
