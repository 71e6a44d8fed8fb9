----------------------------- MODULE SlotOwner -----------------------------
(***************************************************************************)
(* What the numbered files of out/ promise to the processes that share     *)
(* them: a slot has at most one owner; only a free slot can be taken, only *)
(* its owner can give it back, and what an owner abandons stays in the     *)
(* directory for ever.  A process owns at most Limit slots.                *)
(***************************************************************************)
EXTENDS Integers, FiniteSets

CONSTANTS Proc, Slot, Limit, Free, Abandoned

VARIABLE owner

Owned(p) == {k \in Slot : owner[k] = p}

Init == owner = [k \in Slot |-> Free]

Take(p, k) ==
    /\ owner[k] = Free
    /\ Cardinality(Owned(p)) < Limit
    /\ owner' = [owner EXCEPT ![k] = p]

Release(p, k) ==
    /\ owner[k] = p
    /\ owner' = [owner EXCEPT ![k] = Free]

Abandon(p) ==
    owner' = [k \in Slot |-> IF owner[k] = p THEN Abandoned ELSE owner[k]]

Next ==
    \E p \in Proc :
        \/ \E k \in Slot : Take(p, k) \/ Release(p, k)
        \/ Abandon(p)

Spec == Init /\ [][Next]_owner

=============================================================================
