---------------------------- MODULE OutDirOwners ----------------------------
(***************************************************************************)
(* OutDir seen as SlotOwner: who owns which file of out/.                  *)
(***************************************************************************)
EXTENDS OutDir

CONSTANTS Free, Abandoned   \* the sentinels of SlotOwner

ASSUME SentinelsAssumption ==
    Free \notin Proc /\ Abandoned \notin Proc /\ Free # Abandoned

\* An existing file is owned by its author until that process exits with it.
Owner ==
    [k \in Slot |-> IF ~Exists(k) THEN Free
                    ELSE IF k \in left THEN Abandoned ELSE dir[k].by]

Slots == INSTANCE SlotOwner WITH Limit <- 3, owner <- Owner

\* Claims, unlinks and exits, seen through who owns which file, are those of a
\* pool of slots that hands each one out to one process at a time; every other
\* step changes no ownership.
OwnsSlots == Slots!Spec

=============================================================================
