------------------------------ MODULE MCOutDir ------------------------------
(***************************************************************************)
(* Instances of OutDir for TLC.                                            *)
(***************************************************************************)
EXTENDS OutDirOwners

CONSTANT MaxLeft   \* bound: how many files exits may have left behind

FewLeft == Cardinality(left) <= MaxLeft

=============================================================================
