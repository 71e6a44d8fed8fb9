------------------------------ MODULE MCOracle ------------------------------
(***************************************************************************)
(* Instances of Oracle for TLC.                                            *)
(***************************************************************************)
EXTENDS Oracle

CONSTANTS FlagSets, Modes   \* the command lines: these flags with these modes

\* The command lines that set the given flags and one of the modes.
Options ==
    {[weighted |-> "weighted" \in f, unweighted |-> "unweighted" \in f,
      projected |-> "projected" \in f, unprojected |-> "unprojected" \in f,
      buddy |-> "buddy" \in f, mode |-> m] : f \in FlagSets, m \in Modes}

=============================================================================
