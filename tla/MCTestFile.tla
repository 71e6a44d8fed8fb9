----------------------------- MODULE MCTestFile -----------------------------
(***************************************************************************)
(* An instance of TestFile for TLC.                                        *)
(***************************************************************************)
EXTENDS TestFile

MCLayouts == {<<1>>, <<3>>, <<1, 2>>}

=============================================================================
