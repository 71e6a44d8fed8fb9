---------------------------- MODULE MCSolExtend ----------------------------
(***************************************************************************)
(* An instance of SolExtend for TLC.                                       *)
(***************************************************************************)
EXTENDS SolExtend

MCFormulas == {{{1, 2}}, {{1}, {-1, 2}}, {{1}, {-1}}}

Word(kind) == [kind |-> kind, lits |-> <<>>]

VLines == {[kind |-> "v", lits |-> l] : l \in {<<1, 0>>, <<-1, 2>>, <<1, 0, -1>>, <<-2, 2, 0>>}}

Lines == {Word("sat"), Word("unsat"), Word("s"), Word("other"), Word("comment")} \union VLines

MCOutputs == UNION {[1..n -> Lines] : n \in 1..3}

=============================================================================
