--------------------------- MODULE CounterOutput ----------------------------
(***************************************************************************)
(* run_one_counter's loop over the lines of a counter that came to its end *)
(* in time: which answer it takes, and what it refuses.                    *)
(*                                                                         *)
(* A line is a kind and, for a line with a count, the count.  The counter  *)
(* is external: its lines come in any order and number.                    *)
(***************************************************************************)
EXTENDS Naturals, Sequences

CONSTANTS
    MaxLines,   \* bound: the lines of an output
    Values,     \* the counts a line may give
    NoCount     \* None

ASSUME OutputAssumption ==
    MaxLines \in Nat /\ Values \subseteq Nat /\ 0 \in Values /\ NoCount \notin Values

VARIABLES
    cpx,          \* are complex counts expected?
    ours,         \* is the counter ganak or approxmc?
    lines,        \* the output
    next,         \* the line to be read
    count,
    unsat_found,
    returned      \* (ok, count), or how else it ended

output_vars == <<cpx, ours, lines, next, count, unsat_found, returned>>

\* "s mc", "s pmc", an exact or approximate integer, a parity: whole numbers.
\* "float", "double" and "frac": numbers that may also be complex.  "arb cpx": the
\* exact complex count.  "odd": any other "c s exact" line.  "unsat" is "s UNSATIS",
\* "comment" whatever is skipped.
CountKinds == {"whole", "fraction", "arb cpx", "odd"}

BadKinds == {"assertion", "leak", "error"}

Kinds == CountKinds \union BadKinds \union {"unsat", "memory out", "comment"}

Line == [kind : CountKinds, val : Values]
        \union [kind : Kinds \ CountKinds, val : {0}]

Outputs == UNION {[1..m -> Line] : m \in 0..MaxLines}

-----------------------------------------------------------------------------

Reading(kinds) ==
    /\ returned = "running"
    /\ next <= Len(lines)
    /\ lines[next].kind \in kinds

GoOn == next' = next + 1 /\ UNCHANGED returned

Return(how) == returned' = how /\ UNCHANGED next

ReadComment ==
    /\ Reading({"comment"})
    /\ GoOn
    /\ UNCHANGED <<cpx, ours, lines, count, unsat_found>>

ReadUnsat ==
    /\ Reading({"unsat"})
    /\ unsat_found' = TRUE
    /\ GoOn
    /\ UNCHANGED <<cpx, ours, lines, count>>

\* return False, None
ReadBad ==
    /\ Reading(BadKinds)
    /\ Return("failed")
    /\ UNCHANGED <<cpx, ours, lines, count, unsat_found>>

\* return True, None
ReadMemoryOut ==
    /\ Reading({"memory out"})
    /\ Return("no count")
    /\ UNCHANGED <<cpx, ours, lines, count, unsat_found>>

\* The exact complex count is taken whatever was read before, and whatever counts
\* are expected.
ReadArbCpx ==
    /\ Reading({"arb cpx"})
    /\ count' = lines[next].val
    /\ GoOn
    /\ UNCHANGED <<cpx, ours, lines, unsat_found>>

\* What the line says, if it can be parsed.
Parsed(line) ==
    IF cpx /\ unsat_found THEN 0
    ELSE IF line.kind = "fraction" \/ (line.kind = "whole" /\ ~cpx) THEN line.val
    ELSE NoCount

\* Mutant: the loop ends at the first count.
ReadCountReturns ==
    /\ Reading(CountKinds \ {"arb cpx"})
    /\ IF Parsed(lines[next]) = NoCount
       THEN Return("exit") /\ UNCHANGED count
       ELSE count' = Parsed(lines[next]) /\ Return("count")
    /\ UNCHANGED <<cpx, ours, lines, unsat_found>>

\* Mutant: a later count replaces an earlier one.
ReadCountAgain ==
    /\ Reading(CountKinds \ {"arb cpx"})
    /\ IF Parsed(lines[next]) = NoCount
       THEN Return("exit") /\ UNCHANGED count
       ELSE count' = Parsed(lines[next]) /\ GoOn
    /\ UNCHANGED <<cpx, ours, lines, unsat_found>>

\* A second count, or one of the wrong form, ends the program.
ReadCount ==
    /\ Reading(CountKinds \ {"arb cpx"})
    /\ IF count # NoCount \/ Parsed(lines[next]) = NoCount
       THEN Return("exit") /\ UNCHANGED count
       ELSE count' = Parsed(lines[next]) /\ GoOn
    /\ UNCHANGED <<cpx, ours, lines, unsat_found>>

\* After the last line: an unsatisfiable formula has count 0, whatever was counted.
End ==
    /\ returned = "running"
    /\ next > Len(lines)
    /\ count' = IF unsat_found THEN 0 ELSE count
    /\ returned' = IF count' # NoCount THEN "count"
                   ELSE IF ours THEN "failed" ELSE "no count"
    /\ UNCHANGED <<cpx, ours, lines, next, unsat_found>>

ReadLine ==
    \/ ReadComment \/ ReadUnsat \/ ReadBad \/ ReadMemoryOut
    \/ ReadArbCpx \/ ReadCount \/ End

=============================================================================
