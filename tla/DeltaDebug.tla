----------------------------- MODULE DeltaDebug -----------------------------
(***************************************************************************)
(* minim_cnf.py: removing the clauses of a crashing formula.               *)
(*                                                                         *)
(* A list of clauses is a sequence of names; every list that is tried is a *)
(* subsequence of the original one.  The counter is external: a run of it  *)
(* on a list crashes (exit code # 0) or does not, a timeout counting as no *)
(* crash.  Unless flaky it answers the same of the same list; it need not  *)
(* be monotone: a part of a crashing list may not crash and a part of that *)
(* part crash again.                                                       *)
(***************************************************************************)
EXTENDS Integers, Sequences

CONSTANTS
    MaxClauses,    \* bound: the clauses of the file that are not empty
    MaxIfFlaky     \* bound: the same for a counter that is flaky

ASSUME MaxClausesAssumption == MaxClauses \in Nat /\ MaxIfFlaky \in 0..MaxClauses

VARIABLES
    flaky,        \* may two runs of the counter on the same list differ?
    differs,      \* is the file another one than write_cnf_file makes of it?
    original,     \* the clauses of the file, as read_cnf_file returns them
    pc,           \* which loop is at work
    current,      \* current_clauses of minimize_clauses
    clauses,      \* the parameter clauses of delta_debug_minimize
    n,            \* its length as the loop knows it
    granularity,
    chunk_size,
    new_clauses,
    i,            \* the index into new_clauses, from 0
    some_removed,
    answers,      \* what the counter last answered of each list it was run on
    saved         \* the files "<base>-<k>.cnf" and, for k = -1, the output

vars == <<flaky, differs, original, pc, current, clauses, n, granularity, chunk_size, new_clauses, i,
          some_removed, answers, saved>>

file == <<flaky, differs, original>>

pass == <<granularity, chunk_size, new_clauses, i, some_removed>>

\* A clause is named by its place in the file: a list in file order increases.
InOrder(list) == \A j, k \in 1..Len(list) : j < k => list[j] < list[k]

\* What is read of the file is its clauses, the variables of its header and the lines
\* that begin with "c ".  Written again, a file loses its empty clauses and other
\* comments, its header is corrected, and the "c " lines are sorted around the
\* clauses.
Init ==
    /\ pc = "start"
    /\ flaky \in BOOLEAN
    /\ differs \in BOOLEAN
    /\ \E k \in 0..(IF flaky THEN MaxIfFlaky ELSE MaxClauses) :
          original = [j \in 1..k |-> j]
    /\ current = original
    /\ clauses = <<>>
    /\ n = 0
    /\ granularity = 2
    /\ chunk_size = 1
    /\ new_clauses = <<>>
    /\ i = 0
    /\ some_removed = FALSE
    /\ answers = <<>>
    /\ saved = <<>>

-----------------------------------------------------------------------------
(***************************************************************************)
(* Running the counter, and writing files.                                 *)
(***************************************************************************)

\* test_crash on list: crashed is an answer the counter can give, and it is
\* remembered.
Answers(list, crashed) ==
    /\ crashed \in BOOLEAN
    /\ ~flaky /\ list \in DOMAIN answers => crashed = answers[list]
    /\ answers' = [l \in DOMAIN answers \union {list} |->
                      IF l = list THEN crashed ELSE answers[l]]

Save(k, list) ==
    saved' = [j \in DOMAIN saved \union {k} |-> IF j = k THEN list ELSE saved[j]]

\* l[:j] + l[j+size:]
Without(l, j, size) == SubSeq(l, 1, j) \o SubSeq(l, j + size + 1, Len(l))

-----------------------------------------------------------------------------
(***************************************************************************)
(* minimize_clauses and delta_debug_minimize.                              *)
(***************************************************************************)

\* The original file is run first.  Only a file that is rewritten as it was has the
\* answer of the list that was read from it.
Confirm ==
    /\ pc = "start"
    /\ \E crashed \in BOOLEAN :
          /\ IF differs THEN UNCHANGED answers ELSE Answers(original, crashed)
          /\ pc' = IF crashed THEN "round" ELSE "refused"
    /\ UNCHANGED <<file, current, clauses, n, pass, saved>>

\* A round starts; an empty list is returned as it is.
StartEmpty ==
    /\ pc = "round"
    /\ Len(current) = 0
    /\ clauses' = <<>>
    /\ pc' = "returned"
    /\ UNCHANGED <<file, current, n, pass, answers, saved>>

\* Otherwise the formula without clauses is tried.
TryNoClauses ==
    /\ pc = "round"
    /\ Len(current) > 0
    /\ n' = Len(current)
    /\ \E crashed \in BOOLEAN :
          /\ Answers(<<>>, crashed)
          /\ IF crashed THEN clauses' = <<>> /\ pc' = "returned"
                        ELSE clauses' = current /\ pc' = "grain"
    /\ granularity' = 2
    /\ UNCHANGED <<file, current, chunk_size, new_clauses, i, some_removed, saved>>

\* A pass over the list with chunks of n // granularity clauses starts.
StartPass ==
    /\ pc = "grain"
    /\ granularity <= n
    /\ chunk_size' = n \div granularity
    /\ some_removed' = FALSE
    /\ new_clauses' = clauses
    /\ i' = 0
    /\ pc' = "pass"
    /\ UNCHANGED <<file, current, clauses, n, granularity, answers, saved>>

\* Mutant: the last granularity is not tried.
GrainTooFineEarly ==
    /\ pc = "grain"
    /\ granularity >= n
    /\ pc' = "returned"
    /\ UNCHANGED <<file, current, clauses, n, pass, answers, saved>>

\* The list is shorter than the granularity: it is returned.
GrainTooFine ==
    /\ pc = "grain"
    /\ granularity > n
    /\ pc' = "returned"
    /\ UNCHANGED <<file, current, clauses, n, pass, answers, saved>>

\* Mutant: the file is saved before the counter has run on it.
TryChunkSavesFirst ==
    /\ pc = "pass"
    /\ i < Len(new_clauses)
    /\ LET size == IF chunk_size < Len(new_clauses) - i
                   THEN chunk_size ELSE Len(new_clauses) - i
           test_set == Without(new_clauses, i, size)
       IN \E crashed \in BOOLEAN :
             /\ Save(Len(test_set), test_set)
             /\ Answers(test_set, crashed)
             /\ IF crashed
                THEN /\ new_clauses' = test_set
                     /\ some_removed' = TRUE
                     /\ UNCHANGED i
                ELSE /\ i' = i + size
                     /\ UNCHANGED <<new_clauses, some_removed>>
    /\ UNCHANGED <<file, pc, current, clauses, n, granularity, chunk_size>>

\* Mutant: one clause more than was tried is dropped.
TryChunkDropsMore ==
    /\ pc = "pass"
    /\ i < Len(new_clauses)
    /\ LET size == IF chunk_size < Len(new_clauses) - i
                   THEN chunk_size ELSE Len(new_clauses) - i
           test_set == Without(new_clauses, i, size)
       IN \E crashed \in BOOLEAN :
             /\ Answers(test_set, crashed)
             /\ IF crashed
                THEN /\ new_clauses' = Without(new_clauses, i, size + 1)
                     /\ some_removed' = TRUE
                     /\ Save(Len(test_set), test_set)
                     /\ UNCHANGED i
                ELSE /\ i' = i + size
                     /\ UNCHANGED <<new_clauses, some_removed, saved>>
    /\ UNCHANGED <<file, pc, current, clauses, n, granularity, chunk_size>>

\* The chunk at i is left out and, if the rest still crashes, dropped for good.
TryChunk ==
    /\ pc = "pass"
    /\ i < Len(new_clauses)
    /\ LET size == IF chunk_size < Len(new_clauses) - i
                   THEN chunk_size ELSE Len(new_clauses) - i
           test_set == Without(new_clauses, i, size)
       IN \E crashed \in BOOLEAN :
             /\ Answers(test_set, crashed)
             /\ IF crashed
                THEN /\ new_clauses' = test_set
                     /\ some_removed' = TRUE
                     /\ Save(Len(test_set), test_set)
                     /\ UNCHANGED i
                ELSE /\ i' = i + size
                     /\ UNCHANGED <<new_clauses, some_removed, saved>>
    /\ UNCHANGED <<file, pc, current, clauses, n, granularity, chunk_size>>

\* Mutant: the granularity stays when nothing could be removed.
EndPassNoFiner ==
    /\ pc = "pass"
    /\ i >= Len(new_clauses)
    /\ clauses' = new_clauses
    /\ n' = Len(new_clauses)
    /\ pc' = "grain"
    /\ UNCHANGED <<file, current, pass, answers, saved>>

\* The pass is over: the granularity doubles unless something was removed.
EndPass ==
    /\ pc = "pass"
    /\ i >= Len(new_clauses)
    /\ IF some_removed
       THEN /\ clauses' = new_clauses
            /\ n' = Len(new_clauses)
            /\ UNCHANGED granularity
       ELSE /\ granularity' = granularity * 2
            /\ UNCHANGED <<clauses, n>>
    /\ pc' = "grain"
    /\ UNCHANGED <<file, current, chunk_size, new_clauses, i, some_removed, answers, saved>>

\* A round that removed something is followed by another.
NextRound ==
    /\ pc = "returned"
    /\ Len(clauses) # Len(current)
    /\ current' = clauses
    /\ Save(Len(clauses), clauses)
    /\ pc' = "round"
    /\ UNCHANGED <<file, clauses, n, pass, answers>>

\* Else the output is written, and the counter run on it once more, which only
\* decides what is printed.
Output ==
    /\ pc = "returned"
    /\ Len(clauses) = Len(current)
    /\ Len(original) > 0
    /\ Save(-1, current)
    /\ \E crashed \in BOOLEAN :
          /\ Answers(current, crashed)
          /\ pc' = IF crashed THEN "verified" ELSE "warned"
    /\ UNCHANGED <<file, current, clauses, n, pass>>

\* "Reduction" divides by the number of clauses there were.
OutputDividesByZero ==
    /\ pc = "returned"
    /\ Len(original) = 0
    /\ Save(-1, current)
    /\ pc' = "traceback"
    /\ UNCHANGED <<file, current, clauses, n, pass, answers>>

Done == pc \in {"verified", "warned", "traceback", "refused"} /\ UNCHANGED vars

Next ==
    \/ Confirm \/ StartEmpty \/ TryNoClauses
    \/ StartPass \/ GrainTooFine \/ TryChunk \/ EndPass
    \/ NextRound \/ Output \/ OutputDividesByZero \/ Done

\* subprocess.run ends every run after ten seconds.
Spec == Init /\ [][Next]_vars /\ WF_vars(Next)

-----------------------------------------------------------------------------
(***************************************************************************)
(* Properties.                                                             *)
(***************************************************************************)

\* A list of the program holds clauses of the file, in the order of the file.
IsList(list) ==
    /\ Len(list) <= MaxClauses
    /\ \A j \in 1..Len(list) : list[j] \in 1..Len(original)
    /\ InOrder(list)

\* What is returned is minimal: at the end of the last round every single clause
\* has been left out of the very list that is written, and each time the counter
\* did not crash.  The granularities, which skip values when the list gets
\* shorter, always come down to chunks of one clause.
OneMinimal ==
    pc \in {"verified", "warned"} =>
        \A j \in 0..(Len(current) - 1) :
            /\ Without(current, j, 1) \in DOMAIN answers
            /\ ~answers[Without(current, j, 1)]

\* Every intermediate file holds as many clauses as its name says, and the
\* counter crashed on it: if the program is killed between two writes, the smallest
\* file left behind still crashes.
SavedCrash ==
    pc # "warned" =>
        \A k \in DOMAIN saved \ {-1} :
            /\ Len(saved[k]) = k
            /\ saved[k] \in DOMAIN answers /\ answers[saved[k]]

\* The final warning is impossible if the counter is deterministic, unless no clause
\* could be left out and the file is another one when the program has written it:
\* whatever was left out, the list that is returned did crash as it is written.
WarnsOnlyUnreduced ==
    pc = "warned" /\ ~flaky => current = original /\ differs

\* The rounds, the passes of a round and the steps of a pass all end, however
\* erratic the counter.
Terminates == <>(pc \in {"verified", "warned", "traceback", "refused"})

=============================================================================
