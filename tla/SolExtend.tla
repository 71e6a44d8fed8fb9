------------------------------ MODULE SolExtend ------------------------------
(***************************************************************************)
(* solextend_fuzz.py: does a model of Arjun's output, extended by          *)
(* solextend, satisfy the formula that Arjun was given?                    *)
(*                                                                         *)
(* Each round of the loop claims files of out/ for the formula, Arjun's    *)
(* output and the reconstruction, solves Arjun's output with CaDiCaL and   *)
(* extends the model; only the files of a round that comes to its end are  *)
(* unlinked.  The directory is scanned in one step: OutDir is about        *)
(* processes that scan it together.                                        *)
(***************************************************************************)
EXTENDS Integers, Sequences, SequencesExt

CONSTANTS
    MaxNumFiles,  \* max_num_files of unique_file (300)
    Formulas,     \* what the generators may write: sets of clauses
    Outputs       \* what CaDiCaL and solextend may print: sequences of lines

ASSUME NamesAssumption == MaxNumFiles \in Nat \ {0}
\* The generators are called without -t: no clause has a literal and its negation.
ASSUME FormulaAssumption ==
    \A f \in Formulas : \A clause \in f : \A x \in clause :
        x \in Int /\ x # 0 /\ -x \notin clause

VARIABLES
    dir,       \* the files: absent, of this process, or of an earlier one
    pc,        \* where the main loop is
    held,      \* the names in fname, fname2, reconstruct and fname_tmp, 0 for none
    formula,   \* the clauses in fname
    simp,      \* the clauses in fname2
    solution,  \* the assignment parsed last
    solver,    \* whether the global of this name exists
    told,      \* how the round or the process ended
    slow       \* history: how often Arjun was too slow in this process

vars == <<dir, pc, held, formula, simp, solution, solver, told, slow>>

Slot == 1..MaxNumFiles

Role == {"fname", "fname2", "reconstruct", "fname_tmp"}

NoNames == [r \in Role |-> 0]

Ours == {k \in Slot : dir[k] = "ours"}

Held == {held[r] : r \in Role} \ {0}

Init ==
    /\ dir \in [Slot -> {"absent", "old"}]
    /\ pc = "loop" /\ held = NoNames
    /\ formula = {} /\ simp = {} /\ solution = <<>>
    /\ solver = FALSE /\ told = "nothing" /\ slow = 0

\* exit(-1), or an exception nobody catches: the files stay.
Exit(how) == pc' = "exited" /\ told' = how

Without(names) == [k \in Slot |-> IF k \in names THEN "absent" ELSE dir[k]]

-----------------------------------------------------------------------------
(***************************************************************************)
(* Reading solutions and clauses.                                          *)
(***************************************************************************)

Of(out, kinds) == {i \in 1..Len(out) : out[i].kind \in kinds}

\* One s line, SAT or UNSAT; a v line if it is SAT; nothing unknown.
Readable(out) ==
    /\ Cardinality(Of(out, {"sat", "unsat", "s"})) = 1
    /\ Of(out, {"s", "other"}) = {}
    /\ Of(out, {"sat"}) # {} => Of(out, {"v"}) # {}

Sat(out) == Of(out, {"sat"}) # {}

VarOf(lit) == IF lit < 0 THEN -lit ELSE lit

\* A v line ends at its 0; the next one goes on.
UpToZero(lits) ==
    SelectInSeq(lits, LAMBDA x : x = 0)

LitsOf(line) ==
    IF line.kind # "v" THEN <<>>
    ELSE IF UpToZero(line.lits) = 0 THEN line.lits
    ELSE SubSeq(line.lits, 1, UpToZero(line.lits) - 1)

\* A later literal of a variable overwrites an earlier one.
Solution(out) ==
    LET lits == FlattenSeq([i \in 1..Len(out) |-> LitsOf(out[i])])
    IN [v \in {VarOf(x) : x \in ToSet(lits)} |->
           \E i \in 1..Len(lits) :
               lits[i] = v /\ \A j \in (i + 1)..Len(lits) : VarOf(lits[j]) # v]

\* Mutant: a variable that is not set does not count against the clause.
HoldsUnlessFalse(clause, sol) ==
    \E x \in clause : VarOf(x) \notin DOMAIN sol \/ sol[VarOf(x)] = (x > 0)

\* check_regular_clause
Holds(clause, sol) ==
    \E x \in clause : VarOf(x) \in DOMAIN sol /\ sol[VarOf(x)] = (x > 0)

\* test_found_solution raises NameError if this is false.
TestFoundSolution(sol, clauses) == \A c \in clauses : Holds(c, sol)

-----------------------------------------------------------------------------
(***************************************************************************)
(* One round.                                                              *)
(***************************************************************************)

\* unique_file
Claim(role, next) ==
    LET free == {k \in Slot : dir[k] = "absent"}
    IN IF free = {} THEN Exit("no name") /\ UNCHANGED <<dir, held>>
       ELSE LET k == Min(free)
            IN /\ dir' = [dir EXCEPT ![k] = "ours"]
               /\ held' = [held EXCEPT ![role] = k]
               /\ pc' = next
               /\ told' = "nothing"

ClaimFile ==
    /\ \/ pc = "loop" /\ Claim("fname", "generate")
       \/ pc = "claim fname2" /\ Claim("fname2", "claim reconstruct")
       \/ pc = "claim reconstruct" /\ Claim("reconstruct", "preproc")
       \/ pc = "claim tmp" /\ Claim("fname_tmp", "postproc")
    /\ UNCHANGED <<formula, simp, solution, solver, slow>>

Generate ==
    /\ pc = "generate"
    /\ \/ Exit("generator") /\ UNCHANGED formula
       \/ \E f \in Formulas : formula' = f /\ pc' = "claim fname2" /\ UNCHANGED told
    /\ UNCHANGED <<dir, held, simp, solution, solver, slow>>

\* Mutant: main keeps the copy for Arjun's output as well.
DroppedNames == {}

\* What main unlinks if Arjun was too slow; the reconstruction stays.
DroppedByMain == {held.fname2}

\* Arjun overwrites the copy of the formula in fname2, or leaves it as it is.  The
\* message about a slow Arjun names the global solver, which does not exist before
\* the first solver loop.
RunPreproc ==
    /\ pc = "preproc"
    /\ \/ Exit("error output") /\ UNCHANGED <<dir, held, simp, slow>>
       \/ Exit("broken header") /\ UNCHANGED <<dir, held, simp, slow>>
       \/ ~solver /\ Exit("name error") /\ UNCHANGED <<dir, held, simp, slow>>
       \/ /\ solver
          /\ dir' = Without(DroppedByMain)
          /\ held' = [held EXCEPT !.fname2 = 0, !.reconstruct = 0]
          /\ slow' = slow + 1
          /\ pc' = "finish" /\ told' = "arjun slow"
          /\ UNCHANGED simp
       \/ /\ \E f \in Formulas \union {formula} : simp' = f
          /\ pc' = "solve"
          /\ UNCHANGED <<dir, held, slow, told>>
    /\ UNCHANGED <<formula, solution, solver>>

\* Without a "True" the round is over: UNSAT, or (None, None) of a slow solver.
RunSolver ==
    /\ pc = "solve"
    /\ solver' = TRUE
    /\ \/ Exit("error output") /\ UNCHANGED solution
       \/ pc' = "finish" /\ told' = "solver slow" /\ UNCHANGED solution
       \/ \E out \in Outputs :
             IF ~Readable(out) THEN Exit("unreadable") /\ UNCHANGED solution
             ELSE IF ~Sat(out) THEN pc' = "finish" /\ told' = "unsat" /\ UNCHANGED solution
             ELSE /\ solution' = Solution(out)
                  /\ IF TestFoundSolution(solution', simp)
                     THEN pc' = "claim tmp" /\ UNCHANGED told
                     ELSE Exit("solver wrong")
    /\ UNCHANGED <<dir, held, formula, simp, slow>>

\* postproc and the last check.  Whether solextend says SAT or UNSAT is not looked
\* at, and it may take its time.
Postproc ==
    /\ pc = "postproc"
    /\ \/ Exit("error output") /\ UNCHANGED <<dir, held, solution>>
       \/ \E out \in Outputs :
             IF ~Readable(out) THEN Exit("unreadable") /\ UNCHANGED <<dir, held, solution>>
             ELSE /\ dir' = Without({held.fname_tmp})
                  /\ held' = [held EXCEPT !.fname_tmp = 0]
                  /\ solution' = Solution(out)
                  /\ IF TestFoundSolution(solution', formula)
                     THEN pc' = "finish" /\ told' = "verified"
                     ELSE Exit("not satisfied")
    /\ UNCHANGED <<formula, simp, solver, slow>>

\* The files of the round are unlinked.
Finish ==
    /\ pc = "finish"
    /\ dir' = Without(Held)
    /\ held' = NoNames
    /\ solver' = TRUE
    /\ pc' = "loop" /\ told' = "nothing"
    /\ formula' = {} /\ simp' = {} /\ solution' = <<>>
    /\ UNCHANGED slow

\* Someone starts it again.
Restart ==
    /\ pc = "exited"
    /\ dir' = [k \in Slot |-> IF dir[k] = "ours" THEN "old" ELSE dir[k]]
    /\ held' = NoNames /\ pc' = "loop" /\ told' = "nothing"
    /\ formula' = {} /\ simp' = {} /\ solution' = <<>>
    /\ solver' = FALSE /\ slow' = 0

Next ==
    \/ ClaimFile \/ Generate \/ RunPreproc \/ RunSolver \/ Postproc \/ Finish \/ Restart

Spec == Init /\ [][Next]_vars

-----------------------------------------------------------------------------
(***************************************************************************)
(* Properties.                                                             *)
(***************************************************************************)

VarsOf(clauses) == {VarOf(x) : x \in UNION clauses}

\* The values the formula's variables may have beside the solution.
Completions(sol, clauses) ==
    {a \in [VarsOf(clauses) -> BOOLEAN] :
        \A v \in VarsOf(clauses) \intersect DOMAIN sol : a[v] = sol[v]}

Model(a, clauses) == \A c \in clauses : \E x \in c : a[VarOf(x)] = (x > 0)

\* A solution need not set every variable.  If it passes, however its variables are
\* completed the original formula is true, although only Arjun's output was solved;
\* and solextend is only blamed if some completion makes the formula false.
VerdictIsRight ==
    /\ told = "verified" =>
          \A a \in Completions(solution, formula) : Model(a, formula)
    /\ told = "not satisfied" =>
          \E a \in Completions(solution, formula) : ~Model(a, formula)

\* What a process leaves in out/ beside the files of its round is one reconstruction
\* for each time Arjun was too slow: after 300 of them, whatever the other rounds do,
\* there is no name left.  What it unlinks is there, and its own.
OnlySlowArjunLeaks ==
    /\ Held \subseteq Ours
    /\ Cardinality(Ours \ Held) = slow
    /\ pc = "loop" => Held = {}

=============================================================================
