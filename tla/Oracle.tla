------------------------------- MODULE Oracle -------------------------------
(***************************************************************************)
(* One test of fuzz.py: what it draws, which counters it runs on which     *)
(* files, which answer becomes the reference, and the verdict.             *)
(*                                                                         *)
(* A count is a number of units.  For unweighted counts a unit is one      *)
(* model; for weighted and complex ones it is a fraction of 1e-10, small   *)
(* enough for the absolute slack of the comparison to matter, and a        *)
(* complex count is its size.  The counters are external: each run may     *)
(* crash, give no count in time, or answer any count.                      *)
(***************************************************************************)
EXTENDS Integers, Sequences

CONSTANTS
    OptionSet,       \* the command lines considered
    Counts,          \* the answers of a counter that counts models
    WeightedCounts,  \* the answers of a counter that adds up weights
    Truths,          \* the counts formulas may really have
    Epsilons,        \* tenths: 8 and 60
    Deltas,          \* percents: 20, 40 and 60
    NumReruns,       \* num_reruns (100)
    MaxFailed,       \* the number of failed reruns that ends them (5)
    FloatSlack,      \* 1e-10 in units
    NoMode,          \* options.mode is None, or the command line has no --mode
    NoCount          \* None

ASSUME OptionAssumption ==
    OptionSet \subseteq [weighted : BOOLEAN, unweighted : BOOLEAN,
                         projected : BOOLEAN, unprojected : BOOLEAN,
                         buddy : BOOLEAN, mode : {NoMode, 0, 1, 2, 4, 6, 7}]
ASSUME CountAssumption ==
    /\ Counts \subseteq Nat /\ WeightedCounts \subseteq Nat /\ Truths \subseteq Nat
    /\ NoCount \notin Nat /\ NoMode \notin Nat
ASSUME BoundAssumption ==
    /\ Epsilons \subseteq Nat /\ Deltas \subseteq Nat /\ FloatSlack \in Nat
    /\ NumReruns \in Nat \ {0} /\ MaxFailed \in Nat \ {0}

VARIABLES
    options,  \* the command line
    t,        \* the FuzzTest
    file,     \* what generate_cnf appended to the formula
    pc,       \* which function of one_test is at work
    cursor,   \* the index of the loop of do_runs or compare_counts
    rerun,    \* the counters of the loop of check_approx
    verdict   \* how the test ended

vars == <<options, t, file, pc, cursor, rerun, verdict>>

\* The comment of FLOAT_MODES: these agree only approximately.
FloatModes == {6, 7}

Solver == [mode : {NoMode, 0, 1, 2, 4, 6, 7}, exact : BOOLEAN]

Preproc == {"arjun", "none"}

NoRerun == [wrong |-> 0, done |-> 0, failed |-> 0, crashed |-> FALSE]

FreshTest ==
    [proj |-> FALSE, weighted |-> FALSE, cpx |-> FALSE, epsilon |-> 0, delta |-> 0,
     solvers |-> <<>>, simplified |-> <<>>, runs |-> <<>>, counts |-> <<>>,
     exact_count |-> NoCount]

Init ==
    /\ options \in OptionSet
    /\ t = FreshTest
    /\ file = [weights |-> "none", show |-> FALSE]
    /\ pc = "pick"
    /\ cursor = 1
    /\ rerun = NoRerun
    /\ verdict = "none"

-----------------------------------------------------------------------------
(***************************************************************************)
(* Drawing the test.                                                       *)
(***************************************************************************)

\* sys.exit, or an exception nobody catches.
Stop(how) ==
    /\ pc' = "stopped"
    /\ verdict' = how

PickTestParams ==
    /\ pc = "pick"
    /\ \E proj, weighted, cpx \in BOOLEAN :
          t' = [t EXCEPT
                !.proj = IF options.unprojected THEN FALSE
                         ELSE options.projected \/ proj,
                !.weighted = IF options.mode # NoMode
                             THEN options.mode \in {1, 2, 6, 7}
                             ELSE IF options.unweighted THEN FALSE
                             ELSE options.weighted \/ weighted,
                !.cpx = IF options.mode # NoMode THEN options.mode \in {2, 6}
                        ELSE cpx]
    /\ pc' = "generate"
    /\ UNCHANGED <<options, file, cursor, rerun, verdict>>

\* Mutant: complex weights are written only when weighted was drawn as well.
GenerateCnfBothFlags ==
    /\ pc = "generate"
    /\ file' = [weights |-> IF t.cpx /\ t.weighted THEN "complex"
                            ELSE IF t.weighted THEN "real" ELSE "none",
                show |-> t.proj]
    /\ pc' = "solvers"
    /\ UNCHANGED <<options, t, cursor, rerun, verdict>>

\* The generator ran; the projection and the weights are appended.
GenerateCnf ==
    /\ pc = "generate"
    /\ file' = [weights |-> IF t.cpx THEN "complex"
                            ELSE IF t.weighted THEN "real" ELSE "none",
                show |-> t.proj]
    /\ pc' = "solvers"
    /\ UNCHANGED <<options, t, cursor, rerun, verdict>>

\* The generator failed, or the file has no "p cnf" line.
GenerateFails ==
    /\ pc = "generate"
    /\ Stop("generator error")
    /\ UNCHANGED <<options, t, file, cursor, rerun>>

\* Mutant: --appmct in any mode.
GanakSolversAppmct(mode) ==
    [mode : {mode}, exact : IF options.buddy THEN BOOLEAN ELSE {TRUE}]

\* Only a mode 0 ganak under --buddy may be given --appmct, which makes it
\* approximate.
GanakSolvers(mode) ==
    [mode : {mode},
     exact : IF options.buddy /\ mode = 0 THEN BOOLEAN ELSE {TRUE}]

ApproxMC == [mode |-> NoMode, exact |-> FALSE]

SolverLists ==
    IF t.cpx
    THEN {<<two, six>> : two \in GanakSolvers(2), six \in GanakSolvers(6)}
    ELSE IF options.mode = 4
    THEN {<<zero, a, b, c>> : zero \in GanakSolvers(0),
                              a, b, c \in GanakSolvers(4)}
    ELSE IF ~t.weighted
    THEN LET plain == {<<ApproxMC, zero>> : zero \in GanakSolvers(0)}
         IN plain \union
            IF options.mode = NoMode
            THEN {Append(p, four) : p \in plain, four \in GanakSolvers(4)}
            ELSE {}
    ELSE {<<one, seven>> : one \in GanakSolvers(1), seven \in GanakSolvers(7)}

BuildSolvers ==
    /\ pc = "solvers"
    /\ \E epsilon \in Epsilons, delta \in Deltas, solvers \in SolverLists :
          t' = [t EXCEPT !.epsilon = epsilon, !.delta = delta,
                         !.weighted = @ \/ t.cpx, !.proj = @ /\ ~t.cpx,
                         !.solvers = solvers]
    /\ pc' = "preprocs"
    /\ UNCHANGED <<options, file, cursor, rerun, verdict>>

\* Arjun's output is used if Arjun answered in time, the plain copy always.
RunPreprocs ==
    /\ pc = "preprocs"
    /\ \E simplified \in {<<"arjun", "none">>, <<"none">>} :
          t' = [t EXCEPT !.simplified = simplified]
    /\ pc' = "plan"
    /\ UNCHANGED <<options, file, cursor, rerun, verdict>>

PreprocFails ==
    /\ pc = "preprocs"
    /\ Stop("preproc error")
    /\ UNCHANGED <<options, t, file, cursor, rerun>>

\* print_plan refuses a single solver; build_runs pairs every solver with every
\* file, solvers first.
Pairs(solvers, files) ==
    [k \in 1..(Len(solvers) * Len(files)) |->
        [solver |-> solvers[((k - 1) \div Len(files)) + 1],
         preproc |-> files[((k - 1) % Len(files)) + 1]]]

BuildRuns ==
    /\ pc = "plan"
    /\ Len(t.solvers) # 1
    /\ t' = [t EXCEPT !.runs = Pairs(t.solvers, t.simplified)]
    /\ pc' = "runs"
    /\ cursor' = 1
    /\ UNCHANGED <<options, file, rerun, verdict>>

-----------------------------------------------------------------------------
(***************************************************************************)
(* do_runs: every counter on every file.                                   *)
(***************************************************************************)

Answers(solver) ==
    IF solver.mode = 4 THEN {0, 1}
    ELSE IF t.weighted THEN WeightedCounts ELSE Counts

\* Mutant: a parity may be the reference.
IsReferenceParity(run) == run.solver.exact /\ run.preproc = "none"

\* The reference is the last count of an exact counter on the formula as it was
\* generated; a parity is no reference.
IsReference(run) ==
    run.solver.exact /\ run.preproc = "none" /\ run.solver.mode # 4

RunCounts ==
    /\ pc = "runs"
    /\ cursor <= Len(t.runs)
    /\ \E c \in Answers(t.runs[cursor].solver) :
          LET got == [solver |-> t.runs[cursor].solver,
                      preproc |-> t.runs[cursor].preproc, count |-> c]
          IN t' = [t EXCEPT !.counts = Append(@, got),
                            !.exact_count = IF IsReference(t.runs[cursor])
                                            THEN got ELSE @]
    /\ cursor' = cursor + 1
    /\ UNCHANGED <<options, file, pc, rerun, verdict>>

\* Too slow, or out of memory: (True, None).
RunGivesNoCount ==
    /\ pc = "runs"
    /\ cursor <= Len(t.runs)
    /\ cursor' = cursor + 1
    /\ UNCHANGED <<options, t, file, pc, rerun, verdict>>

\* It crashed, or its output made no sense.
RunFails ==
    /\ pc = "runs"
    /\ cursor <= Len(t.runs)
    /\ Stop("run error")
    /\ UNCHANGED <<options, t, file, cursor, rerun>>

\* Without a reference the counts are not compared, whatever they are.
RunsDone ==
    /\ pc = "runs"
    /\ cursor > Len(t.runs)
    /\ IF t.exact_count = NoCount
       THEN /\ Stop("unchecked")
            /\ UNCHANGED cursor
       ELSE /\ pc' = "compare"
            /\ cursor' = 1
            /\ UNCHANGED verdict
    /\ UNCHANGED <<options, t, file, rerun>>

-----------------------------------------------------------------------------
(***************************************************************************)
(* compare_counts and check_approx.                                        *)
(***************************************************************************)

AbsDiff(a, b) == IF a < b THEN b - a ELSE a - b

\* perc_diff(got, want) > 0.02, where a difference from 0 counts as 100.
FarApart(got, want) ==
    got # want /\ (want = 0 \/ AbsDiff(got, want) * 100 > 2 * want)

Slack(a, b) == IF a.mode \in FloatModes \/ b.mode \in FloatModes THEN FloatSlack ELSE 0

WeightedMismatch(got, ref) ==
    /\ FarApart(got.count, ref.count)
    /\ AbsDiff(got.count, ref.count) > Slack(got.solver, ref.solver)

ParityMismatch(got, ref) == got.solver.mode = 4 /\ got.count # ref.count % 2

\* Mutant: the counts on Arjun's output are not compared.
ExactMismatchPlain(got, ref) ==
    /\ got.solver.mode # 4 /\ ~t.weighted /\ got.preproc = "none"
    /\ got.solver.exact /\ got.count # ref.count

ExactMismatch(got, ref) ==
    /\ got.solver.mode # 4 /\ ~t.weighted
    /\ got.solver.exact /\ got.count # ref.count

\* The approximate count differs and check_approx is called.
ApproxDiffers(got, ref) ==
    /\ got.solver.mode # 4 /\ ~t.weighted
    /\ ~got.solver.exact /\ got.count # ref.count

OutOfRange(count) ==
    LET ref == t.exact_count.count
    IN \/ count * 10 > ref * (10 + t.epsilon)
       \/ count * (10 + t.epsilon) < ref * 10

Got == t.counts[cursor]

Comparing == pc = "compare" /\ cursor <= Len(t.counts)

\* Every check passes: "OK".
CompareOk ==
    /\ Comparing
    /\ t.weighted => Got.solver.exact /\ ~WeightedMismatch(Got, t.exact_count)
    /\ ~ParityMismatch(Got, t.exact_count)
    /\ ~ExactMismatch(Got, t.exact_count)
    /\ ApproxDiffers(Got, t.exact_count) => Got.count # 0 /\ ~OutOfRange(Got.count)
    /\ cursor' = cursor + 1
    /\ UNCHANGED <<options, t, file, pc, rerun, verdict>>

ReportMismatch ==
    /\ Comparing
    /\ \/ t.weighted /\ Got.solver.exact /\ WeightedMismatch(Got, t.exact_count)
       \/ ParityMismatch(Got, t.exact_count)
       \/ ExactMismatch(Got, t.exact_count)
    /\ Stop("mismatch")
    /\ UNCHANGED <<options, t, file, cursor, rerun>>

\* check_approx prints ref.count / float(got.count).
DivideByZero ==
    /\ Comparing
    /\ ApproxDiffers(Got, t.exact_count)
    /\ Got.count = 0
    /\ Stop("division by zero")
    /\ UNCHANGED <<options, t, file, cursor, rerun>>

StartReruns ==
    /\ Comparing
    /\ ApproxDiffers(Got, t.exact_count)
    /\ Got.count # 0
    /\ OutOfRange(Got.count)
    /\ pc' = "rerun"
    /\ rerun' = [NoRerun EXCEPT !.crashed = rerun.crashed]
    /\ UNCHANGED <<options, t, file, cursor, verdict>>

Rerunning == pc = "rerun" /\ rerun.done < NumReruns /\ rerun.failed < MaxFailed

\* The loop goes round once more, and run_one_counter is at work.
BeginRerun ==
    /\ Rerunning
    /\ pc' = "recount"
    /\ UNCHANGED <<options, t, file, cursor, rerun, verdict>>

RerunCounts ==
    /\ pc = "recount"
    /\ \E c \in Counts :
          rerun' = [rerun EXCEPT !.done = @ + 1,
                                 !.wrong = IF OutOfRange(c) THEN @ + 1 ELSE @]
    /\ pc' = "rerun"
    /\ UNCHANGED <<options, t, file, cursor, verdict>>

\* Mutant: a rerun without a count is skipped and not counted.
RerunNotCounted ==
    /\ pc = "recount"
    /\ \E crashed \in BOOLEAN : rerun' = [rerun EXCEPT !.crashed = @ \/ crashed]
    /\ pc' = "rerun"
    /\ UNCHANGED <<options, t, file, cursor, verdict>>

\* run_one_counter returned no count; "continue" comes before the test of ok, so
\* that a crash is counted like a timeout.
RerunGivesNoCount ==
    /\ pc = "recount"
    /\ \E crashed \in BOOLEAN :
          rerun' = [rerun EXCEPT !.failed = @ + 1, !.crashed = @ \/ crashed]
    /\ pc' = "rerun"
    /\ UNCHANGED <<options, t, file, cursor, verdict>>

\* Two counts in one output, or a line that cannot be parsed: run_one_counter exits.
RerunExits ==
    /\ pc = "recount"
    /\ Stop("rerun error")
    /\ UNCHANGED <<options, t, file, cursor, rerun>>

\* perc_wrong > allowed_perc_wrong: "Delta was exceeded".
DeltaExceeded ==
    /\ rerun.failed < MaxFailed
    /\ rerun.wrong * 100 > t.delta * NumReruns

RerunsDone ==
    /\ pc = "rerun" /\ ~Rerunning
    /\ IF DeltaExceeded
       THEN /\ Stop("delta exceeded")
            /\ UNCHANGED cursor
       ELSE /\ pc' = "compare"
            /\ cursor' = cursor + 1
            /\ UNCHANGED verdict
    /\ UNCHANGED <<options, t, file, rerun>>

\* "Checking with file ... finished"
Pass ==
    /\ pc = "compare"
    /\ cursor > Len(t.counts)
    /\ Stop("pass")
    /\ UNCHANGED <<options, t, file, cursor, rerun>>

Stopped == pc = "stopped" /\ UNCHANGED vars

Draw == PickTestParams \/ GenerateCnf \/ GenerateFails \/ BuildSolvers

Prepare == RunPreprocs \/ PreprocFails \/ BuildRuns

Count == RunCounts \/ RunGivesNoCount \/ RunFails \/ RunsDone

Compare ==
    \/ CompareOk \/ ReportMismatch \/ DivideByZero
    \/ StartReruns \/ BeginRerun \/ RerunCounts \/ RerunGivesNoCount \/ RerunExits
    \/ RerunsDone \/ Pass

Next == Draw \/ Prepare \/ Count \/ Compare \/ Stopped

\* run() kills every counter after --tout seconds, so that no run blocks the test.
Spec == Init /\ [][Next]_vars /\ WF_vars(Next)

-----------------------------------------------------------------------------
(***************************************************************************)
(* Properties.                                                             *)
(***************************************************************************)

\* The modes the solvers count in can read the weights that generate_cnf wrote,
\* although the two are decided by different functions, with pick_test_params
\* and build_solvers changing the flags before and after.
ModesFitFile ==
    \A i \in 1..Len(t.solvers) :
        t.solvers[i].mode \in CASE file.weights = "none" -> {NoMode, 0, 4}
                                [] file.weights = "real" -> {1, 7}
                                [] file.weights = "complex" -> {2, 6}

\* What a counter without a bug may answer if the count is truth.  A floating point
\* mode may be half a percent or half the slack off, an approximate one as much as
\* epsilon allows.
Right(got, truth) ==
    IF got.solver.mode = 4 THEN got.count = truth % 2
    ELSE IF ~got.solver.exact
    THEN /\ got.count * 10 <= truth * (10 + t.epsilon)
         /\ got.count * (10 + t.epsilon) >= truth * 10
    ELSE IF got.solver.mode \in FloatModes
    THEN \/ AbsDiff(got.count, truth) * 200 <= truth
         \/ AbsDiff(got.count, truth) * 2 <= FloatSlack
    ELSE got.count = truth

\* "counts disagree" is never said, and the division by zero never reached, with
\* counts that could all be right: the reference is of a kind that every other count
\* may be compared with.
NoFalseAlarm ==
    verdict \in {"mismatch", "division by zero"} =>
        \A truth \in Truths : \E i \in 1..Len(t.counts) : ~Right(t.counts[i], truth)

Agree(a, b) ==
    IF t.weighted
    THEN \/ AbsDiff(a.count, b.count) * 100 <= 5 * (a.count + b.count)
         \/ AbsDiff(a.count, b.count) <= 2 * FloatSlack
    ELSE IF a.solver.mode = 4 THEN b.solver.mode = 4 => a.count = b.count
    ELSE IF b.solver.mode = 4 THEN a.count % 2 = b.count
    ELSE a.count = b.count

\* A test that passes against a reference leaves no two exact counts that contradict
\* each other, on whichever file each was made; and no approximate count out of
\* range, unless the reruns were given up or stayed within delta.
PassMeansAgreement ==
    verdict = "pass" =>
        /\ \A i, j \in 1..Len(t.counts) :
              t.counts[i].solver.exact /\ t.counts[j].solver.exact =>
                  Agree(t.counts[i], t.counts[j])
        /\ \A i \in 1..Len(t.counts) :
              ~t.counts[i].solver.exact /\ OutOfRange(t.counts[i].count) =>
                  \/ rerun.failed = MaxFailed
                  \/ rerun.done = NumReruns /\ rerun.wrong * 100 <= t.delta * NumReruns

\* What the program checks of itself never fails: print_plan's "it makes no sense
\* to run a single solver", and the assertion of compare_counts that no weighted
\* test has an approximate counter.
ChecksHold ==
    /\ pc = "plan" => Len(t.solvers) # 1
    /\ Comparing /\ t.weighted => Got.solver.exact

\* Every test comes to a verdict: the loop of check_approx, which a rerun without a
\* count goes round without getting nearer to num_reruns, ends whatever mixture of
\* counts, timeouts and crashes the reruns give.
Concludes == <>(verdict # "none")

-----------------------------------------------------------------------------
(***************************************************************************)
(* What the documentation says and the code does not do.                   *)
(***************************************************************************)

\* README: "--unweighted # only unweighted".
UnweightedOnly == options.unweighted /\ options.mode = NoMode => file.weights = "none"

\* "ERROR: rerun failed?" is printed when a rerun crashes.
RerunCrashReported == verdict = "pass" => ~rerun.crashed

=============================================================================
