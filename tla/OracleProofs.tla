---------------------------- MODULE OracleProofs ----------------------------
(***************************************************************************)
(* Proofs about Oracle, for every command line, every count a counter may  *)
(* give, every slack and every number of reruns.                           *)
(*                                                                         *)
(* The inductive invariant follows the test: the flags fit what was        *)
(* written to the file (Drawn), every counter suits the flags (Suits), the *)
(* reference is one of the counts and of an exact counter (RefOK), and the *)
(* counts before the cursor passed their check (Compared).  What is left   *)
(* is arithmetic: two counts that are both close to a third one are close  *)
(* to each other.                                                          *)
(***************************************************************************)
EXTENDS Oracle, SequenceTheorems, TLAPS

-----------------------------------------------------------------------------
(***************************************************************************)
(* The invariant.                                                          *)
(***************************************************************************)

Run == [solver : Solver, preproc : Preproc]

Answer == [solver : Solver, preproc : Preproc, count : Nat]

TypeOK ==
    /\ options \in OptionSet
    /\ t \in [proj : BOOLEAN, weighted : BOOLEAN, cpx : BOOLEAN, epsilon : Nat, delta : Nat,
              solvers : Seq(Solver), simplified : Seq(Preproc), runs : Seq(Run),
              counts : Seq(Answer), exact_count : Answer \union {NoCount}]
    /\ cursor \in Nat \ {0}
    /\ rerun \in [wrong : Nat, done : 0..NumReruns, failed : 0..MaxFailed, crashed : BOOLEAN]
    /\ pc = "recount" => rerun.done < NumReruns /\ rerun.failed < MaxFailed

\* A counter of a weighted test is exact and reads weights; one of an unweighted test
\* reads none, and only one that counts models may be approximate.
SuitsFlag(solver, weighted) ==
    /\ weighted => solver.exact /\ solver.mode \in {1, 2, 6, 7}
    /\ ~weighted => solver.mode \in {NoMode, 0, 4}
    /\ solver.mode = 4 => solver.exact

Suits(solver) == SuitsFlag(solver, t.weighted)

\* The flags until the counters are drawn, and what was written to the file for them.
Drawn ==
    /\ pc \in {"pick", "generate", "solvers"} =>
          t.solvers = <<>> /\ t.runs = <<>> /\ t.counts = <<>> /\ t.exact_count = NoCount
    /\ pc \in {"generate", "solvers"} /\ options.mode = 4 => ~t.weighted /\ ~t.cpx
    /\ pc = "solvers" =>
          file.weights = IF t.cpx THEN "complex" ELSE IF t.weighted THEN "real" ELSE "none"

\* The counters, the runs and the answers of a test.
ListsOK ==
    /\ \A i \in 1..Len(t.solvers) : Suits(t.solvers[i])
    /\ \A i \in 1..Len(t.runs) : Suits(t.runs[i].solver)
    /\ \A i \in 1..Len(t.counts) : Suits(t.counts[i].solver)
    /\ pc \in {"preprocs", "plan"} => Len(t.solvers) # 1
    /\ pc = "plan" => Len(t.simplified) \in {1, 2}

\* The reference is an answer of an exact counter that counts models.
RefOK ==
    t.exact_count # NoCount =>
        /\ \E i \in 1..Len(t.counts) : t.counts[i] = t.exact_count
        /\ t.exact_count.solver.exact /\ t.exact_count.solver.mode # 4

\* The reruns were given up, or stayed within delta.
RerunsOK ==
    \/ rerun.failed = MaxFailed
    \/ rerun.done = NumReruns /\ rerun.wrong * 100 <= t.delta * NumReruns

\* The check an answer passes.
Passed(got) ==
    /\ t.weighted => ~WeightedMismatch(got, t.exact_count)
    /\ ~ParityMismatch(got, t.exact_count)
    /\ ~ExactMismatch(got, t.exact_count)

\* Every answer before the cursor was compared.
Compared ==
    /\ pc \in {"compare", "rerun", "recount"} =>
          /\ t.exact_count # NoCount
          /\ \A i \in 1..Len(t.counts) : i < cursor => Passed(t.counts[i])
    /\ pc \in {"rerun", "recount"} => cursor <= Len(t.counts) /\ ~Got.solver.exact
    /\ pc = "compare" =>
          \A i \in 1..Len(t.counts) :
              i < cursor /\ ~t.counts[i].solver.exact /\ OutOfRange(t.counts[i].count) => RerunsOK

Verdict ==
    /\ verdict # "none" => pc = "stopped"
    /\ NoFalseAlarm
    /\ PassMeansAgreement

-----------------------------------------------------------------------------
(***************************************************************************)
(* Arithmetic: numbers close to a third one.                               *)
(***************************************************************************)

LEMMA DiffIsNat ==
  ASSUME NEW a \in Nat, NEW b \in Nat
  PROVE  AbsDiff(a, b) \in Nat /\ (a = b => AbsDiff(a, b) = 0)
BY DEF AbsDiff

\* Half a percent, or half the slack, on both sides of the truth is neither more than
\* two percent apart nor more than the slack.
LEMMA CloseToTruth ==
  ASSUME NEW got \in Nat, NEW want \in Nat, NEW truth \in Nat, NEW slack \in Nat,
         AbsDiff(got, truth) * 200 <= truth \/ AbsDiff(got, truth) * 2 <= slack,
         AbsDiff(want, truth) * 200 <= truth \/ AbsDiff(want, truth) * 2 <= slack
  PROVE  ~FarApart(got, want) \/ AbsDiff(got, want) <= slack
BY DEF AbsDiff, FarApart

\* Two percent, or the slack, on both sides of the reference is at most five percent, or
\* twice the slack.
LEMMA CloseToReference ==
  ASSUME NEW a \in Nat, NEW b \in Nat, NEW ref \in Nat, NEW slack \in Nat,
         ~FarApart(a, ref) \/ AbsDiff(a, ref) <= slack,
         ~FarApart(b, ref) \/ AbsDiff(b, ref) <= slack
  PROVE  AbsDiff(a, b) * 100 <= 5 * (a + b) \/ AbsDiff(a, b) <= 2 * slack
BY DEF AbsDiff, FarApart

\* Two exact answers that may both be right do not contradict each other.
LEMMA RightAnswersMatch ==
  ASSUME NEW got \in Answer, NEW ref \in Answer, NEW truth \in Nat,
         got.solver.exact, got.solver.mode # 4, ref.solver.exact, ref.solver.mode # 4,
         Right(got, truth), Right(ref, truth)
  PROVE  ~WeightedMismatch(got, ref)
<1> DEFINE a == got.count
           b == ref.count
<1>0. a \in Nat /\ b \in Nat /\ FloatSlack \in Nat
  BY BoundAssumption DEF Answer
<1>1. ASSUME NEW x \in Answer, x.solver.exact, x.solver.mode # 4, Right(x, truth)
      PROVE  \/ AbsDiff(x.count, truth) * 200 <= truth
             \/ /\ x.solver.mode \in FloatModes
                /\ AbsDiff(x.count, truth) * 2 <= FloatSlack
  <2>1. CASE x.solver.mode \in FloatModes
    BY <1>1, <2>1 DEF Right
  <2>2. CASE x.solver.mode \notin FloatModes
    <3>1. x.count = truth
      BY <1>1, <2>2 DEF Right
    <3> QED
      BY <3>1, DiffIsNat
  <2> QED
    BY <2>1, <2>2
<1>2. CASE got.solver.mode \in FloatModes \/ ref.solver.mode \in FloatModes
  <2>1. Slack(got.solver, ref.solver) = FloatSlack
    BY <1>2 DEF Slack
  <2>2. ~FarApart(a, b) \/ AbsDiff(a, b) <= FloatSlack
    BY <1>0, <1>1, CloseToTruth
  <2>3. AbsDiff(a, b) \in Nat
    BY <1>0, DiffIsNat
  <2> HIDE DEF a, b
  <2>4. ~(FarApart(a, b) /\ AbsDiff(a, b) > FloatSlack)
    BY <1>0, <2>2, <2>3
  <2> QED
    BY <2>1, <2>4 DEF WeightedMismatch, a, b
<1>3. CASE got.solver.mode \notin FloatModes /\ ref.solver.mode \notin FloatModes
  <2>1. got.count = truth /\ ref.count = truth
    BY <1>3 DEF Right
  <2> QED
    BY <2>1 DEF WeightedMismatch, FarApart
<1> QED
  BY <1>2, <1>3

\* Two answers that match the reference agree with each other.
LEMMA MatchesAgree ==
  ASSUME NEW a \in Answer, NEW b \in Answer, NEW ref \in Answer,
         ~WeightedMismatch(a, ref), ~WeightedMismatch(b, ref)
  PROVE  \/ AbsDiff(a.count, b.count) * 100 <= 5 * (a.count + b.count)
         \/ AbsDiff(a.count, b.count) <= 2 * FloatSlack
<1>1. ASSUME NEW x \in Answer, ~WeightedMismatch(x, ref)
      PROVE  ~FarApart(x.count, ref.count) \/ AbsDiff(x.count, ref.count) <= FloatSlack
  <2>1. AbsDiff(x.count, ref.count) \in Nat /\ FloatSlack \in Nat
    BY DiffIsNat, BoundAssumption DEF Answer
  <2>2. Slack(x.solver, ref.solver) \in {0, FloatSlack}
    BY DEF Slack
  <2> HIDE DEF Answer
  <2>3. ~FarApart(x.count, ref.count) \/ ~(AbsDiff(x.count, ref.count) > Slack(x.solver, ref.solver))
    BY <1>1 DEF WeightedMismatch
  <2>4. ~(AbsDiff(x.count, ref.count) > Slack(x.solver, ref.solver))
           => AbsDiff(x.count, ref.count) <= FloatSlack
    BY <2>1, <2>2
  <2> QED
    BY <2>3, <2>4
<1>2. a.count \in Nat /\ b.count \in Nat /\ ref.count \in Nat /\ FloatSlack \in Nat
  BY BoundAssumption DEF Answer
<1> QED
  BY <1>1, <1>2, CloseToReference

-----------------------------------------------------------------------------
(***************************************************************************)
(* The lists.                                                              *)
(***************************************************************************)

LEMMA AppendSolver ==
  ASSUME NEW list \in Seq(Solver), NEW last \in Solver
  PROVE  /\ Append(list, last) \in Seq(Solver)
         /\ Len(Append(list, last)) = Len(list) + 1
         /\ \A i \in 1..Len(list) : Append(list, last)[i] = list[i]
         /\ Append(list, last)[Len(list) + 1] = last
OBVIOUS

LEMMA AppendThird ==
  ASSUME NEW pair \in Seq(Solver), Len(pair) = 2, NEW third \in Solver
  PROVE  /\ Append(pair, third) \in Seq(Solver) /\ Len(Append(pair, third)) = 3
         /\ Append(pair, third)[1] = pair[1] /\ Append(pair, third)[2] = pair[2]
         /\ Append(pair, third)[3] = third
<1>1. Len(pair) + 1 = 3 /\ 1 \in 1..Len(pair) /\ 2 \in 1..Len(pair)
  OBVIOUS
<1>2. Append(pair, third)[Len(pair) + 1] = third
  BY AppendSolver
<1>3. Append(pair, third)[1] = pair[1] /\ Append(pair, third)[2] = pair[2]
  BY <1>1, AppendSolver
<1>4. Append(pair, third) \in Seq(Solver) /\ Len(Append(pair, third)) = 3
  BY <1>1, AppendSolver
<1>5. Append(pair, third)[3] = third
  BY <1>1, <1>2
<1> QED
  BY <1>3, <1>4, <1>5

\* Every list build_solvers may draw has two counters at least, and each of them suits
\* the flags and reads the weights of the file.
LEMMA SolversSuit ==
  ASSUME t.cpx \in BOOLEAN, t.weighted \in BOOLEAN,
         options.mode = 4 => ~t.weighted /\ ~t.cpx,
         NEW list \in SolverLists
  PROVE  /\ list \in Seq(Solver) /\ Len(list) \in {2, 3, 4}
         /\ \A i \in 1..Len(list) :
               /\ SuitsFlag(list[i], t.weighted \/ t.cpx)
               /\ list[i].mode \in IF t.cpx THEN {2, 6}
                                   ELSE IF t.weighted THEN {1, 7} ELSE {NoMode, 0, 4}
<1>0. ASSUME NEW m \in {0, 1, 2, 4, 6, 7}, NEW s \in GanakSolvers(m)
      PROVE  s \in Solver /\ s.mode = m /\ (m # 0 => s.exact)
  BY <1>0 DEF GanakSolvers, Solver
<1>1. ApproxMC \in Solver /\ ApproxMC.mode = NoMode /\ NoMode \notin {0, 1, 2, 4, 6, 7}
  BY CountAssumption DEF ApproxMC, Solver
<1>2. CASE t.cpx
  <2>1. PICK two \in GanakSolvers(2), six \in GanakSolvers(6) : list = <<two, six>>
    BY <1>2 DEF SolverLists
  <2>2. /\ two \in Solver /\ two.mode = 2 /\ two.exact
        /\ six \in Solver /\ six.mode = 6 /\ six.exact
    BY <1>0
  <2>3. /\ list \in Seq(Solver) /\ Len(list) = 2 /\ list[1] = two /\ list[2] = six
    BY <2>1, <2>2
  <2> QED
    BY <1>2, <2>2, <2>3 DEF SuitsFlag
<1>3. CASE ~t.cpx /\ options.mode = 4
  <2>1. PICK zero \in GanakSolvers(0), a \in GanakSolvers(4), b \in GanakSolvers(4),
             c \in GanakSolvers(4) : list = <<zero, a, b, c>>
    BY <1>3 DEF SolverLists
  <2>2. /\ zero \in Solver /\ zero.mode = 0
        /\ a \in Solver /\ a.mode = 4 /\ a.exact
        /\ b \in Solver /\ b.mode = 4 /\ b.exact
        /\ c \in Solver /\ c.mode = 4 /\ c.exact
    BY <1>0
  <2>3. /\ list \in Seq(Solver) /\ Len(list) = 4
        /\ list[1] = zero /\ list[2] = a /\ list[3] = b /\ list[4] = c
    BY <2>1, <2>2
  <2> QED
    BY <1>3, <2>2, <2>3 DEF SuitsFlag
<1>4. CASE ~t.cpx /\ options.mode # 4 /\ ~t.weighted
  <2>1. PICK zero \in GanakSolvers(0) :
            \/ list = <<ApproxMC, zero>>
            \/ \E four \in GanakSolvers(4) : list = Append(<<ApproxMC, zero>>, four)
    <3> DEFINE plain == {<<ApproxMC, zero>> : zero \in GanakSolvers(0)}
    <3>1. \/ list \in plain
          \/ list \in {Append(p, four) : p \in plain, four \in GanakSolvers(4)}
      BY <1>4 DEF SolverLists
    <3>2. ASSUME list \in plain
          PROVE  \E zero \in GanakSolvers(0) : list = <<ApproxMC, zero>>
      BY <3>2
    <3>3. ASSUME NEW p \in plain, NEW four \in GanakSolvers(4), list = Append(p, four)
          PROVE  \E zero \in GanakSolvers(0) : list = Append(<<ApproxMC, zero>>, four)
      <4>1. PICK zero \in GanakSolvers(0) : p = <<ApproxMC, zero>>
        OBVIOUS
      <4> QED
        BY <3>3, <4>1
    <3>4. ASSUME list \notin plain
          PROVE  \E four \in GanakSolvers(4), zero \in GanakSolvers(0) :
                    list = Append(<<ApproxMC, zero>>, four)
      <4>1. PICK p \in plain, four \in GanakSolvers(4) : list = Append(p, four)
        BY <3>1, <3>4
      <4> QED
        BY <3>3, <4>1
    <3> HIDE DEF plain
    <3> QED
      BY <3>2, <3>4
  <2>2. zero \in Solver /\ zero.mode = 0
    BY <1>0
  <2>3. CASE list = <<ApproxMC, zero>>
    <3>1. /\ list \in Seq(Solver) /\ Len(list) = 2 /\ list[1] = ApproxMC /\ list[2] = zero
      BY <1>1, <2>2, <2>3
    <3> QED
      BY <1>1, <1>4, <2>2, <3>1 DEF SuitsFlag
  <2>4. ASSUME NEW four \in GanakSolvers(4), list = Append(<<ApproxMC, zero>>, four)
        PROVE  /\ list \in Seq(Solver) /\ Len(list) = 3
               /\ list[1] = ApproxMC /\ list[2] = zero /\ list[3] = four
               /\ four \in Solver /\ four.mode = 4 /\ four.exact
    <3>1. four \in Solver /\ four.mode = 4 /\ four.exact
      BY <1>0
    <3>2. /\ <<ApproxMC, zero>> \in Seq(Solver) /\ Len(<<ApproxMC, zero>>) = 2
          /\ <<ApproxMC, zero>>[1] = ApproxMC /\ <<ApproxMC, zero>>[2] = zero
      BY <1>1, <2>2
    <3> QED
      BY <2>4, <3>1, <3>2, AppendThird
  <2> QED
    BY <1>1, <1>4, <2>1, <2>2, <2>3, <2>4 DEF SuitsFlag
<1>5. CASE ~t.cpx /\ options.mode # 4 /\ t.weighted
  <2>1. PICK one \in GanakSolvers(1), seven \in GanakSolvers(7) : list = <<one, seven>>
    BY <1>5 DEF SolverLists
  <2>2. /\ one \in Solver /\ one.mode = 1 /\ one.exact
        /\ seven \in Solver /\ seven.mode = 7 /\ seven.exact
    BY <1>0
  <2>3. list \in Seq(Solver) /\ Len(list) = 2 /\ list[1] = one /\ list[2] = seven
    BY <2>1, <2>2
  <2> QED
    BY <1>5, <2>2, <2>3 DEF SuitsFlag
<1> QED
  BY <1>2, <1>3, <1>4, <1>5

LEMMA AppendAnswer ==
  ASSUME NEW list \in Seq(Answer), NEW last \in Answer
  PROVE  /\ Append(list, last) \in Seq(Answer)
         /\ Len(Append(list, last)) = Len(list) + 1
         /\ \A i \in 1..Len(list) : Append(list, last)[i] = list[i]
         /\ Append(list, last)[Len(list) + 1] = last
OBVIOUS

\* A run is made of one of the counters and one of the files.
LEMMA PairsAreRuns ==
  ASSUME NEW solvers \in Seq(Solver), NEW files \in Seq(Preproc), Len(files) \in {1, 2}
  PROVE  /\ Pairs(solvers, files) \in Seq(Run)
         /\ \A k \in 1..Len(Pairs(solvers, files)) :
               \E i \in 1..Len(solvers) : Pairs(solvers, files)[k].solver = solvers[i]
<1> DEFINE n == Len(solvers) * Len(files)
           row(k) == ((k - 1) \div Len(files)) + 1
           col(k) == ((k - 1) % Len(files)) + 1
<1>0. Len(solvers) \in Nat /\ Len(files) \in Nat
  BY LenProperties
<1>1. n \in Nat
  BY <1>0
<1>2. ASSUME NEW k \in 1..n PROVE row(k) \in 1..Len(solvers) /\ col(k) \in 1..Len(files)
  <2>1. CASE Len(files) = 1
    BY <1>0, <2>1
  <2>2. CASE Len(files) = 2
    BY <1>0, <2>2
  <2> QED
    BY <2>1, <2>2
<1>3. \A k \in 1..n : solvers[row(k)] \in Solver /\ files[col(k)] \in Preproc
  BY <1>2, ElementOfSeq
<1>4. Pairs(solvers, files) = [k \in 1..n |-> [solver |-> solvers[row(k)],
                                               preproc |-> files[col(k)]]]
  BY DEF Pairs
<1> HIDE DEF n, row, col
<1>5. Pairs(solvers, files) \in [1..n -> Run]
  BY <1>3, <1>4 DEF Run
<1>6. Pairs(solvers, files) \in Seq(Run)
  BY <1>1, <1>5, SeqDef
<1>7. 1..Len(Pairs(solvers, files)) = 1..n
  BY <1>5, <1>6, LenProperties
<1>8. ASSUME NEW k \in 1..n PROVE Pairs(solvers, files)[k].solver = solvers[row(k)]
  BY <1>4, <1>8
<1> QED
  BY <1>2, <1>6, <1>7, <1>8

-----------------------------------------------------------------------------
(***************************************************************************)
(* Every step keeps the types.                                             *)
(***************************************************************************)

\* A run that is within bounds has an answer that is a number.
LEMMA AnswerTyped ==
  ASSUME TypeOK, cursor <= Len(t.runs), NEW c \in Answers(t.runs[cursor].solver)
  PROVE  [solver |-> t.runs[cursor].solver, preproc |-> t.runs[cursor].preproc, count |-> c]
            \in Answer
<1>1. t.runs \in Seq(Run) /\ cursor \in Nat \ {0}
  BY DEF TypeOK
<1>2. Len(t.runs) \in Nat
  BY <1>1, LenProperties
<1>3. cursor \in 1..Len(t.runs)
  BY <1>1, <1>2
<1>4. t.runs[cursor] \in Run
  BY <1>1, <1>3, ElementOfSeq
<1>5. c \in Nat
  BY CountAssumption DEF Answers
<1> QED
  BY <1>4, <1>5 DEF Run, Answer

LEMMA TypeStep ==
  ASSUME TypeOK, Drawn, ListsOK, [Next]_vars
  PROVE  TypeOK'
<1> USE DEF TypeOK
<1>0. cursor + 1 \in Nat \ {0} /\ 1 \in Nat \ {0}
  OBVIOUS
<1>1. CASE PickTestParams
  <2>1. \E proj, weighted, cpx \in BOOLEAN :
           t' = [t EXCEPT !.proj = proj, !.weighted = weighted, !.cpx = cpx]
    <3>1. PICK proj \in BOOLEAN, weighted \in BOOLEAN, cpx \in BOOLEAN :
             t' = [t EXCEPT
                   !.proj = IF options.unprojected THEN FALSE
                            ELSE options.projected \/ proj,
                   !.weighted = IF options.mode # NoMode
                                THEN options.mode \in {1, 2, 6, 7}
                                ELSE IF options.unweighted THEN FALSE
                                ELSE options.weighted \/ weighted,
                   !.cpx = IF options.mode # NoMode THEN options.mode \in {2, 6}
                           ELSE cpx]
      BY <1>1, Zenon DEF PickTestParams
    <3>2. (IF options.unprojected THEN FALSE ELSE options.projected \/ proj) \in BOOLEAN
      OBVIOUS
    <3>3. (IF options.mode # NoMode THEN options.mode \in {1, 2, 6, 7}
           ELSE IF options.unweighted THEN FALSE
           ELSE options.weighted \/ weighted) \in BOOLEAN
      <4>1. (options.mode \in {1, 2, 6, 7}) \in BOOLEAN
        OBVIOUS
      <4>2. (IF options.unweighted THEN FALSE ELSE options.weighted \/ weighted) \in BOOLEAN
        OBVIOUS
      <4> QED
        BY <4>1, <4>2, Zenon
    <3>4. (IF options.mode # NoMode THEN options.mode \in {2, 6} ELSE cpx) \in BOOLEAN
      <4>1. (options.mode \in {2, 6}) \in BOOLEAN
        OBVIOUS
      <4> QED
        BY <4>1, Zenon
    <3> QED
      BY <3>1, <3>2, <3>3, <3>4, Zenon
  <2> QED
    BY <1>1, <2>1 DEF PickTestParams
<1>2. CASE BuildSolvers
  <2>1. PICK epsilon \in Epsilons, delta \in Deltas, solvers \in SolverLists :
           t' = [t EXCEPT !.epsilon = epsilon, !.delta = delta,
                          !.weighted = @ \/ t.cpx, !.proj = @ /\ ~t.cpx,
                          !.solvers = solvers]
    BY <1>2 DEF BuildSolvers
  <2>2. epsilon \in Nat /\ delta \in Nat
    BY BoundAssumption
  <2>3. solvers \in Seq(Solver)
    BY <1>2, SolversSuit DEF BuildSolvers, Drawn
  <2> QED
    BY <1>2, <2>1, <2>2, <2>3 DEF BuildSolvers
<1>3. CASE RunPreprocs
  <2>1. <<"arjun", "none">> \in Seq(Preproc) /\ <<"none">> \in Seq(Preproc)
    BY DEF Preproc
  <2> QED
    BY <1>3, <2>1 DEF RunPreprocs
<1>4. CASE BuildRuns
  <2>1. Pairs(t.solvers, t.simplified) \in Seq(Run)
    BY <1>4, PairsAreRuns DEF BuildRuns, ListsOK
  <2>2. t' = [t EXCEPT !.runs = Pairs(t.solvers, t.simplified)] /\ cursor' = 1
    BY <1>4 DEF BuildRuns
  <2> QED
    BY <1>0, <1>4, <2>1, <2>2 DEF BuildRuns
<1>5. CASE RunCounts
  <2>1. PICK c \in Answers(t.runs[cursor].solver) :
           LET got == [solver |-> t.runs[cursor].solver,
                       preproc |-> t.runs[cursor].preproc, count |-> c]
           IN t' = [t EXCEPT !.counts = Append(@, got),
                             !.exact_count = IF IsReference(t.runs[cursor])
                                             THEN got ELSE @]
    BY <1>5 DEF RunCounts
  <2> DEFINE got == [solver |-> t.runs[cursor].solver,
                     preproc |-> t.runs[cursor].preproc, count |-> c]
  <2>2. got \in Answer
    BY <1>5, AnswerTyped DEF RunCounts
  <2> HIDE DEF got
  <2>3. Append(t.counts, got) \in Seq(Answer)
    BY <2>2
  <2>4. t' = [t EXCEPT !.counts = Append(@, got),
                       !.exact_count = IF IsReference(t.runs[cursor]) THEN got ELSE @]
    BY <2>1 DEF got
  <2>5. t' \in [proj : BOOLEAN, weighted : BOOLEAN, cpx : BOOLEAN, epsilon : Nat, delta : Nat,
                solvers : Seq(Solver), simplified : Seq(Preproc), runs : Seq(Run),
                counts : Seq(Answer), exact_count : Answer \union {NoCount}]
    BY <2>2, <2>3, <2>4
  <2> QED
    BY <1>5, <2>5 DEF RunCounts
<1>6. CASE GenerateCnf \/ GenerateFails \/ PreprocFails \/ RunGivesNoCount \/ RunFails \/ RunsDone
  BY <1>0, <1>6 DEF GenerateCnf, GenerateFails, PreprocFails, RunGivesNoCount, RunFails, RunsDone,
                    Stop
<1>7. CASE CompareOk \/ ReportMismatch \/ DivideByZero \/ RerunExits \/ RerunsDone \/ Pass
  BY <1>0, <1>7 DEF CompareOk, ReportMismatch, DivideByZero, RerunExits, RerunsDone, Pass,
                    Comparing, Stop
<1>8. CASE StartReruns
  BY <1>8, BoundAssumption DEF StartReruns, NoRerun
<1>9. CASE RerunCounts
  <2>1. rerun.done + 1 \in 0..NumReruns /\ rerun.wrong + 1 \in Nat
    BY <1>9, BoundAssumption DEF RerunCounts
  <2> QED
    BY <1>9, <2>1 DEF RerunCounts
<1>10. CASE RerunGivesNoCount
  <2>1. rerun.failed + 1 \in 0..MaxFailed
    BY <1>10, BoundAssumption DEF RerunGivesNoCount
  <2> QED
    BY <1>10, <2>1 DEF RerunGivesNoCount
<1>11. CASE BeginRerun
  BY <1>11 DEF BeginRerun, Rerunning
<1>12. CASE UNCHANGED vars
  BY <1>12 DEF vars
<1> QED
  BY <1>1, <1>2, <1>3, <1>4, <1>5, <1>6, <1>7, <1>8, <1>9, <1>10, <1>11, <1>12
     DEF Next, Draw, Prepare, Count, Compare, Stopped

-----------------------------------------------------------------------------
(***************************************************************************)
(* Every step keeps what is known of the test.                             *)
(***************************************************************************)

TestInv == Drawn /\ ModesFitFile /\ ListsOK /\ RefOK

\* Steps that only compare, or that end the test.
LEMMA TestKept ==
  ASSUME TestInv, UNCHANGED <<options, t, file>>,
         pc' \in {"runs", "compare", "rerun", "recount", "stopped"}
  PROVE  TestInv'
<1>1. Drawn'
  BY DEF Drawn
<1>2. ModesFitFile' /\ RefOK'
  BY DEF TestInv, ModesFitFile, RefOK
<1>3. ListsOK'
  <2>1. \A solver : Suits(solver)' <=> Suits(solver)
    BY DEF Suits
  <2> QED
    BY <2>1 DEF TestInv, ListsOK
<1> QED
  BY <1>1, <1>2, <1>3 DEF TestInv

\* Drawing the flags.
LEMMA PickKeepsTest ==
  ASSUME TypeOK, TestInv, PickTestParams
  PROVE  TestInv'
<1>1. /\ t'.solvers = <<>> /\ t'.runs = <<>> /\ t'.counts = <<>>
      /\ t'.exact_count = NoCount
  BY DEF TypeOK, TestInv, Drawn, PickTestParams
<1>2. options.mode = 4 => ~t'.weighted /\ ~t'.cpx
  <2>1. 4 # NoMode
    BY CountAssumption
  <2>2. /\ t'.weighted => options.mode = NoMode \/ options.mode \in {1, 2, 6, 7}
        /\ t'.cpx => options.mode = NoMode \/ options.mode \in {2, 6}
    BY DEF PickTestParams, TypeOK
  <2> QED
    BY <2>1, <2>2
<1>3. pc' = "generate" /\ options' = options
  BY DEF PickTestParams
<1>4. Drawn'
  BY <1>1, <1>2, <1>3 DEF Drawn
<1>5. ModesFitFile' /\ RefOK' /\ ListsOK'
  BY <1>1, <1>3, EmptySeq DEF ModesFitFile, RefOK, ListsOK
<1> QED
  BY <1>4, <1>5 DEF TestInv

\* Drawing the counters.
LEMMA BuildKeepsTest ==
  ASSUME TypeOK, TestInv, BuildSolvers
  PROVE  TestInv'
<1>1. PICK epsilon \in Epsilons, delta \in Deltas, solvers \in SolverLists :
         t' = [t EXCEPT !.epsilon = epsilon, !.delta = delta,
                        !.weighted = @ \/ t.cpx, !.proj = @ /\ ~t.cpx,
                        !.solvers = solvers]
  BY DEF BuildSolvers
<1>2. /\ t'.solvers = solvers /\ t'.weighted = (t.weighted \/ t.cpx)
      /\ t'.runs = <<>> /\ t'.counts = <<>> /\ t'.exact_count = NoCount
  BY <1>1 DEF TypeOK, TestInv, Drawn, BuildSolvers
<1>3. /\ Len(solvers) \in {2, 3, 4}
      /\ \A i \in 1..Len(solvers) :
            /\ SuitsFlag(solvers[i], t.weighted \/ t.cpx)
            /\ solvers[i].mode \in IF t.cpx THEN {2, 6}
                                   ELSE IF t.weighted THEN {1, 7} ELSE {NoMode, 0, 4}
  BY SolversSuit DEF TypeOK, TestInv, Drawn, BuildSolvers
<1>4. pc' = "preprocs" /\ file' = file
  BY DEF BuildSolvers
<1>5. Drawn' /\ RefOK'
  BY <1>2, <1>4 DEF Drawn, RefOK
<1>6. ModesFitFile'
  <2>1. file.weights = IF t.cpx THEN "complex" ELSE IF t.weighted THEN "real" ELSE "none"
    BY DEF TestInv, Drawn, BuildSolvers
  <2> QED
    BY <1>2, <1>3, <1>4, <2>1 DEF ModesFitFile
<1>7. ListsOK'
  <2>1. \A solver : Suits(solver)' <=> SuitsFlag(solver, t.weighted \/ t.cpx)
    BY <1>2 DEF Suits
  <2> QED
    BY <1>2, <1>3, <1>4, <2>1, EmptySeq DEF ListsOK
<1> QED
  BY <1>5, <1>6, <1>7 DEF TestInv

\* The files and the runs.
LEMMA PlanKeepsTest ==
  ASSUME TypeOK, TestInv, RunPreprocs \/ BuildRuns
  PROVE  TestInv'
<1>1. /\ t'.solvers = t.solvers /\ t'.weighted = t.weighted /\ t'.counts = t.counts
      /\ t'.exact_count = t.exact_count /\ file' = file
  BY DEF TypeOK, RunPreprocs, BuildRuns
<1>2. Drawn'
  BY DEF Drawn, RunPreprocs, BuildRuns
<1>3. ModesFitFile' /\ RefOK'
  BY <1>1 DEF TestInv, ModesFitFile, RefOK
<1>4. \A solver : Suits(solver)' <=> Suits(solver)
  BY <1>1 DEF Suits
<1>5. CASE RunPreprocs
  <2>1. /\ t'.runs = t.runs /\ pc = "preprocs" /\ pc' = "plan"
        /\ t'.simplified \in {<<"arjun", "none">>, <<"none">>}
    BY <1>5 DEF TypeOK, RunPreprocs
  <2>2. Len(t'.simplified) \in {1, 2}
    BY <2>1
  <2> QED
    BY <1>1, <1>2, <1>3, <1>4, <2>1, <2>2 DEF TestInv, ListsOK
<1>6. CASE BuildRuns
  <2>1. pc = "plan" /\ pc' = "runs" /\ t'.runs = Pairs(t.solvers, t.simplified)
    BY <1>6 DEF TypeOK, BuildRuns
  <2>2. Len(t.simplified) \in {1, 2}
    BY <2>1 DEF TestInv, ListsOK
  <2>3. \A k \in 1..Len(t'.runs) : \E i \in 1..Len(t.solvers) : t'.runs[k].solver = t.solvers[i]
    BY <2>1, <2>2, PairsAreRuns DEF TypeOK
  <2>4. \A k \in 1..Len(t'.runs) : Suits(t'.runs[k].solver)
    BY <2>3 DEF TestInv, ListsOK
  <2> QED
    BY <1>1, <1>2, <1>3, <1>4, <2>1, <2>4 DEF TestInv, ListsOK
<1> QED
  BY <1>5, <1>6

\* One more answer, which may be the reference.
LEMMA CountKeepsTest ==
  ASSUME TypeOK, TestInv, RunCounts
  PROVE  TestInv'
<1>1. PICK c \in Answers(t.runs[cursor].solver) :
         LET got == [solver |-> t.runs[cursor].solver,
                     preproc |-> t.runs[cursor].preproc, count |-> c]
         IN t' = [t EXCEPT !.counts = Append(@, got),
                           !.exact_count = IF IsReference(t.runs[cursor]) THEN got ELSE @]
  BY DEF RunCounts
<1> DEFINE got == [solver |-> t.runs[cursor].solver,
                   preproc |-> t.runs[cursor].preproc, count |-> c]
<1>2. got \in Answer /\ got.solver = t.runs[cursor].solver
  BY AnswerTyped DEF RunCounts
<1>3. Suits(t.runs[cursor].solver)
  <2>1. cursor \in 1..Len(t.runs)
    <3>1. Len(t.runs) \in Nat /\ cursor \in Nat \ {0} /\ cursor <= Len(t.runs)
      BY LenProperties DEF TypeOK, RunCounts
    <3> QED
      BY <3>1
  <2> QED
    BY <2>1 DEF TestInv, ListsOK
<1>4. t.counts \in Seq(Answer) /\ Len(t.counts) \in Nat
  BY LenProperties DEF TypeOK
<1>5. /\ t'.counts = Append(t.counts, got)
      /\ t'.exact_count = IF IsReference(t.runs[cursor]) THEN got ELSE t.exact_count
      /\ t'.solvers = t.solvers /\ t'.runs = t.runs /\ t'.weighted = t.weighted
      /\ pc' = "runs" /\ file' = file
  BY <1>1 DEF TypeOK, RunCounts
<1> HIDE DEF got
<1>6. /\ Len(t'.counts) = Len(t.counts) + 1
      /\ \A i \in 1..Len(t.counts) : t'.counts[i] = t.counts[i]
      /\ t'.counts[Len(t.counts) + 1] = got
  BY <1>2, <1>4, <1>5, AppendAnswer
<1>7. \A i \in 1..Len(t'.counts) : i \in 1..Len(t.counts) \/ i = Len(t.counts) + 1
  BY <1>4, <1>6
<1>8. 1..Len(t.counts) \subseteq 1..Len(t'.counts) /\ Len(t.counts) + 1 \in 1..Len(t'.counts)
  BY <1>4, <1>6
<1>9. Drawn' /\ ModesFitFile'
  BY <1>5 DEF TestInv, Drawn, ModesFitFile
<1>10. ListsOK'
  <2>1. \A solver : Suits(solver)' <=> Suits(solver)
    BY <1>5 DEF Suits
  <2>2. \A i \in 1..Len(t'.counts) : Suits(t'.counts[i].solver)
    BY <1>2, <1>3, <1>6, <1>7 DEF TestInv, ListsOK
  <2> QED
    BY <1>5, <2>1, <2>2 DEF TestInv, ListsOK
<1>11. RefOK'
  <2>1. CASE IsReference(t.runs[cursor])
    BY <1>2, <1>5, <1>6, <1>8, <2>1 DEF RefOK, IsReference
  <2>2. CASE ~IsReference(t.runs[cursor])
    BY <1>5, <1>6, <1>8, <2>2 DEF TestInv, RefOK
  <2> QED
    BY <2>1, <2>2
<1> QED
  BY <1>9, <1>10, <1>11 DEF TestInv

LEMMA TestStep ==
  ASSUME TypeOK, TestInv, [Next]_vars
  PROVE  TestInv'
<1>1. CASE GenerateCnf
  <2>1. /\ pc = "generate" /\ pc' = "solvers" /\ t' = t /\ options' = options
        /\ file'.weights = IF t.cpx THEN "complex" ELSE IF t.weighted THEN "real" ELSE "none"
    BY <1>1 DEF GenerateCnf
  <2>2. Drawn' /\ RefOK'
    BY <2>1 DEF TestInv, Drawn, RefOK
  <2>3. t.solvers = <<>> /\ t.runs = <<>> /\ t.counts = <<>>
    BY <2>1 DEF TestInv, Drawn
  <2>4. ModesFitFile' /\ ListsOK'
    BY <2>1, <2>3, EmptySeq DEF ModesFitFile, ListsOK
  <2> QED
    BY <2>2, <2>4 DEF TestInv
<1>2. CASE GenerateFails \/ PreprocFails \/ RunGivesNoCount \/ RunFails \/ RunsDone
  BY <1>2, TestKept DEF GenerateFails, PreprocFails, RunGivesNoCount, RunFails, RunsDone, Stop
<1>3. CASE Compare
  BY <1>3, TestKept
     DEF Compare, CompareOk, ReportMismatch, DivideByZero, StartReruns, BeginRerun,
         RerunCounts, RerunGivesNoCount, RerunExits, RerunsDone, Pass, Comparing, Rerunning,
         Stop
<1>4. CASE UNCHANGED vars
  <2>1. \A solver : Suits(solver)' <=> Suits(solver)
    BY <1>4 DEF vars, Suits
  <2> QED
    BY <1>4, <2>1 DEF vars, TestInv, Drawn, ModesFitFile, ListsOK, RefOK
<1> QED
  BY <1>1, <1>2, <1>3, <1>4, PickKeepsTest, BuildKeepsTest, PlanKeepsTest, CountKeepsTest
     DEF Next, Draw, Prepare, Count, Stopped

-----------------------------------------------------------------------------
(***************************************************************************)
(* Every step of compare_counts keeps what was compared.                   *)
(***************************************************************************)

\* The answer that is compared, and the reference.
LEMMA GotTyped ==
  ASSUME TypeOK, TestInv, cursor <= Len(t.counts)
  PROVE  /\ cursor \in 1..Len(t.counts) /\ Got \in Answer /\ Suits(Got.solver)
<1>1. t.counts \in Seq(Answer) /\ cursor \in Nat \ {0}
  BY DEF TypeOK
<1>2. cursor \in 1..Len(t.counts)
  <2>1. Len(t.counts) \in Nat
    BY <1>1, LenProperties
  <2> QED
    BY <1>1, <2>1
<1>3. Got \in Answer
  BY <1>1, <1>2, ElementOfSeq DEF Got
<1> QED
  BY <1>2, <1>3 DEF TestInv, ListsOK, Got

LEMMA CountsTyped ==
  ASSUME TypeOK, TestInv, NEW i \in 1..Len(t.counts)
  PROVE  t.counts[i] \in Answer /\ Suits(t.counts[i].solver)
<1>1. t.counts \in Seq(Answer)
  BY DEF TypeOK
<1> QED
  BY <1>1, ElementOfSeq DEF TestInv, ListsOK

\* What the reference says is in the range of the reference.
LEMMA ReferenceInRange ==
  ASSUME TypeOK, t.exact_count \in Answer
  PROVE  ~OutOfRange(t.exact_count.count)
<1> DEFINE c == t.exact_count.count
           e == t.epsilon
<1>1. c \in Nat /\ e \in Nat
  BY DEF TypeOK, Answer
<1>2. c * (10 + e) = c * 10 + c * e /\ c * e \in Nat /\ c * 10 \in Nat
  BY <1>1
<1> HIDE DEF c, e
<1>3. ~(c * 10 > c * (10 + e)) /\ ~(c * (10 + e) < c * 10)
  BY <1>1, <1>2
<1> QED
  BY <1>3 DEF OutOfRange, c, e

\* An approximate counter passes the checks of the exact ones.
LEMMA ApproximatePasses ==
  ASSUME NEW got \in Answer, Suits(got.solver), ~got.solver.exact
  PROVE  Passed(got) /\ ~t.weighted /\ got.solver.mode # 4
BY DEF Suits, SuitsFlag, Passed, ParityMismatch, ExactMismatch

\* Going on to the next answer.
LEMMA NextCompared ==
  ASSUME TypeOK, TestInv, t' = t, cursor' = cursor + 1, cursor <= Len(t.counts),
         t.exact_count # NoCount, Passed(Got),
         \A i \in 1..Len(t.counts) : i < cursor => Passed(t.counts[i]),
         \A i \in 1..Len(t.counts) :
             /\ i <= cursor /\ ~t.counts[i].solver.exact
             /\ OutOfRange(t.counts[i].count)
             => RerunsOK',
         pc' = "compare"
  PROVE  Compared'
<1>1. \A i \in 1..Len(t.counts) : i < cursor' => i < cursor \/ i = cursor
  <2>1. cursor \in Nat
    BY DEF TypeOK
  <2> QED
    BY <2>1
<1>2. \A i \in 1..Len(t.counts) : i < cursor' => i <= cursor
  <2>1. cursor \in Nat
    BY DEF TypeOK
  <2> QED
    BY <2>1
<1>3. \A got : Passed(got)' <=> Passed(got)
  BY DEF Passed, ExactMismatch
<1>4. \A count : OutOfRange(count)' <=> OutOfRange(count)
  BY DEF OutOfRange
<1>5. \A i \in 1..Len(t.counts) : i < cursor' => Passed(t.counts[i])
  BY <1>1 DEF Got
<1> QED
  BY <1>2, <1>3, <1>4, <1>5 DEF Compared

LEMMA ComparedStep ==
  ASSUME TypeOK, TestInv, Compared, [Next]_vars
  PROVE  Compared'
<1>1. CASE Draw \/ Prepare \/ RunCounts \/ RunGivesNoCount \/ RunFails
  BY <1>1 DEF Draw, PickTestParams, GenerateCnf, GenerateFails, BuildSolvers, Prepare,
              RunPreprocs, PreprocFails, BuildRuns, RunCounts, RunGivesNoCount, RunFails,
              Stop, Compared
<1>2. CASE ReportMismatch \/ DivideByZero \/ RerunExits \/ Pass
  BY <1>2 DEF ReportMismatch, DivideByZero, RerunExits, Pass, Stop, Compared
<1>3. CASE RunsDone
  <2>1. CASE pc' = "stopped"
    BY <2>1 DEF Compared
  <2>2. CASE pc' # "stopped"
    <3>1. t' = t /\ pc' = "compare" /\ cursor' = 1 /\ t.exact_count # NoCount
      BY <1>3, <2>2 DEF RunsDone, Stop
    <3>2. \A i \in 1..Len(t.counts) : ~(i < 1)
      OBVIOUS
    <3> QED
      BY <3>1, <3>2 DEF Compared
  <2> QED
    BY <2>1, <2>2
<1>4. CASE CompareOk
  <2>1. /\ pc = "compare" /\ cursor <= Len(t.counts) /\ t' = t /\ pc' = pc /\ rerun' = rerun
        /\ cursor' = cursor + 1
    BY <1>4 DEF CompareOk, Comparing
  <2>2. Got \in Answer /\ Suits(Got.solver)
    BY <2>1, GotTyped
  <2>3. Passed(Got)
    BY <1>4 DEF CompareOk, Passed
  <2>4. ~Got.solver.exact => ~OutOfRange(Got.count)
    <3>1. SUFFICES ASSUME ~Got.solver.exact PROVE ~OutOfRange(Got.count)
      OBVIOUS
    <3>2. CASE Got.count = t.exact_count.count
      <4>1. t.exact_count \in Answer
        BY <2>1 DEF TypeOK, Compared
      <4> QED
        BY <3>2, <4>1, ReferenceInRange
    <3>3. CASE Got.count # t.exact_count.count
      <4>1. ApproxDiffers(Got, t.exact_count)
        BY <2>2, <3>1, <3>3, ApproximatePasses DEF ApproxDiffers
      <4> QED
        BY <1>4, <4>1 DEF CompareOk
    <3> QED
      BY <3>2, <3>3
  <2>5. ASSUME NEW i \in 1..Len(t.counts), i <= cursor, ~t.counts[i].solver.exact,
               OutOfRange(t.counts[i].count)
        PROVE  RerunsOK'
    <3>1. CASE i = cursor
      BY <2>4, <2>5, <3>1 DEF Got
    <3>2. CASE i # cursor
      <4>1. i < cursor
        BY <2>5, <3>2 DEF TypeOK
      <4>2. RerunsOK
        BY <2>1, <2>5, <4>1 DEF Compared
      <4> QED
        BY <2>1, <4>2 DEF RerunsOK
    <3> QED
      BY <3>1, <3>2
  <2>6. t.exact_count # NoCount /\ \A i \in 1..Len(t.counts) : i < cursor => Passed(t.counts[i])
    BY <2>1 DEF Compared
  <2> QED
    BY <2>1, <2>3, <2>5, <2>6, NextCompared
<1>5. CASE StartReruns
  <2>1. /\ pc = "compare" /\ pc' = "rerun" /\ t' = t /\ cursor' = cursor /\ cursor <= Len(t.counts)
        /\ ~Got.solver.exact
    BY <1>5 DEF StartReruns, Comparing, ApproxDiffers
  <2>2. \A got : Passed(got)' <=> Passed(got)
    BY <2>1 DEF Passed, ExactMismatch
  <2> QED
    BY <2>1, <2>2 DEF Compared, Got
<1>6. CASE BeginRerun \/ RerunCounts \/ RerunGivesNoCount
  <2>1. /\ pc \in {"rerun", "recount"} /\ pc' \in {"rerun", "recount"}
        /\ t' = t /\ cursor' = cursor
    BY <1>6 DEF BeginRerun, RerunCounts, RerunGivesNoCount, Rerunning
  <2>2. \A got : Passed(got)' <=> Passed(got)
    BY <2>1 DEF Passed, ExactMismatch
  <2> QED
    BY <2>1, <2>2 DEF Compared, Got
<1>7. CASE RerunsDone
  <2>1. CASE pc' = "stopped"
    BY <2>1 DEF Compared
  <2>2. CASE pc' # "stopped"
    <3>1. /\ pc = "rerun" /\ t' = t /\ pc' = "compare" /\ cursor' = cursor + 1 /\ rerun' = rerun
          /\ ~Rerunning /\ ~DeltaExceeded
      BY <1>7, <2>2 DEF RerunsDone, Stop
    <3>2. cursor <= Len(t.counts) /\ ~Got.solver.exact /\ t.exact_count # NoCount
      BY <3>1 DEF Compared
    <3>3. Passed(Got)
      BY <3>2, GotTyped, ApproximatePasses
    <3>4. RerunsOK'
      <4>1. /\ rerun.done \in 0..NumReruns /\ rerun.failed \in 0..MaxFailed
            /\ rerun.wrong * 100 \in Nat /\ t.delta * NumReruns \in Nat
            /\ NumReruns \in Nat /\ MaxFailed \in Nat
        BY BoundAssumption DEF TypeOK
      <4>2. rerun.done < NumReruns => ~(rerun.failed < MaxFailed)
        BY <3>1 DEF Rerunning
      <4>3. rerun.failed < MaxFailed => ~(rerun.wrong * 100 > t.delta * NumReruns)
        BY <3>1 DEF DeltaExceeded
      <4>4. RerunsOK
        BY <4>1, <4>2, <4>3 DEF RerunsOK
      <4> QED
        BY <3>1, <4>4 DEF RerunsOK
    <3>5. \A i \in 1..Len(t.counts) : i < cursor => Passed(t.counts[i])
      BY <3>1 DEF Compared
    <3> QED
      BY <3>1, <3>2, <3>3, <3>4, <3>5, NextCompared
  <2> QED
    BY <2>1, <2>2
<1>8. CASE UNCHANGED vars
  <2>1. t' = t /\ pc' = pc /\ cursor' = cursor /\ rerun' = rerun
    BY <1>8 DEF vars
  <2>2. \A got : Passed(got)' <=> Passed(got)
    BY <2>1 DEF Passed, ExactMismatch
  <2>3. \A count : OutOfRange(count)' <=> OutOfRange(count)
    BY <2>1 DEF OutOfRange
  <2>4. RerunsOK' <=> RerunsOK
    BY <2>1 DEF RerunsOK
  <2> QED
    BY <2>1, <2>2, <2>3, <2>4 DEF Compared, Got
<1> QED
  BY <1>1, <1>2, <1>3, <1>4, <1>5, <1>6, <1>7, <1>8 DEF Next, Count, Compare, Stopped

-----------------------------------------------------------------------------
(***************************************************************************)
(* The verdict.                                                            *)
(***************************************************************************)

\* The reference is one of the answers, and one that counts models.
LEMMA RefTyped ==
  ASSUME TypeOK, TestInv, t.exact_count # NoCount
  PROVE  /\ t.exact_count \in Answer /\ Suits(t.exact_count.solver)
         /\ t.exact_count.solver.exact /\ t.exact_count.solver.mode # 4
         /\ \E i \in 1..Len(t.counts) : t.counts[i] = t.exact_count
<1>1. PICK i \in 1..Len(t.counts) : t.counts[i] = t.exact_count
  BY DEF TestInv, RefOK
<1>2. t.exact_count \in Answer /\ Suits(t.exact_count.solver)
  BY <1>1, CountsTyped
<1> QED
  BY <1>1, <1>2 DEF TestInv, RefOK

\* The right answer of an exact counter of an unweighted test is the count.
LEMMA ExactIsTruth ==
  ASSUME NEW got \in Answer, Suits(got.solver), ~t.weighted, got.solver.exact,
         got.solver.mode # 4, NEW truth \in Nat, Right(got, truth)
  PROVE  got.count = truth
<1>1. got.solver.mode \in {NoMode, 0}
  BY DEF Suits, SuitsFlag
<1>2. NoMode # 6 /\ NoMode # 7
  BY CountAssumption
<1>3. got.solver.mode \notin FloatModes
  BY <1>1, <1>2 DEF FloatModes
<1> QED
  BY <1>3 DEF Right

\* When a mismatch is reported, whatever the count is, one of the answers is wrong.
LEMMA MismatchIsWrong ==
  ASSUME TypeOK, TestInv, Compared, ReportMismatch, NEW truth \in Truths
  PROVE  \E i \in 1..Len(t.counts) : ~Right(t.counts[i], truth)
<1> DEFINE ref == t.exact_count
<1>1. SUFFICES ASSUME \A i \in 1..Len(t.counts) : Right(t.counts[i], truth)
      PROVE  FALSE
  OBVIOUS
<1>2. pc = "compare" /\ cursor <= Len(t.counts) /\ truth \in Nat
  BY CountAssumption DEF ReportMismatch, Comparing
<1>3. Got \in Answer /\ Suits(Got.solver) /\ Right(Got, truth)
  <2>1. Got \in Answer /\ Suits(Got.solver) /\ cursor \in 1..Len(t.counts)
    BY <1>2, GotTyped
  <2> QED
    BY <1>1, <2>1 DEF Got
<1>4. /\ ref \in Answer /\ Suits(ref.solver) /\ ref.solver.exact /\ ref.solver.mode # 4
      /\ Right(ref, truth)
  <2>1. t.exact_count # NoCount
    BY <1>2 DEF Compared
  <2> QED
    BY <1>1, <2>1, RefTyped
<1> HIDE DEF ref
<1>5. CASE t.weighted /\ Got.solver.exact /\ WeightedMismatch(Got, ref)
  <2>1. Got.solver.mode # 4
    BY <1>3, <1>5 DEF Suits, SuitsFlag
  <2> QED
    BY <1>2, <1>3, <1>4, <1>5, <2>1, RightAnswersMatch
<1>6. CASE ParityMismatch(Got, ref)
  <2>1. Got.solver.mode = 4 /\ Got.count # ref.count % 2
    BY <1>6 DEF ParityMismatch
  <2>2. Got.count = truth % 2
    BY <1>3, <2>1 DEF Right
  <2>3. ~t.weighted
    BY <1>3, <2>1 DEF Suits, SuitsFlag
  <2>4. ref.count = truth
    BY <1>2, <1>4, <2>3, ExactIsTruth
  <2> QED
    BY <2>1, <2>2, <2>4
<1>7. CASE ExactMismatch(Got, ref)
  <2>1. /\ Got.solver.mode # 4 /\ ~t.weighted /\ Got.solver.exact
        /\ Got.count # ref.count
    BY <1>7 DEF ExactMismatch
  <2> QED
    BY <1>2, <1>3, <1>4, <2>1, ExactIsTruth
<1> QED
  BY <1>5, <1>6, <1>7 DEF ReportMismatch, ref

\* The division by zero is reached by an approximate count of 0 only, which is right for
\* no formula with the models of the reference.
LEMMA ZeroIsWrong ==
  ASSUME TypeOK, TestInv, Compared, DivideByZero, NEW truth \in Truths
  PROVE  \E i \in 1..Len(t.counts) : ~Right(t.counts[i], truth)
<1> DEFINE ref == t.exact_count
<1>1. SUFFICES ASSUME \A i \in 1..Len(t.counts) : Right(t.counts[i], truth)
      PROVE  FALSE
  OBVIOUS
<1>2. pc = "compare" /\ cursor <= Len(t.counts) /\ truth \in Nat /\ Got.count = 0
  BY CountAssumption DEF DivideByZero, Comparing
<1>3. Right(Got, truth)
  <2>1. cursor \in 1..Len(t.counts)
    BY <1>2, GotTyped
  <2> QED
    BY <1>1, <2>1 DEF Got
<1>4. /\ ref \in Answer /\ Suits(ref.solver) /\ ref.solver.exact /\ ref.solver.mode # 4
      /\ Right(ref, truth)
  <2>1. t.exact_count # NoCount
    BY <1>2 DEF Compared
  <2> QED
    BY <1>1, <2>1, RefTyped
<1>5. /\ Got.solver.mode # 4 /\ ~t.weighted /\ ~Got.solver.exact /\ Got.count # ref.count
  BY DEF DivideByZero, ApproxDiffers
<1>6. Got.count * (10 + t.epsilon) >= truth * 10
  BY <1>3, <1>5 DEF Right
<1>7. t.epsilon \in Nat
  BY DEF TypeOK
<1>8. truth = 0
  <2>1. 0 * (10 + t.epsilon) = 0
    BY <1>7
  <2>2. 0 >= truth * 10
    BY <1>2, <1>6, <2>1
  <2> QED
    BY <1>2, <2>2
<1> HIDE DEF ref
<1>9. ref.count = truth
  BY <1>2, <1>4, <1>5, ExactIsTruth
<1> QED
  BY <1>2, <1>5, <1>8, <1>9

\* Two exact answers that passed agree, on whichever file each was made.
LEMMA PassedAgree ==
  ASSUME TypeOK, TestInv, t.exact_count # NoCount,
         NEW a \in Answer, Suits(a.solver), a.solver.exact, Passed(a),
         NEW b \in Answer, Suits(b.solver), b.solver.exact, Passed(b)
  PROVE  Agree(a, b)
<1> DEFINE ref == t.exact_count
<1>1. ref \in Answer
  BY RefTyped
<1>2. CASE t.weighted
  <2>1. ~WeightedMismatch(a, ref) /\ ~WeightedMismatch(b, ref)
    BY <1>2 DEF Passed
  <2> HIDE DEF ref
  <2>2. \/ AbsDiff(a.count, b.count) * 100 <= 5 * (a.count + b.count)
        \/ AbsDiff(a.count, b.count) <= 2 * FloatSlack
    BY <1>1, <2>1, MatchesAgree
  <2> QED
    BY <1>2, <2>2 DEF Agree
<1>3. CASE ~t.weighted
  <2>1. /\ a.solver.mode = 4 => a.count = ref.count % 2
        /\ a.solver.mode # 4 => a.count = ref.count
    BY <1>3 DEF Passed, ParityMismatch, ExactMismatch
  <2>2. /\ b.solver.mode = 4 => b.count = ref.count % 2
        /\ b.solver.mode # 4 => b.count = ref.count
    BY <1>3 DEF Passed, ParityMismatch, ExactMismatch
  <2> HIDE DEF ref
  <2> QED
    BY <1>3, <2>1, <2>2 DEF Agree
<1> QED
  BY <1>2, <1>3

\* What holds of the answers when the test passes.
PassedAll ==
    /\ \A i, j \in 1..Len(t.counts) :
          t.counts[i].solver.exact /\ t.counts[j].solver.exact =>
              Agree(t.counts[i], t.counts[j])
    /\ \A i \in 1..Len(t.counts) :
          ~t.counts[i].solver.exact /\ OutOfRange(t.counts[i].count) => RerunsOK

LEMMA PassMeansPassed ==
  ASSUME TypeOK, TestInv, Compared, Pass
  PROVE  PassedAll
<1>1. pc = "compare" /\ cursor > Len(t.counts)
  BY DEF Pass
<1>2. \A i \in 1..Len(t.counts) : i < cursor
  <2>1. cursor \in Nat /\ Len(t.counts) \in Nat
    BY LenProperties DEF TypeOK
  <2> QED
    BY <1>1, <2>1
<1>3. \A i \in 1..Len(t.counts) : Passed(t.counts[i])
  BY <1>1, <1>2 DEF Compared
<1>4. t.exact_count # NoCount
  BY <1>1 DEF Compared
<1>5. ASSUME NEW i \in 1..Len(t.counts), NEW j \in 1..Len(t.counts),
             t.counts[i].solver.exact, t.counts[j].solver.exact
      PROVE  Agree(t.counts[i], t.counts[j])
  <2>1. /\ t.counts[i] \in Answer /\ Suits(t.counts[i].solver) /\ Passed(t.counts[i])
        /\ t.counts[j] \in Answer /\ Suits(t.counts[j].solver) /\ Passed(t.counts[j])
    BY <1>3, CountsTyped
  <2> QED
    BY <1>4, <1>5, <2>1, PassedAgree
<1>6. ASSUME NEW i \in 1..Len(t.counts), ~t.counts[i].solver.exact,
             OutOfRange(t.counts[i].count)
      PROVE  RerunsOK
  BY <1>1, <1>2, <1>6 DEF Compared
<1> QED
  BY <1>5, <1>6 DEF PassedAll

\* The steps that keep the test, and what they say of it.
LEMMA SaidAgain ==
  ASSUME t' = t, rerun' = rerun
  PROVE  /\ \A got, truth : Right(got, truth)' <=> Right(got, truth)
         /\ PassedAll' <=> PassedAll
<1>1. \A got, truth : Right(got, truth)' <=> Right(got, truth)
  BY DEF Right
<1>2. \A a, b : Agree(a, b)' <=> Agree(a, b)
  BY DEF Agree
<1>3. \A count : OutOfRange(count)' <=> OutOfRange(count)
  BY DEF OutOfRange
<1>4. RerunsOK' <=> RerunsOK
  BY DEF RerunsOK
<1> QED
  BY <1>1, <1>2, <1>3, <1>4 DEF PassedAll

LEMMA VerdictStep ==
  ASSUME TypeOK, TestInv, Compared, Verdict, [Next]_vars
  PROVE  Verdict'
<1>1. CASE ReportMismatch \/ DivideByZero
  <2>1. /\ pc' = "stopped" /\ verdict' \in {"mismatch", "division by zero"}
        /\ t' = t /\ rerun' = rerun
    BY <1>1 DEF ReportMismatch, DivideByZero, Stop
  <2>2. \A truth \in Truths : \E i \in 1..Len(t.counts) : ~Right(t.counts[i], truth)
    BY <1>1, MismatchIsWrong, ZeroIsWrong
  <2>3. NoFalseAlarm'
    BY <2>1, <2>2, SaidAgain DEF NoFalseAlarm
  <2>4. PassMeansAgreement'
    BY <2>1 DEF PassMeansAgreement
  <2> QED
    BY <2>1, <2>3, <2>4 DEF Verdict
<1>2. CASE Pass
  <2>1. pc' = "stopped" /\ verdict' = "pass" /\ t' = t /\ rerun' = rerun
    BY <1>2 DEF Pass, Stop
  <2>2. PassedAll'
    BY <1>2, <2>1, PassMeansPassed, SaidAgain
  <2>3. PassMeansAgreement'
    BY <2>2 DEF PassedAll, PassMeansAgreement, RerunsOK
  <2>4. NoFalseAlarm'
    BY <2>1 DEF NoFalseAlarm
  <2> QED
    BY <2>1, <2>3, <2>4 DEF Verdict
<1>3. CASE UNCHANGED vars
  <2>1. pc' = pc /\ verdict' = verdict /\ t' = t /\ rerun' = rerun
    BY <1>3 DEF vars
  <2>2. NoFalseAlarm'
    BY <2>1, SaidAgain DEF Verdict, NoFalseAlarm
  <2>3. PassMeansAgreement <=> (verdict = "pass" => PassedAll)
    BY DEF PassMeansAgreement, PassedAll, RerunsOK
  <2>4. PassMeansAgreement' <=> (verdict = "pass" => PassedAll)
    <3>1. PassMeansAgreement' <=> (verdict' = "pass" => PassedAll')
      BY DEF PassMeansAgreement, PassedAll, RerunsOK
    <3> QED
      BY <2>1, <3>1, SaidAgain
  <2> QED
    BY <2>1, <2>2, <2>3, <2>4 DEF Verdict
<1>4. CASE \/ Draw \/ Prepare \/ Count
           \/ CompareOk \/ StartReruns \/ BeginRerun \/ RerunCounts \/ RerunGivesNoCount
           \/ RerunExits \/ RerunsDone
  <2>1. pc # "stopped"
    BY <1>4 DEF Draw, PickTestParams, GenerateCnf, GenerateFails, BuildSolvers, Prepare,
                RunPreprocs, PreprocFails, BuildRuns, Count, RunCounts, RunGivesNoCount,
                RunFails, RunsDone, CompareOk, StartReruns, BeginRerun, RerunCounts,
                RerunGivesNoCount, RerunExits, RerunsDone, Comparing, Rerunning
  <2>2. verdict = "none"
    BY <2>1 DEF Verdict
  <2>3. \/ verdict' = "none"
        \/ /\ pc' = "stopped"
           /\ verdict' \in {"generator error", "preproc error", "run error", "unchecked",
                            "delta exceeded", "rerun error"}
    BY <1>4, <2>2 DEF Draw, PickTestParams, GenerateCnf, GenerateFails, BuildSolvers, Prepare,
                RunPreprocs, PreprocFails, BuildRuns, Count, RunCounts, RunGivesNoCount,
                RunFails, RunsDone, CompareOk, StartReruns, BeginRerun, RerunCounts,
                RerunGivesNoCount, RerunExits, RerunsDone, Stop
  <2> QED
    BY <2>3 DEF Verdict, NoFalseAlarm, PassMeansAgreement
<1> QED
  BY <1>1, <1>2, <1>3, <1>4 DEF Next, Compare, Stopped

-----------------------------------------------------------------------------
(***************************************************************************)
(* The theorems.                                                           *)
(***************************************************************************)

IndInv == TypeOK /\ TestInv /\ Compared /\ Verdict

LEMMA Start ==
  ASSUME Init
  PROVE  IndInv
<1>1. /\ t.solvers = <<>> /\ t.simplified = <<>> /\ t.runs = <<>> /\ t.counts = <<>>
      /\ t.exact_count = NoCount /\ pc = "pick" /\ cursor = 1 /\ verdict = "none"
  BY DEF Init, FreshTest
<1>2. /\ <<>> \in Seq(Solver) /\ <<>> \in Seq(Preproc) /\ <<>> \in Seq(Run)
      /\ <<>> \in Seq(Answer)
  BY EmptySeq
<1>3. t \in [proj : BOOLEAN, weighted : BOOLEAN, cpx : BOOLEAN, epsilon : Nat, delta : Nat,
             solvers : Seq(Solver), simplified : Seq(Preproc), runs : Seq(Run),
             counts : Seq(Answer), exact_count : Answer \union {NoCount}]
  BY <1>2 DEF Init, FreshTest
<1>4. TypeOK
  BY <1>3, BoundAssumption DEF Init, TypeOK, NoRerun
<1>5. TestInv
  BY <1>1, EmptySeq DEF TestInv, Drawn, ModesFitFile, ListsOK, RefOK
<1>6. Compared /\ Verdict
  BY <1>1 DEF Compared, Verdict, NoFalseAlarm, PassMeansAgreement
<1> QED
  BY <1>4, <1>5, <1>6 DEF IndInv

LEMMA Inductive == Spec => []IndInv
<1>1. Init => IndInv
  BY Start
<1>2. IndInv /\ [Next]_vars => IndInv'
  <2> SUFFICES ASSUME IndInv, [Next]_vars PROVE IndInv'
    OBVIOUS
  <2>1. TypeOK /\ TestInv /\ Compared /\ Verdict
    BY DEF IndInv
  <2>2. TypeOK'
    BY <2>1, TypeStep DEF TestInv
  <2> QED
    BY <2>1, <2>2, TestStep, ComparedStep, VerdictStep DEF IndInv
<1> QED
  BY <1>1, <1>2, PTL DEF Spec

\* Whatever the counters answer, the counts, the reference and the counters of the reruns
\* stay what the code takes them for: the reruns end at either of their bounds.
THEOREM TypeCorrect == Spec => []TypeOK
<1>1. IndInv => TypeOK
  BY DEF IndInv
<1> QED
  BY <1>1, Inductive, PTL

\* For every command line and every draw, each counter reads the weights that were
\* written to the file.
THEOREM ModesFit == Spec => []ModesFitFile
<1>1. IndInv => ModesFitFile
  BY DEF IndInv, TestInv
<1> QED
  BY <1>1, Inductive, PTL

\* The assertions of print_plan and compare_counts never fail.
THEOREM SelfChecksHold == Spec => []ChecksHold
<1>1. IndInv => ChecksHold
  <2> SUFFICES ASSUME IndInv PROVE ChecksHold
    OBVIOUS
  <2>1. TypeOK /\ TestInv
    BY DEF IndInv
  <2>2. pc = "plan" => Len(t.solvers) # 1
    BY <2>1 DEF TestInv, ListsOK
  <2>3. Comparing /\ t.weighted => Got.solver.exact
    <3> SUFFICES ASSUME Comparing, t.weighted PROVE Got.solver.exact
      OBVIOUS
    <3>1. Suits(Got.solver)
      BY <2>1, GotTyped DEF Comparing
    <3> QED
      BY <3>1 DEF Suits, SuitsFlag
  <2> QED
    BY <2>2, <2>3 DEF ChecksHold
<1> QED
  BY <1>1, Inductive, PTL

\* Whatever the counts, the slack and epsilon are, a mismatch is reported only if one of
\* the counts is wrong.
THEOREM NoAlarmIsFalse == Spec => []NoFalseAlarm
<1>1. IndInv => NoFalseAlarm
  BY DEF IndInv, Verdict
<1> QED
  BY <1>1, Inductive, PTL

\* A test that passes has no two exact counts that contradict each other, and no
\* approximate one out of range but for the reruns.
THEOREM PassesAgree == Spec => []PassMeansAgreement
<1>1. IndInv => PassMeansAgreement
  BY DEF IndInv, Verdict
<1> QED
  BY <1>1, Inductive, PTL

=============================================================================
