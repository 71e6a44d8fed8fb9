------------------------------ MODULE TestFile ------------------------------
(***************************************************************************)
(* How fuzz.py makes the file of a test: generate_cnf runs one of the two  *)
(* generators (Brummayer, Biere) with the output redirected to the file,   *)
(* and appends the projection, no-touch and weight lines; run_preprocs     *)
(* gives the file to Arjun and checks what comes back.                     *)
(*                                                                         *)
(* A file is its lines as far as fuzz.py looks at them: the "p cnf" line,  *)
(* the number of clauses and their largest variable, the "c t", "c p show" *)
(* and "c p no-touch" lines, and the literals of the weight lines.         *)
(***************************************************************************)
EXTENDS Brummayer, Biere

CONSTANTS
    Weightings,   \* the command lines: "zerocomps", "messy" (the default), "full"
    NoLine        \* a line that is not there

ASSUME WeightingAssumption == Weightings \subseteq {"zerocomps", "messy", "full"}

ASSUME NoLineAssumption ==
    NoLine \notin Seq(Nat) \union [pieces : Nat, vars : Nat, clauses : Nat]

VARIABLES
    pc,          \* the step of generate_cnf and run_one_preproc
    t,           \* the fields of the FuzzTest that generate_cnf uses
    file,        \* the file at t.cnf_path
    rest         \* the variables that the loop of add_weights has not come to

file_vars == <<pc, t, file, rest>>

vars == <<gen, circuit_vars, layer_vars, file_vars>>

FreshTest == [proj |-> FALSE, weighted |-> FALSE, cpx |-> FALSE,
              num_no_touch |-> 0, projected_vars |-> NoLine]

\* What unique_file creates.  The field cut is history: a signal stopped the generator
\* between its header and its last clause.
EmptyFile == [p |-> NoLine, lines |-> 0, max_var |-> 0, type |-> NoLine,
              show |-> NoLine, no_touch |-> NoLine, weights |-> <<>>, blank |-> FALSE,
              cut |-> FALSE]

Header(num_vars, clauses) == [pieces |-> 4, vars |-> num_vars, clauses |-> clauses]

Init ==
    /\ gen = "idle" /\ NoCircuit /\ NoLayers
    /\ pc = "draw" /\ t = FreshTest /\ file = EmptyFile /\ rest = <<>>

Goto(label) == pc' = label

-----------------------------------------------------------------------------
(***************************************************************************)
(* Running a generator.                                                    *)
(***************************************************************************)

\* get_type, and what the generators print for it.
Type(proj, weighted) ==
    CASE ~proj /\ ~weighted -> "mc"   [] proj /\ ~weighted -> "pmc"
      [] ~proj /\ weighted  -> "wmc"  [] proj /\ weighted  -> "pwmc"

\* One of the generators is called.
CallGenerator ==
    /\ pc = "draw"
    /\ Goto("generator")
    /\ \/ DrawInputs /\ UNCHANGED layer_vars
       \/ DrawLayers /\ gen' = "layers" /\ UNCHANGED circuit_vars
    /\ UNCHANGED <<t, file, rest>>

\* The flags of the test, drawn where they matter first: for the line "c t".
PickTestParams ==
    \E proj, weighted, cpx \in BOOLEAN :
        t' = [FreshTest EXCEPT !.proj = proj, !.weighted = weighted, !.cpx = cpx]

Running == pc = "generator"

CircuitRuns == Running /\ CircuitStep /\ UNCHANGED <<layer_vars, file_vars>>

\* Biere prints line by line into the file.
LayersRun ==
    /\ Running /\ gen = "layers"
    /\ LayerStep
    /\ file' = IF LineDone
               THEN [file EXCEPT !.lines = @ + 1,
                                 !.max_var = Max({@} \union {AbsVal(x) : x \in ToSet(printed)})]
               ELSE file
    /\ UNCHANGED <<gen, circuit_vars, pc, t, rest>>

\* Mutant: the clause of the root is not counted.
CircuitFileNoRoot ==
    [EmptyFile EXCEPT !.p = Header(cnf_id - 1, num_clauses), !.lines = Len(cnf) + 1,
        !.max_var = Max({nodes[Root].cnf_id} \union {AbsVal(x) : x \in UNION {ToSet(c) : c \in ToSet(cnf)}})]

CircuitFile ==
    [EmptyFile EXCEPT !.p = Header(cnf_id - 1, num_clauses + 1), !.lines = Len(cnf) + 1,
        !.max_var = Max({nodes[Root].cnf_id} \union {AbsVal(x) : x \in UNION {ToSet(c) : c \in ToSet(cnf)}})]

\* What is printed instead when there are too many nodes.
TooManyFile == [EmptyFile EXCEPT !.p = Header(1, 1), !.lines = 1, !.max_var = 1]

\* The generator exits with status 0, and has printed this.
GeneratorExits(content) ==
    /\ PickTestParams
    /\ file' = [content EXCEPT !.type = Type(t'.proj, t'.weighted)]
    /\ gen' = "idle" /\ CircuitForgotten /\ LayersForgotten
    /\ Goto("no-touch")
    /\ UNCHANGED rest

GeneratorDone ==
    /\ Running
    /\ \/ ClausesDone /\ GeneratorExits(CircuitFile)
       \/ TooManyNodes /\ GeneratorExits(TooManyFile)
       \/ /\ gen = "layers" /\ LayersDone
          /\ GeneratorExits([file EXCEPT !.p = Header(HighestVar, NumLines)])

\* The header was printed, then the line "c t", and no clause.
Begun(whole, type) ==
    {[EmptyFile EXCEPT !.p = whole.p, !.type = line, !.cut = TRUE] : line \in {NoLine, type}}

\* All that is printed before the clause of the root.
RootMissing(type) ==
    [EmptyFile EXCEPT !.p = CircuitFile.p, !.type = type, !.cut = TRUE, !.lines = Len(cnf),
        !.max_var = Max({0} \union {AbsVal(x) : x \in UNION {ToSet(c) : c \in ToSet(cnf)}})]

\* Brummayer prints when all is done, and a signal may come between two prints; sys.exit
\* writes what was printed.
PrintedSoFar(type) ==
    {EmptyFile}
      \union (IF ClausesDone THEN Begun(CircuitFile, type) \union {RootMissing(type)} ELSE {})
      \union (IF TooManyNodes THEN Begun(TooManyFile, type) ELSE {})

\* A signal: Brummayer's handler exits with status 0; Biere is killed, the call fails,
\* and fuzz.py exits.
GeneratorSignalled ==
    /\ Running
    /\ PickTestParams
    /\ IF gen = "layers" THEN file' = EmptyFile /\ Goto("exited")
       ELSE file' \in PrintedSoFar(Type(t'.proj, t'.weighted)) /\ Goto("no-touch")
    /\ gen' = "idle" /\ CircuitForgotten /\ LayersForgotten
    /\ UNCHANGED rest

-----------------------------------------------------------------------------
(***************************************************************************)
(* The lines that fuzz.py appends.                                         *)
(***************************************************************************)

NumVarsOf(f) == IF f.p = NoLine THEN 0 ELSE f.p.vars

\* A step of fuzz.py itself: no generator runs.
FuzzStep(label) ==
    /\ pc = label
    /\ UNCHANGED <<gen, circuit_vars, layer_vars>>

PickNumNoTouch ==
    /\ FuzzStep("no-touch")
    /\ \E k \in {0} \union (IF NumVarsOf(file) < 2 THEN {}
                           ELSE 1..Max({1, NumVarsOf(file) \div 4})) :
          t' = [t EXCEPT !.num_no_touch = k]
    /\ Goto(IF t.proj THEN "projection" ELSE "append")
    /\ UNCHANGED <<file, rest>>

\* The numbers of draws.
NumProj(n) == ((n \div 15)..(n \div 5)) \union {Min({2, n})} \union ((n \div 4)..(n \div 3))

\* Mutant: the no-touch variables are drawn like the others.
ProjectedDrawn(drawn, k) == drawn

\* Each no-touch variable is projected on.
Projected(drawn, k) == drawn \union 1..k

\* A variable may be drawn several times, and counts once.
AddProjection ==
    /\ FuzzStep("projection")
    /\ LET n == NumVarsOf(file)
       IN IF n = 0 THEN Goto("exited") /\ UNCHANGED <<t, file>>
          ELSE /\ \E drawn \in SUBSET (1..n), num \in NumProj(n) :
                    /\ Cardinality(drawn) <= num
                    /\ num > 0 => drawn # {}
                    /\ LET proj == SetToSeq(Projected(drawn, t.num_no_touch))
                       IN /\ t' = [t EXCEPT !.projected_vars = proj]
                          /\ file' = [file EXCEPT !.show = proj]
               /\ Goto("append")
    /\ UNCHANGED rest

AddNoTouch ==
    /\ FuzzStep("append")
    /\ file' = [file EXCEPT !.no_touch = IF t.num_no_touch = 0 THEN NoLine
                                        ELSE [i \in 1..t.num_no_touch |-> i]]
    /\ Goto(IF t.weighted \/ t.cpx THEN "weights" ELSE "preproc")
    /\ UNCHANGED <<t, rest>>

\* The literals of a variable that are given a weight.
WeightChoices(v, weighting) ==
    CASE weighting = "zerocomps" -> {<<v>>}
      [] weighting = "full" -> {<<v, -v>>}
      [] weighting = "messy" -> IF t.cpx THEN {<<>>, <<v, -v>>}
                                ELSE {<<>>, <<v>>, <<-v>>, <<v, -v>>}

WeightedVars ==
    IF t.projected_vars # NoLine THEN t.projected_vars
    ELSE [i \in 1..NumVarsOf(file) |-> i]

\* add_weights or add_weights_cpx: the command line says which loop it runs.
StartWeights ==
    /\ FuzzStep("weights")
    /\ IF NumVarsOf(file) = 0 THEN Goto("exited") /\ UNCHANGED rest
       ELSE /\ \E weighting \in Weightings : Goto(weighting)
            /\ rest' = WeightedVars
    /\ UNCHANGED <<t, file>>

\* The lines of the next variable; they are written together after the loop, and
\* nobody looks at the file before.
WeightVar ==
    /\ rest # <<>>
    /\ \E literals \in WeightChoices(Head(rest), pc) :
          file' = [file EXCEPT !.weights = @ \o literals]
    /\ rest' = Tail(rest)
    /\ UNCHANGED <<pc, t>>

WeightsDone == rest = <<>> /\ Goto("preproc") /\ UNCHANGED <<t, file, rest>>

AddWeights ==
    /\ pc \in Weightings /\ FuzzStep(pc)
    /\ WeightVar \/ WeightsDone

-----------------------------------------------------------------------------
(***************************************************************************)
(* Arjun's output and its checks.                                          *)
(***************************************************************************)

CheckHeader(f) ==
    /\ ~f.blank
    /\ f.p # NoLine => f.p.pieces = 4
    /\ f.lines = IF f.p = NoLine THEN 0 ELSE f.p.clauses
    /\ f.max_var <= NumVarsOf(f)

\* Without a "c p show" line every variable is in the sampling set.
Sampled(f) == IF f.show = NoLine THEN 1..NumVarsOf(f) ELSE ToSet(f.show)

CheckNoTouchPreserved(f, k) ==
    k # 0 => /\ f.no_touch = [i \in 1..k |-> i]
             /\ NumVarsOf(f) >= k
             /\ 1..k \subseteq Sampled(f)

\* External: what Arjun may answer, by what is wrong with it.  The output file exists
\* and is empty if Arjun writes nothing.
Outputs ==
    {file, EmptyFile,
     IF file.p = NoLine THEN file ELSE [file EXCEPT !.p.pieces = 3],
     [file EXCEPT !.blank = TRUE],
     [file EXCEPT !.lines = @ + 1],
     [file EXCEPT !.p = NoLine],
     [file EXCEPT !.no_touch = NoLine],
     [file EXCEPT !.no_touch = <<2>>],
     [file EXCEPT !.show = <<2>>],
     [file EXCEPT !.show = NoLine],
     [EmptyFile EXCEPT !.p = Header(0, 0), !.no_touch = file.no_touch]}

\* A slow Arjun is passed over, one that crashes ends fuzz.py.
RunPreproc ==
    /\ FuzzStep("preproc")
    /\ \/ Goto("skipped") \/ Goto("exited")
       \/ \E output \in Outputs :
             Goto(IF CheckHeader(output) /\ CheckNoTouchPreserved(output, t.num_no_touch)
                  THEN "accepted" ELSE "exited")
    /\ UNCHANGED <<t, file, rest>>

Ended == pc \in {"accepted", "skipped", "exited"} /\ UNCHANGED vars

Generator == CircuitRuns \/ LayersRun \/ GeneratorDone

Next ==
    \/ CallGenerator \/ Generator \/ GeneratorSignalled
    \/ PickNumNoTouch \/ AddProjection \/ AddNoTouch \/ StartWeights \/ AddWeights
    \/ RunPreproc \/ Ended

\* The generator is a process of its own, and runs.
Spec == Init /\ [][Next]_vars /\ WF_vars(Generator)

-----------------------------------------------------------------------------
(***************************************************************************)
(* Properties.                                                             *)
(***************************************************************************)

Proper(c, n) ==
    /\ c # <<>>
    /\ \A x \in ToSet(c) : x # 0 /\ AbsVal(x) \in 1..n
    /\ Multilit \/ IsInjective(c)
    /\ Taut \/ ~Tautology(c)

\* No generator prints an empty clause, a tautology, a literal twice or a variable
\* that the header does not have: Biere finds the marks of a variable again although
\* its array mixes two clauses, Brummayer leaves out what equal operands make
\* superfluous and no more.
ClausesProper ==
    /\ gen = "rclauses" /\ places = 0 => \A k \in 1..Len(cnf) : Proper(cnf[k], cnf_id - 1)
    /\ gen = "layers" /\ LineDone => Proper(printed, HighestVar)
    /\ gen = "layers" /\ ~InClause /\ ~LineDone => mark = {}

\* The search reaches every node of the circuit and gives each a number of its own,
\* operands before the nodes over them: the assertions on marks and numbers hold, and
\* the random clauses may use any node.  Every input is referenced as often as -r
\* says.
AllNumbered ==
    gen = "tseitin" /\ stack = <<>> =>
        /\ {nodes[k].cnf_id : k \in 1..Len(nodes)} = 1..(cnf_id - 1)
        /\ cnf_id - 1 = Len(nodes)
        /\ \A k \in 1..Len(nodes) :
              IF nodes[k].kind = "var" THEN nodes[k].refs >= MinRefs
              ELSE /\ nodes[nodes[k].n0].cnf_id < nodes[k].cnf_id
                   /\ nodes[nodes[k].n1].cnf_id < nodes[k].cnf_id

Value(assignment, node) ==
    LET y == assignment[nodes[node.n0].cnf_id] # node.neg_n0
        z == assignment[nodes[node.n1].cnf_id] # node.neg_n1
    IN CASE node.kind = "and" -> y /\ z
         [] node.kind = "or"  -> y \/ z
         [] node.kind = "iff" -> y <=> z

Satisfies(assignment, c) ==
    \E x \in ToSet(c) : assignment[AbsVal(x)] = (x > 0)

\* The clauses of the circuit are true exactly of its evaluations: each choice of the
\* inputs extends to one model, whatever nodes share operands or have the same
\* operand twice.
ModelsAreEvaluations ==
    gen = "tseitin" /\ stack = <<>> =>
        \A assignment \in [1..Len(nodes) -> BOOLEAN] :
            (\A c \in ToSet(cnf) : Satisfies(assignment, c))
              <=> \A k \in 1..Len(nodes) :
                     nodes[k].kind # "var" =>
                         assignment[nodes[k].cnf_id] = Value(assignment, nodes[k])

\* If Arjun changed nothing its output would pass both checks: fuzz.py never blames
\* Arjun for what the generators and its own lines did, unless a signal stopped
\* Brummayer while it printed; a file that was cut short is never taken for a whole
\* one, and even to it the lines that are appended fit.
OwnFileAccepted ==
    pc = "preproc" => /\ CheckHeader(file) <=> ~file.cut
                      /\ CheckNoTouchPreserved(file, t.num_no_touch)

\* The lines that four functions append fit together: the no-touch variables are
\* sampled, the sampled ones exist, weights are only given to sampled variables and
\* once for a literal, and the "c t" line announces the lines that follow, unless
\* the weights are complex.
LinesFit ==
    pc = "preproc" =>
        /\ Sampled(file) \subseteq 1..NumVarsOf(file)
        /\ file.no_touch # NoLine => ToSet(file.no_touch) \subseteq Sampled(file)
        /\ IsInjective(file.weights)
        /\ \A x \in ToSet(file.weights) : AbsVal(x) \in Sampled(file)
        /\ file.type # NoLine /\ ~t.cpx =>
              /\ file.show # NoLine <=> file.type \in {"pmc", "pwmc"}
              /\ file.weights # <<>> => file.type \in {"wmc", "pwmc"}

\* Both generators end, so that subprocess.call needs no time limit: the circuit
\* grows up to MaxNodes, and a place of a clause is passed over if no variable is
\* left for it.
GeneratorEnds == (gen # "idle") ~> (gen = "idle")

=============================================================================
