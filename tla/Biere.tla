-------------------------------- MODULE Biere --------------------------------
(***************************************************************************)
(* cnf-fuzz-biere.cc: random clauses over one or two layers of variables.  *)
(*                                                                         *)
(* Literals that were not used yet come first; mark keeps a variable from  *)
(* occurring twice in a clause.  A place of the clause whose variable is   *)
(* marked stays empty, and the array keeps there what an earlier clause    *)
(* had.                                                                    *)
(*                                                                         *)
(* This is a component: MakeTest starts it and takes its output.           *)
(***************************************************************************)
EXTENDS Integers, Sequences, SequencesExt

CONSTANTS
    Layouts,   \* the widths of the layers: one or two of them, 10 to 50 wide
    Ratios,    \* clauses per hundred variables, 300..450
    MinLen,    \* the length a clause starts from (3)
    MaxLen     \* MAX (50)

ASSUME LayerAssumption ==
    /\ Layouts \subseteq Seq(Nat \ {0}) /\ \A widths \in Layouts : Len(widths) \in {1, 2}
    /\ Ratios \subseteq Nat \ {0}
    /\ MinLen \in Nat \ {0} /\ MaxLen \in Nat /\ MinLen <= MaxLen

VARIABLES
    layers,   \* low, high, clauses and unused of each layer
    at,       \* the loops: layer i, clause j of it, length l, place k
    mark,     \* the variables of the clause
    clause,   \* the array: place -> literal, 0 if there was never one
    printed   \* the line printed so far

layer_vars == <<layers, at, mark, clause, printed>>

Start == [layer |-> 1, line |-> 0, len |-> 0, place |-> 0]

NoLayers ==
    /\ layers = <<>> /\ at = Start /\ mark = {} /\ clause = <<>> /\ printed = <<>>

\* The process ends, and its memory is gone.
LayersForgotten ==
    /\ layers' = <<>> /\ at' = Start /\ mark' = {} /\ clause' = <<>> /\ printed' = <<>>

AbsVal(x) == IF x < 0 THEN -x ELSE x

\* The width of the layer before layer i, if there is one.
Before(widths, i) == IF i = 2 THEN widths[1] ELSE 0

\* A layer has clauses for its own variables and those of the layer before it.
Layer(widths, i, ratio) ==
    LET low == Before(widths, i) + 1
        high == low + widths[i] - 1
        m == widths[i] + Before(widths, i)
    IN [low |-> low, high |-> high, clauses |-> (ratio * m) \div 100,
        unused |-> {sign * var : sign \in {-1, 1}, var \in low..high}]

HighestVar == layers[Len(layers)].high

NumLines == layers[1].clauses + IF Len(layers) = 2 THEN layers[2].clauses ELSE 0

DrawLayers ==
    /\ \E widths \in Layouts : \E ratios \in [1..Len(widths) -> Ratios] :
          layers' = [i \in 1..Len(widths) |-> Layer(widths, i, ratios[i])]
    /\ at' = Start
    /\ clause' = [k \in 1..MaxLen |-> 0]
    /\ UNCHANGED <<mark, printed>>

Working == at.layer <= Len(layers)

\* The next layer, if this one has all its clauses.
NextLayer ==
    /\ Working /\ at.line = layers[at.layer].clauses
    /\ at' = [Start EXCEPT !.layer = at.layer + 1]
    /\ UNCHANGED <<layers, mark, clause, printed>>

BeginClause ==
    /\ Working /\ at.line < layers[at.layer].clauses /\ at.len = 0
    /\ \E l \in MinLen..MaxLen : at' = [at EXCEPT !.len = l, !.place = 1]
    /\ UNCHANGED <<layers, mark, clause, printed>>

InClause == Working /\ at.len > 0 /\ at.place <= at.len

\* Mutant: a place whose variable is marked is tried again.
SkipPlaceAgain == UNCHANGED <<layers, at, mark, clause, printed>>

\* continue: the variable occurs already.
SkipPlace ==
    /\ at' = [at EXCEPT !.place = @ + 1]
    /\ UNCHANGED <<layers, mark, clause, printed>>

Put(lit) ==
    /\ clause' = [clause EXCEPT ![at.place] = lit]
    /\ mark' = mark \union {AbsVal(lit)}
    /\ printed' = Append(printed, lit)
    /\ at' = [at EXCEPT !.place = @ + 1]

\* A literal of this layer or of one below it.
DrawUnused ==
    /\ InClause
    /\ \E i \in 1..at.layer : \E lit \in layers[i].unused :
          IF AbsVal(lit) \in mark THEN SkipPlace
          ELSE Put(lit) /\ layers' = [layers EXCEPT ![i].unused = @ \ {lit}]

DrawAny ==
    /\ InClause
    /\ \E i \in 1..at.layer :
          /\ layers[i].unused = {}
          /\ \E var \in layers[i].low..layers[i].high :
                IF var \in mark THEN SkipPlace
                ELSE \E sign \in {1, -1} : Put(sign * var) /\ UNCHANGED layers

LineDone == Working /\ at.len > 0 /\ at.place > at.len

\* Mutant: the loop that clears the marks ends one place early.
ClearMarksEarly ==
    mark' = mark \ {AbsVal(clause[k]) : k \in 1..(at.len - 1)}

\* The marks are found by the array, the places that stayed empty included.
ClearMarks == mark' = mark \ {AbsVal(clause[k]) : k \in 1..at.len}

EndClause ==
    /\ LineDone
    /\ ClearMarks
    /\ printed' = <<>>
    /\ at' = [at EXCEPT !.line = @ + 1, !.len = 0, !.place = 0]
    /\ UNCHANGED <<layers, clause>>

LayersDone == Len(layers) > 0 /\ ~Working

LayerStep == NextLayer \/ BeginClause \/ DrawUnused \/ DrawAny \/ EndClause

=============================================================================
