------------------------------ MODULE Brummayer ------------------------------
(***************************************************************************)
(* cnf-fuzz-brummayer.py: a random circuit and its Tseitin encoding.       *)
(*                                                                         *)
(* The circuit grows until every input is referenced often enough, the     *)
(* nodes nobody refers to are joined into one root, a depth first search   *)
(* numbers the nodes and prints the clauses of each, random clauses and    *)
(* the root follow.  Node k of the program is nodes[k + 1].                *)
(*                                                                         *)
(* This is a component: MakeTest starts it and takes its output.           *)
(***************************************************************************)
EXTENDS Integers, Sequences, SequencesExt

CONSTANTS
    NumVars,      \* g_min_num_vars .. g_max_num_vars
    MinRefs,      \* g_min_refs
    MaxNodes,     \* more nodes than this are too many (30000)
    Percents,     \* g_min_rclauses_perc .. g_max_rclauses_perc
    ClauseLens,   \* g_min_rclause_len .. g_max_rclause_len
    Taut,         \* option -t
    Multilit      \* option -m

ASSUME CircuitAssumption ==
    /\ NumVars \subseteq Nat \ {0} /\ MinRefs \in Nat \ {0} /\ MaxNodes \in Nat
    /\ Percents \subseteq 0..100 /\ ClauseLens \subseteq Nat \ {0}
    /\ Taut \in BOOLEAN /\ Multilit \in BOOLEAN

VARIABLES
    gen,          \* the phase of the generator that runs; "idle" if none does
    nodes,        \* g_nodes
    unfinished1,  \* inputs that are not referenced often enough
    unfinished2,  \* nodes nobody refers to, and no inputs
    stack,        \* of the depth first search
    cnf_id,       \* the next number
    cnf,          \* the clauses printed so far
    num_clauses,
    num_rclauses, \* the random clauses still to come
    places        \* the places still to come of the random clause that was begun

circuit_vars ==
    <<nodes, unfinished1, unfinished2, stack, cnf_id, cnf, num_clauses, num_rclauses,
      places>>

\* The operators that are drawn; random.randint (AND, IFF) never gives XOR.
Ops == {"and", "or", "iff"}

Node(kind, n0, n1, neg_n0, neg_n1) ==
    [kind |-> kind, n0 |-> n0, n1 |-> n1, neg_n0 |-> neg_n0, neg_n1 |-> neg_n1,
     refs |-> 0, mark |-> 0, cnf_id |-> 0]

NoCircuit ==
    /\ nodes = <<>> /\ unfinished1 = {} /\ unfinished2 = {} /\ stack = <<>>
    /\ cnf_id = 1 /\ cnf = <<>> /\ num_clauses = 0 /\ num_rclauses = 0
    /\ places = 0

\* The process ends, and its memory is gone.
CircuitForgotten ==
    /\ nodes' = <<>> /\ unfinished1' = {} /\ unfinished2' = {} /\ stack' = <<>>
    /\ cnf_id' = 1 /\ cnf' = <<>> /\ num_clauses' = 0 /\ num_rclauses' = 0
    /\ places' = 0

-----------------------------------------------------------------------------
(***************************************************************************)
(* The circuit.                                                            *)
(***************************************************************************)

DrawInputs ==
    /\ \E n \in NumVars :
          /\ nodes' = [k \in 1..n |-> Node("var", 0, 0, FALSE, FALSE)]
          /\ unfinished1' = 1..n
    /\ gen' = "build"
    /\ UNCHANGED <<unfinished2, stack, cnf_id, cnf, num_clauses, num_rclauses, places>>

\* num
Built == Cardinality({k \in 1..Len(nodes) : nodes[k].kind # "var"})

\* Mutant: an input is finished as soon as it is referenced at all.
FinishedByAnyRef(n0, n1) == {n0, n1}

\* Both operands are tested before either is counted.
FinishedBy(n0, n1) == {k \in {n0, n1} : nodes[k].refs >= MinRefs - 1}

Times(k, n0, n1) == (IF k = n0 THEN 1 ELSE 0) + (IF k = n1 THEN 1 ELSE 0)

Referenced(n0, n1) ==
    [k \in 1..Len(nodes) |-> [nodes[k] EXCEPT !.refs = @ + Times(k, n0, n1)]]

\* The search starts at the one node that is left without a reference; if there
\* are more of them, they are joined first.
GraphDone ==
    IF Cardinality(unfinished2') = 1
    THEN gen' = "tseitin" /\ stack' = SetToSeq(unfinished2')
    ELSE gen' = "combine" /\ UNCHANGED stack

\* One more node, over any two nodes there are, even twice the same.
AddNode ==
    /\ gen = "build"
    /\ Built <= MaxNodes
    /\ \E op \in Ops, n0, n1 \in 1..Len(nodes), neg0, neg1 \in BOOLEAN :
          /\ unfinished1' = unfinished1 \ FinishedBy(n0, n1)
          /\ unfinished2' = (unfinished2 \ {n0, n1}) \union {Len(nodes) + 1}
          /\ nodes' = Append(Referenced(n0, n1), Node(op, n0, n1, neg0, neg1))
    /\ IF unfinished1' = {} /\ Built < MaxNodes THEN GraphDone ELSE UNCHANGED <<gen, stack>>
    /\ UNCHANGED <<cnf_id, cnf, num_clauses, num_rclauses, places>>

TooManyNodes == gen = "build" /\ Built > MaxNodes

\* Two nodes without a reference get one together.  It does not count as one.
Combine ==
    /\ gen = "combine"
    /\ \E op \in Ops, n0, n1 \in unfinished2, neg0, neg1 \in BOOLEAN :
          /\ n0 # n1
          /\ unfinished2' = (unfinished2 \ {n0, n1}) \union {Len(nodes) + 1}
          /\ nodes' = Append(nodes, Node(op, n0, n1, neg0, neg1))
    /\ GraphDone
    /\ UNCHANGED <<unfinished1, cnf_id, cnf, num_clauses, num_rclauses, places>>

-----------------------------------------------------------------------------
(***************************************************************************)
(* The Tseitin encoding.                                                   *)
(***************************************************************************)

\* x is the number of the node, y and z are the literals of its operands.
Definition(kind, x, y, z) ==
    CASE kind = "and" -> <<<<-x, y>>, <<-x, z>>, <<-y, -z, x>>>>
      [] kind = "or"  -> <<<<x, -y>>, <<x, -z>>, <<y, z, -x>>>>
      [] kind = "iff" -> <<<<-y, z, -x>>, <<y, -z, -x>>, <<-y, -z, x>>, <<y, z, x>>>>
      [] kind = "xor" -> <<<<-y, z, x>>, <<y, -z, x>>, <<-y, -z, -x>>, <<y, z, -x>>>>

\* Mutant: variables are compared, not literals.
SameVariable(clause) ==
    \E i, j \in 1..Len(clause) : i # j /\ clause[i] \in {clause[j], -clause[j]}

Tautology(clause) == \E i, j \in 1..Len(clause) : clause[i] = -clause[j]

Literals(clause) == {clause[i] : i \in 1..Len(clause)}

\* A literal is not printed again, a tautology not at all.
Once(clause, i) ==
    IF ~Multilit /\ (\E j \in 1..(i - 1) : clause[j] = clause[i]) THEN <<>> ELSE <<clause[i]>>

PrintClause(clause) ==
    IF ~Taut /\ Tautology(clause) THEN <<>>
    ELSE <<Once(clause, 1) \o Once(clause, 2)
             \o (IF Len(clause) = 3 THEN Once(clause, 3) ELSE <<>>)>>

Printed(clauses) ==
    PrintClause(clauses[1]) \o PrintClause(clauses[2]) \o PrintClause(clauses[3])
        \o (IF Len(clauses) = 4 THEN PrintClause(clauses[4]) ELSE <<>>)

Cur == Last(stack)

Operand(n, neg) == IF neg THEN -nodes[n].cnf_id ELSE nodes[n].cnf_id

\* The node was numbered on another path.
SkipNumbered ==
    /\ gen = "tseitin" /\ stack # <<>>
    /\ nodes[Cur].mark = 2
    /\ stack' = Front(stack)
    /\ UNCHANGED <<gen, nodes, unfinished1, unfinished2, cnf_id, cnf, num_clauses, num_rclauses,
                   places>>

NumberInput ==
    /\ gen = "tseitin" /\ stack # <<>>
    /\ nodes[Cur].mark # 2 /\ nodes[Cur].kind = "var"
    /\ nodes' = [nodes EXCEPT ![Cur].cnf_id = cnf_id, ![Cur].mark = 2]
    /\ cnf_id' = cnf_id + 1
    /\ stack' = Front(stack)
    /\ UNCHANGED <<gen, unfinished1, unfinished2, cnf, num_clauses, num_rclauses, places>>

Descend ==
    /\ gen = "tseitin" /\ stack # <<>>
    /\ nodes[Cur].mark = 0 /\ nodes[Cur].kind # "var"
    /\ nodes' = [nodes EXCEPT ![Cur].mark = 1]
    /\ stack' = stack \o <<nodes[Cur].n1, nodes[Cur].n0>>
    /\ UNCHANGED <<gen, unfinished1, unfinished2, cnf_id, cnf, num_clauses, num_rclauses, places>>

\* Both operands have their numbers.
DefineNode ==
    /\ gen = "tseitin" /\ stack # <<>>
    /\ nodes[Cur].mark = 1
    /\ nodes' = [nodes EXCEPT ![Cur].cnf_id = cnf_id, ![Cur].mark = 2]
    /\ cnf_id' = cnf_id + 1
    /\ LET clauses == Printed(Definition(nodes[Cur].kind, cnf_id,
                                         Operand(nodes[Cur].n0, nodes[Cur].neg_n0),
                                         Operand(nodes[Cur].n1, nodes[Cur].neg_n1)))
       IN /\ cnf' = cnf \o clauses
          /\ num_clauses' = num_clauses + Len(clauses)
    /\ stack' = Front(stack)
    /\ UNCHANGED <<gen, unfinished1, unfinished2, num_rclauses, places>>

-----------------------------------------------------------------------------
(***************************************************************************)
(* The random clauses.                                                     *)
(***************************************************************************)

\* round() takes the even one of two numbers that are equally near.
RoundedShare(percent, n) ==
    LET q == (percent * n) \div 100
        r == (percent * n) % 100
    IN IF r > 50 \/ (r = 50 /\ q % 2 = 1) THEN q + 1 ELSE q

StartRClauses ==
    /\ gen = "tseitin" /\ stack = <<>>
    /\ \E percent \in Percents :
          /\ num_rclauses' = RoundedShare(percent, num_clauses)
          /\ num_clauses' = num_clauses + RoundedShare(percent, num_clauses)
    /\ gen' = "rclauses"
    /\ UNCHANGED <<nodes, unfinished1, unfinished2, stack, cnf_id, cnf, places>>

MayFollow(clause, x) ==
    /\ Taut \/ -x \notin Literals(clause)
    /\ Multilit \/ x \notin Literals(clause)

\* The clause starts without literals; clause_len is drawn.
BeginRClause ==
    /\ gen = "rclauses" /\ num_rclauses > 0 /\ places = 0
    /\ places' \in ClauseLens
    /\ cnf' = Append(cnf, <<>>)
    /\ num_rclauses' = num_rclauses - 1
    /\ UNCHANGED <<gen, nodes, unfinished1, unfinished2, stack, cnf_id, num_clauses>>

Extended(x) == [cnf EXCEPT ![Len(cnf)] = Append(@, x)]

\* A literal of any node is drawn for the next place; one that may not follow is left
\* out.
DrawLiteral ==
    /\ gen = "rclauses" /\ places > 0
    /\ \E k \in 1..Len(nodes), sign \in {1, -1} :
          LET x == sign * nodes[k].cnf_id
          IN cnf' = IF MayFollow(cnf[Len(cnf)], x) THEN Extended(x) ELSE cnf
    /\ places' = places - 1
    /\ UNCHANGED <<gen, nodes, unfinished1, unfinished2, stack, cnf_id, num_clauses, num_rclauses>>

ClausesDone == gen = "rclauses" /\ num_rclauses = 0 /\ places = 0

Root == CHOOSE n \in unfinished2 : TRUE

CircuitStep ==
    \/ AddNode \/ Combine \/ SkipNumbered \/ NumberInput \/ Descend \/ DefineNode
    \/ StartRClauses \/ BeginRClause \/ DrawLiteral

=============================================================================
