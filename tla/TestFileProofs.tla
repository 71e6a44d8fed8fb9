--------------------------- MODULE TestFileProofs ---------------------------
(***************************************************************************)
(* Proofs about TestFile, for any number of inputs, of references, of      *)
(* nodes, of clauses and of variables in the layers, and for both values   *)
(* of the options -t and -m.                                               *)
(*                                                                         *)
(* The circuit is what its clauses say it is (IndInv).                     *)
(* While the circuit grows, a node that is not waiting for a reference has *)
(* one (Graph); so the search, which starts at the one node that is left,  *)
(* reaches them all.  The operands of a node that was entered are numbered *)
(* or above it on the stack (Reaches).  No operand can have been entered   *)
(* before, because the nodes above one that was entered came into being    *)
(* before it (Entered).  The clauses that were printed say that the        *)
(* numbered nodes have their values (Meaning).                             *)
(*                                                                         *)
(* The clauses are proper.  Brummayer's are counted, and over the numbers  *)
(* given so far (CircuitLines): an operand has a smaller number than its   *)
(* gate, a random clause may use any because the search ended.  Biere's    *)
(* marks are the variables of the line, and the array finds each of them   *)
(* at a place before the one reached (MarksFit): the mark of a place that  *)
(* is passed over was set by an earlier one of the same line.              *)
(*                                                                         *)
(* The file fits the test (FileInv): what a generator leaves behind has a  *)
(* true header, and each step of generate_cnf adds its line to what the    *)
(* earlier ones wrote.                                                     *)
(***************************************************************************)
EXTENDS TestFile, FiniteSetTheorems, SequenceTheorems, WellFoundedInduction, TLAPS

-----------------------------------------------------------------------------
(***************************************************************************)
(* The invariant.                                                          *)
(***************************************************************************)

NodeType ==
    [kind : Ops \union {"var"}, n0 : Nat, n1 : Nat, neg_n0 : BOOLEAN, neg_n1 : BOOLEAN,
     refs : Nat, mark : {0, 1, 2}, cnf_id : Nat]

Indices == 1..Len(nodes)

IsGate(k) == nodes[k].kind # "var"

Operands(k) == {nodes[k].n0, nodes[k].n1}

HasParent(k) == \E p \in Indices : IsGate(p) /\ k \in Operands(p)

\* Nodes refer to earlier ones; those that are finished have a reference.
Graph ==
    /\ nodes \in Seq(NodeType)
    /\ \A k \in Indices : IsGate(k) => Operands(k) \subseteq 1..(k - 1)
    /\ unfinished2 \subseteq Indices
    /\ \A k \in Indices : IsGate(k) => k \in unfinished2 \/ HasParent(k)
    /\ \A k \in Indices : ~IsGate(k) => /\ k \in unfinished1 \/ nodes[k].refs >= MinRefs
                                        /\ nodes[k].refs > 0 => HasParent(k)

\* Nothing is searched or printed yet.
Unsearched ==
    /\ stack = <<>> /\ cnf_id = 1 /\ cnf = <<>>
    /\ \A k \in Indices : nodes[k].mark = 0

Numbered == {k \in Indices : nodes[k].mark = 2}

OnStack(k) == \E q \in 1..Len(stack) : stack[q] = k

\* A node that was entered has a place on the stack with nothing but earlier nodes
\* above it.
Entered ==
    \A k \in Indices : nodes[k].mark = 1 =>
        \E q \in 1..Len(stack) : stack[q] = k /\ \A r \in (q + 1)..Len(stack) : stack[r] < k

\* The last node is numbered or will be; a node that was entered comes up again when
\* its operands are numbered.
Reaches ==
    /\ Entered
    /\ stack \in Seq(Indices)
    /\ \E root \in Indices : unfinished2 = {root} /\ (root \in Numbered \/ OnStack(root))
    /\ \A k \in Numbered : IsGate(k) => Operands(k) \subseteq Numbered
    /\ \A q \in 1..Len(stack) : nodes[stack[q]].mark = 1 =>
          /\ IsGate(stack[q])
          /\ \A k \in Operands(stack[q]) :
                k \in Numbered \/ \E r \in (q + 1)..Len(stack) : stack[r] = k

\* The numbers given so far.
Numbers ==
    /\ cnf_id \in Nat \ {0}
    /\ IsFiniteSet(Numbered) /\ Cardinality(Numbered) = cnf_id - 1
    /\ {nodes[k].cnf_id : k \in Numbered} = 1..(cnf_id - 1)
    /\ \A k \in Numbered : IsGate(k) =>
          \A j \in Operands(k) : nodes[j].cnf_id < nodes[k].cnf_id

\* The value of a gate, of the values of its operands.
Gate(kind, y, z) ==
    CASE kind = "and" -> y /\ z
      [] kind = "or"  -> y \/ z
      [] kind = "iff" -> y <=> z

\* In the assignment, the gate has the value of its operands.
GateHolds(assignment, k) ==
    assignment[nodes[k].cnf_id]
      = Gate(nodes[k].kind, assignment[nodes[nodes[k].n0].cnf_id] # nodes[k].neg_n0,
                            assignment[nodes[nodes[k].n1].cnf_id] # nodes[k].neg_n1)

\* The clauses so far are true exactly if the numbered nodes have their values.
Meaning ==
    /\ cnf \in Seq(Seq(Int))
    /\ \A assignment \in [Indices -> BOOLEAN] :
          (\A c \in ToSet(cnf) : Satisfies(assignment, c))
            <=> \A k \in Numbered : IsGate(k) => GateHolds(assignment, k)

IndInv ==
    /\ pc = "draw" => gen = "idle"
    /\ gen \in {"idle", "layers"} =>
          unfinished2 = {} /\ stack = <<>> /\ cnf_id = 1 /\ cnf = <<>>
    /\ gen \in {"build", "combine"} => Graph /\ Unsearched
    /\ gen \in {"combine", "tseitin"} => unfinished1 = {}
    /\ gen = "tseitin" => Graph /\ Reaches /\ Numbers /\ Meaning

-----------------------------------------------------------------------------
(***************************************************************************)
(* The circuit grows.                                                      *)
(***************************************************************************)

LEMMA AppendedNode ==
  ASSUME NEW list \in Seq(NodeType), NEW node \in NodeType
  PROVE  /\ Append(list, node) \in Seq(NodeType)
         /\ Len(list) \in Nat /\ Len(Append(list, node)) = Len(list) + 1
         /\ \A k \in 1..Len(list) : Append(list, node)[k] = list[k]
         /\ Append(list, node)[Len(list) + 1] = node
BY AppendProperties, LenProperties

\* A node is added over two others, whose references may be counted.
LEMMA GraphGrows ==
  ASSUME Graph, NEW n0 \in Indices, NEW n1 \in Indices,
         nodes' \in Seq(NodeType), Len(nodes') = Len(nodes) + 1,
         \A k \in Indices : /\ nodes'[k].kind = nodes[k].kind
                            /\ nodes'[k].n0 = nodes[k].n0 /\ nodes'[k].n1 = nodes[k].n1
                            /\ nodes'[k].refs >= nodes[k].refs
                            /\ nodes'[k].refs > nodes[k].refs => k \in {n0, n1},
         nodes'[Len(nodes) + 1].kind # "var",
         nodes'[Len(nodes) + 1].n0 = n0, nodes'[Len(nodes) + 1].n1 = n1,
         \A k \in unfinished1 \ unfinished1' :
            k \in Indices /\ nodes[k].kind = "var" => nodes'[k].refs >= MinRefs,
         unfinished2' = (unfinished2 \ {n0, n1}) \union {Len(nodes) + 1}
  PROVE  Graph'
<1> DEFINE new == Len(nodes) + 1
<1>1. Len(nodes) \in Nat /\ new \in Indices'
  BY LenProperties DEF Graph, Indices
<1>2. /\ \A k : k \in Indices' <=> k \in Indices \/ k = new
      /\ new \notin Indices
  BY <1>1 DEF Indices
<1>3. /\ \A k \in Indices : nodes'[k].kind # "var" <=> IsGate(k)
      /\ \A k \in Indices : {nodes'[k].n0, nodes'[k].n1} = Operands(k)
      /\ nodes'[new].kind # "var" /\ {nodes'[new].n0, nodes'[new].n1} = {n0, n1}
  BY DEF IsGate, Operands
<1>4. \A k \in Indices : HasParent(k) \/ k \in {n0, n1} =>
         \E p \in Indices' : nodes'[p].kind # "var" /\ k \in {nodes'[p].n0, nodes'[p].n1}
  <2>1. ASSUME NEW k \in Indices, HasParent(k)
        PROVE  \E p \in Indices' : nodes'[p].kind # "var" /\ k \in {nodes'[p].n0, nodes'[p].n1}
    <3>1. PICK p \in Indices : IsGate(p) /\ k \in Operands(p)
      BY <2>1 DEF HasParent
    <3>2. p \in Indices' /\ nodes'[p].kind # "var" /\ k \in {nodes'[p].n0, nodes'[p].n1}
      BY <1>2, <1>3, <3>1
    <3> QED
      BY <3>2
  <2>2. ASSUME NEW k \in {n0, n1}
        PROVE  \E p \in Indices' : nodes'[p].kind # "var" /\ k \in {nodes'[p].n0, nodes'[p].n1}
    BY <1>1, <1>3
  <2> QED
    BY <2>1, <2>2
<1> HIDE DEF new
<1>5. \A k \in Indices' : nodes'[k].kind # "var" =>
         {nodes'[k].n0, nodes'[k].n1} \subseteq 1..(k - 1)
  <2>1. \A k \in Indices : nodes'[k].kind # "var" =>
           {nodes'[k].n0, nodes'[k].n1} \subseteq 1..(k - 1)
    BY <1>3 DEF Graph
  <2>2. {n0, n1} \subseteq 1..(new - 1)
    BY <1>1 DEF new, Indices
  <2>3. {nodes'[new].n0, nodes'[new].n1} \subseteq 1..(new - 1)
    BY <1>3, <2>2
  <2> QED
    BY <1>2, <2>1, <2>3
<1>6. unfinished2' \subseteq Indices'
  BY <1>1, <1>2 DEF Graph, new
<1>7. \A k \in Indices' : nodes'[k].kind # "var" =>
         \/ k \in unfinished2'
         \/ \E p \in Indices' : nodes'[p].kind # "var" /\ k \in {nodes'[p].n0, nodes'[p].n1}
  <2>1. ASSUME NEW k \in Indices, IsGate(k), k \notin unfinished2'
        PROVE  \E p \in Indices' : nodes'[p].kind # "var" /\ k \in {nodes'[p].n0, nodes'[p].n1}
    <3>1. HasParent(k) \/ k \in {n0, n1}
      BY <2>1 DEF Graph
    <3> QED
      BY <1>4, <3>1
  <2>2. new \in unfinished2'
    BY DEF new
  <2> QED
    BY <1>2, <1>3, <2>1, <2>2
<1>8. \A k \in Indices' : ~(nodes'[k].kind # "var") =>
         /\ k \in unfinished1' \/ nodes'[k].refs >= MinRefs
         /\ nodes'[k].refs > 0 =>
               \E p \in Indices' : nodes'[p].kind # "var" /\ k \in {nodes'[p].n0, nodes'[p].n1}
  <2> SUFFICES ASSUME NEW k \in Indices, ~IsGate(k)
               PROVE  /\ k \in unfinished1' \/ nodes'[k].refs >= MinRefs
                      /\ nodes'[k].refs > 0 =>
                            \E p \in Indices' : /\ nodes'[p].kind # "var"
                                                /\ k \in {nodes'[p].n0, nodes'[p].n1}
    BY <1>2, <1>3
  <2>1. nodes[k].refs \in Nat /\ nodes'[k].refs \in Nat
    <3>1. nodes[k] \in NodeType /\ nodes'[k] \in NodeType
      BY <1>2, ElementOfSeq DEF Graph, Indices
    <3> QED
      BY <3>1 DEF NodeType
  <2>2. /\ k \in unfinished1 \/ nodes[k].refs >= MinRefs
        /\ nodes[k].refs > 0 => HasParent(k)
    BY DEF Graph
  <2>3. MinRefs \in Nat
    BY CircuitAssumption
  <2>4. k \in unfinished1' \/ nodes'[k].refs >= MinRefs
    BY <2>1, <2>2, <2>3 DEF IsGate
  <2>5. nodes'[k].refs > 0 => HasParent(k) \/ k \in {n0, n1}
    BY <2>1, <2>2
  <2> QED
    BY <1>4, <2>4, <2>5
<1> QED
  BY <1>5, <1>6, <1>7, <1>8 DEF Graph, IsGate, Operands, HasParent

\* The search starts at the only node that is left.
LEMMA OneNode ==
  ASSUME NEW root
  PROVE  SetToSeq({root}) \in Seq({root}) /\ Len(SetToSeq({root})) = 1 /\ SetToSeq({root})[1] = root
<1>1. Cardinality({root}) = 1
  BY FS_Singleton
<1>2. <<root>> \in [1..Cardinality({root}) -> {root}] /\ IsInjective(<<root>>)
  BY <1>1 DEF IsInjective
<1>3. SetToSeq({root}) \in [1..1 -> {root}]
  BY <1>1, <1>2 DEF SetToSeq
<1>4. SetToSeq({root}) \in Seq({root})
  BY <1>3, SeqDef
<1> HIDE <1>1, <1>2
<1>5. Len(SetToSeq({root})) = 1
  BY <1>3, <1>4, LenProperties
<1> QED
  BY <1>3, <1>4, <1>5

LEMMA SearchStarts ==
  ASSUME NEW root \in Indices', stack' = SetToSeq({root}), unfinished2' = {root},
         cnf_id' = 1, cnf' = <<>>, \A k \in Indices' : nodes'[k].mark = 0
  PROVE  Reaches' /\ Numbers' /\ Meaning'
<1>1. stack' \in Seq({root}) /\ Len(stack') = 1 /\ stack'[1] = root
  BY OneNode
<1>2. Numbered' = {}
  BY DEF Numbered
<1>3. stack' \in Seq(Indices')
  BY <1>1, SeqMonotonic
<1>4. Reaches'
  <2>1. \A q \in 1..Len(stack') : nodes'[stack'[q]].mark # 1
    BY <1>1
  <2>2. \E q \in 1..Len(stack') : stack'[q] = root
    BY <1>1
  <2> QED
    BY <1>2, <1>3, <2>1, <2>2 DEF Reaches, Entered, OnStack
<1>5. Numbers'
  <2>1. IsFiniteSet(Numbered') /\ Cardinality(Numbered') = 0
    BY <1>2, FS_EmptySet
  <2>2. {nodes'[k].cnf_id : k \in Numbered'} = 1..(cnf_id' - 1)
    BY <1>2
  <2> QED
    BY <1>2, <2>1, <2>2 DEF Numbers
<1>6. Meaning'
  <2>1. cnf' \in Seq(Seq(Int)) /\ ToSet(cnf') = {}
    BY DEF ToSet
  <2> QED
    BY <1>2, <2>1 DEF Meaning
<1> QED
  BY <1>4, <1>5, <1>6

\* After a node was added, the search starts or nodes are joined.
LEMMA GraphDoneInv ==
  ASSUME Graph', GraphDone, stack = <<>>, cnf_id' = 1, cnf' = <<>>, unfinished1' = {},
         unfinished2' # {}, \A k \in Indices' : nodes'[k].mark = 0
  PROVE  /\ gen' \in {"combine", "tseitin"}
         /\ gen' = "combine" => Unsearched'
         /\ gen' = "tseitin" => Reaches' /\ Numbers' /\ Meaning'
<1>1. CASE Cardinality(unfinished2') = 1
  <2>1. gen' = "tseitin" /\ stack' = SetToSeq(unfinished2')
    BY <1>1 DEF GraphDone
  <2>2. IsFiniteSet(unfinished2')
    <3>1. Len(nodes') \in Nat /\ unfinished2' \in SUBSET (1..Len(nodes'))
      BY LenProperties DEF Graph, Indices
    <3>2. IsFiniteSet(1..Len(nodes'))
      BY <3>1, FS_Interval
    <3> QED
      BY <3>1, <3>2, FS_Subset
  <2>3. PICK root : unfinished2' = {root}
    BY <1>1, <2>2, FS_Singleton
  <2>4. root \in Indices'
    BY <2>3 DEF Graph
  <2> QED
    BY <2>1, <2>3, <2>4, SearchStarts
<1>2. CASE Cardinality(unfinished2') # 1
  BY <1>2 DEF GraphDone, Unsearched
<1> QED
  BY <1>1, <1>2

LEMMA AddNodeInv ==
  ASSUME IndInv, AddNode, pc # "draw", pc' = pc
  PROVE  IndInv'
<1>0. /\ gen = "build" /\ Graph /\ stack = <<>> /\ cnf_id = 1 /\ cnf = <<>>
      /\ \A k \in Indices : nodes[k].mark = 0
      /\ UNCHANGED <<cnf_id, cnf>>
  BY DEF AddNode, IndInv, Unsearched
<1>1. PICK op \in Ops, n0 \in 1..Len(nodes), n1 \in 1..Len(nodes),
           neg0 \in BOOLEAN, neg1 \in BOOLEAN :
        /\ unfinished1' = unfinished1 \ FinishedBy(n0, n1)
        /\ unfinished2' = (unfinished2 \ {n0, n1}) \union {Len(nodes) + 1}
        /\ nodes' = Append(Referenced(n0, n1), Node(op, n0, n1, neg0, neg1))
  BY DEF AddNode
<1> DEFINE new == Node(op, n0, n1, neg0, neg1)
           counted == Referenced(n0, n1)
<1>2. Len(nodes) \in Nat /\ \A k \in Indices : nodes[k] \in NodeType
  BY <1>0, LenProperties, ElementOfSeq DEF Graph, Indices
<1>3. new \in NodeType /\ new.kind # "var" /\ new.n0 = n0 /\ new.n1 = n1 /\ new.mark = 0
  <2>1. n0 \in Nat /\ n1 \in Nat /\ op # "var"
    BY <1>2 DEF Ops
  <2> QED
    BY <2>1 DEF Node, NodeType
<1>4. counted = [k \in Indices |-> [nodes[k] EXCEPT !.refs = @ + Times(k, n0, n1)]]
  BY DEF Referenced, Indices
<1>5. \A k \in Indices : /\ Times(k, n0, n1) \in Nat
                         /\ Times(k, n0, n1) > 0 <=> k \in {n0, n1}
  BY DEF Times
<1>6. \A k \in Indices : /\ counted[k] \in NodeType
                         /\ counted[k].kind = nodes[k].kind
                         /\ counted[k].n0 = nodes[k].n0 /\ counted[k].n1 = nodes[k].n1
                         /\ counted[k].mark = nodes[k].mark
                         /\ counted[k].refs = nodes[k].refs + Times(k, n0, n1)
  <2> SUFFICES ASSUME NEW k \in Indices
               PROVE  /\ counted[k] \in NodeType
                      /\ counted[k].kind = nodes[k].kind
                      /\ counted[k].n0 = nodes[k].n0 /\ counted[k].n1 = nodes[k].n1
                      /\ counted[k].mark = nodes[k].mark
                      /\ counted[k].refs = nodes[k].refs + Times(k, n0, n1)
    OBVIOUS
  <2>1. counted[k] = [nodes[k] EXCEPT !.refs = @ + Times(k, n0, n1)]
    BY <1>4
  <2>2. nodes[k] \in NodeType /\ Times(k, n0, n1) \in Nat
    BY <1>2, <1>5
  <2> HIDE DEF counted
  <2>3. PICK r \in Nat : r = nodes[k].refs + Times(k, n0, n1)
    BY <2>2 DEF NodeType
  <2>4. PICK node \in NodeType : node = nodes[k]
    BY <2>2
  <2>5. counted[k] = [node EXCEPT !.refs = r]
    BY <2>1, <2>3, <2>4
  <2>6. [node EXCEPT !.refs = r] \in NodeType
    BY DEF NodeType
  <2>7. /\ counted[k].kind = node.kind /\ counted[k].n0 = node.n0 /\ counted[k].n1 = node.n1
        /\ counted[k].mark = node.mark /\ counted[k].refs = r
    BY <2>5 DEF NodeType
  <2> QED
    BY <2>3, <2>4, <2>5, <2>6, <2>7
<1>7. counted \in Seq(NodeType) /\ Len(counted) = Len(nodes)
  <2>1. counted \in [1..Len(nodes) -> NodeType]
    BY <1>4, <1>6 DEF Indices
  <2>2. counted \in Seq(NodeType)
    BY <1>2, <2>1, SeqDef
  <2> HIDE DEF counted
  <2> QED
    BY <1>2, <2>1, <2>2, LenProperties
<1>8. nodes' = Append(counted, new)
  BY <1>1
<1> HIDE DEF counted, new
<1>9. /\ nodes' \in Seq(NodeType) /\ Len(nodes') = Len(nodes) + 1
      /\ nodes'[Len(nodes) + 1] = new
      /\ \A k \in Indices : nodes'[k] = counted[k]
  BY <1>3, <1>7, <1>8, AppendedNode DEF Indices
<1>10. \A k \in Indices : nodes[k].refs \in Nat
  BY <1>2 DEF NodeType
<1>11. \A k \in unfinished1 \ unfinished1' :
          k \in Indices /\ nodes[k].kind = "var" => nodes'[k].refs >= MinRefs
  <2> SUFFICES ASSUME NEW k \in unfinished1 \ unfinished1', k \in Indices
               PROVE  nodes'[k].refs >= MinRefs
    OBVIOUS
  <2>1. k \in {n0, n1} /\ nodes[k].refs >= MinRefs - 1
    BY <1>1 DEF FinishedBy
  <2>2. nodes'[k].refs = nodes[k].refs + Times(k, n0, n1)
    BY <1>6, <1>9
  <2>3. MinRefs \in Nat
    BY CircuitAssumption
  <2> QED
    BY <1>5, <1>10, <2>1, <2>2, <2>3
<1>12. Graph'
  <2>1. n0 \in Indices /\ n1 \in Indices
    BY DEF Indices
  <2>2. \A k \in Indices : /\ nodes'[k].refs >= nodes[k].refs
                           /\ nodes'[k].refs > nodes[k].refs => k \in {n0, n1}
    BY <1>5, <1>6, <1>9, <1>10
  <2>3. \A k \in Indices : /\ nodes'[k].kind = nodes[k].kind
                           /\ nodes'[k].n0 = nodes[k].n0 /\ nodes'[k].n1 = nodes[k].n1
                           /\ nodes'[k].refs >= nodes[k].refs
                           /\ nodes'[k].refs > nodes[k].refs => k \in {n0, n1}
    BY <1>6, <1>9, <2>2
  <2>4. /\ nodes'[Len(nodes) + 1].kind # "var"
        /\ nodes'[Len(nodes) + 1].n0 = n0 /\ nodes'[Len(nodes) + 1].n1 = n1
    BY <1>3, <1>9
  <2> QED
    BY <1>0, <1>1, <1>9, <1>11, <2>1, <2>3, <2>4, GraphGrows
<1>13. \A k \in Indices' : nodes'[k].mark = 0
  <2>1. \A k \in Indices' : k \in Indices \/ k = Len(nodes) + 1
    BY <1>2, <1>9 DEF Indices
  <2> QED
    BY <1>0, <1>3, <1>6, <1>9, <2>1
<1>14. CASE unfinished1' = {} /\ GraphDone
  <2>1. unfinished2' # {}
    BY <1>1
  <2>2. /\ gen' \in {"combine", "tseitin"}
        /\ gen' = "combine" => Unsearched'
        /\ gen' = "tseitin" => Reaches' /\ Numbers' /\ Meaning'
    BY <1>0, <1>12, <1>13, <1>14, <2>1, GraphDoneInv
  <2> QED
    BY <1>12, <1>14, <2>2 DEF IndInv
<1>15. CASE UNCHANGED <<gen, stack>>
  <2>1. Unsearched'
    BY <1>0, <1>13, <1>15 DEF Unsearched
  <2> QED
    BY <1>0, <1>12, <1>15, <2>1 DEF IndInv
<1> QED
  BY <1>14, <1>15 DEF AddNode

LEMMA CombineInv ==
  ASSUME IndInv, Combine, pc # "draw", pc' = pc
  PROVE  IndInv'
<1>0. /\ gen = "combine" /\ Graph /\ stack = <<>> /\ cnf_id = 1 /\ cnf = <<>>
      /\ \A k \in Indices : nodes[k].mark = 0
      /\ unfinished1 = {} /\ GraphDone
      /\ UNCHANGED <<unfinished1, cnf_id, cnf>>
  BY DEF Combine, IndInv, Unsearched
<1>1. PICK op \in Ops, n0 \in unfinished2, n1 \in unfinished2,
           neg0 \in BOOLEAN, neg1 \in BOOLEAN :
        /\ unfinished2' = (unfinished2 \ {n0, n1}) \union {Len(nodes) + 1}
        /\ nodes' = Append(nodes, Node(op, n0, n1, neg0, neg1))
  BY DEF Combine
<1> DEFINE new == Node(op, n0, n1, neg0, neg1)
<1>2. Len(nodes) \in Nat /\ \A k \in Indices : nodes[k] \in NodeType
  BY <1>0, LenProperties, ElementOfSeq DEF Graph, Indices
<1>3. n0 \in Indices /\ n1 \in Indices
  BY <1>0 DEF Graph
<1>4. new \in NodeType /\ new.kind # "var" /\ new.n0 = n0 /\ new.n1 = n1 /\ new.mark = 0
  <2>1. n0 \in Nat /\ n1 \in Nat /\ op # "var"
    BY <1>2, <1>3 DEF Ops, Indices
  <2> QED
    BY <2>1 DEF Node, NodeType
<1>5. nodes' = Append(nodes, new)
  BY <1>1
<1> HIDE DEF new
<1>6. /\ nodes' \in Seq(NodeType) /\ Len(nodes') = Len(nodes) + 1
      /\ nodes'[Len(nodes) + 1] = new
      /\ \A k \in Indices : nodes'[k] = nodes[k]
  BY <1>0, <1>4, <1>5, AppendedNode DEF Indices, Graph
<1>7. \A k \in Indices : nodes[k].refs \in Nat
  BY <1>2 DEF NodeType
<1>8. Graph'
  <2>1. \A k \in Indices : /\ nodes'[k].kind = nodes[k].kind
                           /\ nodes'[k].n0 = nodes[k].n0 /\ nodes'[k].n1 = nodes[k].n1
                           /\ nodes'[k].refs >= nodes[k].refs
                           /\ nodes'[k].refs > nodes[k].refs => k \in {n0, n1}
    BY <1>6, <1>7
  <2>2. /\ nodes'[Len(nodes) + 1].kind # "var"
        /\ nodes'[Len(nodes) + 1].n0 = n0 /\ nodes'[Len(nodes) + 1].n1 = n1
    BY <1>4, <1>6
  <2>3. \A k \in unfinished1 \ unfinished1' :
           k \in Indices /\ nodes[k].kind = "var" => nodes'[k].refs >= MinRefs
    BY <1>0
  <2> QED
    BY <1>0, <1>1, <1>3, <1>6, <2>1, <2>2, <2>3, GraphGrows
<1>9. \A k \in Indices' : nodes'[k].mark = 0
  <2>1. \A k \in Indices' : k \in Indices \/ k = Len(nodes) + 1
    BY <1>2, <1>6 DEF Indices
  <2> QED
    BY <1>0, <1>4, <1>6, <2>1
<1>10. unfinished1' = {} /\ unfinished2' # {}
  BY <1>0, <1>1
<1>11. /\ gen' \in {"combine", "tseitin"}
       /\ gen' = "combine" => Unsearched'
       /\ gen' = "tseitin" => Reaches' /\ Numbers' /\ Meaning'
  BY <1>0, <1>8, <1>9, <1>10, GraphDoneInv
<1> QED
  BY <1>8, <1>10, <1>11 DEF IndInv

-----------------------------------------------------------------------------
(***************************************************************************)
(* The search.                                                             *)
(***************************************************************************)

LEMMA FrontOf ==
  ASSUME NEW S, NEW list \in Seq(S), list # <<>>
  PROVE  /\ Len(list) \in Nat \ {0} /\ Last(list) = list[Len(list)] /\ Last(list) \in S
         /\ Front(list) \in Seq(S) /\ Len(Front(list)) = Len(list) - 1
         /\ \A q \in 1..(Len(list) - 1) : Front(list)[q] = list[q]
<1>1. Len(list) \in Nat \ {0}
  BY EmptySeq
<1>2. \A q \in 1..Len(list) : list[q] \in S
  BY ElementOfSeq
<1>3. /\ Front(list) \in Seq(S) /\ Len(Front(list)) = Len(list) - 1
      /\ \A q \in 1..(Len(list) - 1) : Front(list)[q] = list[q]
  <2>1. \A q \in 1..(Len(list) - 1) : list[q] \in S
    BY <1>1, <1>2
  <2>2. /\ Front(list) \in Seq(S)
        /\ Len(Front(list)) = IF 1 <= Len(list) - 1 THEN (Len(list) - 1) - 1 + 1 ELSE 0
        /\ \A q \in 1..((Len(list) - 1) - 1 + 1) : Front(list)[q] = list[1 + q - 1]
    BY <1>1, <2>1, SubSeqProperties DEF Front
  <2>3. Len(Front(list)) = Len(list) - 1
    <3>1. PICK m \in Nat \ {0} : m = Len(list)
      BY <1>1
    <3>2. (IF 1 <= m - 1 THEN (m - 1) - 1 + 1 ELSE 0) = m - 1
      OBVIOUS
    <3> QED
      BY <2>2, <3>1, <3>2
  <2>4. ASSUME NEW q \in 1..(Len(list) - 1) PROVE Front(list)[q] = list[q]
    <3>1. q \in 1..((Len(list) - 1) - 1 + 1) /\ 1 + q - 1 = q
      BY <1>1
    <3> QED
      BY <2>2, <3>1
  <2> QED
    BY <2>2, <2>3, <2>4
<1> QED
  BY <1>1, <1>2, <1>3 DEF Last

\* The search changes numbers and marks, nothing else of a node.
LEMMA GraphStays ==
  ASSUME Graph, nodes' \in Seq(NodeType), Len(nodes') = Len(nodes),
         \A k \in Indices : /\ nodes'[k].kind = nodes[k].kind
                            /\ nodes'[k].n0 = nodes[k].n0 /\ nodes'[k].n1 = nodes[k].n1
                            /\ nodes'[k].refs = nodes[k].refs,
         UNCHANGED <<unfinished1, unfinished2>>
  PROVE  Graph'
<1>1. Indices' = Indices
  BY DEF Indices
<1>2. /\ \A k \in Indices : nodes'[k].kind # "var" <=> IsGate(k)
      /\ \A k \in Indices : {nodes'[k].n0, nodes'[k].n1} = Operands(k)
  BY DEF IsGate, Operands
<1>3. \A k \in Indices : HasParent(k) =>
         \E p \in Indices' : nodes'[p].kind # "var" /\ k \in {nodes'[p].n0, nodes'[p].n1}
  BY <1>1, <1>2 DEF HasParent
<1>4. /\ \A k \in Indices' : nodes'[k].kind # "var" =>
            {nodes'[k].n0, nodes'[k].n1} \subseteq 1..(k - 1)
      /\ unfinished2' \subseteq Indices'
  BY <1>1, <1>2 DEF Graph
<1>5. \A k \in Indices' : nodes'[k].kind # "var" =>
         \/ k \in unfinished2'
         \/ \E p \in Indices' : nodes'[p].kind # "var" /\ k \in {nodes'[p].n0, nodes'[p].n1}
  BY <1>1, <1>2, <1>3 DEF Graph
<1>6. \A k \in Indices' : ~(nodes'[k].kind # "var") =>
         /\ k \in unfinished1' \/ nodes'[k].refs >= MinRefs
         /\ nodes'[k].refs > 0 =>
               \E p \in Indices' : nodes'[p].kind # "var" /\ k \in {nodes'[p].n0, nodes'[p].n1}
  BY <1>1, <1>2, <1>3 DEF Graph
<1> QED
  BY <1>4, <1>5, <1>6 DEF Graph, IsGate, Operands, HasParent

\* The operands of a node that comes up again are numbered.
LEMMA ComesUpAgain ==
  ASSUME Reaches, stack # <<>>, nodes[Cur].mark = 1
  PROVE  IsGate(Cur) /\ Operands(Cur) \subseteq Numbered
<1>1. Len(stack) \in Nat \ {0} /\ Cur = stack[Len(stack)]
  BY FrontOf DEF Reaches, Cur
<1>2. Len(stack) \in 1..Len(stack) /\ (Len(stack) + 1)..Len(stack) = {}
  BY <1>1
<1> QED
  BY <1>1, <1>2 DEF Reaches

\* A node that is numbered leaves the stack.
LEMMA Popped ==
  ASSUME Reaches, stack # <<>>, stack' = Front(stack), unfinished2' = unfinished2,
         Len(nodes') = Len(nodes),
         \A k \in Indices : /\ nodes'[k].kind = nodes[k].kind
                            /\ nodes'[k].n0 = nodes[k].n0 /\ nodes'[k].n1 = nodes[k].n1
                            /\ nodes'[k].mark = IF k = Cur THEN 2 ELSE nodes[k].mark,
         IsGate(Cur) => Operands(Cur) \subseteq Numbered
  PROVE  Reaches' /\ Numbered' = Numbered \union {Cur}
<1>0. /\ Len(stack) \in Nat \ {0} /\ Cur = stack[Len(stack)] /\ Cur \in Indices
      /\ stack' \in Seq(Indices) /\ Len(stack') = Len(stack) - 1
      /\ \A q \in 1..(Len(stack) - 1) : stack'[q] = stack[q]
  BY FrontOf DEF Reaches, Cur
<1>1. /\ \A k \in Indices : nodes'[k].kind # "var" <=> IsGate(k)
      /\ \A k \in Indices : {nodes'[k].n0, nodes'[k].n1} = Operands(k)
      /\ Indices' = Indices
  BY DEF IsGate, Operands, Indices
<1>2. Numbered' = Numbered \union {Cur}
  BY <1>0, <1>1 DEF Numbered
<1>3. \E root \in Indices' :
         /\ unfinished2' = {root}
         /\ root \in Numbered' \/ \E q \in 1..Len(stack') : stack'[q] = root
  <2>1. PICK root \in Indices : unfinished2 = {root} /\ (root \in Numbered \/ OnStack(root))
    BY DEF Reaches
  <2>2. CASE root \in Numbered
    BY <1>1, <1>2, <2>1, <2>2
  <2>3. CASE OnStack(root)
    <3>1. PICK q \in 1..Len(stack) : stack[q] = root
      BY <2>3 DEF OnStack
    <3>2. CASE q = Len(stack)
      BY <1>0, <1>1, <1>2, <2>1, <3>1, <3>2
    <3>3. CASE q # Len(stack)
      <4>1. q \in 1..Len(stack') /\ stack'[q] = root
        BY <1>0, <3>1, <3>3
      <4> QED
        BY <1>1, <2>1, <4>1
    <3> QED
      BY <3>2, <3>3
  <2> QED
    BY <2>1, <2>2, <2>3
<1>4. \A k \in Numbered' : nodes'[k].kind # "var" =>
         {nodes'[k].n0, nodes'[k].n1} \subseteq Numbered'
  <2>1. \A k \in Numbered' : k \in Indices
    BY <1>0, <1>2 DEF Numbered
  <2>2. \A k \in Numbered' : IsGate(k) => Operands(k) \subseteq Numbered
    BY <1>2 DEF Reaches
  <2> QED
    BY <1>1, <1>2, <2>1, <2>2
<1>5. \A q \in 1..Len(stack') : nodes'[stack'[q]].mark = 1 =>
         /\ nodes'[stack'[q]].kind # "var"
         /\ \A k \in {nodes'[stack'[q]].n0, nodes'[stack'[q]].n1} :
               k \in Numbered' \/ \E r \in (q + 1)..Len(stack') : stack'[r] = k
  <2> SUFFICES ASSUME NEW q \in 1..Len(stack'), nodes'[stack'[q]].mark = 1
               PROVE  /\ nodes'[stack'[q]].kind # "var"
                      /\ \A k \in {nodes'[stack'[q]].n0, nodes'[stack'[q]].n1} :
                            k \in Numbered' \/ \E r \in (q + 1)..Len(stack') : stack'[r] = k
    OBVIOUS
  <2>1. q \in 1..Len(stack) /\ stack'[q] = stack[q]
    BY <1>0
  <2>2. stack[q] \in Indices
    BY <2>1, ElementOfSeq DEF Reaches
  <2>3. nodes[stack[q]].mark = 1
    BY <2>1, <2>2
  <2>4. /\ IsGate(stack[q])
        /\ \A k \in Operands(stack[q]) :
              k \in Numbered \/ \E r \in (q + 1)..Len(stack) : stack[r] = k
    BY <2>1, <2>3 DEF Reaches
  <2>5. ASSUME NEW k \in Operands(stack[q])
        PROVE  k \in Numbered' \/ \E r \in (q + 1)..Len(stack') : stack'[r] = k
    <3>1. CASE k \in Numbered
      BY <1>2, <3>1
    <3>2. ASSUME NEW r \in (q + 1)..Len(stack), stack[r] = k
          PROVE  k \in Numbered' \/ \E l \in (q + 1)..Len(stack') : stack'[l] = k
      <4>1. CASE r = Len(stack)
        BY <1>0, <1>2, <3>2, <4>1
      <4>2. CASE r # Len(stack)
        <5>1. r \in (q + 1)..Len(stack') /\ stack'[r] = stack[r]
          <6>0. Len(stack) \in Nat
            BY <1>0
          <6>1. r \in (q + 1)..(Len(stack) - 1) /\ r \in 1..(Len(stack) - 1)
            BY <2>1, <4>2, <6>0
          <6> QED
            BY <1>0, <6>1
        <5> QED
          BY <3>2, <5>1
      <4> QED
        BY <4>1, <4>2
    <3> QED
      BY <2>4, <3>1, <3>2
  <2> QED
    BY <1>1, <2>1, <2>2, <2>4, <2>5
<1>6. \A k \in Indices' : nodes'[k].mark = 1 =>
         \E q \in 1..Len(stack') :
            stack'[q] = k /\ \A r \in (q + 1)..Len(stack') : stack'[r] < k
  <2> SUFFICES ASSUME NEW k \in Indices, nodes'[k].mark = 1
               PROVE  \E q \in 1..Len(stack') :
                         stack'[q] = k /\ \A r \in (q + 1)..Len(stack') : stack'[r] < k
    BY <1>1
  <2>1. k # Cur /\ nodes[k].mark = 1
    OBVIOUS
  <2>2. PICK q \in 1..Len(stack) : stack[q] = k /\ \A r \in (q + 1)..Len(stack) : stack[r] < k
    BY <2>1 DEF Reaches, Entered
  <2>3. q \in 1..(Len(stack) - 1)
    BY <1>0, <2>1, <2>2
  <2>4. ASSUME NEW r \in (q + 1)..Len(stack') PROVE stack'[r] < k
    <3>1. r \in (q + 1)..Len(stack) /\ r \in 1..(Len(stack) - 1)
      BY <1>0, <2>3
    <3> QED
      BY <1>0, <2>2, <3>1
  <2>5. q \in 1..Len(stack') /\ stack'[q] = k
    BY <1>0, <2>2, <2>3
  <2> QED
    BY <2>4, <2>5
<1> QED
  BY <1>0, <1>1, <1>2, <1>3, <1>4, <1>5, <1>6 DEF Reaches, Entered, OnStack, IsGate, Operands

\* The next number is given to a node whose operands have theirs.
LEMMA NumberGiven ==
  ASSUME Reaches, Numbers, NEW x \in Indices, x \notin Numbered,
         Numbered' = Numbered \union {x},
         \A k \in Indices : /\ nodes'[k].kind = nodes[k].kind
                            /\ nodes'[k].n0 = nodes[k].n0 /\ nodes'[k].n1 = nodes[k].n1
                            /\ nodes'[k].cnf_id = IF k = x THEN cnf_id ELSE nodes[k].cnf_id,
         cnf_id' = cnf_id + 1, IsGate(x) => Operands(x) \subseteq Numbered
  PROVE  Numbers'
<1>0. cnf_id \in Nat \ {0} /\ Numbered \subseteq Indices
  BY DEF Numbers, Numbered
<1>1. IsFiniteSet(Numbered') /\ Cardinality(Numbered') = cnf_id' - 1
  <2>1. /\ IsFiniteSet(Numbered \union {x})
        /\ Cardinality(Numbered \union {x}) = Cardinality(Numbered) + 1
    BY FS_AddElement DEF Numbers
  <2>2. Cardinality(Numbered) = cnf_id - 1
    BY DEF Numbers
  <2> QED
    BY <1>0, <2>1, <2>2
<1>2. \A k \in Numbered : nodes'[k].cnf_id = nodes[k].cnf_id /\ nodes[k].cnf_id \in 1..(cnf_id - 1)
  BY <1>0 DEF Numbers
<1>3. {nodes'[k].cnf_id : k \in Numbered'} = 1..(cnf_id' - 1)
  <2>1. {nodes'[k].cnf_id : k \in Numbered} = 1..(cnf_id - 1)
    BY <1>2 DEF Numbers
  <2>2. nodes'[x].cnf_id = cnf_id
    OBVIOUS
  <2>3. {nodes'[k].cnf_id : k \in Numbered'} = 1..(cnf_id - 1) \union {cnf_id}
    BY <2>1, <2>2
  <2>4. 1..(cnf_id - 1) \union {cnf_id} = 1..cnf_id
    BY <1>0
  <2> QED
    BY <1>0, <2>3, <2>4
<1>4. \A k \in Numbered' : nodes'[k].kind # "var" =>
         \A j \in {nodes'[k].n0, nodes'[k].n1} : nodes'[j].cnf_id < nodes'[k].cnf_id
  <2> SUFFICES ASSUME NEW k \in Numbered', nodes'[k].kind # "var",
                      NEW j \in {nodes'[k].n0, nodes'[k].n1}
               PROVE  nodes'[j].cnf_id < nodes'[k].cnf_id
    OBVIOUS
  <2>1. k \in Indices /\ IsGate(k) /\ j \in Operands(k)
    BY <1>0 DEF IsGate, Operands
  <2>2. CASE k = x
    <3>1. j \in Numbered
      BY <2>1, <2>2
    <3> QED
      BY <1>0, <1>2, <2>2, <3>1
  <2>3. CASE k \in Numbered
    <3>1. j \in Numbered
      BY <2>1, <2>3 DEF Reaches
    <3>2. nodes[j].cnf_id < nodes[k].cnf_id
      BY <2>1, <2>3 DEF Numbers
    <3> QED
      BY <1>2, <2>3, <3>1, <3>2
  <2> QED
    BY <2>2, <2>3
<1> QED
  BY <1>0, <1>1, <1>3, <1>4 DEF Numbers, IsGate, Operands

-----------------------------------------------------------------------------
(***************************************************************************)
(* The clauses of a node.                                                  *)
(***************************************************************************)

\* Is the literal true?
Holds(assignment, x) == assignment[AbsVal(x)] = (x > 0)

LiteralsTo(n) == {x \in Int : x # 0 /\ AbsVal(x) \in 1..n}

LEMMA Opposite ==
  ASSUME NEW n \in Nat, NEW x \in LiteralsTo(n)
  PROVE  -x \in LiteralsTo(n) /\ AbsVal(-x) = AbsVal(x) /\ -(-x) = x
BY DEF LiteralsTo, AbsVal

LEMMA OppositeHolds ==
  ASSUME NEW n \in Nat, NEW x \in LiteralsTo(n), NEW assignment \in [1..n -> BOOLEAN]
  PROVE  Holds(assignment, -x) <=> ~Holds(assignment, x)
<1>1. AbsVal(-x) = AbsVal(x) /\ assignment[AbsVal(x)] \in BOOLEAN
  BY Opposite DEF LiteralsTo
<1>2. (-x > 0) <=> ~(x > 0)
  BY DEF LiteralsTo
<1>3. CASE x > 0
  BY <1>1, <1>2, <1>3 DEF Holds
<1>4. CASE ~(x > 0)
  BY <1>1, <1>2, <1>4 DEF Holds
<1> QED
  BY <1>3, <1>4

LEMMA ElementsOfConcat ==
  ASSUME NEW S, NEW left \in Seq(S), NEW right \in Seq(S)
  PROVE  left \o right \in Seq(S) /\ ToSet(left \o right) = ToSet(left) \union ToSet(right)
<1>1. /\ left \o right \in Seq(S) /\ Len(left \o right) = Len(left) + Len(right)
      /\ \A k \in 1..(Len(left) + Len(right)) :
            (left \o right)[k] = IF k <= Len(left) THEN left[k] ELSE right[k - Len(left)]
  BY ConcatProperties
<1>2. /\ Len(left) \in Nat /\ DOMAIN left = 1..Len(left)
      /\ Len(right) \in Nat /\ DOMAIN right = 1..Len(right)
      /\ DOMAIN (left \o right) = 1..(Len(left) + Len(right))
  BY <1>1, LenProperties
<1>3. ASSUME NEW x \in ToSet(left \o right) PROVE x \in ToSet(left) \union ToSet(right)
  <2>1. PICK k \in 1..(Len(left) + Len(right)) : x = (left \o right)[k]
    BY <1>2 DEF ToSet
  <2>2. CASE k <= Len(left)
    <3>1. k \in 1..Len(left) /\ x = left[k]
      BY <1>1, <1>2, <2>1, <2>2
    <3> QED
      BY <1>2, <3>1 DEF ToSet
  <2>3. CASE ~(k <= Len(left))
    <3>1. k - Len(left) \in 1..Len(right) /\ x = right[k - Len(left)]
      BY <1>1, <1>2, <2>1, <2>3
    <3> QED
      BY <1>2, <3>1 DEF ToSet
  <2> QED
    BY <2>2, <2>3
<1>4. ASSUME NEW x \in ToSet(left) PROVE x \in ToSet(left \o right)
  <2>1. PICK k \in 1..Len(left) : x = left[k]
    BY <1>2 DEF ToSet
  <2>2. k \in 1..(Len(left) + Len(right)) /\ k <= Len(left)
    BY <1>2
  <2>3. x = (left \o right)[k]
    BY <1>1, <2>1, <2>2
  <2> QED
    BY <1>2, <2>2, <2>3 DEF ToSet
<1>5. ASSUME NEW x \in ToSet(right) PROVE x \in ToSet(left \o right)
  <2>1. PICK k \in 1..Len(right) : x = right[k]
    BY <1>2 DEF ToSet
  <2>2. /\ Len(left) + k \in 1..(Len(left) + Len(right)) /\ ~(Len(left) + k <= Len(left))
        /\ Len(left) + k - Len(left) = k
    BY <1>2
  <2>3. x = (left \o right)[Len(left) + k]
    BY <1>1, <2>1, <2>2
  <2> QED
    BY <1>2, <2>2, <2>3 DEF ToSet
<1> QED
  BY <1>1, <1>3, <1>4, <1>5

LEMMA FewElements ==
  /\ ToSet(<<>>) = {}
  /\ \A x : ToSet(<<x>>) = {x}
BY DEF ToSet

EachOnce(list) ==
    Once(list, 1) \o Once(list, 2) \o (IF Len(list) = 3 THEN Once(list, 3) ELSE <<>>)

\* Leaving out what was printed does not change which literals a clause has.
LEMMA OnceElements ==
  ASSUME NEW list, Len(list) \in {2, 3}, \A j \in 1..Len(list) : list[j] \in Int
  PROVE  EachOnce(list) \in Seq(Int) /\ ToSet(EachOnce(list)) = {list[j] : j \in 1..Len(list)}
<1> DEFINE third == IF Len(list) = 3 THEN Once(list, 3) ELSE <<>>
<1>1. \A j \in 1..Len(list) : Once(list, j) \in Seq(Int) /\ ToSet(Once(list, j)) \subseteq {list[j]}
  BY FewElements DEF Once
<1>2. ToSet(Once(list, 1)) = {list[1]}
  <2>1. Once(list, 1) = <<list[1]>>
    BY DEF Once
  <2> QED
    BY <2>1, FewElements
<1>3. list[2] \in {list[1]} \union ToSet(Once(list, 2))
  <2>1. Once(list, 2) = <<list[2]>> \/ list[2] = list[1]
    BY DEF Once
  <2> QED
    BY <2>1, FewElements
<1>4. third \in Seq(Int) /\ ToSet(third) \subseteq {list[j] : j \in 1..Len(list)}
  <2>1. CASE Len(list) = 3
    BY <1>1, <2>1
  <2>2. CASE Len(list) = 2
    BY <2>2, FewElements
  <2> QED
    BY <2>1, <2>2
<1>5. Len(list) = 3 => list[3] \in {list[1], list[2]} \union ToSet(third)
  <2> HAVE Len(list) = 3
  <2>1. Once(list, 3) = <<list[3]>> \/ list[3] \in {list[1], list[2]}
    BY DEF Once
  <2> QED
    BY <2>1, FewElements
<1> DEFINE both == Once(list, 1) \o Once(list, 2)
<1> HIDE DEF third
<1>6. both \in Seq(Int) /\ ToSet(both) = ToSet(Once(list, 1)) \union ToSet(Once(list, 2))
  <2>1. 1 \in 1..Len(list) /\ 2 \in 1..Len(list)
    <3>1. 1 \in 1..2 /\ 2 \in 1..2 /\ 1 \in 1..3 /\ 2 \in 1..3
      OBVIOUS
    <3> QED
      BY <3>1
  <2>2. Once(list, 1) \in Seq(Int) /\ Once(list, 2) \in Seq(Int)
    BY <1>1, <2>1
  <2> QED
    BY <2>2, ElementsOfConcat
<1> HIDE DEF both
<1>7. both \o third \in Seq(Int) /\ ToSet(both \o third) = ToSet(both) \union ToSet(third)
  BY <1>4, <1>6, ElementsOfConcat
<1>8. ToSet(Once(list, 2)) \subseteq {list[2]}
  BY <1>1
<1>9. {list[j] : j \in 1..Len(list)} = ToSet(Once(list, 1)) \union ToSet(Once(list, 2)) \union ToSet(third)
  <2>1. CASE Len(list) = 2
    <3>1. {list[j] : j \in 1..Len(list)} = {list[1], list[2]}
      BY <2>1
    <3> QED
      BY <1>2, <1>3, <1>4, <1>8, <3>1
  <2>2. CASE Len(list) = 3
    <3>1. {list[j] : j \in 1..Len(list)} = {list[1], list[2], list[3]}
      BY <2>2
    <3> QED
      BY <1>2, <1>3, <1>4, <1>5, <1>8, <2>2, <3>1
  <2> QED
    BY <2>1, <2>2
<1>10. EachOnce(list) = both \o third
  BY DEF EachOnce, both, third
<1> QED
  BY <1>6, <1>7, <1>9, <1>10

\* What is printed of a clause says what the clause says.
LEMMA PrintClauseMeans ==
  ASSUME NEW n \in Nat, NEW assignment \in [1..n -> BOOLEAN],
         NEW list, Len(list) \in {2, 3}, \A j \in 1..Len(list) : list[j] \in LiteralsTo(n)
  PROVE  /\ PrintClause(list) \in Seq(Seq(Int))
         /\ (\A c \in ToSet(PrintClause(list)) : Satisfies(assignment, c))
               <=> \E j \in 1..Len(list) : Holds(assignment, list[j])
<1>1. CASE ~Taut /\ Tautology(list)
  <2>1. PrintClause(list) = <<>>
    BY <1>1 DEF PrintClause
  <2>2. PICK j \in 1..Len(list), k \in 1..Len(list) : list[j] = -list[k]
    BY <1>1 DEF Tautology
  <2>3. Holds(assignment, list[j]) <=> ~Holds(assignment, list[k])
    BY <2>2, OppositeHolds
  <2>4. PrintClause(list) \in Seq(Seq(Int)) /\ ToSet(PrintClause(list)) = {}
    BY <2>1, FewElements
  <2> QED
    BY <2>3, <2>4
<1>2. CASE ~(~Taut /\ Tautology(list))
  <2> DEFINE line == EachOnce(list)
  <2>1. PrintClause(list) = <<line>>
    BY <1>2 DEF PrintClause, EachOnce
  <2>2. \A j \in 1..Len(list) : list[j] \in Int
    BY DEF LiteralsTo
  <2>3. line \in Seq(Int) /\ ToSet(line) = {list[j] : j \in 1..Len(list)}
    BY <2>2, OnceElements
  <2> HIDE DEF line
  <2>4. PrintClause(list) \in Seq(Seq(Int)) /\ ToSet(PrintClause(list)) = {line}
    BY <2>1, <2>3, FewElements
  <2>5. Satisfies(assignment, line) <=> \E j \in 1..Len(list) : Holds(assignment, list[j])
    BY <2>3 DEF Satisfies, Holds
  <2> QED
    BY <2>4, <2>5
<1> QED
  BY <1>1, <1>2

\* A clause of two or three literals, over the first n variables.
SmallClause(n, list) == Len(list) \in {2, 3} /\ \A j \in 1..Len(list) : list[j] \in LiteralsTo(n)

SomeHolds(assignment, list) == \E j \in 1..Len(list) : Holds(assignment, list[j])

LEMMA PrintedMeans ==
  ASSUME NEW n \in Nat, NEW assignment \in [1..n -> BOOLEAN],
         NEW clauses, Len(clauses) \in {3, 4},
         \A k \in 1..Len(clauses) : SmallClause(n, clauses[k])
  PROVE  /\ Printed(clauses) \in Seq(Seq(Int))
         /\ (\A c \in ToSet(Printed(clauses)) : Satisfies(assignment, c))
               <=> \A k \in 1..Len(clauses) : SomeHolds(assignment, clauses[k])
<1> DEFINE true(k) == SomeHolds(assignment, clauses[k])
           says(lines, fact) == /\ lines \in Seq(Seq(Int))
                                /\ (\A c \in ToSet(lines) : Satisfies(assignment, c)) <=> fact
           last == IF Len(clauses) = 4 THEN PrintClause(clauses[4]) ELSE <<>>
<1>1. \A k \in 1..Len(clauses) : says(PrintClause(clauses[k]), true(k))
  <2> SUFFICES ASSUME NEW k \in 1..Len(clauses) PROVE says(PrintClause(clauses[k]), true(k))
    OBVIOUS
  <2> DEFINE list == clauses[k]
  <2>1. Len(list) \in {2, 3} /\ \A j \in 1..Len(list) : list[j] \in LiteralsTo(n)
    BY DEF SmallClause
  <2> HIDE DEF list
  <2>2. /\ PrintClause(list) \in Seq(Seq(Int))
        /\ (\A c \in ToSet(PrintClause(list)) : Satisfies(assignment, c))
              <=> \E j \in 1..Len(list) : Holds(assignment, list[j])
    BY <2>1, PrintClauseMeans
  <2> QED
    BY <2>2 DEF SomeHolds, list
<1>2. 1 \in 1..Len(clauses) /\ 2 \in 1..Len(clauses) /\ 3 \in 1..Len(clauses)
  <2>1. 1 \in 1..3 /\ 2 \in 1..3 /\ 3 \in 1..3 /\ 1 \in 1..4 /\ 2 \in 1..4 /\ 3 \in 1..4
    OBVIOUS
  <2> QED
    BY <2>1
<1>3. says(last, Len(clauses) = 4 => true(4))
  <2>1. CASE Len(clauses) = 4
    <3>1. 4 \in 1..Len(clauses)
      BY <2>1
    <3>2. says(PrintClause(clauses[4]), true(4))
      BY <1>1, <3>1
    <3> QED
      BY <2>1, <3>2
  <2>2. CASE Len(clauses) = 3
    <3>1. last = <<>>
      BY <2>2
    <3> QED
      BY <2>2, <3>1, FewElements
  <2> QED
    BY <2>1, <2>2
<1> HIDE DEF last, true
<1>4. ASSUME NEW left, NEW right, NEW first, NEW second, says(left, first), says(right, second)
      PROVE  says(left \o right, first /\ second)
  BY <1>4, ElementsOfConcat
<1>5. /\ says(PrintClause(clauses[1]), true(1)) /\ says(PrintClause(clauses[2]), true(2))
      /\ says(PrintClause(clauses[3]), true(3))
  BY <1>1, <1>2
<1> HIDE DEF says
<1>6. says(PrintClause(clauses[1]) \o PrintClause(clauses[2]), true(1) /\ true(2))
  BY <1>4, <1>5
<1>7. says(PrintClause(clauses[1]) \o PrintClause(clauses[2]) \o PrintClause(clauses[3]),
           (true(1) /\ true(2)) /\ true(3))
  <2> DEFINE left == PrintClause(clauses[1]) \o PrintClause(clauses[2])
             first == true(1) /\ true(2)
  <2>1. says(left, first)
    BY <1>6
  <2> HIDE DEF left, first
  <2>2. says(left \o PrintClause(clauses[3]), first /\ true(3))
    BY <1>4, <1>5, <2>1
  <2> QED
    BY <2>2 DEF left, first
<1>8. says(Printed(clauses),
           ((true(1) /\ true(2)) /\ true(3)) /\ (Len(clauses) = 4 => true(4)))
  BY <1>3, <1>4, <1>7 DEF Printed, last
<1>9. (((true(1) /\ true(2)) /\ true(3)) /\ (Len(clauses) = 4 => true(4)))
         <=> \A k \in 1..Len(clauses) : true(k)
  <2>1. CASE Len(clauses) = 3
    <3>1. \A k \in 1..Len(clauses) : k \in {1, 2, 3}
      BY <2>1
    <3> QED
      BY <1>2, <2>1, <3>1
  <2>2. CASE Len(clauses) = 4
    <3>1. (\A k \in 1..Len(clauses) : k \in {1, 2, 3, 4}) /\ 4 \in 1..Len(clauses)
      BY <2>2
    <3> QED
      BY <1>2, <2>2, <3>1
  <2> QED
    BY <2>1, <2>2
<1> QED
  BY <1>8, <1>9 DEF says, true

LEMMA TwoLiterals ==
  ASSUME NEW assignment, NEW x, NEW y
  PROVE  /\ Len(<<x, y>>) = 2
         /\ (\E j \in 1..Len(<<x, y>>) : Holds(assignment, <<x, y>>[j]))
               <=> Holds(assignment, x) \/ Holds(assignment, y)
<1>1. 1..2 = {1, 2}
  OBVIOUS
<1> QED
  BY <1>1

LEMMA ThreeLiterals ==
  ASSUME NEW assignment, NEW x, NEW y, NEW z
  PROVE  /\ Len(<<x, y, z>>) = 3
         /\ (\E j \in 1..Len(<<x, y, z>>) : Holds(assignment, <<x, y, z>>[j]))
               <=> Holds(assignment, x) \/ Holds(assignment, y) \/ Holds(assignment, z)
<1>1. 1..3 = {1, 2, 3}
  OBVIOUS
<1> QED
  BY <1>1

\* The clauses of a gate are true exactly if its variable has the gate's value, also if
\* the operands are the same or opposite.
LEMMA DefinitionMeans ==
  ASSUME NEW n \in Nat, NEW assignment \in [1..n -> BOOLEAN], NEW kind \in Ops,
         NEW x \in LiteralsTo(n), NEW y \in LiteralsTo(n), NEW z \in LiteralsTo(n)
  PROVE  /\ Printed(Definition(kind, x, y, z)) \in Seq(Seq(Int))
         /\ (\A c \in ToSet(Printed(Definition(kind, x, y, z))) : Satisfies(assignment, c))
               <=> (Holds(assignment, x)
                      <=> Gate(kind, Holds(assignment, y), Holds(assignment, z)))
<1> DEFINE clauses == Definition(kind, x, y, z)
<1>1. /\ -x \in LiteralsTo(n) /\ -y \in LiteralsTo(n) /\ -z \in LiteralsTo(n)
      /\ Holds(assignment, -x) <=> ~Holds(assignment, x)
      /\ Holds(assignment, -y) <=> ~Holds(assignment, y)
      /\ Holds(assignment, -z) <=> ~Holds(assignment, z)
  BY Opposite, OppositeHolds
<1>2. \A u, v \in LiteralsTo(n) : SmallClause(n, <<u, v>>)
  <2>1. 1..2 = {1, 2}
    OBVIOUS
  <2> QED
    BY <2>1 DEF SmallClause
<1>3. \A u, v, w \in LiteralsTo(n) : SmallClause(n, <<u, v, w>>)
  <2>1. 1..3 = {1, 2, 3}
    OBVIOUS
  <2> QED
    BY <2>1 DEF SmallClause
<1>4. 1..3 = {1, 2, 3} /\ 1..4 = {1, 2, 3, 4}
  OBVIOUS
<1> DEFINE true(list) == SomeHolds(assignment, list)
<1>5. CASE kind = "and"
  <2> DEFINE c1 == <<-x, y>>  c2 == <<-x, z>>  c3 == <<-y, -z, x>>
  <2>1. clauses = <<c1, c2, c3>>
    BY <1>5 DEF Definition
  <2>2. SmallClause(n, c1) /\ SmallClause(n, c2) /\ SmallClause(n, c3)
    BY <1>1, <1>2, <1>3
  <2>3. /\ true(c1) <=> Holds(assignment, -x) \/ Holds(assignment, y)
        /\ true(c2) <=> Holds(assignment, -x) \/ Holds(assignment, z)
        /\ true(c3) <=> Holds(assignment, -y) \/ Holds(assignment, -z) \/ Holds(assignment, x)
    BY TwoLiterals, ThreeLiterals DEF SomeHolds
  <2> HIDE DEF c1, c2, c3, clauses
  <2>4. Len(clauses) \in {3, 4} /\ \A k \in 1..Len(clauses) : SmallClause(n, clauses[k])
    BY <1>4, <2>1, <2>2
  <2>5. (\A k \in 1..Len(clauses) : true(clauses[k])) <=> true(c1) /\ true(c2) /\ true(c3)
    BY <1>4, <2>1
  <2>6. /\ Printed(clauses) \in Seq(Seq(Int))
        /\ (\A c \in ToSet(Printed(clauses)) : Satisfies(assignment, c))
              <=> \A k \in 1..Len(clauses) : true(clauses[k])
    BY <2>4, PrintedMeans
  <2>7. Gate(kind, Holds(assignment, y), Holds(assignment, z))
           <=> Holds(assignment, y) /\ Holds(assignment, z)
    BY <1>5 DEF Gate
  <2> QED
    BY <1>1, <2>3, <2>5, <2>6, <2>7 DEF clauses
<1>6. CASE kind = "or"
  <2> DEFINE c1 == <<x, -y>>  c2 == <<x, -z>>  c3 == <<y, z, -x>>
  <2>1. clauses = <<c1, c2, c3>>
    BY <1>6 DEF Definition
  <2>2. SmallClause(n, c1) /\ SmallClause(n, c2) /\ SmallClause(n, c3)
    BY <1>1, <1>2, <1>3
  <2>3. /\ true(c1) <=> Holds(assignment, x) \/ Holds(assignment, -y)
        /\ true(c2) <=> Holds(assignment, x) \/ Holds(assignment, -z)
        /\ true(c3) <=> Holds(assignment, y) \/ Holds(assignment, z) \/ Holds(assignment, -x)
    BY TwoLiterals, ThreeLiterals DEF SomeHolds
  <2> HIDE DEF c1, c2, c3, clauses
  <2>4. Len(clauses) \in {3, 4} /\ \A k \in 1..Len(clauses) : SmallClause(n, clauses[k])
    BY <1>4, <2>1, <2>2
  <2>5. (\A k \in 1..Len(clauses) : true(clauses[k])) <=> true(c1) /\ true(c2) /\ true(c3)
    BY <1>4, <2>1
  <2>6. /\ Printed(clauses) \in Seq(Seq(Int))
        /\ (\A c \in ToSet(Printed(clauses)) : Satisfies(assignment, c))
              <=> \A k \in 1..Len(clauses) : true(clauses[k])
    BY <2>4, PrintedMeans
  <2>7. Gate(kind, Holds(assignment, y), Holds(assignment, z))
           <=> Holds(assignment, y) \/ Holds(assignment, z)
    BY <1>6 DEF Gate
  <2> QED
    BY <1>1, <2>3, <2>5, <2>6, <2>7 DEF clauses
<1>7. CASE kind = "iff"
  <2> DEFINE c1 == <<-y, z, -x>>  c2 == <<y, -z, -x>>  c3 == <<-y, -z, x>>  c4 == <<y, z, x>>
  <2>1. clauses = <<c1, c2, c3, c4>>
    BY <1>7 DEF Definition
  <2>2. SmallClause(n, c1) /\ SmallClause(n, c2) /\ SmallClause(n, c3) /\ SmallClause(n, c4)
    BY <1>1, <1>3
  <2>3. /\ true(c1) <=> Holds(assignment, -y) \/ Holds(assignment, z) \/ Holds(assignment, -x)
        /\ true(c2) <=> Holds(assignment, y) \/ Holds(assignment, -z) \/ Holds(assignment, -x)
        /\ true(c3) <=> Holds(assignment, -y) \/ Holds(assignment, -z) \/ Holds(assignment, x)
        /\ true(c4) <=> Holds(assignment, y) \/ Holds(assignment, z) \/ Holds(assignment, x)
    BY ThreeLiterals DEF SomeHolds
  <2> HIDE DEF c1, c2, c3, c4, clauses
  <2>4. Len(clauses) \in {3, 4} /\ \A k \in 1..Len(clauses) : SmallClause(n, clauses[k])
    BY <1>4, <2>1, <2>2
  <2>5. (\A k \in 1..Len(clauses) : true(clauses[k]))
           <=> true(c1) /\ true(c2) /\ true(c3) /\ true(c4)
    BY <1>4, <2>1
  <2>6. /\ Printed(clauses) \in Seq(Seq(Int))
        /\ (\A c \in ToSet(Printed(clauses)) : Satisfies(assignment, c))
              <=> \A k \in 1..Len(clauses) : true(clauses[k])
    BY <2>4, PrintedMeans
  <2>7. Gate(kind, Holds(assignment, y), Holds(assignment, z))
           <=> (Holds(assignment, y) <=> Holds(assignment, z))
    BY <1>7 DEF Gate
  <2> QED
    BY <1>1, <2>3, <2>5, <2>6, <2>7 DEF clauses
<1> QED
  BY <1>5, <1>6, <1>7 DEF Ops

-----------------------------------------------------------------------------
(***************************************************************************)
(* The steps of the search.                                                *)
(***************************************************************************)

LEMMA SkipNumberedInv ==
  ASSUME IndInv, SkipNumbered, pc' = pc
  PROVE  IndInv'
<1>1. /\ gen = "tseitin" /\ stack # <<>> /\ nodes[Cur].mark = 2 /\ stack' = Front(stack)
      /\ UNCHANGED <<gen, nodes, unfinished1, unfinished2, cnf_id, cnf>>
      /\ unfinished1 = {} /\ Graph /\ Reaches /\ Numbers /\ Meaning /\ pc # "draw"
  BY DEF SkipNumbered, IndInv
<1>2. Cur \in Numbered
  BY <1>1, FrontOf DEF Numbered, Reaches, Cur
<1>3. \A k \in Indices : nodes'[k].mark = IF k = Cur THEN 2 ELSE nodes[k].mark
  BY <1>1
<1>4. IsGate(Cur) => Operands(Cur) \subseteq Numbered
  BY <1>1, <1>2 DEF Reaches
<1>5. Reaches'
  BY <1>1, <1>3, <1>4, Popped
<1>6. Indices' = Indices /\ Numbered' = Numbered
  BY <1>1 DEF Indices, Numbered
<1>7. Graph'
  BY <1>1, <1>6 DEF Graph, HasParent, IsGate, Operands
<1>8. Numbers'
  BY <1>1, <1>6 DEF Numbers, IsGate, Operands
<1>9. Meaning'
  BY <1>1, <1>6 DEF Meaning, IsGate, GateHolds
<1> QED
  BY <1>1, <1>5, <1>7, <1>8, <1>9 DEF IndInv

\* The gates that are numbered keep their operands' numbers.
LEMMA GateStays ==
  ASSUME Reaches, NEW k \in Numbered, IsGate(k), NEW assignment,
         nodes'[k].kind = nodes[k].kind,
         nodes'[k].n0 = nodes[k].n0, nodes'[k].neg_n0 = nodes[k].neg_n0,
         nodes'[k].n1 = nodes[k].n1, nodes'[k].neg_n1 = nodes[k].neg_n1,
         \A j \in Numbered : nodes'[j].cnf_id = nodes[j].cnf_id
  PROVE  GateHolds(assignment, k)' <=> GateHolds(assignment, k)
<1>1. nodes[k].n0 \in Numbered /\ nodes[k].n1 \in Numbered
  BY DEF Reaches, Operands
<1> QED
  BY <1>1 DEF GateHolds

\* What numbering the node on top of the stack does to the nodes.
LEMMA NodeNumbered ==
  ASSUME Graph, Reaches, Numbers, stack # <<>>, nodes[Cur].mark # 2,
         nodes' = [nodes EXCEPT ![Cur].cnf_id = cnf_id, ![Cur].mark = 2]
  PROVE  /\ Cur \in Indices /\ Cur \notin Numbered
         /\ nodes' \in Seq(NodeType) /\ Len(nodes') = Len(nodes)
         /\ \A k \in Indices :
               /\ nodes'[k].kind = nodes[k].kind /\ nodes'[k].refs = nodes[k].refs
               /\ nodes'[k].n0 = nodes[k].n0 /\ nodes'[k].neg_n0 = nodes[k].neg_n0
               /\ nodes'[k].n1 = nodes[k].n1 /\ nodes'[k].neg_n1 = nodes[k].neg_n1
               /\ nodes'[k].mark = (IF k = Cur THEN 2 ELSE nodes[k].mark)
               /\ nodes'[k].cnf_id = (IF k = Cur THEN cnf_id ELSE nodes[k].cnf_id)
<1>1. Cur \in Indices /\ Cur \notin Numbered
  BY FrontOf DEF Reaches, Cur, Numbered
<1> DEFINE node == [nodes[Cur] EXCEPT !.cnf_id = cnf_id, !.mark = 2]
<1>2. \A k \in Indices : nodes[k] \in NodeType
  BY ElementOfSeq DEF Graph, Indices
<1>3. /\ node \in NodeType
      /\ node.kind = nodes[Cur].kind /\ node.refs = nodes[Cur].refs
      /\ node.n0 = nodes[Cur].n0 /\ node.neg_n0 = nodes[Cur].neg_n0
      /\ node.n1 = nodes[Cur].n1 /\ node.neg_n1 = nodes[Cur].neg_n1
      /\ node.mark = 2 /\ node.cnf_id = cnf_id
  <2>1. nodes[Cur] \in NodeType /\ cnf_id \in Nat
    BY <1>1, <1>2 DEF Numbers
  <2> QED
    BY <2>1 DEF NodeType
<1>4. nodes' = [nodes EXCEPT ![Cur] = node]
  <2>1. nodes \in [Indices -> NodeType]
    BY LenProperties DEF Graph, Indices
  <2> QED
    BY <1>1, <2>1
<1> HIDE DEF node
<1>5. /\ nodes' \in Seq(NodeType) /\ Len(nodes') = Len(nodes)
      /\ \A k \in Indices : nodes'[k] = IF k = Cur THEN node ELSE nodes[k]
  BY <1>1, <1>3, <1>4, ExceptSeq DEF Graph, Indices
<1>6. ASSUME NEW k \in Indices
      PROVE  /\ nodes'[k].kind = nodes[k].kind /\ nodes'[k].refs = nodes[k].refs
             /\ nodes'[k].n0 = nodes[k].n0 /\ nodes'[k].neg_n0 = nodes[k].neg_n0
             /\ nodes'[k].n1 = nodes[k].n1 /\ nodes'[k].neg_n1 = nodes[k].neg_n1
             /\ nodes'[k].mark = (IF k = Cur THEN 2 ELSE nodes[k].mark)
             /\ nodes'[k].cnf_id = (IF k = Cur THEN cnf_id ELSE nodes[k].cnf_id)
  <2>1. CASE k = Cur
    <3>1. nodes'[k] = node
      BY <1>5, <2>1
    <3> QED
      BY <1>3, <2>1, <3>1
  <2>2. CASE k # Cur
    <3>1. nodes'[k] = nodes[k]
      BY <1>5, <2>2
    <3> QED
      BY <2>2, <3>1
  <2> QED
    BY <2>1, <2>2
<1> QED
  BY <1>1, <1>5, <1>6

\* The node that is numbered has its value if its clauses are true, the others keep
\* theirs.
LEMMA MeaningGrows ==
  ASSUME Reaches, Meaning, NEW x \in Indices, x \notin Numbered,
         Numbered' = Numbered \union {x}, Indices' = Indices,
         \A k \in Indices :
            /\ nodes'[k].kind = nodes[k].kind
            /\ nodes'[k].n0 = nodes[k].n0 /\ nodes'[k].neg_n0 = nodes[k].neg_n0
            /\ nodes'[k].n1 = nodes[k].n1 /\ nodes'[k].neg_n1 = nodes[k].neg_n1
            /\ k # x => nodes'[k].cnf_id = nodes[k].cnf_id,
         NEW added, cnf' \in Seq(Seq(Int)), ToSet(cnf') = ToSet(cnf) \union added,
         \A assignment \in [Indices -> BOOLEAN] :
            (\A c \in added : Satisfies(assignment, c))
              <=> (nodes'[x].kind # "var" => GateHolds(assignment, x)')
  PROVE  Meaning'
<1>1. Numbered \subseteq Indices
  BY DEF Numbered
<1>2. \A k \in Numbered : nodes'[k].kind # "var" <=> IsGate(k)
  BY <1>1 DEF IsGate
<1>3. ASSUME NEW assignment, NEW k \in Numbered, IsGate(k)
      PROVE  GateHolds(assignment, k)' <=> GateHolds(assignment, k)
  <2>1. \A j \in Numbered : nodes'[j].cnf_id = nodes[j].cnf_id
    BY <1>1
  <2>2. /\ nodes'[k].kind = nodes[k].kind
        /\ nodes'[k].n0 = nodes[k].n0 /\ nodes'[k].neg_n0 = nodes[k].neg_n0
        /\ nodes'[k].n1 = nodes[k].n1 /\ nodes'[k].neg_n1 = nodes[k].neg_n1
    BY <1>1
  <2> QED
    BY <1>3, <2>1, <2>2, GateStays
<1>4. ASSUME NEW assignment \in [Indices -> BOOLEAN]
      PROVE  (\A c \in ToSet(cnf') : Satisfies(assignment, c))
               <=> \A k \in Numbered' : nodes'[k].kind # "var" => GateHolds(assignment, k)'
  <2>1. (\A c \in ToSet(cnf) : Satisfies(assignment, c))
           <=> \A k \in Numbered : IsGate(k) => GateHolds(assignment, k)
    BY DEF Meaning
  <2>2. (\A c \in ToSet(cnf) : Satisfies(assignment, c))
           <=> \A k \in Numbered : nodes'[k].kind # "var" => GateHolds(assignment, k)'
    BY <1>2, <1>3, <2>1
  <2>3. (\A c \in ToSet(cnf') : Satisfies(assignment, c))
           <=> /\ \A c \in ToSet(cnf) : Satisfies(assignment, c)
               /\ \A c \in added : Satisfies(assignment, c)
    OBVIOUS
  <2>4. (\A k \in Numbered' : nodes'[k].kind # "var" => GateHolds(assignment, k)')
           <=> /\ \A k \in Numbered : nodes'[k].kind # "var" => GateHolds(assignment, k)'
               /\ nodes'[x].kind # "var" => GateHolds(assignment, x)'
    OBVIOUS
  <2> QED
    BY <2>2, <2>3, <2>4
<1> QED
  BY <1>4 DEF Meaning, IsGate

LEMMA NumberInputInv ==
  ASSUME IndInv, NumberInput, pc' = pc
  PROVE  IndInv'
<1>1. /\ gen = "tseitin" /\ stack # <<>> /\ nodes[Cur].mark # 2 /\ nodes[Cur].kind = "var"
      /\ nodes' = [nodes EXCEPT ![Cur].cnf_id = cnf_id, ![Cur].mark = 2]
      /\ cnf_id' = cnf_id + 1 /\ stack' = Front(stack)
      /\ UNCHANGED <<gen, unfinished1, unfinished2, cnf>>
      /\ unfinished1 = {} /\ Graph /\ Reaches /\ Numbers /\ Meaning /\ pc # "draw"
  BY DEF NumberInput, IndInv
<1>2. /\ Cur \in Indices /\ Cur \notin Numbered
      /\ nodes' \in Seq(NodeType) /\ Len(nodes') = Len(nodes)
      /\ \A k \in Indices :
            /\ nodes'[k].kind = nodes[k].kind /\ nodes'[k].refs = nodes[k].refs
            /\ nodes'[k].n0 = nodes[k].n0 /\ nodes'[k].neg_n0 = nodes[k].neg_n0
            /\ nodes'[k].n1 = nodes[k].n1 /\ nodes'[k].neg_n1 = nodes[k].neg_n1
            /\ nodes'[k].mark = (IF k = Cur THEN 2 ELSE nodes[k].mark)
            /\ nodes'[k].cnf_id = (IF k = Cur THEN cnf_id ELSE nodes[k].cnf_id)
  BY <1>1, NodeNumbered
<1>3. ~IsGate(Cur)
  BY <1>1 DEF IsGate
<1>4. Graph'
  BY <1>1, <1>2, GraphStays
<1>5. Reaches' /\ Numbered' = Numbered \union {Cur}
  BY <1>1, <1>2, <1>3, Popped
<1>6. Numbers'
  BY <1>1, <1>2, <1>3, <1>5, NumberGiven
<1>7. Meaning'
  <2>1. PICK x \in Indices : x = Cur
    BY <1>2
  <2>2. x \notin Numbered /\ Numbered' = Numbered \union {x} /\ Indices' = Indices
    BY <1>2, <1>5, <2>1 DEF Indices
  <2> DEFINE added == {}
  <2>3. cnf' \in Seq(Seq(Int)) /\ ToSet(cnf') = ToSet(cnf) \union added
    BY <1>1 DEF Meaning
  <2>4. nodes'[x].kind = "var"
    BY <1>1, <1>2, <2>1
  <2>5. \A assignment \in [Indices -> BOOLEAN] :
           (\A c \in added : Satisfies(assignment, c))
             <=> (nodes'[x].kind # "var" => GateHolds(assignment, x)')
    BY <2>4
  <2>6. \A k \in Indices :
           /\ nodes'[k].kind = nodes[k].kind
           /\ nodes'[k].n0 = nodes[k].n0 /\ nodes'[k].neg_n0 = nodes[k].neg_n0
           /\ nodes'[k].n1 = nodes[k].n1 /\ nodes'[k].neg_n1 = nodes[k].neg_n1
           /\ k # x => nodes'[k].cnf_id = nodes[k].cnf_id
    BY <1>2, <2>1
  <2>7. Reaches /\ Meaning
    BY <1>1
  <2> HIDE DEF added
  <2> QED
    BY <2>2, <2>3, <2>5, <2>6, <2>7, MeaningGrows
<1> QED
  BY <1>1, <1>4, <1>5, <1>6, <1>7 DEF IndInv

\* A gate is entered: its operands come before it comes up again.
LEMMA DescendInv ==
  ASSUME IndInv, Descend, pc' = pc
  PROVE  IndInv'
<1>1. /\ gen = "tseitin" /\ stack # <<>> /\ nodes[Cur].mark = 0 /\ nodes[Cur].kind # "var"
      /\ nodes' = [nodes EXCEPT ![Cur].mark = 1]
      /\ stack' = stack \o <<nodes[Cur].n1, nodes[Cur].n0>>
      /\ UNCHANGED <<gen, unfinished1, unfinished2, cnf_id, cnf>>
      /\ unfinished1 = {} /\ Graph /\ Reaches /\ Numbers /\ Meaning /\ pc # "draw"
  BY DEF Descend, IndInv
<1>2. /\ Len(stack) \in Nat \ {0} /\ Cur = stack[Len(stack)] /\ Cur \in Indices
      /\ \A q \in 1..Len(stack) : stack[q] \in Indices
  BY <1>1, FrontOf, ElementOfSeq DEF Reaches, Cur
<1>3. PICK x \in Indices : x = Cur
  BY <1>2
<1> DEFINE n0 == nodes[x].n0
           n1 == nodes[x].n1
<1>4. /\ n0 \in Indices /\ n0 < x /\ n1 \in Indices /\ n1 < x
      /\ Len(nodes) \in Nat /\ x \in Nat
  <2>1. Len(nodes) \in Nat /\ x \in 1..Len(nodes)
    BY <1>1, LenProperties DEF Graph, Indices
  <2>2. n0 \in 1..(x - 1) /\ n1 \in 1..(x - 1)
    BY <1>1, <1>3 DEF Graph, IsGate, Operands
  <2> QED
    BY <2>1, <2>2 DEF Indices
<1>5. /\ nodes' \in Seq(NodeType) /\ Len(nodes') = Len(nodes)
      /\ \A k \in Indices :
            /\ nodes'[k].kind = nodes[k].kind /\ nodes'[k].refs = nodes[k].refs
            /\ nodes'[k].n0 = nodes[k].n0 /\ nodes'[k].neg_n0 = nodes[k].neg_n0
            /\ nodes'[k].n1 = nodes[k].n1 /\ nodes'[k].neg_n1 = nodes[k].neg_n1
            /\ nodes'[k].mark = (IF k = x THEN 1 ELSE nodes[k].mark)
            /\ nodes'[k].cnf_id = nodes[k].cnf_id
  <2> DEFINE node == [nodes[x] EXCEPT !.mark = 1]
  <2>1. \A k \in Indices : nodes[k] \in NodeType
    BY <1>1, ElementOfSeq DEF Graph, Indices
  <2>2. /\ node \in NodeType
        /\ node.kind = nodes[x].kind /\ node.refs = nodes[x].refs
        /\ node.n0 = nodes[x].n0 /\ node.neg_n0 = nodes[x].neg_n0
        /\ node.n1 = nodes[x].n1 /\ node.neg_n1 = nodes[x].neg_n1
        /\ node.mark = 1 /\ node.cnf_id = nodes[x].cnf_id
    <3>1. nodes[x] \in NodeType
      BY <2>1
    <3> QED
      BY <3>1 DEF NodeType
  <2>3. nodes' = [nodes EXCEPT ![x] = node]
    <3>1. nodes \in [Indices -> NodeType]
      BY <1>1, LenProperties DEF Graph, Indices
    <3> QED
      BY <1>1, <1>3, <3>1
  <2> HIDE DEF node
  <2>4. /\ nodes' \in Seq(NodeType) /\ Len(nodes') = Len(nodes)
        /\ \A k \in Indices : nodes'[k] = IF k = x THEN node ELSE nodes[k]
    <3>1. nodes \in Seq(NodeType) /\ x \in 1..Len(nodes) /\ node \in NodeType
      BY <1>1, <2>2 DEF Graph, Indices
    <3>2. /\ nodes' \in Seq(NodeType) /\ Len(nodes') = Len(nodes)
          /\ \A k \in 1..Len(nodes) : nodes'[k] = IF k = x THEN node ELSE nodes[k]
      BY <2>3, <3>1, ExceptSeq
    <3> QED
      BY <3>2 DEF Indices
  <2>5. ASSUME NEW k \in Indices
        PROVE  /\ nodes'[k].kind = nodes[k].kind /\ nodes'[k].refs = nodes[k].refs
               /\ nodes'[k].n0 = nodes[k].n0 /\ nodes'[k].neg_n0 = nodes[k].neg_n0
               /\ nodes'[k].n1 = nodes[k].n1 /\ nodes'[k].neg_n1 = nodes[k].neg_n1
               /\ nodes'[k].mark = (IF k = x THEN 1 ELSE nodes[k].mark)
               /\ nodes'[k].cnf_id = nodes[k].cnf_id
    <3>1. CASE k = x
      <4>1. nodes'[k] = node
        BY <2>4, <3>1
      <4> QED
        BY <2>2, <3>1, <4>1
    <3>2. CASE k # x
      <4>1. nodes'[k] = nodes[k]
        BY <2>4, <3>2
      <4> QED
        BY <3>2, <4>1
    <3> QED
      BY <3>1, <3>2
  <2> QED
    BY <2>4, <2>5
<1>6. /\ Indices' = Indices /\ Numbered' = Numbered /\ Numbered \subseteq Indices
      /\ \A k \in Indices : nodes'[k].kind # "var" <=> IsGate(k)
      /\ \A k \in Indices : {nodes'[k].n0, nodes'[k].n1} = Operands(k)
  <2>1. Indices' = Indices
    BY <1>5 DEF Indices
  <2>2. nodes[x].mark = 0
    BY <1>1, <1>3
  <2>3. Numbered' = Numbered
    BY <1>5, <2>1, <2>2 DEF Numbered
  <2> QED
    BY <1>5, <2>1, <2>3 DEF Numbered, IsGate, Operands
<1>7. Graph'
  BY <1>1, <1>5, GraphStays
<1>8. Numbers'
  <2>1. \A k \in Numbered : nodes'[k].cnf_id = nodes[k].cnf_id
    BY <1>5, <1>6
  <2>2. \A k \in Numbered : IsGate(k) =>
           \A j \in Operands(k) : j \in Numbered /\ nodes[j].cnf_id < nodes[k].cnf_id
    BY <1>1 DEF Reaches, Numbers
  <2>3. \A k \in Numbered' : nodes'[k].kind # "var" =>
           \A j \in {nodes'[k].n0, nodes'[k].n1} : nodes'[j].cnf_id < nodes'[k].cnf_id
    BY <1>6, <2>1, <2>2
  <2>4. {nodes'[k].cnf_id : k \in Numbered'} = {nodes[k].cnf_id : k \in Numbered}
    BY <1>6, <2>1
  <2> QED
    BY <1>1, <1>6, <2>3, <2>4 DEF Numbers, IsGate, Operands
<1>9. Meaning'
  <2>1. \A k \in Numbered : nodes'[k].kind # "var" <=> IsGate(k)
    BY <1>6
  <2>2. ASSUME NEW assignment, NEW k \in Numbered, IsGate(k)
        PROVE  GateHolds(assignment, k)' <=> GateHolds(assignment, k)
    <3>1. \A j \in Numbered : nodes'[j].cnf_id = nodes[j].cnf_id
      BY <1>5, <1>6
    <3>2. /\ nodes'[k].kind = nodes[k].kind
          /\ nodes'[k].n0 = nodes[k].n0 /\ nodes'[k].neg_n0 = nodes[k].neg_n0
          /\ nodes'[k].n1 = nodes[k].n1 /\ nodes'[k].neg_n1 = nodes[k].neg_n1
      BY <1>5, <1>6
    <3> QED
      BY <1>1, <2>2, <3>1, <3>2, GateStays
  <2>3. ASSUME NEW assignment \in [Indices -> BOOLEAN]
        PROVE  (\A c \in ToSet(cnf') : Satisfies(assignment, c))
                 <=> \A k \in Numbered' : nodes'[k].kind # "var" => GateHolds(assignment, k)'
    <3>1. (\A c \in ToSet(cnf) : Satisfies(assignment, c))
             <=> \A k \in Numbered : IsGate(k) => GateHolds(assignment, k)
      BY <1>1 DEF Meaning
    <3> QED
      BY <1>1, <1>6, <2>1, <2>2, <3>1
  <2> QED
    BY <1>1, <1>6, <2>3 DEF Meaning, IsGate
<1>10. /\ stack' \in Seq(Indices) /\ Len(stack') = Len(stack) + 2
       /\ \A q \in 1..Len(stack) : stack'[q] = stack[q]
       /\ stack'[Len(stack) + 1] = n1 /\ stack'[Len(stack) + 2] = n0
  <2> DEFINE two == <<n1, n0>>
  <2>1. two \in Seq(Indices) /\ Len(two) = 2 /\ two[1] = n1 /\ two[2] = n0
    BY <1>4
  <2>2. stack \in Seq(Indices) /\ stack' = stack \o two
    BY <1>1, <1>3 DEF Reaches
  <2> HIDE DEF two
  <2>3. /\ stack' \in Seq(Indices) /\ Len(stack') = Len(stack) + Len(two)
        /\ \A q \in 1..(Len(stack) + Len(two)) :
              stack'[q] = IF q <= Len(stack) THEN stack[q] ELSE two[q - Len(stack)]
    BY <2>1, <2>2, ConcatProperties
  <2> QED
    BY <1>2, <2>1, <2>3
<1>11. stack[Len(stack)] = x
  BY <1>2, <1>3
<1>12. \A k \in Indices : nodes[k].mark = 1 => x < k
  <2> SUFFICES ASSUME NEW k \in Indices, nodes[k].mark = 1 PROVE x < k
    OBVIOUS
  <2>1. PICK q \in 1..Len(stack) : stack[q] = k /\ \A r \in (q + 1)..Len(stack) : stack[r] < k
    BY <1>1 DEF Reaches, Entered
  <2>2. k # x
    BY <1>1, <1>3
  <2>3. Len(stack) \in (q + 1)..Len(stack)
    BY <1>2, <1>11, <2>1, <2>2
  <2> QED
    BY <1>11, <2>1, <2>3
<1>13. \A k \in Indices' : nodes'[k].mark = 1 =>
          \E q \in 1..Len(stack') :
             stack'[q] = k /\ \A r \in (q + 1)..Len(stack') : stack'[r] < k
  <2> SUFFICES ASSUME NEW k \in Indices, nodes'[k].mark = 1
               PROVE  \E q \in 1..Len(stack') :
                         stack'[q] = k /\ \A r \in (q + 1)..Len(stack') : stack'[r] < k
    BY <1>6
  <2>1. CASE k = x
    <3>1. Len(stack) \in 1..Len(stack') /\ stack'[Len(stack)] = k
      BY <1>2, <1>10, <1>11, <2>1
    <3>2. \A r \in (Len(stack) + 1)..Len(stack') : r = Len(stack) + 1 \/ r = Len(stack) + 2
      BY <1>2, <1>10
    <3> QED
      BY <1>4, <1>10, <2>1, <3>1, <3>2
  <2>2. CASE k # x
    <3>1. nodes[k].mark = 1 /\ k \in Nat
      BY <1>4, <1>5, <2>2 DEF Indices
    <3>2. PICK q \in 1..Len(stack) : stack[q] = k /\ \A r \in (q + 1)..Len(stack) : stack[r] < k
      BY <1>1, <3>1 DEF Reaches, Entered
    <3>3. n0 < k /\ n1 < k
      <4>1. x < k
        BY <1>12, <3>1
      <4>2. n0 \in Nat /\ n1 \in Nat
        BY <1>4 DEF Indices
      <4> HIDE DEF n0, n1
      <4> QED
        BY <1>4, <3>1, <4>1, <4>2
    <3>4. ASSUME NEW r \in (q + 1)..Len(stack') PROVE stack'[r] < k
      <4>1. CASE r <= Len(stack)
        <5>1. r \in (q + 1)..Len(stack) /\ r \in 1..Len(stack)
          BY <1>2, <4>1
        <5> QED
          BY <1>10, <3>2, <5>1
      <4>2. CASE ~(r <= Len(stack))
        <5>1. r = Len(stack) + 1 \/ r = Len(stack) + 2
          BY <1>2, <1>10, <4>2
        <5> QED
          BY <1>10, <3>3, <5>1
      <4> QED
        BY <4>1, <4>2
    <3>5. q \in 1..Len(stack') /\ stack'[q] = k
      BY <1>2, <1>10, <3>2
    <3> QED
      BY <3>4, <3>5
  <2> QED
    BY <2>1, <2>2
<1>14. \A q \in 1..Len(stack') : nodes'[stack'[q]].mark = 1 =>
          /\ nodes'[stack'[q]].kind # "var"
          /\ \A k \in {nodes'[stack'[q]].n0, nodes'[stack'[q]].n1} :
                k \in Numbered' \/ \E r \in (q + 1)..Len(stack') : stack'[r] = k
  <2> SUFFICES ASSUME NEW q \in 1..Len(stack'), nodes'[stack'[q]].mark = 1
               PROVE  /\ nodes'[stack'[q]].kind # "var"
                      /\ \A k \in {nodes'[stack'[q]].n0, nodes'[stack'[q]].n1} :
                            k \in Numbered' \/ \E r \in (q + 1)..Len(stack') : stack'[r] = k
    OBVIOUS
  <2>1. q \in 1..Len(stack) /\ stack'[q] = stack[q]
    <3>1. q \in 1..Len(stack) \/ q = Len(stack) + 1 \/ q = Len(stack) + 2
      BY <1>2, <1>10
    <3>2. ASSUME q = Len(stack) + 1 \/ q = Len(stack) + 2 PROVE FALSE
      <4>1. PICK k \in Indices : k = stack'[q] /\ k < x
        BY <1>4, <1>10, <3>2
      <4>2. nodes[k].mark = 1
        BY <1>4, <1>5, <4>1 DEF Indices
      <4> QED
        BY <1>4, <1>12, <4>1, <4>2 DEF Indices
    <3> QED
      BY <1>10, <3>1, <3>2
  <2>2. PICK k \in Indices : k = stack[q]
    BY <1>2, <2>1
  <2>3. CASE k = x
    <3>1. nodes'[k].kind # "var" /\ {nodes'[k].n0, nodes'[k].n1} = {n0, n1}
      BY <1>1, <1>3, <1>5, <2>3
    <3>2. Len(stack) + 1 \in (q + 1)..Len(stack') /\ Len(stack) + 2 \in (q + 1)..Len(stack')
      BY <1>2, <1>10, <2>1
    <3> QED
      BY <1>10, <2>1, <2>2, <3>1, <3>2
  <2>4. CASE k # x
    <3>1. nodes[stack[q]].mark = 1
      BY <1>5, <2>1, <2>2, <2>4
    <3>2. /\ IsGate(k)
          /\ \A j \in Operands(k) : j \in Numbered \/ \E r \in (q + 1)..Len(stack) : stack[r] = j
      BY <1>1, <2>1, <2>2, <3>1 DEF Reaches
    <3>3. \A r \in (q + 1)..Len(stack) : r \in (q + 1)..Len(stack') /\ stack'[r] = stack[r]
      BY <1>2, <1>10, <2>1
    <3>4. \A j \in Operands(k) :
             j \in Numbered' \/ \E r \in (q + 1)..Len(stack') : stack'[r] = j
      BY <1>6, <3>2, <3>3
    <3> QED
      BY <1>6, <2>1, <2>2, <3>2, <3>4
  <2> QED
    BY <2>3, <2>4
<1>15. Reaches'
  <2>1. PICK root \in Indices : unfinished2 = {root} /\ (root \in Numbered \/ OnStack(root))
    BY <1>1 DEF Reaches
  <2>2. root \in Numbered' \/ \E q \in 1..Len(stack') : stack'[q] = root
    <3>1. \A q \in 1..Len(stack) : q \in 1..Len(stack') /\ stack'[q] = stack[q]
      BY <1>2, <1>10
    <3> QED
      BY <1>6, <2>1, <3>1 DEF OnStack
  <2>3. \A k \in Numbered' : nodes'[k].kind # "var" =>
           {nodes'[k].n0, nodes'[k].n1} \subseteq Numbered'
    BY <1>1, <1>6 DEF Reaches
  <2>4. unfinished2' = unfinished2 /\ Indices' = Indices /\ stack' \in Seq(Indices)
    BY <1>1, <1>6, <1>10
  <2> QED
    BY <1>13, <1>14, <2>1, <2>2, <2>3, <2>4 DEF Reaches, Entered, OnStack, IsGate, Operands
<1> QED
  BY <1>1, <1>7, <1>8, <1>9, <1>15 DEF IndInv

LEMMA OperandMeans ==
  ASSUME NEW n \in Nat, NEW assignment \in [1..n -> BOOLEAN], NEW id \in 1..n, NEW neg \in BOOLEAN
  PROVE  LET x == IF neg THEN -id ELSE id
         IN x \in LiteralsTo(n) /\ (Holds(assignment, x) <=> assignment[id] # neg)
<1>1. id \in Int /\ id > 0 /\ assignment[id] \in BOOLEAN
  OBVIOUS
<1>2. id \in LiteralsTo(n) /\ -id \in LiteralsTo(n) /\ AbsVal(id) = id /\ AbsVal(-id) = id
  BY <1>1 DEF LiteralsTo, AbsVal
<1>3. ~(-id > 0)
  BY <1>1
<1>4. CASE neg
  <2>1. neg = TRUE /\ (-id > 0) = FALSE
    BY <1>3, <1>4
  <2>2. Holds(assignment, -id) <=> assignment[id] = FALSE
    BY <1>2, <2>1 DEF Holds
  <2>3. assignment[id] = FALSE <=> assignment[id] # TRUE
    BY <1>1
  <2> QED
    BY <1>2, <2>1, <2>2, <2>3
<1>5. CASE ~neg
  <2>1. neg = FALSE /\ (id > 0) = TRUE
    BY <1>1, <1>5
  <2>2. Holds(assignment, id) <=> assignment[id] = TRUE
    BY <1>2, <2>1 DEF Holds
  <2>3. assignment[id] = TRUE <=> assignment[id] # FALSE
    BY <1>1
  <2> QED
    BY <1>2, <2>1, <2>2, <2>3
<1> QED
  BY <1>4, <1>5

\* A number that is given is one of the variables of an assignment.
LEMMA NextNumberFits ==
  ASSUME Graph, Numbers, NEW x \in Indices, x \notin Numbered
  PROVE  cnf_id \in 1..Len(nodes)
<1>1. Len(nodes) \in Nat
  BY LenProperties DEF Graph
<1>2. IsFiniteSet(Indices) /\ Cardinality(Indices) = Len(nodes)
  <2>1. PICK n \in Nat : n = Len(nodes)
    BY <1>1
  <2>2. IsFiniteSet(1..n) /\ Cardinality(1..n) = IF 1 > n THEN 0 ELSE n - 1 + 1
    BY FS_Interval
  <2>3. (IF 1 > n THEN 0 ELSE n - 1 + 1) = n
    OBVIOUS
  <2> QED
    BY <2>1, <2>2, <2>3 DEF Indices
<1>3. /\ Cardinality(Numbered \union {x}) = Cardinality(Numbered) + 1
      /\ Cardinality(Numbered) = cnf_id - 1 /\ cnf_id \in Nat \ {0}
  BY FS_AddElement DEF Numbers
<1>4. Numbered \union {x} \in SUBSET Indices
  BY DEF Numbered
<1>5. Cardinality(Numbered \union {x}) <= Len(nodes)
  BY <1>2, <1>4, FS_Subset
<1> QED
  BY <1>1, <1>3, <1>5

\* The clauses of a gate are printed when its operands have their numbers.
LEMMA DefineNodeInv ==
  ASSUME IndInv, DefineNode, pc' = pc
  PROVE  IndInv'
<1> DEFINE lines == Printed(Definition(nodes[Cur].kind, cnf_id,
                                       Operand(nodes[Cur].n0, nodes[Cur].neg_n0),
                                       Operand(nodes[Cur].n1, nodes[Cur].neg_n1)))
<1>1. /\ gen = "tseitin" /\ stack # <<>> /\ nodes[Cur].mark = 1
      /\ nodes' = [nodes EXCEPT ![Cur].cnf_id = cnf_id, ![Cur].mark = 2]
      /\ cnf_id' = cnf_id + 1 /\ cnf' = cnf \o lines /\ stack' = Front(stack)
      /\ UNCHANGED <<gen, unfinished1, unfinished2>>
      /\ unfinished1 = {} /\ Graph /\ Reaches /\ Numbers /\ Meaning /\ pc # "draw"
  BY DEF DefineNode, IndInv
<1> HIDE DEF lines
<1>2. /\ Cur \in Indices /\ Cur \notin Numbered
      /\ nodes' \in Seq(NodeType) /\ Len(nodes') = Len(nodes)
      /\ \A k \in Indices :
            /\ nodes'[k].kind = nodes[k].kind /\ nodes'[k].refs = nodes[k].refs
            /\ nodes'[k].n0 = nodes[k].n0 /\ nodes'[k].neg_n0 = nodes[k].neg_n0
            /\ nodes'[k].n1 = nodes[k].n1 /\ nodes'[k].neg_n1 = nodes[k].neg_n1
            /\ nodes'[k].mark = (IF k = Cur THEN 2 ELSE nodes[k].mark)
            /\ nodes'[k].cnf_id = (IF k = Cur THEN cnf_id ELSE nodes[k].cnf_id)
  <2>1. nodes[Cur].mark # 2
    BY <1>1
  <2> QED
    BY <1>1, <2>1, NodeNumbered
<1>3. IsGate(Cur) /\ Operands(Cur) \subseteq Numbered
  BY <1>1, ComesUpAgain
<1>4. Graph'
  BY <1>1, <1>2, GraphStays
<1>5. Reaches' /\ Numbered' = Numbered \union {Cur}
  BY <1>1, <1>2, <1>3, Popped
<1>6. Numbers'
  BY <1>1, <1>2, <1>3, <1>5, NumberGiven
<1>7. Meaning'
  <2>1. PICK x \in Indices : x = Cur
    BY <1>2
  <2>2. x \notin Numbered /\ Numbered' = Numbered \union {x} /\ Indices' = Indices
    BY <1>2, <1>5, <2>1 DEF Indices
  <2>3. PICK n0 \in Numbered, n1 \in Numbered : n0 = nodes[x].n0 /\ n1 = nodes[x].n1
    BY <1>3, <2>1 DEF Operands
  <2>4. PICK i0, i1 : i0 = nodes[n0].cnf_id /\ i1 = nodes[n1].cnf_id
    OBVIOUS
  <2>5. PICK kind, neg0, neg1 :
           kind = nodes[x].kind /\ neg0 = nodes[x].neg_n0 /\ neg1 = nodes[x].neg_n1
    OBVIOUS
  <2>6. kind \in Ops /\ neg0 \in BOOLEAN /\ neg1 \in BOOLEAN
    <3>1. nodes[x] \in NodeType /\ nodes[x].kind # "var"
      BY <1>1, <1>3, <2>1, ElementOfSeq DEF Graph, Indices, IsGate
    <3> QED
      BY <2>5, <3>1 DEF NodeType
  <2>7. PICK n \in Nat : n = Len(nodes) /\ Indices = 1..n
    BY <1>1, LenProperties DEF Graph, Indices
  <2>8. cnf_id \in 1..n
    BY <1>1, <2>2, <2>7, NextNumberFits
  <2>9. i0 \in 1..n /\ i1 \in 1..n
    <3>1. i0 \in 1..(cnf_id - 1) /\ i1 \in 1..(cnf_id - 1)
      BY <1>1, <2>3, <2>4 DEF Numbers
    <3> QED
      BY <2>7, <2>8, <3>1
  <2> DEFINE y == IF neg0 THEN -i0 ELSE i0
             z == IF neg1 THEN -i1 ELSE i1
  <2>10. lines = Printed(Definition(kind, cnf_id, y, z))
    <3>1. Operand(nodes[Cur].n0, nodes[Cur].neg_n0) = y /\ Operand(nodes[Cur].n1, nodes[Cur].neg_n1) = z
      BY <2>1, <2>3, <2>4, <2>5 DEF Operand
    <3> HIDE DEF y, z
    <3> QED
      BY <2>1, <2>5, <3>1 DEF lines
  <2>11. /\ nodes'[x].kind = kind /\ nodes'[x].cnf_id = cnf_id
         /\ nodes'[x].n0 = n0 /\ nodes'[x].neg_n0 = neg0
         /\ nodes'[x].n1 = n1 /\ nodes'[x].neg_n1 = neg1
    BY <1>2, <2>1, <2>3, <2>5
  <2>12. nodes'[n0].cnf_id = i0 /\ nodes'[n1].cnf_id = i1
    <3>1. n0 \in Indices /\ n1 \in Indices /\ n0 # x /\ n1 # x
      BY <2>2, <2>3 DEF Numbered
    <3> QED
      BY <1>2, <2>1, <2>4, <3>1
  <2>13. \A assignment \in [1..n -> BOOLEAN] :
            GateHolds(assignment, x)'
              <=> (assignment[cnf_id] = Gate(kind, assignment[i0] # neg0, assignment[i1] # neg1))
    BY <2>11, <2>12 DEF GateHolds
  <2>14. \A assignment \in [1..n -> BOOLEAN] :
            /\ y \in LiteralsTo(n) /\ (Holds(assignment, y) <=> assignment[i0] # neg0)
            /\ z \in LiteralsTo(n) /\ (Holds(assignment, z) <=> assignment[i1] # neg1)
    BY <2>6, <2>7, <2>9, OperandMeans
  <2>15. \A assignment \in [1..n -> BOOLEAN] :
            cnf_id \in LiteralsTo(n) /\ (Holds(assignment, cnf_id) <=> assignment[cnf_id])
    <3> SUFFICES ASSUME NEW assignment \in [1..n -> BOOLEAN]
                 PROVE  cnf_id \in LiteralsTo(n) /\ (Holds(assignment, cnf_id) <=> assignment[cnf_id])
      OBVIOUS
    <3>1. cnf_id \in Int /\ cnf_id > 0 /\ AbsVal(cnf_id) = cnf_id /\ assignment[cnf_id] \in BOOLEAN
      BY <2>7, <2>8 DEF AbsVal
    <3>2. cnf_id \in LiteralsTo(n)
      BY <2>8, <3>1 DEF LiteralsTo
    <3> QED
      BY <3>1, <3>2 DEF Holds
  <2> HIDE DEF y, z
  <2>16. ASSUME NEW assignment \in [1..n -> BOOLEAN]
         PROVE  /\ lines \in Seq(Seq(Int))
                /\ (\A c \in ToSet(lines) : Satisfies(assignment, c)) <=> GateHolds(assignment, x)'
    <3>1. PICK b0, b1, b \in BOOLEAN :
             b0 = (assignment[i0] # neg0) /\ b1 = (assignment[i1] # neg1) /\ b = assignment[cnf_id]
      BY <2>8
    <3>2. /\ lines \in Seq(Seq(Int))
          /\ (\A c \in ToSet(lines) : Satisfies(assignment, c))
                <=> (Holds(assignment, cnf_id) <=> Gate(kind, Holds(assignment, y), Holds(assignment, z)))
      BY <2>6, <2>10, <2>14, <2>15, DefinitionMeans
    <3>3. Gate(kind, Holds(assignment, y), Holds(assignment, z))
             <=> Gate(kind, assignment[i0] # neg0, assignment[i1] # neg1)
      BY <2>6, <2>14 DEF Gate, Ops
    <3>4. Gate(kind, assignment[i0] # neg0, assignment[i1] # neg1) \in BOOLEAN
      BY <2>6 DEF Gate, Ops
    <3>5. assignment[cnf_id] \in BOOLEAN
      BY <2>8
    <3>6. (Holds(assignment, cnf_id) <=> Gate(kind, Holds(assignment, y), Holds(assignment, z)))
             <=> GateHolds(assignment, x)'
      BY <2>13, <2>15, <3>3, <3>4, <3>5
    <3> QED
      BY <3>2, <3>6
  <2>17. lines \in Seq(Seq(Int))
    <3>1. [k \in 1..n |-> TRUE] \in [1..n -> BOOLEAN]
      OBVIOUS
    <3> QED
      BY <2>16, <3>1
  <2>18. cnf' \in Seq(Seq(Int)) /\ ToSet(cnf') = ToSet(cnf) \union ToSet(lines)
    <3>1. cnf \in Seq(Seq(Int)) /\ cnf' = cnf \o lines
      BY <1>1 DEF Meaning
    <3> QED
      BY <2>17, <3>1, ElementsOfConcat
  <2> DEFINE added == ToSet(lines)
  <2>19. ToSet(cnf') = ToSet(cnf) \union added
    BY <2>18
  <2>20. \A assignment \in [Indices -> BOOLEAN] :
            (\A c \in added : Satisfies(assignment, c))
              <=> (nodes'[x].kind # "var" => GateHolds(assignment, x)')
    <3>1. nodes'[x].kind # "var"
      BY <2>6, <2>11 DEF Ops
    <3> QED
      BY <2>7, <2>16, <3>1
  <2>21. \A k \in Indices :
            /\ nodes'[k].kind = nodes[k].kind
            /\ nodes'[k].n0 = nodes[k].n0 /\ nodes'[k].neg_n0 = nodes[k].neg_n0
            /\ nodes'[k].n1 = nodes[k].n1 /\ nodes'[k].neg_n1 = nodes[k].neg_n1
            /\ k # x => nodes'[k].cnf_id = nodes[k].cnf_id
    BY <1>2, <2>1
  <2>22. Reaches /\ Meaning /\ cnf' \in Seq(Seq(Int))
    BY <1>1, <2>18
  <2> HIDE DEF added
  <2> QED
    BY <2>2, <2>19, <2>20, <2>21, <2>22, MeaningGrows
<1> QED
  BY <1>1, <1>4, <1>5, <1>6, <1>7 DEF IndInv

-----------------------------------------------------------------------------
(***************************************************************************)
(* The invariant holds.                                                    *)
(***************************************************************************)

LEMMA InitInv == Init => IndInv
BY DEF Init, NoCircuit, IndInv

\* While another program runs the circuit stays as it is.
LEMMA CircuitStays ==
  ASSUME IndInv, UNCHANGED <<gen, circuit_vars>>, pc' = "draw" => pc = "draw"
  PROVE  IndInv'
<1>1. /\ gen' = gen /\ nodes' = nodes /\ unfinished1' = unfinished1
      /\ unfinished2' = unfinished2 /\ stack' = stack /\ cnf_id' = cnf_id /\ cnf' = cnf
  BY DEF circuit_vars
<1>2. Graph => Graph'
  BY <1>1 DEF Graph, Indices, IsGate, Operands, HasParent
<1>3. Unsearched => Unsearched'
  BY <1>1 DEF Unsearched, Indices
<1>4. Indices' = Indices /\ Numbered' = Numbered
  BY <1>1 DEF Indices, Numbered
<1>5. Reaches => Reaches'
  BY <1>1, <1>4 DEF Reaches, Entered, IsGate, Operands, OnStack
<1>6. Numbers => Numbers'
  BY <1>1, <1>4 DEF Numbers, IsGate, Operands
<1>7. Meaning => Meaning'
  BY <1>1, <1>4 DEF Meaning, IsGate, GateHolds
<1> QED
  BY <1>1, <1>2, <1>3, <1>5, <1>6, <1>7 DEF IndInv

\* A generator that ended has left nothing.
LEMMA NothingLeft ==
  ASSUME gen' = "idle", CircuitForgotten
  PROVE  IndInv'
BY DEF CircuitForgotten, IndInv

LEMMA CallInv ==
  ASSUME IndInv, CallGenerator
  PROVE  IndInv'
<1>0. /\ gen = "idle" /\ unfinished2 = {} /\ stack = <<>> /\ cnf_id = 1 /\ cnf = <<>>
      /\ pc' = "generator"
  BY DEF CallGenerator, Goto, IndInv
<1>1. CASE DrawLayers /\ gen' = "layers" /\ UNCHANGED circuit_vars
  BY <1>0, <1>1 DEF IndInv, circuit_vars
<1>2. CASE DrawInputs
  <2>1. PICK n \in NumVars : /\ nodes' = [k \in 1..n |-> Node("var", 0, 0, FALSE, FALSE)]
                             /\ unfinished1' = 1..n
    BY <1>2 DEF DrawInputs
  <2>2. /\ gen' = "build" /\ unfinished2' = {} /\ stack' = <<>> /\ cnf_id' = 1 /\ cnf' = <<>>
    BY <1>0, <1>2 DEF DrawInputs
  <2> DEFINE input == Node("var", 0, 0, FALSE, FALSE)
  <2>3. input \in NodeType /\ input.kind = "var" /\ input.refs = 0 /\ input.mark = 0
    BY DEF Node, NodeType
  <2>4. n \in Nat
    BY CircuitAssumption
  <2> HIDE DEF input
  <2>5. nodes' \in [1..n -> NodeType] /\ \A k \in 1..n : nodes'[k] = input
    BY <2>1, <2>3 DEF input
  <2>6. nodes' \in Seq(NodeType)
    BY <2>4, <2>5, SeqDef
  <2>7. Len(nodes') = n
    BY <2>4, <2>5, <2>6, LenProperties
  <2>8. Indices' = 1..n
    BY <2>7 DEF Indices
  <2>9. Graph'
    <3>1. \A k \in Indices' : nodes'[k].kind = "var" /\ nodes'[k].refs = 0
      BY <2>3, <2>5, <2>8
    <3>2. \A k \in Indices' : k \in unfinished1'
      BY <2>1, <2>8
    <3>3. ~(0 > 0)
      OBVIOUS
    <3> QED
      BY <2>2, <2>6, <3>1, <3>2, <3>3 DEF Graph, IsGate
  <2>10. Unsearched'
    BY <2>2, <2>3, <2>5, <2>8 DEF Unsearched
  <2> QED
    BY <1>0, <2>2, <2>9, <2>10 DEF IndInv
<1> QED
  BY <1>1, <1>2 DEF CallGenerator

LEMMA Inductive ==
  ASSUME IndInv, [Next]_vars
  PROVE  IndInv'
<1>1. CASE CallGenerator
  BY <1>1, CallInv
<1>2. CASE CircuitRuns
  <2>1. pc = "generator" /\ pc' = pc /\ CircuitStep
    BY <1>2 DEF CircuitRuns, Running, file_vars
  <2>2. CASE AddNode
    BY <2>1, <2>2, AddNodeInv
  <2>3. CASE Combine
    BY <2>1, <2>3, CombineInv
  <2>4. CASE SkipNumbered
    BY <2>1, <2>4, SkipNumberedInv
  <2>5. CASE NumberInput
    BY <2>1, <2>5, NumberInputInv
  <2>6. CASE Descend
    BY <2>1, <2>6, DescendInv
  <2>7. CASE DefineNode
    BY <2>1, <2>7, DefineNodeInv
  <2>8. CASE StartRClauses \/ BeginRClause \/ DrawLiteral
    <3>1. gen' = "rclauses"
      BY <2>8 DEF StartRClauses, BeginRClause, DrawLiteral
    <3> QED
      BY <2>1, <3>1 DEF IndInv
  <2> QED
    BY <2>1, <2>2, <2>3, <2>4, <2>5, <2>6, <2>7, <2>8 DEF CircuitStep
<1>3. CASE LayersRun
  BY <1>3, CircuitStays DEF LayersRun
<1>4. CASE GeneratorDone
  BY <1>4, NothingLeft DEF GeneratorDone, GeneratorExits
<1>5. CASE GeneratorSignalled
  BY <1>5, NothingLeft DEF GeneratorSignalled
<1>6. CASE PickNumNoTouch
  <2>1. UNCHANGED <<gen, circuit_vars>> /\ pc' # "draw"
    BY <1>6 DEF PickNumNoTouch, FuzzStep, Goto
  <2> QED
    BY <2>1, CircuitStays
<1>7. CASE AddProjection
  <2>1. UNCHANGED <<gen, circuit_vars>> /\ pc' # "draw"
    BY <1>7 DEF AddProjection, FuzzStep, Goto
  <2> QED
    BY <2>1, CircuitStays
<1>8. CASE AddNoTouch
  <2>1. UNCHANGED <<gen, circuit_vars>> /\ pc' # "draw"
    BY <1>8 DEF AddNoTouch, FuzzStep, Goto
  <2> QED
    BY <2>1, CircuitStays
<1>9. CASE StartWeights \/ AddWeights
  <2>1. UNCHANGED <<gen, circuit_vars>> /\ pc' # "draw"
    BY <1>9, WeightingAssumption
       DEF StartWeights, AddWeights, WeightVar, WeightsDone, FuzzStep, Goto
  <2> QED
    BY <2>1, CircuitStays
<1>10. CASE RunPreproc
  <2>1. UNCHANGED <<gen, circuit_vars>> /\ pc' # "draw"
    BY <1>10 DEF RunPreproc, FuzzStep, Goto
  <2> QED
    BY <2>1, CircuitStays
<1>11. CASE UNCHANGED vars
  BY <1>11, CircuitStays DEF vars, file_vars
<1> QED
  BY <1>1, <1>2, <1>3, <1>4, <1>5, <1>6, <1>7, <1>8, <1>9, <1>10, <1>11
     DEF Next, Generator, Ended

LEMMA Invariance == Spec => []IndInv
BY InitInv, Inductive, PTL DEF Spec

-----------------------------------------------------------------------------
(***************************************************************************)
(* The search ends with every node numbered.                               *)
(***************************************************************************)

\* The last of the nodes that are left would have a parent that is left too.
LEMMA AllReached ==
  ASSUME Graph, Reaches, stack = <<>>, unfinished1 = {}
  PROVE  Numbered = Indices
<1>1. PICK root \in Indices : unfinished2 = {root} /\ root \in Numbered
  <2>1. \A k : ~OnStack(k)
    BY DEF OnStack
  <2> QED
    BY <2>1 DEF Reaches
<1>2. Len(nodes) \in Nat /\ MinRefs \in Nat \ {0}
  BY LenProperties, CircuitAssumption DEF Graph
<1>3. ASSUME NEW k \in Indices, k \notin Numbered
      PROVE  \E p \in Indices : p \notin Numbered /\ k < p
  <2>1. HasParent(k)
    <3>1. CASE IsGate(k)
      BY <1>1, <1>3, <3>1 DEF Graph
    <3>2. CASE ~IsGate(k)
      <4>1. nodes[k].refs >= MinRefs /\ (nodes[k].refs > 0 => HasParent(k))
        BY <3>2 DEF Graph
      <4>2. nodes[k].refs \in Nat
        <5>1. nodes[k] \in NodeType
          BY ElementOfSeq DEF Graph, Indices
        <5> QED
          BY <5>1 DEF NodeType
      <4> QED
        BY <1>2, <4>1, <4>2
    <3> QED
      BY <3>1, <3>2
  <2>2. PICK p \in Indices : IsGate(p) /\ k \in Operands(p)
    BY <2>1 DEF HasParent
  <2>3. p \notin Numbered
    BY <1>3, <2>2 DEF Reaches
  <2>4. k \in 1..(p - 1)
    BY <2>2 DEF Graph
  <2>5. k < p
    BY <1>2, <2>4 DEF Indices
  <2> QED
    BY <2>3, <2>5
<1>4. Numbered \subseteq Indices
  BY DEF Numbered
<1>5. SUFFICES ASSUME Indices \ Numbered # {} PROVE FALSE
  BY <1>4
<1> DEFINE less == OpToRel(<, Nat)
           above == {Len(nodes) - k : k \in Indices \ Numbered}
<1>6. \A j, k \in Nat : j < k => <<j, k>> \in less
  BY DEF OpToRel
<1>7. IsWellFoundedOn(less, Nat)
  BY NatLessThanWellFounded
<1>8. above \subseteq Nat /\ above # {}
  BY <1>2, <1>5 DEF Indices
<1> HIDE DEF less
<1>9. PICK d \in above : \A j \in above : ~(<<j, d>> \in less)
  <2> HIDE DEF above
  <2> QED
    BY <1>7, <1>8, WFMin
<1>10. PICK k \in Indices \ Numbered : d = Len(nodes) - k
  OBVIOUS
<1>11. PICK p \in Indices \ Numbered : k < p
  BY <1>3
<1>12. Len(nodes) - p \in above /\ Len(nodes) - p < d
  BY <1>2, <1>10, <1>11 DEF Indices
<1> QED
  BY <1>6, <1>8, <1>9, <1>12

\* However the circuit was drawn, the search gives all its nodes the numbers from 1 on,
\* operands before the nodes over them, and every input has the references that -r asks
\* for.
THEOREM AllNodesNumbered == Spec => []AllNumbered
<1>1. IndInv => AllNumbered
  <2> SUFFICES ASSUME IndInv, gen = "tseitin", stack = <<>> PROVE
         /\ {nodes[k].cnf_id : k \in 1..Len(nodes)} = 1..(cnf_id - 1)
         /\ cnf_id - 1 = Len(nodes)
         /\ \A k \in 1..Len(nodes) :
               IF nodes[k].kind = "var" THEN nodes[k].refs >= MinRefs
               ELSE /\ nodes[nodes[k].n0].cnf_id < nodes[k].cnf_id
                    /\ nodes[nodes[k].n1].cnf_id < nodes[k].cnf_id
    BY DEF AllNumbered
  <2>1. Graph /\ Reaches /\ Numbers /\ unfinished1 = {}
    BY DEF IndInv
  <2>2. Numbered = 1..Len(nodes)
    BY <2>1, AllReached DEF Indices
  <2>3. cnf_id - 1 = Len(nodes)
    <3>1. PICK n \in Nat : n = Len(nodes)
      BY <2>1, LenProperties DEF Graph
    <3>2. Cardinality(1..n) = IF 1 > n THEN 0 ELSE n - 1 + 1
      BY FS_Interval
    <3>3. (IF 1 > n THEN 0 ELSE n - 1 + 1) = n
      OBVIOUS
    <3> QED
      BY <2>1, <2>2, <3>1, <3>2, <3>3 DEF Numbers
  <2>4. {nodes[k].cnf_id : k \in 1..Len(nodes)} = 1..(cnf_id - 1)
    BY <2>1, <2>2 DEF Numbers
  <2>5. ASSUME NEW k \in 1..Len(nodes), nodes[k].kind = "var" PROVE nodes[k].refs >= MinRefs
    BY <2>1, <2>5 DEF Graph, Indices, IsGate
  <2>6. ASSUME NEW k \in 1..Len(nodes), nodes[k].kind # "var"
        PROVE  /\ nodes[nodes[k].n0].cnf_id < nodes[k].cnf_id
               /\ nodes[nodes[k].n1].cnf_id < nodes[k].cnf_id
    BY <2>1, <2>2, <2>6 DEF Numbers, IsGate, Operands
  <2> QED
    BY <2>3, <2>4, <2>5, <2>6
<1> QED
  BY <1>1, Invariance, PTL

\* The clauses that are printed for any circuit are true exactly of its evaluations,
\* whatever options -t and -m are set.
THEOREM ClausesDefineCircuit == Spec => []ModelsAreEvaluations
<1>1. IndInv => ModelsAreEvaluations
  <2> SUFFICES ASSUME IndInv, gen = "tseitin", stack = <<>>,
                      NEW assignment \in [1..Len(nodes) -> BOOLEAN]
               PROVE  (\A c \in ToSet(cnf) : Satisfies(assignment, c))
                        <=> \A k \in 1..Len(nodes) :
                               nodes[k].kind # "var" =>
                                   assignment[nodes[k].cnf_id] = Value(assignment, nodes[k])
    BY DEF ModelsAreEvaluations
  <2>1. Graph /\ Reaches /\ Numbers /\ Meaning /\ unfinished1 = {}
    BY DEF IndInv
  <2>2. Numbered = 1..Len(nodes)
    BY <2>1, AllReached DEF Indices
  <2>3. (\A c \in ToSet(cnf) : Satisfies(assignment, c))
           <=> \A k \in 1..Len(nodes) : IsGate(k) => GateHolds(assignment, k)
    BY <2>1, <2>2 DEF Meaning, Indices
  <2>4. ASSUME NEW k \in 1..Len(nodes)
        PROVE  GateHolds(assignment, k)
                 <=> assignment[nodes[k].cnf_id] = Value(assignment, nodes[k])
    BY DEF GateHolds, Gate, Value
  <2> QED
    BY <2>3, <2>4 DEF IsGate
<1> QED
  BY <1>1, Invariance, PTL

-----------------------------------------------------------------------------
(***************************************************************************)
(* Lists in which nothing occurs twice.                                    *)
(***************************************************************************)

\* What the members of a list are.
LEMMA Place ==
  ASSUME NEW S, NEW list \in Seq(S)
  PROVE  /\ Len(list) \in Nat /\ DOMAIN list = 1..Len(list)
         /\ \A x : x \in ToSet(list) <=> \E k \in 1..Len(list) : x = list[k]
         /\ ToSet(list) \subseteq S
<1>1. Len(list) \in Nat /\ DOMAIN list = 1..Len(list)
  BY LenProperties
<1>2. \A k \in 1..Len(list) : list[k] \in S
  BY ElementOfSeq
<1> QED
  BY <1>1, <1>2 DEF ToSet

\* Lists of no element and of one.
LEMMA FewInjective ==
  /\ IsInjective(<<>>)
  /\ \A x : IsInjective(<<x>>)
BY DEF IsInjective

\* Two lists that have nothing in common may be joined.
LEMMA InjectiveConcat ==
  ASSUME NEW S, NEW left \in Seq(S), NEW right \in Seq(S),
         IsInjective(left), IsInjective(right),
         \A x \in ToSet(left) : x \notin ToSet(right)
  PROVE  IsInjective(left \o right)
<1>1. /\ left \o right \in Seq(S) /\ Len(left \o right) = Len(left) + Len(right)
      /\ \A k \in 1..(Len(left) + Len(right)) :
            (left \o right)[k] = IF k <= Len(left) THEN left[k] ELSE right[k - Len(left)]
  BY ConcatProperties
<1>2. /\ Len(left) \in Nat /\ DOMAIN left = 1..Len(left)
      /\ Len(right) \in Nat /\ DOMAIN right = 1..Len(right)
      /\ DOMAIN (left \o right) = 1..(Len(left) + Len(right))
  BY <1>1, LenProperties
<1>3. ASSUME NEW i \in 1..(Len(left) + Len(right)), NEW j \in 1..(Len(left) + Len(right)),
             (left \o right)[i] = (left \o right)[j], i <= j
      PROVE  i = j
  <2>1. CASE j <= Len(left)
    <3>1. i \in 1..Len(left) /\ j \in 1..Len(left) /\ i <= Len(left)
      BY <1>2, <1>3, <2>1
    <3>2. left[i] = left[j]
      BY <1>1, <1>3, <2>1, <3>1
    <3> QED
      BY <1>2, <3>1, <3>2 DEF IsInjective
  <2>2. CASE i > Len(left)
    <3>1. /\ i - Len(left) \in 1..Len(right) /\ j - Len(left) \in 1..Len(right)
          /\ ~(i <= Len(left)) /\ ~(j <= Len(left))
      BY <1>2, <1>3, <2>2
    <3>2. right[i - Len(left)] = right[j - Len(left)]
      BY <1>1, <1>3, <3>1
    <3>3. i - Len(left) = j - Len(left)
      BY <1>2, <3>1, <3>2 DEF IsInjective
    <3> QED
      BY <1>2, <3>3
  <2>3. CASE i <= Len(left) /\ ~(j <= Len(left))
    <3>1. i \in 1..Len(left) /\ j - Len(left) \in 1..Len(right)
      BY <1>2, <2>3
    <3>2. left[i] = right[j - Len(left)]
      BY <1>1, <1>3, <2>3
    <3>3. left[i] \in ToSet(left) /\ right[j - Len(left)] \in ToSet(right)
      BY <3>1, Place
    <3> QED
      BY <3>2, <3>3
  <2>4. j <= Len(left) \/ i > Len(left) \/ (i <= Len(left) /\ ~(j <= Len(left)))
    BY <1>2
  <2> QED
    BY <2>1, <2>2, <2>3, <2>4
<1>4. \A i, j \in 1..(Len(left) + Len(right)) : i <= j \/ j <= i
  BY <1>2
<1> QED
  BY <1>2, <1>3, <1>4 DEF IsInjective

\* One element more.
LEMMA AppendElements ==
  ASSUME NEW S, NEW list \in Seq(S), NEW x \in S
  PROVE  /\ Append(list, x) \in Seq(S) /\ Append(list, x) # <<>>
         /\ ToSet(Append(list, x)) = ToSet(list) \union {x}
         /\ IsInjective(list) /\ x \notin ToSet(list) => IsInjective(Append(list, x))
<1>1. <<x>> \in Seq(S) /\ ToSet(<<x>>) = {x} /\ IsInjective(<<x>>)
  BY FewElements, FewInjective
<1>2. Append(list, x) = list \o <<x>>
  BY AppendIsConcat
<1> DEFINE one == <<x>>
<1> HIDE DEF one
<1>3. one \in Seq(S) /\ ToSet(one) = {x} /\ IsInjective(one) /\ Append(list, x) = list \o one
  BY <1>1, <1>2 DEF one
<1>4. list \o one \in Seq(S) /\ ToSet(list \o one) = ToSet(list) \union {x}
  BY <1>3, ElementsOfConcat
<1>5. IsInjective(list) /\ x \notin ToSet(list) => IsInjective(list \o one)
  BY <1>3, InjectiveConcat
<1>6. Append(list, x) # <<>>
  BY AppendProperties
<1> QED
  BY <1>3, <1>4, <1>5, <1>6

-----------------------------------------------------------------------------
(***************************************************************************)
(* Proper clauses.                                                         *)
(***************************************************************************)

\* The clauses that have nothing wrong with them, over the variables 1..n.
ProperClauses(n) == {c \in Seq(Int) : Proper(c, n)}

\* No literal is there with its opposite.
Consistent(c) == \A x \in ToSet(c) : -x \notin ToSet(c)

\* Whether a clause is a tautology is a matter of its literals alone.
LEMMA TautologyElements ==
  ASSUME NEW c \in Seq(Int)
  PROVE  ~Tautology(c) <=> Consistent(c)
BY Place DEF Tautology, Consistent

\* Proper in terms of the literals of the clause.
LEMMA ProperFrom ==
  ASSUME NEW n, NEW c \in Seq(Int)
  PROVE  c \in ProperClauses(n) <=>
            /\ c # <<>>
            /\ ToSet(c) \subseteq LiteralsTo(n)
            /\ Multilit \/ IsInjective(c)
            /\ Taut \/ Consistent(c)
<1>1. /\ ToSet(c) \subseteq Int
      /\ ~Tautology(c) <=> Consistent(c)
  BY TautologyElements, Place
<1>2. (\A x \in ToSet(c) : x # 0 /\ AbsVal(x) \in 1..n) <=> ToSet(c) \subseteq LiteralsTo(n)
  BY <1>1 DEF LiteralsTo
<1> QED
  BY <1>1, <1>2 DEF ProperClauses, Proper

\* A clause stays proper when there are more variables,
LEMMA MoreVariables ==
  ASSUME NEW n \in Nat, NEW m \in Nat, n <= m
  PROVE  ProperClauses(n) \subseteq ProperClauses(m)
<1>1. LiteralsTo(n) \subseteq LiteralsTo(m)
  BY DEF LiteralsTo, AbsVal
<1> QED
  BY <1>1, ProperFrom DEF ProperClauses

\* ... and a list of clauses a list of them.
LEMMA MoreClauses ==
  ASSUME NEW S, NEW T, S \subseteq T, NEW list \in Seq(S)
  PROVE  list \in Seq(T)
BY ElementOfSeq, LenProperties, SeqDef

\* What is left of a clause has every literal once, if -m is not given.
LEMMA OnceInjective ==
  ASSUME NEW list, Len(list) \in {2, 3}, \A j \in 1..Len(list) : list[j] \in Int, ~Multilit
  PROVE  IsInjective(EachOnce(list))
<1> DEFINE third == IF Len(list) = 3 THEN Once(list, 3) ELSE <<>>
<1>0. 1 \in 1..Len(list) /\ 2 \in 1..Len(list)
  <2>1. 1 \in 1..2 /\ 2 \in 1..2 /\ 1 \in 1..3 /\ 2 \in 1..3
    OBVIOUS
  <2> QED
    BY <2>1
<1>1. ASSUME NEW j \in 1..Len(list)
      PROVE  /\ Once(list, j) \in Seq(Int) /\ IsInjective(Once(list, j))
             /\ ToSet(Once(list, j)) \subseteq {list[j]}
             /\ \A i \in 1..(j - 1) : list[i] \notin ToSet(Once(list, j))
  <2>1. CASE \E i \in 1..(j - 1) : list[i] = list[j]
    <3>1. Once(list, j) = <<>>
      BY <2>1 DEF Once
    <3>2. <<>> \in Seq(Int) /\ ToSet(Once(list, j)) = {} /\ IsInjective(Once(list, j))
      BY <3>1, FewElements, FewInjective
    <3> QED
      BY <3>1, <3>2
  <2>2. CASE ~(\E i \in 1..(j - 1) : list[i] = list[j])
    <3>1. Once(list, j) = <<list[j]>>
      BY <2>2 DEF Once
    <3>2. <<list[j]>> \in Seq(Int) /\ ToSet(<<list[j]>>) = {list[j]} /\ IsInjective(<<list[j]>>)
      BY FewElements, FewInjective
    <3>3. \A i \in 1..(j - 1) : list[i] \notin {list[j]}
      BY <2>2
    <3> QED
      BY <3>1, <3>2, <3>3
  <2> QED
    BY <2>1, <2>2
<1>2. /\ third \in Seq(Int) /\ IsInjective(third)
      /\ list[1] \notin ToSet(third) /\ list[2] \notin ToSet(third)
  <2>1. CASE Len(list) = 3
    <3>1. 3 \in 1..Len(list) /\ 1 \in 1..(3 - 1) /\ 2 \in 1..(3 - 1)
      BY <2>1
    <3>2. third = Once(list, 3)
      BY <2>1
    <3> QED
      BY <1>1, <3>1, <3>2
  <2>2. CASE Len(list) = 2
    <3>1. third = <<>>
      BY <2>2
    <3>2. <<>> \in Seq(Int) /\ ToSet(third) = {} /\ IsInjective(third)
      BY <3>1, FewElements, FewInjective
    <3> QED
      BY <3>1, <3>2
  <2> QED
    BY <2>1, <2>2
<1> HIDE DEF third
<1> DEFINE first == Once(list, 1)
           second == Once(list, 2)
<1>3. /\ first \in Seq(Int) /\ IsInjective(first) /\ ToSet(first) \subseteq {list[1]}
      /\ second \in Seq(Int) /\ IsInjective(second) /\ ToSet(second) \subseteq {list[2]}
      /\ list[1] \notin ToSet(second)
  <2>1. 1 \in 1..(2 - 1)
    OBVIOUS
  <2> QED
    BY <1>0, <1>1, <2>1
<1> HIDE DEF first, second
<1>4. first \o second \in Seq(Int) /\ ToSet(first \o second) \subseteq {list[1], list[2]}
  BY <1>3, ElementsOfConcat
<1>5. IsInjective(first \o second)
  BY <1>3, InjectiveConcat
<1> DEFINE both == first \o second
<1> HIDE DEF both
<1>6. /\ both \in Seq(Int) /\ IsInjective(both) /\ \A x \in ToSet(both) : x \notin ToSet(third)
  BY <1>2, <1>4, <1>5 DEF both
<1>7. IsInjective(both \o third)
  BY <1>2, <1>6, InjectiveConcat
<1> QED
  BY <1>7 DEF both, first, second, third, EachOnce

\* What is printed of a small clause is proper, or nothing.
LEMMA PrintClauseProper ==
  ASSUME NEW n \in Nat, NEW list, SmallClause(n, list)
  PROVE  PrintClause(list) \in Seq(ProperClauses(n))
<1>1. CASE ~Taut /\ Tautology(list)
  BY <1>1 DEF PrintClause
<1>2. CASE ~(~Taut /\ Tautology(list))
  <2> DEFINE line == EachOnce(list)
  <2>1. PrintClause(list) = <<line>>
    BY <1>2 DEF PrintClause, EachOnce
  <2>2. Len(list) \in {2, 3} /\ \A j \in 1..Len(list) : list[j] \in Int
    BY DEF LiteralsTo, SmallClause
  <2>3. line \in Seq(Int) /\ ToSet(line) = {list[j] : j \in 1..Len(list)}
    BY <2>2, OnceElements
  <2>4. Multilit \/ IsInjective(line)
    BY <2>2, OnceInjective
  <2> HIDE DEF line
  <2>5. ToSet(line) \subseteq LiteralsTo(n)
    BY <2>3 DEF SmallClause
  <2>6. Taut \/ Consistent(line)
    BY <1>2, <2>3 DEF Tautology, Consistent
  <2>7. line # <<>>
    <3>1. 1 \in 1..Len(list)
      <4>1. 1 \in 1..2 /\ 1 \in 1..3
        OBVIOUS
      <4> QED
        BY <2>2, <4>1
    <3>2. list[1] \in ToSet(line)
      BY <2>3, <3>1
    <3> QED
      BY <3>2, FewElements
  <2>8. line \in ProperClauses(n)
    BY <2>3, <2>4, <2>5, <2>6, <2>7, ProperFrom
  <2> QED
    BY <2>1, <2>8
<1> QED
  BY <1>1, <1>2

\* What is printed of the clauses of a gate is proper.
LEMMA PrintedProper ==
  ASSUME NEW n \in Nat, NEW clauses, Len(clauses) \in {3, 4},
         \A k \in 1..Len(clauses) : SmallClause(n, clauses[k])
  PROVE  Printed(clauses) \in Seq(ProperClauses(n))
<1> DEFINE last == IF Len(clauses) = 4 THEN PrintClause(clauses[4]) ELSE <<>>
           Fine == Seq(ProperClauses(n))
<1>1. \A k \in 1..Len(clauses) : PrintClause(clauses[k]) \in Fine
  BY PrintClauseProper
<1>2. 1 \in 1..Len(clauses) /\ 2 \in 1..Len(clauses) /\ 3 \in 1..Len(clauses)
  <2>1. 1 \in 1..3 /\ 2 \in 1..3 /\ 3 \in 1..3 /\ 1 \in 1..4 /\ 2 \in 1..4 /\ 3 \in 1..4
    OBVIOUS
  <2> QED
    BY <2>1
<1>3. last \in Fine
  <2>1. CASE Len(clauses) = 4
    <3>1. 4 \in 1..Len(clauses)
      BY <2>1
    <3> QED
      BY <1>1, <2>1, <3>1
  <2>2. CASE Len(clauses) # 4
    BY <2>2
  <2> QED
    BY <2>1, <2>2
<1>4. \A left, right \in Fine : left \o right \in Fine
  BY ConcatProperties
<1> HIDE DEF Fine, last
<1>5. /\ PrintClause(clauses[1]) \in Fine /\ PrintClause(clauses[2]) \in Fine
      /\ PrintClause(clauses[3]) \in Fine
  BY <1>1, <1>2
<1>6. PrintClause(clauses[1]) \o PrintClause(clauses[2]) \in Fine
  BY <1>4, <1>5
<1>7. PrintClause(clauses[1]) \o PrintClause(clauses[2]) \o PrintClause(clauses[3]) \in Fine
  BY <1>4, <1>5, <1>6
<1>8. PrintClause(clauses[1]) \o PrintClause(clauses[2]) \o PrintClause(clauses[3]) \o last \in Fine
  BY <1>3, <1>4, <1>7
<1> QED
  BY <1>8 DEF Printed, Fine, last

-----------------------------------------------------------------------------
(***************************************************************************)
(* The clauses that Brummayer prints.                                      *)
(***************************************************************************)

\* The clauses of the circuit are proper; so are the random ones, but for the last
\* while it has no literal yet.
RandomPart ==
    /\ cnf_id \in Nat \ {0} /\ num_rclauses \in Nat /\ places \in Nat
    /\ {nodes[k].cnf_id : k \in Indices} = 1..(cnf_id - 1)
    /\ \E root \in Indices : unfinished2 = {root}
    /\ cnf \in Seq(ProperClauses(cnf_id - 1) \union {<<>>})
    /\ num_clauses = Len(cnf) + num_rclauses
    /\ places > 0 => cnf # <<>>
    /\ \A k \in 1..Len(cnf) : cnf[k] = <<>> => k = Len(cnf) /\ places > 0

\* While the search runs every clause so far is proper and counted; then come the
\* random ones.
CircuitLines ==
    /\ gen \notin {"tseitin", "rclauses"} => num_clauses = 0 /\ places = 0
    /\ gen = "tseitin" =>
          /\ cnf \in Seq(ProperClauses(cnf_id - 1))
          /\ num_clauses = Len(cnf) /\ places = 0
    /\ gen = "rclauses" => RandomPart

\* Only the search prints clauses of the circuit.
LEMMA CircuitLinesGrow ==
  ASSUME IndInv, CircuitLines, AddNode \/ Combine
  PROVE  CircuitLines'
<1>1. /\ gen \in {"build", "combine"} /\ cnf' = cnf /\ cnf_id' = cnf_id
      /\ num_clauses' = num_clauses /\ places' = places
  BY DEF AddNode, Combine
<1>2. gen' \in {"build", "combine", "tseitin"}
  BY <1>1 DEF AddNode, Combine, GraphDone
<1>3. cnf = <<>> /\ num_clauses = 0 /\ places = 0
  BY <1>1 DEF IndInv, Unsearched, CircuitLines
<1>4. \A n : <<>> \in Seq(ProperClauses(n)) /\ Len(<<>>) = 0
  OBVIOUS
<1>5. cnf' \in Seq(ProperClauses(cnf_id' - 1)) /\ num_clauses' = Len(cnf') /\ places' = 0
  BY <1>1, <1>3, <1>4
<1>6. gen' # "rclauses" /\ num_clauses' = 0
  BY <1>1, <1>2, <1>3
<1>7. (ProperClauses(cnf_id - 1))' = ProperClauses(cnf_id' - 1)
  BY DEF ProperClauses, Proper
<1> QED
  BY <1>5, <1>6, <1>7 DEF CircuitLines

\* A number more for the variables does no harm to the clauses.
LEMMA NextNumber ==
  ASSUME NEW n \in Nat \ {0}, NEW list \in Seq(ProperClauses(n - 1))
  PROVE  list \in Seq(ProperClauses(n))
<1>1. ProperClauses(n - 1) \subseteq ProperClauses(n)
  <2>1. n - 1 \in Nat /\ n \in Nat /\ n - 1 <= n
    OBVIOUS
  <2> QED
    BY <2>1, MoreVariables
<1> QED
  BY <1>1, MoreClauses

\* A step of the search that prints nothing.
LEMMA CircuitLinesSearch ==
  ASSUME IndInv, CircuitLines, SkipNumbered \/ NumberInput \/ Descend
  PROVE  CircuitLines'
<1>1. /\ gen = "tseitin" /\ gen' = gen /\ cnf' = cnf /\ num_clauses' = num_clauses
      /\ places' = places /\ cnf_id' \in {cnf_id, cnf_id + 1}
  BY DEF SkipNumbered, NumberInput, Descend
<1>2. cnf \in Seq(ProperClauses(cnf_id - 1)) /\ num_clauses = Len(cnf) /\ places = 0
  BY <1>1 DEF CircuitLines
<1>3. cnf_id \in Nat \ {0}
  BY <1>1 DEF IndInv, Numbers
<1>4. cnf \in Seq(ProperClauses(cnf_id))
  BY <1>2, <1>3, NextNumber
<1>5. cnf \in Seq(ProperClauses(cnf_id' - 1))
  <2>1. CASE cnf_id' = cnf_id
    BY <1>2, <2>1
  <2>2. CASE cnf_id' = cnf_id + 1
    <3>1. cnf_id' - 1 = cnf_id
      BY <1>3, <2>2
    <3> QED
      BY <1>4, <3>1
  <2> QED
    BY <1>1, <2>1, <2>2
<1>6. (ProperClauses(cnf_id - 1))' = ProperClauses(cnf_id' - 1)
  BY DEF ProperClauses, Proper
<1> QED
  BY <1>1, <1>2, <1>5, <1>6 DEF CircuitLines

\* The clauses of a gate are over its variable and those of its operands.
LEMMA DefinitionProper ==
  ASSUME NEW n \in Nat, NEW kind \in Ops,
         NEW x \in LiteralsTo(n), NEW y \in LiteralsTo(n), NEW z \in LiteralsTo(n)
  PROVE  Printed(Definition(kind, x, y, z)) \in Seq(ProperClauses(n))
<1> DEFINE clauses == Definition(kind, x, y, z)
<1>1. -x \in LiteralsTo(n) /\ -y \in LiteralsTo(n) /\ -z \in LiteralsTo(n)
  BY Opposite
<1>2. 1..2 = {1, 2} /\ 1..3 = {1, 2, 3} /\ 1..4 = {1, 2, 3, 4}
  OBVIOUS
<1>3. \A u, v \in LiteralsTo(n) : SmallClause(n, <<u, v>>)
  BY <1>2 DEF SmallClause
<1>4. \A u, v, w \in LiteralsTo(n) : SmallClause(n, <<u, v, w>>)
  BY <1>2 DEF SmallClause
<1>5. Len(clauses) \in {3, 4} /\ \A k \in 1..Len(clauses) : SmallClause(n, clauses[k])
  <2>1. CASE kind = "and"
    <3>1. clauses = <<<<-x, y>>, <<-x, z>>, <<-y, -z, x>>>>
      BY <2>1 DEF Definition
    <3>2. SmallClause(n, <<-x, y>>) /\ SmallClause(n, <<-x, z>>) /\ SmallClause(n, <<-y, -z, x>>)
      BY <1>1, <1>3, <1>4
    <3> HIDE DEF clauses
    <3> QED
      BY <1>2, <3>1, <3>2
  <2>2. CASE kind = "or"
    <3>1. clauses = <<<<x, -y>>, <<x, -z>>, <<y, z, -x>>>>
      BY <2>2 DEF Definition
    <3>2. SmallClause(n, <<x, -y>>) /\ SmallClause(n, <<x, -z>>) /\ SmallClause(n, <<y, z, -x>>)
      BY <1>1, <1>3, <1>4
    <3> HIDE DEF clauses
    <3> QED
      BY <1>2, <3>1, <3>2
  <2>3. CASE kind = "iff"
    <3>1. clauses = <<<<-y, z, -x>>, <<y, -z, -x>>, <<-y, -z, x>>, <<y, z, x>>>>
      BY <2>3 DEF Definition
    <3>2. /\ SmallClause(n, <<-y, z, -x>>) /\ SmallClause(n, <<y, -z, -x>>)
          /\ SmallClause(n, <<-y, -z, x>>) /\ SmallClause(n, <<y, z, x>>)
      BY <1>1, <1>4
    <3> HIDE DEF clauses
    <3> QED
      BY <1>2, <3>1, <3>2
  <2> QED
    BY <2>1, <2>2, <2>3 DEF Ops
<1> HIDE DEF clauses
<1>6. Printed(clauses) \in Seq(ProperClauses(n))
  BY <1>5, PrintedProper
<1> QED
  BY <1>6 DEF clauses

\* A number below n, or its opposite.
LEMMA NumberOrOpposite ==
  ASSUME NEW n \in Nat, NEW id \in 1..n
  PROVE  id \in LiteralsTo(n) /\ -id \in LiteralsTo(n)
<1>1. id \in Int /\ id > 0 /\ -id \in Int /\ -id < 0 /\ -(-id) = id
  OBVIOUS
<1> QED
  BY <1>1 DEF LiteralsTo, AbsVal

\* A gate is printed, over its own number and those of its operands.
LEMMA CircuitLinesDefine ==
  ASSUME IndInv, CircuitLines, DefineNode
  PROVE  CircuitLines'
<1> DEFINE lines == Printed(Definition(nodes[Cur].kind, cnf_id,
                                       Operand(nodes[Cur].n0, nodes[Cur].neg_n0),
                                       Operand(nodes[Cur].n1, nodes[Cur].neg_n1)))
<1>1. /\ gen = "tseitin" /\ gen' = gen /\ stack # <<>> /\ nodes[Cur].mark = 1
      /\ cnf_id' = cnf_id + 1 /\ cnf' = cnf \o lines
      /\ num_clauses' = num_clauses + Len(lines) /\ places' = places
  BY DEF DefineNode
<1>2. Graph /\ Reaches /\ Numbers
  BY <1>1 DEF IndInv
<1>3. IsGate(Cur) /\ Operands(Cur) \subseteq Numbered
  BY <1>1, <1>2, ComesUpAgain
<1>4. Cur \in Indices
  BY <1>1, <1>2, FrontOf DEF Reaches, Cur
<1>5. PICK x \in Indices : x = Cur
  BY <1>4
<1>6. PICK n \in Nat \ {0} : n = cnf_id
  BY <1>2 DEF Numbers
<1>7. nodes[x].kind \in Ops
  <2>1. nodes[x] \in NodeType /\ nodes[x].kind # "var"
    BY <1>2, <1>3, <1>5, ElementOfSeq DEF Graph, Indices, IsGate
  <2> QED
    BY <2>1 DEF NodeType
<1>8. nodes[nodes[x].n0].cnf_id \in 1..(n - 1) /\ nodes[nodes[x].n1].cnf_id \in 1..(n - 1)
  BY <1>2, <1>3, <1>5, <1>6 DEF Numbers, Operands
<1>9. PICK i0 \in 1..n, i1 \in 1..n : i0 = nodes[nodes[x].n0].cnf_id /\ i1 = nodes[nodes[x].n1].cnf_id
  <2>1. 1..(n - 1) \subseteq 1..n
    OBVIOUS
  <2> QED
    BY <1>8, <2>1
<1>10. PICK y \in LiteralsTo(n), z \in LiteralsTo(n) :
          /\ y = Operand(nodes[x].n0, nodes[x].neg_n0)
          /\ z = Operand(nodes[x].n1, nodes[x].neg_n1)
  <2>1. i0 \in LiteralsTo(n) /\ -i0 \in LiteralsTo(n) /\ i1 \in LiteralsTo(n) /\ -i1 \in LiteralsTo(n)
    BY NumberOrOpposite
  <2> QED
    BY <1>9, <2>1 DEF Operand
<1>11. n \in LiteralsTo(n)
  BY NumberOrOpposite
<1>12. lines = Printed(Definition(nodes[x].kind, n, y, z))
  BY <1>5, <1>6, <1>10
<1> HIDE DEF lines
<1>13. lines \in Seq(ProperClauses(n))
  BY <1>7, <1>11, <1>12, DefinitionProper
<1>14. cnf \in Seq(ProperClauses(n)) /\ num_clauses = Len(cnf) /\ places = 0
  <2>1. cnf \in Seq(ProperClauses(n - 1)) /\ num_clauses = Len(cnf) /\ places = 0
    BY <1>1, <1>6 DEF CircuitLines
  <2> QED
    BY <2>1, NextNumber
<1>15. cnf' \in Seq(ProperClauses(n)) /\ Len(cnf') = Len(cnf) + Len(lines)
  BY <1>1, <1>13, <1>14, ConcatProperties
<1>16. cnf_id' - 1 = n
  BY <1>1, <1>6
<1>17. (ProperClauses(cnf_id - 1))' = ProperClauses(cnf_id' - 1)
  BY DEF ProperClauses, Proper
<1>18. cnf' \in Seq(ProperClauses(cnf_id' - 1)) /\ num_clauses' = Len(cnf') /\ places' = 0
  BY <1>1, <1>14, <1>15, <1>16
<1> QED
  BY <1>1, <1>17, <1>18 DEF CircuitLines

\* The number of random clauses.
LEMMA ShareIsNatural ==
  ASSUME NEW percent \in 0..100, NEW n \in Nat
  PROVE  RoundedShare(percent, n) \in Nat
<1>1. percent * n \in Nat
  OBVIOUS
<1>2. PICK product \in Nat : product = percent * n
  BY <1>1
<1>3. product \div 100 \in Nat
  OBVIOUS
<1> QED
  BY <1>2, <1>3 DEF RoundedShare

\* The search ended: every node has a number of 1..(cnf_id - 1).
LEMMA CircuitLinesStart ==
  ASSUME IndInv, CircuitLines, StartRClauses
  PROVE  CircuitLines'
<1>1. /\ gen = "tseitin" /\ stack = <<>> /\ gen' = "rclauses"
      /\ nodes' = nodes /\ unfinished2' = unfinished2 /\ cnf_id' = cnf_id /\ cnf' = cnf
      /\ places' = places
  BY DEF StartRClauses
<1>2. PICK percent \in Percents :
         /\ num_rclauses' = RoundedShare(percent, num_clauses)
         /\ num_clauses' = num_clauses + RoundedShare(percent, num_clauses)
  BY DEF StartRClauses
<1>3. /\ Graph /\ Reaches /\ Numbers /\ unfinished1 = {}
      /\ cnf \in Seq(ProperClauses(cnf_id - 1)) /\ num_clauses = Len(cnf) /\ places = 0
  BY <1>1 DEF IndInv, CircuitLines
<1>4. Numbered = Indices
  BY <1>1, <1>3, AllReached
<1>5. num_clauses \in Nat /\ num_rclauses' \in Nat
  <2>1. num_clauses \in Nat
    BY <1>3, LenProperties
  <2>2. percent \in 0..100
    BY CircuitAssumption
  <2> QED
    BY <1>2, <2>1, <2>2, ShareIsNatural
<1>6. /\ cnf_id \in Nat \ {0} /\ {nodes[k].cnf_id : k \in Indices} = 1..(cnf_id - 1)
      /\ \E root \in Indices : unfinished2 = {root}
  BY <1>3, <1>4 DEF Numbers, Reaches
<1>7. \A k \in 1..Len(cnf) : cnf[k] # <<>>
  <2> SUFFICES ASSUME NEW k \in 1..Len(cnf) PROVE cnf[k] # <<>>
    OBVIOUS
  <2>1. cnf[k] \in ProperClauses(cnf_id - 1)
    BY <1>3, ElementOfSeq
  <2> QED
    BY <2>1 DEF ProperClauses, Proper
<1>8. cnf \in Seq(ProperClauses(cnf_id - 1) \union {<<>>})
  <2>1. ProperClauses(cnf_id - 1) \subseteq ProperClauses(cnf_id - 1) \union {<<>>}
    OBVIOUS
  <2> QED
    BY <1>3, <2>1, MoreClauses
<1>9. (ProperClauses(cnf_id - 1))' = ProperClauses(cnf_id - 1) /\ Indices' = Indices
  BY <1>1 DEF ProperClauses, Proper, Indices
<1>10. num_clauses' = Len(cnf) + num_rclauses'
  BY <1>2, <1>3
<1>11. RandomPart'
  BY <1>1, <1>3, <1>5, <1>6, <1>7, <1>8, <1>9, <1>10 DEF RandomPart
<1> QED
  BY <1>1, <1>11 DEF CircuitLines

\* The random clause that begins is the only one without a literal.
LEMMA CircuitLinesBegin ==
  ASSUME CircuitLines, BeginRClause
  PROVE  CircuitLines'
<1>1. /\ gen = "rclauses" /\ gen' = gen /\ num_rclauses > 0 /\ places = 0
      /\ places' \in ClauseLens /\ cnf' = Append(cnf, <<>>)
      /\ num_rclauses' = num_rclauses - 1 /\ num_clauses' = num_clauses
      /\ nodes' = nodes /\ unfinished2' = unfinished2 /\ cnf_id' = cnf_id
  BY DEF BeginRClause
<1>2. RandomPart
  BY <1>1 DEF CircuitLines
<1>3. places' \in Nat /\ places' > 0 /\ num_rclauses' \in Nat
  <2>1. ClauseLens \subseteq Nat \ {0}
    BY CircuitAssumption
  <2> QED
    BY <1>1, <1>2, <2>1 DEF RandomPart
<1> DEFINE Clauses == ProperClauses(cnf_id - 1) \union {<<>>}
<1>4. cnf \in Seq(Clauses) /\ <<>> \in Clauses
  BY <1>2 DEF RandomPart
<1> HIDE DEF Clauses
<1>5. /\ cnf' \in Seq(Clauses) /\ Len(cnf) \in Nat /\ Len(cnf') = Len(cnf) + 1
      /\ \A k \in 1..Len(cnf) : cnf'[k] = cnf[k]
  BY <1>1, <1>4, AppendProperties, LenProperties
<1>6. \A k \in 1..Len(cnf') : cnf'[k] = <<>> => k = Len(cnf')
  <2> SUFFICES ASSUME NEW k \in 1..Len(cnf'), cnf'[k] = <<>>, k # Len(cnf') PROVE FALSE
    OBVIOUS
  <2>1. k \in 1..Len(cnf)
    BY <1>5
  <2>2. cnf[k] = <<>>
    BY <1>5, <2>1
  <2> QED
    BY <1>1, <1>2, <2>1, <2>2 DEF RandomPart
<1>7. (ProperClauses(cnf_id - 1))' = ProperClauses(cnf_id - 1) /\ Indices' = Indices
  BY <1>1 DEF ProperClauses, Proper, Indices
<1>8. cnf' # <<>>
  BY <1>5
<1>9. num_clauses' = Len(cnf') + num_rclauses'
  <2>1. num_clauses = Len(cnf) + num_rclauses /\ num_rclauses \in Nat
    BY <1>2 DEF RandomPart
  <2> QED
    BY <1>1, <1>5, <2>1
<1>10. (ProperClauses(cnf_id - 1) \union {<<>>})' = Clauses
  BY <1>7 DEF Clauses
<1>11. /\ cnf_id \in Nat \ {0} /\ {nodes[k].cnf_id : k \in Indices} = 1..(cnf_id - 1)
       /\ \E root \in Indices : unfinished2 = {root}
  BY <1>2 DEF RandomPart
<1>12. RandomPart'
  BY <1>1, <1>3, <1>5, <1>6, <1>7, <1>8, <1>9, <1>10, <1>11 DEF RandomPart
<1> QED
  BY <1>1, <1>12 DEF CircuitLines

\* A literal that may follow keeps the clause proper.
LEMMA MayFollowProper ==
  ASSUME NEW n \in Nat, NEW c \in ProperClauses(n) \union {<<>>}, NEW x \in LiteralsTo(n),
         MayFollow(c, x)
  PROVE  Append(c, x) \in ProperClauses(n)
<1>1. /\ c \in Seq(Int) /\ ToSet(c) \subseteq LiteralsTo(n)
      /\ Multilit \/ IsInjective(c)
      /\ Taut \/ Consistent(c)
  <2>1. CASE c = <<>>
    <3>1. <<>> \in Seq(Int) /\ ToSet(c) = {} /\ IsInjective(c)
      BY <2>1, FewElements, FewInjective
    <3> QED
      BY <2>1, <3>1 DEF Consistent
  <2>2. CASE c \in ProperClauses(n)
    <3>1. c \in Seq(Int)
      BY <2>2 DEF ProperClauses
    <3> QED
      BY <2>2, <3>1, ProperFrom
  <2> QED
    BY <2>1, <2>2
<1>2. x \in Int /\ x # 0
  BY DEF LiteralsTo
<1>3. /\ Append(c, x) \in Seq(Int) /\ Append(c, x) # <<>>
      /\ ToSet(Append(c, x)) = ToSet(c) \union {x}
      /\ IsInjective(c) /\ x \notin ToSet(c) => IsInjective(Append(c, x))
  BY <1>1, <1>2, AppendElements
<1>4. Literals(c) = ToSet(c) /\ ToSet(c) \subseteq Int
  BY <1>1, Place DEF Literals
<1>5. Multilit \/ IsInjective(Append(c, x))
  BY <1>1, <1>3, <1>4 DEF MayFollow
<1>6. Taut \/ Consistent(Append(c, x))
  <2> SUFFICES ASSUME ~Taut, NEW y \in ToSet(c) \union {x} PROVE -y \notin ToSet(c) \union {x}
    BY <1>3 DEF Consistent
  <2>1. Consistent(c) /\ -x \notin ToSet(c)
    BY <1>1, <1>4 DEF MayFollow
  <2>2. CASE y \in ToSet(c)
    <3>1. -y \notin ToSet(c)
      BY <2>1, <2>2 DEF Consistent
    <3>2. -y # x
      <4>1. y \in Int
        BY <1>4, <2>2
      <4>2. -y = x => -x = y
        BY <4>1
      <4> QED
        BY <2>1, <2>2, <4>2
    <3> QED
      BY <3>1, <3>2
  <2>3. CASE y = x
    BY <1>2, <2>1, <2>3
  <2> QED
    BY <2>2, <2>3
<1>7. ToSet(Append(c, x)) \subseteq LiteralsTo(n)
  BY <1>1, <1>3
<1> QED
  BY <1>3, <1>5, <1>6, <1>7, ProperFrom

\* The first literal may follow always.
LEMMA FirstMayFollow ==
  ASSUME NEW x PROVE MayFollow(<<>>, x)
<1>1. Literals(<<>>) = {}
  BY DEF Literals
<1> QED
  BY <1>1 DEF MayFollow

\* A literal is put on the random clause, or left out.
LEMMA CircuitLinesDraw ==
  ASSUME CircuitLines, DrawLiteral
  PROVE  CircuitLines'
<1>1. /\ gen = "rclauses" /\ gen' = gen /\ places > 0 /\ places' = places - 1
      /\ num_rclauses' = num_rclauses /\ num_clauses' = num_clauses
      /\ nodes' = nodes /\ unfinished2' = unfinished2 /\ cnf_id' = cnf_id
  BY DEF DrawLiteral
<1>2. PICK k \in 1..Len(nodes), sign \in {1, -1} :
         cnf' = IF MayFollow(cnf[Len(cnf)], sign * nodes[k].cnf_id)
                THEN Extended(sign * nodes[k].cnf_id) ELSE cnf
  BY DEF DrawLiteral
<1>3. RandomPart
  BY <1>1 DEF CircuitLines
<1>4. PICK n \in Nat : n = cnf_id - 1
  BY <1>3 DEF RandomPart
<1>5. PICK id \in 1..n : id = nodes[k].cnf_id
  BY <1>3, <1>4 DEF RandomPart, Indices
<1>6. PICK x \in LiteralsTo(n) : x = sign * nodes[k].cnf_id
  <2>1. id \in LiteralsTo(n) /\ -id \in LiteralsTo(n)
    BY NumberOrOpposite
  <2>2. sign * id = id \/ sign * id = -id
    OBVIOUS
  <2> QED
    BY <1>5, <2>1, <2>2
<1> DEFINE Clauses == ProperClauses(n) \union {<<>>}
           last == Len(cnf)
<1>7. /\ cnf \in Seq(Clauses) /\ cnf # <<>> /\ last \in Nat \ {0} /\ last \in 1..last
      /\ \A j \in 1..last : cnf[j] = <<>> => j = last
  <2>1. cnf \in Seq(Clauses) /\ cnf # <<>> /\ \A j \in 1..last : cnf[j] = <<>> => j = last
    BY <1>1, <1>3, <1>4 DEF RandomPart
  <2>2. last \in Nat \ {0}
    BY <2>1, EmptySeq, LenProperties
  <2> QED
    BY <2>1, <2>2
<1>8. PICK c \in Clauses : c = cnf[last]
  BY <1>7, ElementOfSeq
<1>9. /\ cnf' \in Seq(Clauses) /\ Len(cnf') = last
      /\ \A j \in 1..last : cnf'[j] # <<>>
  <2>1. CASE MayFollow(c, x)
    <3>1. cnf' = [cnf EXCEPT ![last] = Append(c, x)]
      BY <1>2, <1>6, <1>8, <2>1 DEF Extended
    <3>2. Append(c, x) \in ProperClauses(n)
      BY <2>1, MayFollowProper
    <3>3. Append(c, x) \in Clauses /\ Append(c, x) # <<>>
      BY <3>2 DEF ProperClauses, Proper
    <3> DEFINE longer == Append(c, x)
    <3> HIDE DEF longer, Clauses
    <3>4. cnf' \in Seq(Clauses) /\ Len(cnf') = last
      BY <1>7, <3>1, <3>3, ExceptSeq DEF longer
    <3>5. \A j \in 1..last : cnf'[j] = IF j = last THEN longer ELSE cnf[j]
      BY <1>7, <3>1, ExceptSeq DEF longer
    <3>6. longer # <<>>
      BY <3>3 DEF longer
    <3> QED
      BY <1>7, <3>4, <3>5, <3>6
  <2>2. CASE ~MayFollow(c, x)
    <3>1. cnf' = cnf
      BY <1>2, <1>6, <1>8, <2>2
    <3>2. c # <<>>
      BY <2>2, FirstMayFollow
    <3> QED
      BY <1>7, <1>8, <3>1, <3>2
  <2> QED
    BY <2>1, <2>2
<1>10. (ProperClauses(cnf_id - 1))' = ProperClauses(n) /\ Indices' = Indices
  BY <1>1, <1>4 DEF ProperClauses, Proper, Indices
<1>11. places' \in Nat
  BY <1>1, <1>3 DEF RandomPart
<1>12. cnf' # <<>>
  BY <1>7, <1>9
<1>13. num_clauses' = Len(cnf') + num_rclauses' /\ num_rclauses' \in Nat
  BY <1>1, <1>3, <1>9 DEF RandomPart
<1>14. (ProperClauses(cnf_id - 1) \union {<<>>})' = Clauses
  BY <1>10
<1>15. /\ cnf_id \in Nat \ {0} /\ {nodes[j].cnf_id : j \in Indices} = 1..(cnf_id - 1)
       /\ \E root \in Indices : unfinished2 = {root}
  BY <1>3 DEF RandomPart
<1> HIDE DEF Clauses, last
<1>16. RandomPart'
  BY <1>1, <1>9, <1>10, <1>11, <1>12, <1>13, <1>14, <1>15 DEF RandomPart
<1> QED
  BY <1>1, <1>16 DEF CircuitLines

\* While the circuit stays as it is its lines do.
LEMMA CircuitLinesStay ==
  ASSUME CircuitLines, UNCHANGED <<gen, circuit_vars>>
  PROVE  CircuitLines'
<1>1. /\ gen' = gen /\ nodes' = nodes /\ unfinished2' = unfinished2 /\ cnf_id' = cnf_id
      /\ cnf' = cnf /\ num_clauses' = num_clauses /\ num_rclauses' = num_rclauses
      /\ places' = places
  BY DEF circuit_vars
<1>2. (ProperClauses(cnf_id - 1))' = ProperClauses(cnf_id - 1) /\ Indices' = Indices
  BY <1>1 DEF ProperClauses, Proper, Indices
<1>3. RandomPart => RandomPart'
  BY <1>1, <1>2 DEF RandomPart
<1> QED
  BY <1>1, <1>2, <1>3 DEF CircuitLines

\* Every step keeps the clauses of the circuit proper.
LEMMA CircuitLinesStep ==
  ASSUME IndInv, CircuitLines, [Next]_vars
  PROVE  CircuitLines'
<1>1. CASE CallGenerator
  <2>1. gen' \notin {"tseitin", "rclauses"} /\ num_clauses' = num_clauses /\ places' = places
    BY <1>1 DEF CallGenerator, DrawInputs, circuit_vars
  <2>2. gen \notin {"tseitin", "rclauses"}
    BY <1>1 DEF CallGenerator, IndInv
  <2> QED
    BY <2>1, <2>2 DEF CircuitLines
<1>2. CASE CircuitRuns
  <2>1. CircuitStep
    BY <1>2 DEF CircuitRuns
  <2> QED
    BY <2>1, CircuitLinesGrow, CircuitLinesSearch, CircuitLinesDefine, CircuitLinesStart,
       CircuitLinesBegin, CircuitLinesDraw DEF CircuitStep
<1>3. CASE LayersRun
  BY <1>3, CircuitLinesStay DEF LayersRun
<1>4. CASE GeneratorDone \/ GeneratorSignalled
  <2>1. gen' = "idle" /\ num_clauses' = 0 /\ places' = 0
    BY <1>4 DEF GeneratorDone, GeneratorSignalled, GeneratorExits, CircuitForgotten
  <2> QED
    BY <2>1 DEF CircuitLines
<1>5. CASE PickNumNoTouch \/ AddProjection \/ AddNoTouch \/ StartWeights \/ AddWeights \/ RunPreproc
  <2>1. UNCHANGED <<gen, circuit_vars>>
    BY <1>5 DEF PickNumNoTouch, AddProjection, AddNoTouch, StartWeights, AddWeights,
                RunPreproc, FuzzStep
  <2> QED
    BY <2>1, CircuitLinesStay
<1>6. CASE UNCHANGED vars
  BY <1>6, CircuitLinesStay DEF vars
<1> QED
  BY <1>1, <1>2, <1>3, <1>4, <1>5, <1>6 DEF Next, Generator, Ended

\* The largest member of a set of numbers up to n.
LEMMA Largest ==
  ASSUME NEW n \in Nat, NEW S \in SUBSET (0..n), S # {}
  PROVE  Max(S) \in S /\ \A x \in S : x <= Max(S)
<1> DEFINE less == OpToRel(<, Nat)
           below == {n - x : x \in S}
<1>1. \A j, k \in Nat : j < k => <<j, k>> \in less
  BY DEF OpToRel
<1>2. IsWellFoundedOn(less, Nat)
  BY NatLessThanWellFounded
<1>3. below \subseteq Nat /\ below # {}
  <2>1. \A x \in S : x \in Nat /\ x <= n
    OBVIOUS
  <2>2. \A x \in S : n - x \in Nat
    BY <2>1
  <2> QED
    BY <2>2
<1> HIDE DEF less
<1>4. PICK d \in below : \A j \in below : ~(<<j, d>> \in less)
  <2> HIDE DEF below
  <2> QED
    BY <1>2, <1>3, WFMin
<1>5. PICK m \in S : d = n - m
  OBVIOUS
<1>6. \A x \in S : m >= x
  <2> SUFFICES ASSUME NEW x \in S, ~(m >= x) PROVE FALSE
    OBVIOUS
  <2>1. n - x \in below /\ n - x \in Nat /\ d \in Nat /\ n - x < d
    BY <1>5
  <2> QED
    BY <1>1, <1>4, <2>1
<1>7. \E y \in S : \A x \in S : y >= x
  BY <1>6
<1>8. Max(S) \in S /\ \A x \in S : Max(S) >= x
  BY <1>7 DEF Max
<1> QED
  BY <1>8

-----------------------------------------------------------------------------
(***************************************************************************)
(* Biere's generator.                                                      *)
(***************************************************************************)

\* A layer.
LayerType == [low : Nat, high : Nat, clauses : Nat, unused : SUBSET Int]

\* A layer has variables of its own, up to the highest.
LayersFit ==
    /\ layers \in Seq(LayerType) /\ Len(layers) \in {1, 2}
    /\ \A i \in 1..Len(layers) :
          /\ 1 <= layers[i].low /\ layers[i].low <= layers[i].high
          /\ layers[i].high <= HighestVar
          /\ \A x \in layers[i].unused : AbsVal(x) \in layers[i].low..layers[i].high

\* The loops are within their bounds.
LoopsFit ==
    /\ at \in [layer : Nat, line : Nat, len : Nat, place : Nat]
    /\ at.layer \in 1..(Len(layers) + 1)
    /\ Working => at.line <= layers[at.layer].clauses
    /\ ~Working => at.line = 0 /\ at.len = 0
    /\ at.len <= MaxLen
    /\ at.len > 0 => /\ at.place \in 1..(at.len + 1)
                     /\ at.line < layers[at.layer].clauses

\* No variable twice.
OncePerVar(list) ==
    \A i, j \in 1..Len(list) : AbsVal(list[i]) = AbsVal(list[j]) => i = j

\* The marks are those of the line so far, and the array finds them.
MarksFit ==
    /\ clause \in [1..MaxLen -> Int]
    /\ at.len = 0 => mark = {} /\ printed = <<>>
    /\ at.len > 0 =>
          /\ at.place > 1 => printed # <<>>
          /\ printed \in Seq(LiteralsTo(HighestVar))
          /\ OncePerVar(printed)
          /\ mark = {AbsVal(x) : x \in ToSet(printed)}
          /\ mark \subseteq {AbsVal(clause[k]) : k \in 1..(at.place - 1)}

\* The lines of the layers before layer i.
LinesBefore(i) ==
    (IF i > 1 THEN layers[1].clauses ELSE 0) + (IF i > 2 THEN layers[2].clauses ELSE 0)

\* The lines of a file; no check of fuzz.py's finds a blank one.
FileType ==
    [p : {NoLine} \union [pieces : {4}, vars : Nat, clauses : Nat],
     lines : Nat, max_var : Nat, type : {NoLine, "mc", "pmc", "wmc", "pwmc"},
     show : {NoLine} \union Seq(Nat), no_touch : {NoLine} \union Seq(Nat),
     weights : Seq(Int), blank : {FALSE}, cut : BOOLEAN]

\* fuzz.py has not added its lines.
Bare(f) == f.show = NoLine /\ f.no_touch = NoLine /\ f.weights = <<>>

\* The file has the lines that are complete, and nothing else.
FileSoFar ==
    /\ file \in FileType /\ Bare(file) /\ file.p = NoLine /\ file.cut = FALSE
    /\ file.lines = LinesBefore(at.layer) + at.line
    /\ file.max_var \in 0..HighestVar

\* Biere's generator at any point; no other generator writes into the file line by line.
LayerInv ==
    /\ gen = "layers" => /\ pc = "generator"
                         /\ LayersFit /\ LoopsFit /\ MarksFit /\ FileSoFar
    /\ gen # "layers" => mark = {} /\ printed = <<>>
    /\ gen # "layers" /\ pc \in {"draw", "generator"} => file = EmptyFile

\* The fields of a layer, and the number of the highest variable.
LEMMA LayerNumbers ==
  ASSUME LayersFit
  PROVE  /\ Len(layers) \in Nat /\ Len(layers) \in 1..Len(layers) /\ HighestVar \in Nat
         /\ \A i \in 1..Len(layers) : /\ layers[i] \in LayerType
                                      /\ layers[i].low \in Nat /\ layers[i].high \in Nat
                                      /\ layers[i].clauses \in Nat
                                      /\ layers[i].unused \subseteq Int
<1>1. \A i \in 1..Len(layers) : layers[i] \in LayerType
  BY ElementOfSeq DEF LayersFit
<1>2. Len(layers) \in 1..Len(layers)
  <2>1. 1 \in 1..1 /\ 2 \in 1..2
    OBVIOUS
  <2> QED
    BY <2>1 DEF LayersFit
<1> QED
  BY <1>1, <1>2 DEF LayerType, LayersFit, HighestVar

\* The layers are drawn.
LEMMA LayersDrawn ==
  ASSUME DrawLayers
  PROVE  LayersFit' /\ at' = Start /\ clause' \in [1..MaxLen -> Int]
<1>1. PICK widths \in Layouts : \E ratios \in [1..Len(widths) -> Ratios] :
          layers' = [i \in 1..Len(widths) |-> Layer(widths, i, ratios[i])]
  BY DEF DrawLayers
<1>2. PICK ratios \in [1..Len(widths) -> Ratios] :
          layers' = [i \in 1..Len(widths) |-> Layer(widths, i, ratios[i])]
  BY <1>1
<1>3. widths \in Seq(Nat \ {0}) /\ Len(widths) \in {1, 2} /\ Ratios \subseteq Nat \ {0}
  BY LayerAssumption
<1>4. \A i \in 1..Len(widths) : widths[i] \in Nat \ {0}
  BY <1>3, ElementOfSeq
<1>5. 1 \in 1..Len(widths)
  <2>1. 1 \in 1..1 /\ 1 \in 1..2
    OBVIOUS
  <2> QED
    BY <1>3, <2>1
<1> DEFINE low(i) == Before(widths, i) + 1
           high(i) == low(i) + widths[i] - 1
<1>6. ASSUME NEW i \in 1..Len(widths)
      PROVE  /\ Before(widths, i) \in Nat /\ low(i) \in Nat /\ high(i) \in Nat
             /\ 1 <= low(i) /\ low(i) <= high(i)
  <2>1. widths[1] \in Nat \ {0} /\ widths[i] \in Nat \ {0}
    BY <1>4, <1>5
  <2> QED
    BY <2>1 DEF Before
<1>7. ASSUME NEW i \in 1..Len(widths)
      PROVE  /\ layers'[i] \in LayerType
             /\ layers'[i].low = low(i) /\ layers'[i].high = high(i)
             /\ \A x \in layers'[i].unused : AbsVal(x) \in low(i)..high(i)
  <2>1. PICK m \in Nat : m = widths[i] + Before(widths, i)
    BY <1>4, <1>6
  <2>2. PICK ratio \in Nat : ratio = ratios[i]
    BY <1>3
  <2>3. (ratio * m) \div 100 \in Nat
    <3>1. PICK product \in Nat : product = ratio * m
      OBVIOUS
    <3>2. product \div 100 \in Nat
      OBVIOUS
    <3> QED
      BY <3>1, <3>2
  <2> DEFINE unused == {sign * var : sign \in {-1, 1}, var \in low(i)..high(i)}
  <2>4. layers'[i] = [low |-> low(i), high |-> high(i), clauses |-> (ratio * m) \div 100,
                      unused |-> unused]
    BY <1>2, <2>1, <2>2 DEF Layer
  <2>5. unused \subseteq Int /\ \A x \in unused : AbsVal(x) \in low(i)..high(i)
    <3> SUFFICES ASSUME NEW sign \in {-1, 1}, NEW var \in low(i)..high(i)
                 PROVE  sign * var \in Int /\ AbsVal(sign * var) \in low(i)..high(i)
      OBVIOUS
    <3>1. low(i) \in Nat /\ high(i) \in Nat /\ 1 <= low(i)
      BY <1>6
    <3> HIDE DEF low, high
    <3>2. var \in Int /\ var > 0
      BY <3>1
    <3>3. sign * var = var \/ sign * var = -var
      BY <3>2
    <3>4. -var < 0 /\ -(-var) = var /\ ~(var < 0) /\ -var \in Int
      BY <3>2
    <3> QED
      BY <3>2, <3>3, <3>4 DEF AbsVal
  <2>6. low(i) \in Nat /\ high(i) \in Nat
    BY <1>6
  <2>7. PICK share \in Nat : share = (ratio * m) \div 100
    BY <2>3
  <2> HIDE DEF low, high, unused
  <2>8. layers'[i] = [low |-> low(i), high |-> high(i), clauses |-> share, unused |-> unused]
    BY <2>4, <2>7
  <2>9. layers'[i] \in LayerType
    BY <2>5, <2>6, <2>8 DEF LayerType
  <2>10. /\ layers'[i].low = low(i) /\ layers'[i].high = high(i) /\ layers'[i].unused = unused
    BY <2>8
  <2> QED
    BY <2>5, <2>9, <2>10
<1>8. PICK n \in {1, 2} : n = Len(widths)
  BY <1>3
<1>9. layers' \in [1..n -> LayerType]
  BY <1>2, <1>7, <1>8
<1>10. layers' \in Seq(LayerType) /\ Len(layers') = n
  <2>1. layers' \in Seq(LayerType)
    BY <1>9, SeqDef
  <2>2. DOMAIN layers' = 1..n /\ DOMAIN layers' = 1..Len(layers') /\ Len(layers') \in Nat
    BY <1>9, <2>1, LenProperties
  <2> QED
    BY <2>1, <2>2
<1>11. HighestVar' = high(n)
  <2>1. n \in 1..n
    BY <1>8
  <2> QED
    BY <1>7, <1>8, <1>10, <2>1 DEF HighestVar
<1>12. \A i \in 1..n : high(i) <= high(n)
  <2>1. CASE n = 1
    <3>1. \A i \in 1..n : i = n
      BY <2>1
    <3>2. high(n) \in Nat
      BY <1>6, <1>8, <2>1
    <3> QED
      BY <3>1, <3>2
  <2>2. CASE n = 2
    <3>1. (\A i \in 1..n : i \in {1, 2}) /\ 1 \in 1..n /\ 2 \in 1..n
      BY <2>2
    <3>2. widths[1] \in Nat \ {0} /\ widths[2] \in Nat \ {0}
      BY <1>4, <1>8, <3>1
    <3>3. high(1) = widths[1] /\ high(2) = widths[1] + widths[2]
      BY <3>2 DEF Before
    <3> QED
      BY <2>2, <3>1, <3>2, <3>3
  <2> QED
    BY <1>8, <2>1, <2>2
<1>13. LayersFit'
  <2>1. ASSUME NEW i \in 1..n
        PROVE  /\ 1 <= layers'[i].low /\ layers'[i].low <= layers'[i].high
               /\ layers'[i].high <= HighestVar'
               /\ \A x \in layers'[i].unused : AbsVal(x) \in layers'[i].low..layers'[i].high
    BY <1>6, <1>7, <1>8, <1>11, <1>12
  <2> QED
    BY <1>8, <1>10, <2>1 DEF LayersFit
<1> QED
  BY <1>13, LayerAssumption DEF DrawLayers

\* What the loops and the marks see of the layers.
SameLayers ==
    /\ Len(layers') = Len(layers) /\ HighestVar' = HighestVar
    /\ \A i \in 1..Len(layers) : layers'[i].clauses = layers[i].clauses

\* One place further on.
LEMMA PlaceFits ==
  ASSUME LayersFit, LoopsFit, InClause, SameLayers, at' = [at EXCEPT !.place = @ + 1]
  PROVE  /\ LoopsFit' /\ at'.len = at.len /\ at'.len > 0 /\ at'.place = at.place + 1
         /\ at'.layer = at.layer /\ at'.line = at.line
         /\ at.place \in Nat \ {0} /\ at.place \in 1..MaxLen
<1>1. at \in [layer : Nat, line : Nat, len : Nat, place : Nat]
  BY DEF LoopsFit
<1>2. /\ at' \in [layer : Nat, line : Nat, len : Nat, place : Nat]
      /\ at'.layer = at.layer /\ at'.line = at.line /\ at'.len = at.len
      /\ at'.place = at.place + 1
  BY <1>1
<1>3. at.len > 0 /\ at.place <= at.len /\ Working
  BY DEF InClause
<1>4. at.place \in 1..(at.len + 1) /\ at.line < layers[at.layer].clauses /\ at.len <= MaxLen
  BY <1>3 DEF LoopsFit
<1>5. at.layer \in 1..Len(layers)
  BY <1>3, LayerNumbers DEF Working, LoopsFit
<1>6. Working'
  BY <1>2, <1>3 DEF Working, SameLayers
<1>7. layers'[at'.layer].clauses = layers[at.layer].clauses
  BY <1>2, <1>5 DEF SameLayers
<1>8. at'.place \in 1..(at'.len + 1) /\ at.place \in Nat \ {0} /\ at.place \in 1..MaxLen
  BY <1>1, <1>2, <1>3, <1>4, LayerAssumption
<1>9. at'.layer \in 1..(Len(layers') + 1)
  BY <1>2 DEF LoopsFit, SameLayers
<1>10. at'.line <= layers'[at'.layer].clauses
  <2>1. at.line <= layers[at.layer].clauses
    BY <1>3 DEF LoopsFit
  <2> QED
    BY <1>2, <1>7, <2>1
<1> QED
  BY <1>2, <1>3, <1>4, <1>6, <1>7, <1>8, <1>9, <1>10 DEF LoopsFit

\* A place is only passed over after a literal was printed.
LEMMA SkipFits ==
  ASSUME LayersFit, LoopsFit, MarksFit, InClause, mark # {}, SkipPlace
  PROVE  LoopsFit' /\ MarksFit' /\ at'.layer = at.layer /\ at'.line = at.line
<1>1. /\ at' = [at EXCEPT !.place = @ + 1] /\ layers' = layers /\ mark' = mark
      /\ clause' = clause /\ printed' = printed
  BY DEF SkipPlace
<1>2. SameLayers /\ HighestVar' = HighestVar
  BY <1>1 DEF SameLayers, HighestVar
<1>3. /\ LoopsFit' /\ at'.len = at.len /\ at'.len > 0 /\ at'.place = at.place + 1
      /\ at'.layer = at.layer /\ at'.line = at.line
      /\ at.place \in Nat \ {0}
  BY <1>1, <1>2, PlaceFits
<1>4. /\ printed \in Seq(LiteralsTo(HighestVar)) /\ OncePerVar(printed)
      /\ mark = {AbsVal(x) : x \in ToSet(printed)}
      /\ mark \subseteq {AbsVal(clause[k]) : k \in 1..(at.place - 1)}
      /\ clause \in [1..MaxLen -> Int]
  BY <1>3 DEF MarksFit
<1>5. printed # <<>>
  <2>1. ToSet(printed) # {}
    BY <1>4
  <2> QED
    BY <2>1, FewElements
<1>6. mark \subseteq {AbsVal(clause[k]) : k \in 1..(at'.place - 1)}
  <2>1. 1..(at.place - 1) \subseteq 1..(at'.place - 1)
    BY <1>3
  <2> QED
    BY <1>4, <2>1
<1>7. OncePerVar(printed)'
  BY <1>1, <1>4 DEF OncePerVar
<1>8. ~(at'.len = 0)
  BY <1>3
<1>9. MarksFit'
  BY <1>1, <1>2, <1>4, <1>5, <1>6, <1>7, <1>8 DEF MarksFit
<1> QED
  BY <1>3, <1>9

\* A literal whose variable is not marked is put on the line.
LEMMA PutFits ==
  ASSUME LayersFit, LoopsFit, MarksFit, InClause, SameLayers,
         NEW lit \in LiteralsTo(HighestVar), AbsVal(lit) \notin mark, Put(lit)
  PROVE  LoopsFit' /\ MarksFit' /\ at'.layer = at.layer /\ at'.line = at.line
<1>1. /\ clause' = [clause EXCEPT ![at.place] = lit]
      /\ mark' = mark \union {AbsVal(lit)}
      /\ printed' = Append(printed, lit)
      /\ at' = [at EXCEPT !.place = @ + 1]
  BY DEF Put
<1>2. /\ LoopsFit' /\ at'.len = at.len /\ at'.len > 0 /\ at'.place = at.place + 1
      /\ at'.layer = at.layer /\ at'.line = at.line
      /\ at.place \in Nat \ {0} /\ at.place \in 1..MaxLen
  BY <1>1, PlaceFits
<1>3. PICK n \in Nat : n = HighestVar
  BY LayerNumbers
<1>4. /\ printed \in Seq(LiteralsTo(n)) /\ OncePerVar(printed)
      /\ mark = {AbsVal(x) : x \in ToSet(printed)}
      /\ mark \subseteq {AbsVal(clause[k]) : k \in 1..(at.place - 1)}
      /\ clause \in [1..MaxLen -> Int]
  BY <1>2, <1>3 DEF MarksFit
<1>5. lit \in LiteralsTo(n) /\ lit \in Int
  BY <1>3 DEF LiteralsTo
<1>6. /\ printed' \in Seq(LiteralsTo(n)) /\ printed' # <<>>
      /\ ToSet(printed') = ToSet(printed) \union {lit}
  BY <1>1, <1>4, <1>5, AppendElements
<1>7. /\ Len(printed) \in Nat /\ Len(printed') = Len(printed) + 1
      /\ \A k \in 1..Len(printed) : printed'[k] = printed[k]
      /\ printed'[Len(printed) + 1] = lit
  BY <1>1, <1>4, <1>5, AppendProperties, LenProperties
<1>8. \A k \in 1..Len(printed) : AbsVal(printed[k]) # AbsVal(lit)
  <2>1. \A k \in 1..Len(printed) : printed[k] \in ToSet(printed)
    BY <1>4, Place
  <2>2. \A k \in 1..Len(printed) : AbsVal(printed[k]) \in mark
    BY <1>4, <2>1
  <2> QED
    BY <2>2
<1>9. OncePerVar(printed')
  <2> SUFFICES ASSUME NEW i \in 1..Len(printed'), NEW j \in 1..Len(printed'),
                      AbsVal(printed'[i]) = AbsVal(printed'[j])
               PROVE  i = j
    BY DEF OncePerVar
  <2>1. /\ i \in 1..Len(printed) \/ i = Len(printed) + 1
        /\ j \in 1..Len(printed) \/ j = Len(printed) + 1
    BY <1>7
  <2>2. CASE i \in 1..Len(printed) /\ j \in 1..Len(printed)
    BY <1>4, <1>7, <2>2 DEF OncePerVar
  <2>3. CASE i \in 1..Len(printed) /\ j = Len(printed) + 1
    <3>1. AbsVal(printed[i]) = AbsVal(lit)
      BY <1>7, <2>3
    <3> QED
      BY <1>8, <2>3, <3>1
  <2>4. CASE j \in 1..Len(printed) /\ i = Len(printed) + 1
    <3>1. AbsVal(printed[j]) = AbsVal(lit)
      BY <1>7, <2>4
    <3> QED
      BY <1>8, <2>4, <3>1
  <2> QED
    BY <2>1, <2>2, <2>3, <2>4
<1>10. mark' = {AbsVal(x) : x \in ToSet(printed')}
  BY <1>1, <1>4, <1>6
<1>11. clause' \in [1..MaxLen -> Int] /\ clause'[at.place] = lit
       /\ \A k \in 1..(at.place - 1) : clause'[k] = clause[k]
  <2>1. \A k \in 1..(at.place - 1) : k # at.place
    BY <1>2
  <2>2. \A k \in 1..(at.place - 1) : k \in 1..MaxLen
    BY <1>2, LayerAssumption
  <2> QED
    BY <1>1, <1>2, <1>4, <1>5, <2>1, <2>2
<1>12. mark' \subseteq {AbsVal(clause'[k]) : k \in 1..(at'.place - 1)}
  <2>1. /\ at.place \in 1..(at'.place - 1)
        /\ \A k \in 1..(at.place - 1) : k \in 1..(at'.place - 1)
    BY <1>2
  <2>2. AbsVal(lit) \in {AbsVal(clause'[k]) : k \in 1..(at'.place - 1)}
    BY <1>11, <2>1
  <2>3. mark \subseteq {AbsVal(clause'[k]) : k \in 1..(at'.place - 1)}
    <3> SUFFICES ASSUME NEW v \in mark PROVE v \in {AbsVal(clause'[k]) : k \in 1..(at'.place - 1)}
      OBVIOUS
    <3>1. PICK k \in 1..(at.place - 1) : v = AbsVal(clause[k])
      BY <1>4
    <3>2. clause'[k] = clause[k] /\ k \in 1..(at'.place - 1)
      BY <1>11, <2>1
    <3> QED
      BY <3>1, <3>2
  <2> QED
    BY <1>1, <2>2, <2>3
<1>13. ~(at'.len = 0) /\ HighestVar' = n
  BY <1>2, <1>3 DEF SameLayers
<1>14. OncePerVar(printed)'
  BY <1>9 DEF OncePerVar
<1>15. MarksFit'
  BY <1>6, <1>10, <1>11, <1>12, <1>13, <1>14 DEF MarksFit
<1> QED
  BY <1>2, <1>15

\* The literals of a layer are over variables there are.
LEMMA LayerLiterals ==
  ASSUME LayersFit, NEW i \in 1..Len(layers)
  PROVE  /\ layers[i].unused \subseteq LiteralsTo(HighestVar)
         /\ \A var \in layers[i].low..layers[i].high, sign \in {1, -1} :
               /\ sign * var \in LiteralsTo(HighestVar) /\ AbsVal(sign * var) = var
<1>1. PICK n \in Nat, low \in Nat, high \in Nat :
         /\ n = HighestVar /\ low = layers[i].low /\ high = layers[i].high
         /\ 1 <= low /\ low <= high /\ high <= n
  BY LayerNumbers DEF LayersFit
<1>2. \A x \in layers[i].unused : x \in Int /\ AbsVal(x) \in low..high
  BY <1>1, LayerNumbers DEF LayersFit
<1>3. low..high \subseteq 1..n
  BY <1>1
<1>4. layers[i].unused \subseteq LiteralsTo(n)
  <2> SUFFICES ASSUME NEW x \in layers[i].unused PROVE x \in LiteralsTo(n)
    OBVIOUS
  <2>1. x \in Int /\ AbsVal(x) \in 1..n
    BY <1>2, <1>3
  <2> QED
    BY <2>1 DEF LiteralsTo, AbsVal
<1>5. ASSUME NEW var \in low..high, NEW sign \in {1, -1}
      PROVE  sign * var \in LiteralsTo(n) /\ AbsVal(sign * var) = var
  <2>1. var \in 1..n
    BY <1>3
  <2>2. var \in LiteralsTo(n) /\ -var \in LiteralsTo(n)
    <3>1. var \in Int /\ var > 0 /\ -var \in Int /\ -var < 0 /\ -(-var) = var
      BY <2>1
    <3> QED
      BY <2>1, <3>1 DEF LiteralsTo, AbsVal
  <2>3. (sign * var = var \/ sign * var = -var) /\ AbsVal(var) = var /\ AbsVal(-var) = var
    <3>1. var \in Int /\ var > 0 /\ -var < 0 /\ -(-var) = var
      BY <2>1
    <3>2. sign * var = var \/ sign * var = -var
      BY <3>1
    <3> QED
      BY <3>1, <3>2 DEF AbsVal
  <2> QED
    BY <2>2, <2>3
<1> QED
  BY <1>1, <1>4, <1>5

\* The lines that are complete.
LinesSoFar == LinesBefore(at.layer) + at.line

\* The loops over layers and clauses are where they were.
LEMMA LinesStay ==
  ASSUME LayersFit, LoopsFit, SameLayers, at'.layer = at.layer, at'.line = at.line
  PROVE  LinesSoFar' = LinesSoFar
<1>1. at.layer \in Nat /\ at.layer <= Len(layers) + 1 /\ Len(layers) \in {1, 2}
  BY DEF LoopsFit, LayersFit
<1>2. at.layer > 1 => layers'[1].clauses = layers[1].clauses
  <2>1. 1 \in 1..Len(layers)
    <3>1. 1 \in 1..1 /\ 1 \in 1..2
      OBVIOUS
    <3> QED
      BY <1>1, <3>1
  <2> QED
    BY <2>1 DEF SameLayers
<1>3. at.layer > 2 => layers'[2].clauses = layers[2].clauses
  <2> HAVE at.layer > 2
  <2>1. 2 \in 1..Len(layers)
    BY <1>1
  <2> QED
    BY <2>1 DEF SameLayers
<1> QED
  BY <1>2, <1>3 DEF LinesSoFar, LinesBefore

\* A literal is taken from those not used yet.
LEMMA UnusedTaken ==
  ASSUME LayersFit, NEW i \in 1..Len(layers), NEW lit,
         layers' = [layers EXCEPT ![i].unused = @ \ {lit}]
  PROVE  LayersFit' /\ SameLayers
<1>1. layers \in Seq(LayerType) /\ layers[i] \in LayerType
  BY LayerNumbers DEF LayersFit
<1>2. PICK layer \in LayerType : layer = [layers[i] EXCEPT !.unused = @ \ {lit}]
  BY <1>1 DEF LayerType
<1>3. layers' = [layers EXCEPT ![i] = layer]
  BY <1>2
<1>4. layers' \in Seq(LayerType) /\ Len(layers') = Len(layers)
  BY <1>1, <1>2, <1>3, ExceptSeq
<1>5. \A j \in 1..Len(layers) : layers'[j] = IF j = i THEN layer ELSE layers[j]
  <2>1. DOMAIN layers = 1..Len(layers)
    BY <1>1, LenProperties
  <2> QED
    BY <1>3, <2>1
<1>6. \A j \in 1..Len(layers) :
         /\ layers'[j].low = layers[j].low /\ layers'[j].high = layers[j].high
         /\ layers'[j].clauses = layers[j].clauses
         /\ layers'[j].unused \subseteq layers[j].unused
  <2>1. /\ layer.low = layers[i].low /\ layer.high = layers[i].high
        /\ layer.clauses = layers[i].clauses /\ layer.unused \subseteq layers[i].unused
    BY <1>1, <1>2 DEF LayerType
  <2> QED
    BY <1>5, <2>1
<1>7. HighestVar' = HighestVar
  BY <1>4, <1>6, LayerNumbers DEF HighestVar
<1>8. LayersFit'
  BY <1>4, <1>6, <1>7 DEF LayersFit
<1> QED
  BY <1>4, <1>6, <1>7, <1>8 DEF SameLayers

\* Nothing changes in the layers.
LEMMA SameIfUnchanged ==
  ASSUME layers' = layers
  PROVE  SameLayers /\ (LayersFit => LayersFit')
<1>1. HighestVar' = HighestVar
  BY DEF HighestVar
<1> QED
  BY <1>1 DEF SameLayers, LayersFit

\* The loops, the layers and the marks together.
Fits == LayersFit /\ LoopsFit /\ MarksFit

\* A literal is drawn.
LEMMA DrawFits ==
  ASSUME Fits, DrawUnused \/ DrawAny
  PROVE  Fits' /\ HighestVar' = HighestVar /\ LinesSoFar' = LinesSoFar /\ ~LineDone
<1>1. InClause /\ Working /\ at.len > 0
  BY DEF DrawUnused, DrawAny, InClause
<1>2. ~LineDone
  <2>1. at.place <= at.len /\ at.place \in Nat /\ at.len \in Nat
    BY <1>1 DEF InClause, Fits, LoopsFit
  <2> QED
    BY <2>1 DEF LineDone
<1>3. 1..at.layer \subseteq 1..Len(layers)
  <2>1. at.layer \in Nat /\ at.layer <= Len(layers) /\ Len(layers) \in Nat
    BY <1>1, LayerNumbers DEF Working, Fits, LoopsFit
  <2> QED
    BY <2>1
<1>4. CASE DrawUnused
  <2>0. PICK i \in 1..at.layer : \E lit \in layers[i].unused :
           IF AbsVal(lit) \in mark THEN SkipPlace
           ELSE Put(lit) /\ layers' = [layers EXCEPT ![i].unused = @ \ {lit}]
    BY <1>4 DEF DrawUnused
  <2>1. PICK lit \in layers[i].unused :
           IF AbsVal(lit) \in mark THEN SkipPlace
           ELSE Put(lit) /\ layers' = [layers EXCEPT ![i].unused = @ \ {lit}]
    BY <2>0
  <2>2. i \in 1..Len(layers)
    BY <1>3
  <2>3. CASE AbsVal(lit) \in mark
    <3>1. SkipPlace /\ mark # {} /\ layers' = layers
      BY <2>1, <2>3 DEF SkipPlace
    <3>2. LoopsFit' /\ MarksFit' /\ at'.layer = at.layer /\ at'.line = at.line
      BY <1>1, <3>1, SkipFits DEF Fits
    <3>3. SameLayers /\ LayersFit'
      BY <3>1, SameIfUnchanged DEF Fits
    <3> QED
      BY <1>2, <3>2, <3>3, LinesStay DEF Fits, SameLayers
  <2>4. CASE AbsVal(lit) \notin mark
    <3>1. Put(lit) /\ layers' = [layers EXCEPT ![i].unused = @ \ {lit}]
      BY <2>1, <2>4
    <3>2. LayersFit' /\ SameLayers
      BY <2>2, <3>1, UnusedTaken DEF Fits
    <3>3. lit \in LiteralsTo(HighestVar)
      BY <2>2, LayerLiterals DEF Fits
    <3>4. LoopsFit' /\ MarksFit' /\ at'.layer = at.layer /\ at'.line = at.line
      BY <1>1, <2>4, <3>1, <3>2, <3>3, PutFits DEF Fits
    <3> QED
      BY <1>2, <3>2, <3>4, LinesStay DEF Fits, SameLayers
  <2> QED
    BY <2>3, <2>4
<1>5. CASE DrawAny
  <2>1. PICK i \in 1..at.layer : \E var \in layers[i].low..layers[i].high :
           IF var \in mark THEN SkipPlace
           ELSE \E sign \in {1, -1} : Put(sign * var) /\ UNCHANGED layers
    BY <1>5 DEF DrawAny
  <2>2. PICK var \in layers[i].low..layers[i].high :
           IF var \in mark THEN SkipPlace
           ELSE \E sign \in {1, -1} : Put(sign * var) /\ UNCHANGED layers
    BY <2>1
  <2>3. i \in 1..Len(layers)
    BY <1>3
  <2>4. layers' = layers
    BY <2>2 DEF SkipPlace
  <2>5. SameLayers /\ LayersFit'
    BY <2>4, SameIfUnchanged DEF Fits
  <2>6. CASE var \in mark
    <3>1. SkipPlace /\ mark # {}
      BY <2>2, <2>6
    <3>2. LoopsFit' /\ MarksFit' /\ at'.layer = at.layer /\ at'.line = at.line
      BY <1>1, <3>1, SkipFits DEF Fits
    <3> QED
      BY <1>2, <2>5, <3>2, LinesStay DEF Fits, SameLayers
  <2>7. CASE var \notin mark
    <3>1. PICK sign \in {1, -1} : Put(sign * var)
      BY <2>2, <2>7
    <3>2. sign * var \in LiteralsTo(HighestVar) /\ AbsVal(sign * var) = var
      BY <2>3, LayerLiterals DEF Fits
    <3> DEFINE lit == sign * var
    <3>3. lit \in LiteralsTo(HighestVar) /\ AbsVal(lit) \notin mark /\ Put(lit)
      BY <2>7, <3>1, <3>2
    <3> HIDE DEF lit
    <3>4. LoopsFit' /\ MarksFit' /\ at'.layer = at.layer /\ at'.line = at.line
      BY <1>1, <2>5, <3>3, PutFits DEF Fits
    <3> QED
      BY <1>2, <2>5, <3>4, LinesStay DEF Fits, SameLayers
  <2> QED
    BY <2>6, <2>7
<1> QED
  BY <1>4, <1>5

\* A clause begins.
LEMMA BeginFits ==
  ASSUME Fits, BeginClause
  PROVE  Fits' /\ HighestVar' = HighestVar /\ LinesSoFar' = LinesSoFar /\ ~LineDone
<1>1. PICK l \in MinLen..MaxLen : at' = [at EXCEPT !.len = l, !.place = 1]
  BY DEF BeginClause
<1>2. /\ Working /\ at.line < layers[at.layer].clauses /\ at.len = 0
      /\ layers' = layers /\ mark' = mark /\ clause' = clause /\ printed' = printed
  BY DEF BeginClause
<1>3. SameLayers /\ LayersFit'
  BY <1>2, SameIfUnchanged DEF Fits
<1>4. l \in Nat /\ l > 0 /\ l <= MaxLen
  BY LayerAssumption
<1>5. at \in [layer : Nat, line : Nat, len : Nat, place : Nat]
  BY DEF Fits, LoopsFit
<1>6. /\ at' \in [layer : Nat, line : Nat, len : Nat, place : Nat]
      /\ at'.layer = at.layer /\ at'.line = at.line /\ at'.len = l /\ at'.place = 1
  BY <1>1, <1>4, <1>5
<1>7. Working'
  BY <1>2, <1>6 DEF Working
<1>8. at'.place \in 1..(at'.len + 1)
  BY <1>4, <1>6
<1>9. at'.layer \in 1..(Len(layers') + 1)
  BY <1>2, <1>6 DEF Fits, LoopsFit
<1>10. at'.line < layers'[at'.layer].clauses /\ at'.line <= layers'[at'.layer].clauses
  BY <1>2, <1>6 DEF Fits, LoopsFit
<1>11. LoopsFit'
  BY <1>4, <1>6, <1>7, <1>8, <1>9, <1>10 DEF LoopsFit
<1>12. mark = {} /\ printed = <<>> /\ clause \in [1..MaxLen -> Int]
  BY <1>2 DEF Fits, MarksFit
<1>13. MarksFit'
  <2>1. ~(at'.place > 1) /\ ~(at'.len = 0)
    BY <1>4, <1>6
  <2>2. printed' \in Seq(LiteralsTo(HighestVar')) /\ OncePerVar(printed)'
    BY <1>2, <1>12 DEF OncePerVar
  <2>3. mark' = {AbsVal(x) : x \in ToSet(printed')}
    BY <1>2, <1>12, FewElements
  <2>4. mark' \subseteq {AbsVal(clause'[k]) : k \in 1..(at'.place - 1)}
    BY <1>2, <1>12
  <2>5. clause' \in [1..MaxLen -> Int]
    BY <1>2, <1>12
  <2> QED
    BY <2>1, <2>2, <2>3, <2>4, <2>5 DEF MarksFit
<1>14. LinesSoFar' = LinesSoFar
  BY <1>3, <1>6, LinesStay DEF Fits
<1> QED
  BY <1>2, <1>3, <1>11, <1>13, <1>14 DEF Fits, SameLayers, LineDone

\* A layer has all its clauses.
LEMMA NextLayerFits ==
  ASSUME Fits, NextLayer
  PROVE  Fits' /\ HighestVar' = HighestVar /\ LinesSoFar' = LinesSoFar /\ ~LineDone
<1>1. /\ Working /\ at.line = layers[at.layer].clauses
      /\ at' = [Start EXCEPT !.layer = at.layer + 1]
      /\ layers' = layers /\ mark' = mark /\ clause' = clause /\ printed' = printed
  BY DEF NextLayer
<1>2. SameLayers /\ LayersFit'
  BY <1>1, SameIfUnchanged DEF Fits
<1>3. /\ at'.layer = at.layer + 1 /\ at'.line = 0 /\ at'.len = 0 /\ at'.place = 0
      /\ at' \in [layer : Nat, line : Nat, len : Nat, place : Nat]
      /\ at.layer \in Nat /\ at.len \in Nat /\ at.line \in Nat
  BY <1>1 DEF Start, Fits, LoopsFit
<1>4. at.layer \in 1..Len(layers) /\ Len(layers) \in {1, 2}
  BY <1>1, LayerNumbers DEF Working, Fits, LoopsFit, LayersFit
<1>5. layers[at.layer].clauses \in Nat
  BY <1>4, LayerNumbers DEF Fits
<1>6. at.len = 0
  <2> SUFFICES ASSUME at.len > 0 PROVE FALSE
    BY <1>3
  <2>1. at.line < layers[at.layer].clauses
    BY DEF Fits, LoopsFit
  <2> QED
    BY <1>1, <1>5, <2>1
<1>7. Working' => at'.line <= layers'[at'.layer].clauses
  <2> HAVE Working'
  <2>1. at'.layer \in 1..Len(layers)
    BY <1>1, <1>3, <1>4 DEF Working
  <2>2. layers[at'.layer].clauses \in Nat
    BY <2>1, LayerNumbers DEF Fits
  <2> QED
    BY <1>1, <1>3, <2>2
<1>8. LoopsFit'
  <2>1. at'.layer \in 1..(Len(layers') + 1)
    BY <1>1, <1>3, <1>4
  <2>2. at'.len <= MaxLen /\ ~(at'.len > 0)
    BY <1>3, LayerAssumption
  <2> QED
    BY <1>3, <1>7, <2>1, <2>2 DEF LoopsFit
<1>9. MarksFit'
  <2>1. mark' = {} /\ printed' = <<>> /\ clause' \in [1..MaxLen -> Int]
    BY <1>1, <1>6 DEF Fits, MarksFit
  <2>2. ~(at'.len > 0)
    BY <1>3
  <2> QED
    BY <2>1, <2>2 DEF MarksFit
<1>10. LinesSoFar' = LinesSoFar
  <2>1. layers'[1] = layers[1] /\ layers'[2] = layers[2]
    BY <1>1
  <2>2. at.layer = 1 \/ at.layer = 2
    <3>1. PICK n \in {1, 2} : n = Len(layers)
      BY <1>4
    <3>2. at.layer \in 1..n
      BY <1>4, <3>1
    <3> QED
      BY <3>2
  <2>3. CASE at.layer = 1
    <3>1. at'.layer = 2 /\ LinesSoFar' = layers[1].clauses + 0 + 0 /\ LinesSoFar = 0 + 0 + at.line
      BY <1>3, <2>1, <2>3 DEF LinesSoFar, LinesBefore
    <3> QED
      BY <1>1, <1>3, <1>5, <2>3, <3>1
  <2>4. CASE at.layer = 2
    <3>1. 1 \in 1..Len(layers)
      BY <1>4
    <3>2. layers[1].clauses \in Nat
      BY <3>1, LayerNumbers DEF Fits
    <3>3. /\ LinesSoFar' = layers[1].clauses + layers[2].clauses + 0
          /\ LinesSoFar = layers[1].clauses + 0 + at.line
      BY <1>3, <2>1, <2>4 DEF LinesSoFar, LinesBefore
    <3> QED
      BY <1>1, <1>3, <1>5, <2>4, <3>2, <3>3
  <2> QED
    BY <2>2, <2>3, <2>4
<1>11. ~LineDone
  BY <1>6 DEF LineDone
<1> QED
  BY <1>2, <1>8, <1>9, <1>10, <1>11 DEF Fits, SameLayers

\* A clause ends, and the marks are taken back.
LEMMA EndClauseFits ==
  ASSUME Fits, EndClause
  PROVE  Fits' /\ HighestVar' = HighestVar /\ LinesSoFar' = LinesSoFar + 1 /\ LineDone
<1>1. /\ LineDone /\ Working /\ at.len > 0 /\ at.place > at.len
      /\ mark' = mark \ {AbsVal(clause[k]) : k \in 1..at.len}
      /\ printed' = <<>> /\ at' = [at EXCEPT !.line = @ + 1, !.len = 0, !.place = 0]
      /\ layers' = layers /\ clause' = clause
  BY DEF EndClause, LineDone, ClearMarks
<1>2. SameLayers /\ LayersFit'
  BY <1>1, SameIfUnchanged DEF Fits
<1>3. /\ at \in [layer : Nat, line : Nat, len : Nat, place : Nat]
      /\ at.place \in 1..(at.len + 1) /\ at.line < layers[at.layer].clauses
      /\ at.layer \in 1..(Len(layers) + 1)
  BY <1>1 DEF Fits, LoopsFit
<1>4. /\ at'.layer = at.layer /\ at'.line = at.line + 1 /\ at'.len = 0 /\ at'.place = 0
      /\ at' \in [layer : Nat, line : Nat, len : Nat, place : Nat]
  <2>1. at' = [at EXCEPT !.line = @ + 1, !.len = 0, !.place = 0]
    BY <1>1
  <2>2. at.layer \in Nat /\ at.line + 1 \in Nat
    BY <1>3
  <2> QED
    BY <1>3, <2>1, <2>2
<1>5. layers[at.layer].clauses \in Nat
  <2>1. at.layer \in 1..Len(layers)
    BY <1>1, <1>3, LayerNumbers DEF Working, Fits
  <2> QED
    BY <2>1, LayerNumbers DEF Fits
<1>6. LoopsFit'
  <2>1. at'.line <= layers'[at'.layer].clauses
    BY <1>1, <1>3, <1>4, <1>5
  <2>2. Working' /\ at'.layer \in 1..(Len(layers') + 1)
    BY <1>1, <1>3, <1>4 DEF Working
  <2>3. at'.len <= MaxLen /\ ~(at'.len > 0)
    BY <1>4, LayerAssumption
  <2> QED
    BY <1>4, <2>1, <2>2, <2>3 DEF LoopsFit
<1>7. mark' = {}
  <2>1. at.place - 1 = at.len
    BY <1>1, <1>3
  <2>2. mark \subseteq {AbsVal(clause[k]) : k \in 1..at.len}
    BY <1>1, <2>1 DEF Fits, MarksFit
  <2> QED
    BY <1>1, <2>2
<1>8. MarksFit'
  <2>1. clause' \in [1..MaxLen -> Int] /\ ~(at'.len > 0)
    BY <1>1, <1>4 DEF Fits, MarksFit
  <2> QED
    BY <1>1, <1>7, <2>1 DEF MarksFit
<1>9. LinesSoFar' = LinesSoFar + 1
  <2>1. PICK n \in Nat : n = LinesBefore(at.layer)
    <3>1. at.layer > 1 => layers[1].clauses \in Nat
      <4>1. 1 \in 1..Len(layers)
        <5>1. 1 \in 1..1 /\ 1 \in 1..2
          OBVIOUS
        <5> QED
          BY <5>1 DEF Fits, LayersFit
      <4> QED
        BY <4>1, LayerNumbers DEF Fits
    <3>2. ~(at.layer > 2)
      BY <1>1, <1>3, LayerNumbers DEF Working, Fits, LayersFit
    <3> QED
      BY <3>1, <3>2 DEF LinesBefore
  <2>2. LinesBefore(at.layer)' = n
    BY <1>1, <1>4, <2>1 DEF LinesBefore
  <2> QED
    BY <1>3, <1>4, <2>1, <2>2 DEF LinesSoFar
<1> QED
  BY <1>1, <1>2, <1>6, <1>8, <1>9 DEF Fits, SameLayers

\* A line that ends is counted, and its variables are.
LEMMA FileGrows ==
  ASSUME Fits, FileSoFar, LineDone, HighestVar' = HighestVar, LinesSoFar' = LinesSoFar + 1,
         file' = [file EXCEPT !.lines = @ + 1,
                              !.max_var = Max({@} \union {AbsVal(x) : x \in ToSet(printed)})]
  PROVE  FileSoFar'
<1>1. PICK n \in Nat : n = HighestVar
  BY LayerNumbers DEF Fits
<1>2. /\ file \in FileType /\ Bare(file) /\ file.p = NoLine /\ file.cut = FALSE
      /\ file.lines = LinesSoFar /\ file.max_var \in 0..n
  BY <1>1 DEF FileSoFar, LinesSoFar
<1>3. printed \in Seq(LiteralsTo(n))
  <2>1. at.len > 0
    BY DEF LineDone
  <2> QED
    BY <1>1, <2>1 DEF Fits, MarksFit
<1> DEFINE vars_seen == {file.max_var} \union {AbsVal(x) : x \in ToSet(printed)}
<1>4. vars_seen \in SUBSET (0..n) /\ vars_seen # {}
  <2>1. ToSet(printed) \subseteq LiteralsTo(n)
    BY <1>3, Place
  <2>2. \A x \in ToSet(printed) : AbsVal(x) \in 0..n
    BY <2>1 DEF LiteralsTo
  <2> QED
    BY <1>2, <2>2
<1>5. PICK m \in 0..n : m = Max(vars_seen)
  BY <1>4, Largest
<1> HIDE DEF vars_seen
<1>6. file' = [file EXCEPT !.lines = @ + 1, !.max_var = m]
  BY <1>5 DEF vars_seen
<1>7. /\ file' \in FileType /\ file'.p = NoLine /\ file'.cut = FALSE
      /\ file'.show = file.show /\ file'.no_touch = file.no_touch /\ file'.weights = file.weights
      /\ file'.lines = LinesSoFar + 1 /\ file'.max_var = m
  <2>1. file.lines \in Nat
    BY <1>2 DEF FileType
  <2>2. PICK k \in Nat : k = file.lines + 1
    BY <2>1
  <2>3. file' = [file EXCEPT !.lines = k, !.max_var = m]
    BY <1>6, <2>2
  <2>4. m \in Nat
    BY <1>1
  <2>5. /\ file' \in FileType /\ file'.p = file.p /\ file'.cut = file.cut
        /\ file'.show = file.show /\ file'.no_touch = file.no_touch
        /\ file'.weights = file.weights /\ file'.lines = k /\ file'.max_var = m
    BY <1>2, <2>3, <2>4 DEF FileType
  <2> QED
    BY <1>2, <2>2, <2>5
<1>8. Bare(file)'
  BY <1>2, <1>7 DEF Bare
<1> QED
  BY <1>1, <1>5, <1>7, <1>8 DEF FileSoFar, LinesSoFar

\* The file stays as it is until the line ends.
LEMMA FileStays ==
  ASSUME FileSoFar, HighestVar' = HighestVar, LinesSoFar' = LinesSoFar, file' = file
  PROVE  FileSoFar'
BY DEF FileSoFar, LinesSoFar, Bare

\* Biere's generator makes a step.
LEMMA LayerInvRuns ==
  ASSUME LayerInv, LayersRun
  PROVE  LayerInv'
<1>1. /\ gen = "layers" /\ gen' = gen /\ pc' = pc /\ LayerStep
      /\ file' = IF LineDone
                 THEN [file EXCEPT !.lines = @ + 1,
                                   !.max_var = Max({@} \union {AbsVal(x) : x \in ToSet(printed)})]
                 ELSE file
  BY DEF LayersRun
<1>2. pc = "generator" /\ Fits /\ FileSoFar
  BY <1>1 DEF LayerInv, Fits
<1>3. CASE EndClause
  <2>1. Fits' /\ HighestVar' = HighestVar /\ LinesSoFar' = LinesSoFar + 1 /\ LineDone
    BY <1>2, <1>3, EndClauseFits
  <2>2. file' = [file EXCEPT !.lines = @ + 1,
                             !.max_var = Max({@} \union {AbsVal(x) : x \in ToSet(printed)})]
    BY <1>1, <2>1
  <2>3. FileSoFar'
    BY <1>2, <2>1, <2>2, FileGrows
  <2> QED
    BY <1>1, <1>2, <2>1, <2>3 DEF LayerInv, Fits
<1>4. CASE NextLayer \/ BeginClause \/ DrawUnused \/ DrawAny
  <2>1. Fits' /\ HighestVar' = HighestVar /\ LinesSoFar' = LinesSoFar /\ ~LineDone
    BY <1>2, <1>4, NextLayerFits, BeginFits, DrawFits
  <2>2. FileSoFar'
    BY <1>1, <1>2, <2>1, FileStays
  <2> QED
    BY <1>1, <1>2, <2>1, <2>2 DEF LayerInv, Fits
<1> QED
  BY <1>1, <1>3, <1>4 DEF LayerStep

\* A generator is called.
LEMMA LayerInvCall ==
  ASSUME LayerInv, CallGenerator
  PROVE  LayerInv'
<1>1. pc = "draw" /\ pc' = "generator" /\ file' = file
  BY DEF CallGenerator, Goto
<1>2. gen # "layers" /\ mark = {} /\ printed = <<>> /\ file = EmptyFile
  BY <1>1 DEF LayerInv
<1>3. CASE DrawInputs /\ UNCHANGED layer_vars
  <2>1. gen' = "build" /\ mark' = mark /\ printed' = printed
    BY <1>3 DEF DrawInputs, layer_vars
  <2> QED
    BY <1>1, <1>2, <2>1 DEF LayerInv, EmptyFile
<1>4. CASE DrawLayers /\ gen' = "layers"
  <2>1. LayersFit' /\ at' = Start /\ clause' \in [1..MaxLen -> Int]
    BY <1>4, LayersDrawn
  <2>2. mark' = {} /\ printed' = <<>>
    BY <1>2, <1>4 DEF DrawLayers
  <2>3. /\ at'.layer = 1 /\ at'.line = 0 /\ at'.len = 0 /\ at'.place = 0
        /\ at' \in [layer : Nat, line : Nat, len : Nat, place : Nat]
    BY <2>1 DEF Start
  <2>4. /\ Len(layers') \in Nat /\ 1 \in 1..Len(layers') /\ HighestVar' \in Nat
        /\ layers'[1].clauses \in Nat
    <3>1. PICK n \in {1, 2} : n = Len(layers')
      BY <2>1 DEF LayersFit
    <3>2. 1 \in 1..n /\ n \in 1..n
      OBVIOUS
    <3>3. layers' \in Seq(LayerType)
      BY <2>1 DEF LayersFit
    <3>4. layers'[1] \in LayerType /\ layers'[n] \in LayerType
      BY <3>1, <3>2, <3>3, ElementOfSeq
    <3> QED
      BY <3>1, <3>2, <3>4 DEF LayerType, HighestVar
  <2>5. LoopsFit'
    <3>1. Working' => at'.line <= layers'[at'.layer].clauses
      BY <2>3, <2>4
    <3>2. at'.layer \in 1..(Len(layers') + 1)
      BY <2>3, <2>4
    <3>3. at'.len <= MaxLen /\ ~(at'.len > 0)
      BY <2>3, LayerAssumption
    <3> QED
      BY <2>3, <3>1, <3>2, <3>3 DEF LoopsFit
  <2>6. MarksFit'
    <3>1. ~(at'.len > 0)
      BY <2>3
    <3> QED
      BY <2>1, <2>2, <3>1 DEF MarksFit
  <2>7. FileSoFar'
    <3>1. /\ file' \in FileType /\ file'.lines = 0 /\ file'.max_var = 0 /\ file'.p = NoLine
          /\ file'.show = NoLine /\ file'.no_touch = NoLine /\ file'.weights = <<>>
          /\ file'.cut = FALSE
      BY <1>1, <1>2 DEF EmptyFile, FileType
    <3>2. Bare(file)'
      BY <3>1 DEF Bare
    <3>3. LinesBefore(at.layer)' = 0
      BY <2>3 DEF LinesBefore
    <3>4. 0 \in 0..HighestVar'
      BY <2>4
    <3> QED
      BY <2>3, <3>1, <3>2, <3>3, <3>4 DEF FileSoFar
  <2> QED
    BY <1>1, <1>4, <2>1, <2>5, <2>6, <2>7 DEF LayerInv
<1> QED
  BY <1>3, <1>4 DEF CallGenerator

\* Nothing happens to the layers while another program runs.
LEMMA LayersStay ==
  ASSUME LayerInv, UNCHANGED layer_vars, gen # "layers", gen' # "layers",
         pc' \in {"draw", "generator"} => pc' = pc /\ file' = file
  PROVE  LayerInv'
<1>1. mark' = mark /\ printed' = printed
  BY DEF layer_vars
<1> QED
  BY <1>1 DEF LayerInv, EmptyFile

\* Every step keeps the invariant of Biere's generator.
LEMMA LayerInvStep ==
  ASSUME LayerInv, [Next]_vars
  PROVE  LayerInv'
<1>1. CASE CallGenerator
  BY <1>1, LayerInvCall
<1>2. CASE CircuitRuns
  <2>1. UNCHANGED layer_vars /\ pc' = pc /\ file' = file /\ CircuitStep
    BY <1>2 DEF CircuitRuns, file_vars
  <2>2. gen # "layers" /\ gen' # "layers"
    BY <2>1 DEF CircuitStep, AddNode, Combine, GraphDone, SkipNumbered, NumberInput, Descend,
                DefineNode, StartRClauses, BeginRClause, DrawLiteral
  <2> QED
    BY <2>1, <2>2, LayersStay
<1>3. CASE LayersRun
  BY <1>3, LayerInvRuns
<1>4. CASE GeneratorDone \/ GeneratorSignalled
  <2>1. gen' = "idle" /\ mark' = {} /\ printed' = <<>> /\ pc' \in {"no-touch", "exited"}
    BY <1>4 DEF GeneratorDone, GeneratorSignalled, GeneratorExits, LayersForgotten, Goto
  <2> QED
    BY <2>1 DEF LayerInv
<1>5. CASE \/ PickNumNoTouch \/ AddProjection \/ AddNoTouch \/ StartWeights \/ AddWeights
           \/ RunPreproc
  <2>1. UNCHANGED layer_vars /\ gen' = gen
    BY <1>5 DEF PickNumNoTouch, AddProjection, AddNoTouch, StartWeights, AddWeights,
                RunPreproc, FuzzStep
  <2>2. pc # "generator" /\ pc' \notin {"draw", "generator"}
    BY <1>5, WeightingAssumption
       DEF PickNumNoTouch, AddProjection, AddNoTouch, StartWeights, AddWeights, WeightVar,
           WeightsDone, RunPreproc, FuzzStep, Goto
  <2>3. gen # "layers"
    BY <2>2 DEF LayerInv
  <2> QED
    BY <2>1, <2>2, <2>3, LayersStay
<1>6. CASE UNCHANGED vars
  <2>1. CASE gen # "layers"
    BY <1>6, <2>1, LayersStay DEF vars, file_vars
  <2>2. CASE gen = "layers"
    <3>1. /\ layers' = layers /\ at' = at /\ mark' = mark /\ clause' = clause
          /\ printed' = printed /\ file' = file /\ pc' = pc /\ gen' = gen
      BY <1>6 DEF vars, file_vars, layer_vars
    <3>2. LayersFit /\ LoopsFit /\ MarksFit /\ FileSoFar /\ pc = "generator"
      BY <2>2 DEF LayerInv
    <3>3. SameLayers /\ LayersFit'
      BY <3>1, <3>2, SameIfUnchanged
    <3>4. LoopsFit'
      BY <3>1, <3>2 DEF LoopsFit, Working
    <3>5. MarksFit'
      BY <3>1, <3>2, <3>3 DEF MarksFit, OncePerVar, SameLayers
    <3>6. FileSoFar'
      BY <3>1, <3>2, <3>3 DEF FileSoFar, LinesBefore, Bare, SameLayers
    <3> QED
      BY <2>2, <3>1, <3>2, <3>3, <3>4, <3>5, <3>6 DEF LayerInv
  <2> QED
    BY <2>1, <2>2
<1> QED
  BY <1>1, <1>2, <1>3, <1>4, <1>5, <1>6 DEF Next, Generator, Ended

-----------------------------------------------------------------------------
(***************************************************************************)
(* The lines that fuzz.py appends.                                         *)
(***************************************************************************)

\* A sequence of the members of a finite set has each of them once.
LEMMA SetListed ==
  ASSUME NEW n \in Nat, NEW S \in SUBSET (1..n)
  PROVE  /\ SetToSeq(S) \in Seq(Nat) /\ IsInjective(SetToSeq(S))
         /\ ToSet(SetToSeq(S)) = S
<1>1. IsFiniteSet(S)
  <2>1. IsFiniteSet(1..n)
    BY FS_Interval
  <2> QED
    BY <2>1, FS_Subset
<1>2. PICK c \in Nat : c = Cardinality(S)
  BY <1>1, FS_CardinalityType
<1>3. \E f \in [1..c -> S] : IsInjective(f)
  BY <1>1, <1>2, FS_CardinalityType DEF ExistsBijection, Bijection, Injection
<1> DEFINE list == SetToSeq(S)
<1>4. list \in [1..c -> S] /\ IsInjective(list)
  BY <1>2, <1>3 DEF SetToSeq
<1> HIDE DEF list
<1>5. list \in Injection(1..c, S)
  BY <1>4 DEF Injection
<1>6. Cardinality(1..c) = c
  <2>1. Cardinality(1..c) = IF 1 > c THEN 0 ELSE c - 1 + 1
    BY FS_Interval
  <2> QED
    BY <2>1
<1>7. list \in Surjection(1..c, S)
  BY <1>1, <1>2, <1>5, <1>6, FS_Injection
<1>8. \A x \in S : \E k \in 1..c : list[k] = x
  BY <1>7 DEF Surjection
<1>9. list \in Seq(S) /\ list \in Seq(Nat)
  <2>1. S \subseteq Nat
    OBVIOUS
  <2>2. list \in [1..c -> Nat]
    BY <1>4, <2>1
  <2> QED
    BY <1>4, <2>2, SeqDef
<1>10. Len(list) = c
  BY <1>4, <1>9, LenProperties
<1>11. ToSet(list) = S
  <2>1. \A x : x \in ToSet(list) <=> \E k \in 1..c : x = list[k]
    BY <1>9, <1>10, Place
  <2>2. \A k \in 1..c : list[k] \in S
    BY <1>4
  <2> QED
    BY <1>8, <2>1, <2>2
<1> QED
  BY <1>4, <1>9, <1>11 DEF list

\* The numbers up to n, in their order.
LEMMA UpToListed ==
  ASSUME NEW n \in Nat
  PROVE  LET list == [i \in 1..n |-> i]
         IN list \in Seq(Nat) /\ IsInjective(list) /\ ToSet(list) = 1..n
<1> DEFINE list == [i \in 1..n |-> i]
<1>1. list \in [1..n -> Nat] /\ \A i \in 1..n : list[i] = i
  OBVIOUS
<1> HIDE DEF list
<1>2. list \in Seq(Nat) /\ DOMAIN list = 1..n
  BY <1>1, SeqDef
<1>3. Len(list) = n
  BY <1>1, <1>2, LenProperties
<1>4. ToSet(list) = 1..n
  <2>1. \A x : x \in ToSet(list) <=> \E k \in 1..n : x = list[k]
    BY <1>2, <1>3, Place
  <2> QED
    BY <1>1, <2>1
<1>5. IsInjective(list)
  BY <1>1, <1>2 DEF IsInjective
<1> QED
  BY <1>2, <1>4, <1>5 DEF list

\* What is taken from the front of a list does not come again.
LEMMA Taken ==
  ASSUME NEW S, NEW list \in Seq(S), IsInjective(list), list # <<>>
  PROVE  /\ Tail(list) \in Seq(S) /\ IsInjective(Tail(list))
         /\ Head(list) \in ToSet(list)
         /\ ToSet(Tail(list)) = ToSet(list) \ {Head(list)}
<1>1. PICK n \in Nat : n = Len(list)
  BY LenProperties
<1>2. /\ n > 0 /\ Head(list) = list[1]
      /\ Tail(list) \in Seq(S) /\ Len(Tail(list)) = n - 1
      /\ \A k \in 1..(n - 1) : Tail(list)[k] = list[k + 1]
  BY <1>1, HeadTailProperties, EmptySeq
<1>3. DOMAIN list = 1..n /\ DOMAIN Tail(list) = 1..(n - 1)
  BY <1>1, <1>2, LenProperties
<1>4. 1 \in 1..n /\ \A k \in 1..(n - 1) : k + 1 \in 1..n /\ k + 1 # 1
  BY <1>2
<1>5. \A k \in 1..n : k = 1 \/ (k - 1 \in 1..(n - 1) /\ (k - 1) + 1 = k)
  OBVIOUS
<1>6. \A j, k \in 1..n : list[j] = list[k] => j = k
  BY <1>3 DEF IsInjective
<1>7. IsInjective(Tail(list))
  <2> SUFFICES ASSUME NEW j \in 1..(n - 1), NEW k \in 1..(n - 1), Tail(list)[j] = Tail(list)[k]
               PROVE  j = k
    BY <1>3 DEF IsInjective
  <2>1. j + 1 = k + 1
    BY <1>2, <1>4, <1>6
  <2> QED
    BY <2>1
<1>8. Head(list) \in ToSet(list)
  BY <1>1, <1>2, <1>4, Place
<1>9. \A x \in ToSet(Tail(list)) : x \in ToSet(list) /\ x # Head(list)
  <2> SUFFICES ASSUME NEW k \in 1..(n - 1)
               PROVE  Tail(list)[k] \in ToSet(list) /\ Tail(list)[k] # Head(list)
    <3>1. Tail(list) \in Seq(S) /\ Len(Tail(list)) = n - 1
      BY <1>2
    <3>2. \A x : x \in ToSet(Tail(list)) <=> \E k \in 1..Len(Tail(list)) : x = Tail(list)[k]
      BY <3>1, Place
    <3> QED
      BY <3>1, <3>2
  <2>1. list[k + 1] \in ToSet(list)
    BY <1>1, <1>4, Place
  <2>2. list[k + 1] # list[1]
    BY <1>4, <1>6
  <2> QED
    BY <1>2, <2>1, <2>2
<1>10. \A x \in ToSet(list) : x # Head(list) => x \in ToSet(Tail(list))
  <2> SUFFICES ASSUME NEW k \in 1..n, list[k] # Head(list)
               PROVE  list[k] \in ToSet(Tail(list))
    BY <1>1, Place
  <2>1. k - 1 \in 1..(n - 1) /\ (k - 1) + 1 = k
    BY <1>2, <1>5
  <2>2. Tail(list)[k - 1] = list[k]
    BY <1>2, <2>1
  <2>3. Tail(list)[k - 1] \in ToSet(Tail(list))
    BY <1>2, <2>1, Place
  <2> QED
    BY <2>2, <2>3
<1> QED
  BY <1>2, <1>7, <1>8, <1>9, <1>10

\* The fields of a test.
TestType ==
    [proj : BOOLEAN, weighted : BOOLEAN, cpx : BOOLEAN, num_no_touch : Nat,
     projected_vars : {NoLine} \union Seq(Nat)]

\* The header is true of the clauses, unless the file was cut short: then there are fewer.
Headed(f) ==
    /\ f \in FileType
    /\ ~f.cut => f.lines = IF f.p = NoLine THEN 0 ELSE f.p.clauses
    /\ f.cut => f.p # NoLine /\ f.lines < f.p.clauses
    /\ f.max_var <= NumVarsOf(f)

\* What a generator has written, with the "c t" line.
Generated ==
    /\ Headed(file) /\ t \in TestType
    /\ file.type \in {NoLine, Type(t.proj, t.weighted)}

\* The "c p show" line is that of the test, and the no-touch variables are sampled.
Projects ==
    /\ t.projected_vars = file.show
    /\ t.proj <=> file.show # NoLine
    /\ file.show # NoLine => IsInjective(file.show)
    /\ Sampled(file) \subseteq 1..NumVarsOf(file)
    /\ 1..t.num_no_touch \subseteq Sampled(file)

\* The "c p no-touch" line is that of the test.
NoTouchLine ==
    file.no_touch = IF t.num_no_touch = 0 THEN NoLine ELSE [i \in 1..t.num_no_touch |-> i]

\* The weights so far are of sampled variables that the loop has been at.
Weighs ==
    /\ rest \in Seq(Nat) /\ IsInjective(rest) /\ ToSet(rest) \subseteq Sampled(file)
    /\ IsInjective(file.weights)
    /\ \A x \in ToSet(file.weights) : AbsVal(x) \in Sampled(file) /\ AbsVal(x) \notin ToSet(rest)

\* Weights are to be expected.
Announced == t.weighted \/ t.cpx

\* What the steps of generate_cnf find.
AtNoTouch == Generated /\ Bare(file) /\ t.projected_vars = NoLine /\ rest = <<>>

AtProjection == AtNoTouch /\ t.proj /\ t.num_no_touch <= NumVarsOf(file)

AtAppend == Generated /\ Projects /\ file.weights = <<>> /\ rest = <<>>

AtWeights == AtAppend /\ NoTouchLine /\ Announced

InWeighting == Generated /\ Projects /\ NoTouchLine /\ Weighs /\ Announced

AtPreproc ==
    /\ Generated /\ Projects /\ NoTouchLine /\ Weighs
    /\ file.weights # <<>> => Announced

\* The file at each step of generate_cnf.
FileInv ==
    /\ pc \in {"draw", "generator"} => rest = <<>>
    /\ pc = "no-touch" => AtNoTouch
    /\ pc = "projection" => AtProjection
    /\ pc = "append" => AtAppend
    /\ pc = "weights" => AtWeights
    /\ pc \in Weightings => InWeighting
    /\ pc = "preproc" => AtPreproc

\* A header is no missing line.
LEMMA HeaderFits ==
  ASSUME NEW n \in Nat, NEW m \in Nat
  PROVE  /\ Header(n, m) \in [pieces : {4}, vars : Nat, clauses : Nat]
         /\ Header(n, m) # NoLine
         /\ Header(n, m).vars = n /\ Header(n, m).clauses = m
<1>1. Header(n, m) \in [pieces : {4}, vars : Nat, clauses : Nat]
  BY DEF Header
<1>2. Header(n, m) \in [pieces : Nat, vars : Nat, clauses : Nat]
  BY DEF Header
<1> QED
  BY <1>1, <1>2, NoLineAssumption DEF Header

\* The fields of a file.
LEMMA FileFields ==
  ASSUME NEW f \in FileType
  PROVE  /\ NumVarsOf(f) \in Nat /\ f.lines \in Nat /\ f.max_var \in Nat
         /\ f.p # NoLine => f.p \in [pieces : {4}, vars : Nat, clauses : Nat]
         /\ f.show # NoLine => f.show \in Seq(Nat)
         /\ f.no_touch # NoLine => f.no_touch \in Seq(Nat)
         /\ f.weights \in Seq(Int) /\ f.blank = FALSE /\ f.cut \in BOOLEAN
<1>1. /\ f.p \in {NoLine} \union [pieces : {4}, vars : Nat, clauses : Nat]
      /\ f.lines \in Nat /\ f.max_var \in Nat
      /\ f.show \in {NoLine} \union Seq(Nat) /\ f.no_touch \in {NoLine} \union Seq(Nat)
      /\ f.weights \in Seq(Int) /\ f.cut \in BOOLEAN
  BY DEF FileType
<1>2. f.blank \in {FALSE}
  BY DEF FileType
<1>3. NumVarsOf(f) \in Nat
  BY <1>1 DEF NumVarsOf
<1> QED
  BY <1>1, <1>2, <1>3

\* The file that is there before anything is written.
LEMMA EmptyFits ==
  /\ EmptyFile \in FileType /\ Bare(EmptyFile)
  /\ EmptyFile.p = NoLine /\ EmptyFile.lines = 0 /\ EmptyFile.max_var = 0
  /\ EmptyFile.type = NoLine /\ EmptyFile.cut = FALSE /\ Headed(EmptyFile)
<1>1. EmptyFile \in FileType
  BY DEF EmptyFile, FileType
<1>2. /\ EmptyFile.p = NoLine /\ EmptyFile.lines = 0 /\ EmptyFile.max_var = 0
      /\ EmptyFile.type = NoLine /\ EmptyFile.show = NoLine /\ EmptyFile.no_touch = NoLine
      /\ EmptyFile.weights = <<>> /\ EmptyFile.cut = FALSE
  BY DEF EmptyFile
<1> QED
  BY <1>1, <1>2 DEF Bare, Headed, NumVarsOf

\* A header that counts the lines and has their variables.
LEMMA HeaderTrue ==
  ASSUME NEW f \in FileType, Bare(f), f.cut = FALSE,
         NEW n \in Nat, NEW m \in Nat, NEW v \in Nat, v <= n, NEW content,
         content = [f EXCEPT !.p = Header(n, m), !.lines = m, !.max_var = v]
  PROVE  Headed(content) /\ Bare(content)
<1>1. PICK p \in [pieces : {4}, vars : Nat, clauses : Nat] :
         p = Header(n, m) /\ p # NoLine /\ p.vars = n /\ p.clauses = m
  BY HeaderFits
<1>2. content = [f EXCEPT !.p = p, !.lines = m, !.max_var = v]
  BY <1>1
<1>3. /\ content \in FileType /\ content.p = p /\ content.lines = m /\ content.max_var = v
      /\ content.show = f.show /\ content.no_touch = f.no_touch /\ content.weights = f.weights
      /\ content.cut = FALSE
  <2>1. p \in {NoLine} \union [pieces : {4}, vars : Nat, clauses : Nat]
    BY <1>1
  <2> HIDE <1>1
  <2> QED
    BY <1>2, <2>1 DEF FileType
<1> QED
  BY <1>1, <1>3 DEF Headed, Bare, NumVarsOf

\* The flags that are drawn.
LEMMA ParamsPicked ==
  ASSUME PickTestParams
  PROVE  /\ t' \in TestType /\ t'.projected_vars = NoLine
         /\ Type(t'.proj, t'.weighted) \in {"mc", "pmc", "wmc", "pwmc"}
<1>1. PICK proj \in BOOLEAN, weighted \in BOOLEAN, cpx \in BOOLEAN :
         t' = [FreshTest EXCEPT !.proj = proj, !.weighted = weighted, !.cpx = cpx]
  BY DEF PickTestParams
<1>2. FreshTest \in TestType /\ FreshTest.projected_vars = NoLine
  BY DEF FreshTest, TestType
<1>3. t' \in TestType
  BY <1>1, <1>2 DEF TestType
<1>4. t'.projected_vars = NoLine
  BY <1>1, <1>2 DEF TestType
<1>5. t'.proj \in BOOLEAN /\ t'.weighted \in BOOLEAN
  BY <1>3 DEF TestType
<1>6. Type(t'.proj, t'.weighted) \in {"mc", "pmc", "wmc", "pwmc"}
  BY <1>5 DEF Type
<1> QED
  BY <1>3, <1>4, <1>6

\* What a generator prints is announced by the "c t" line.
LEMMA ExitsReady ==
  ASSUME NEW content, Headed(content), Bare(content), GeneratorExits(content), rest = <<>>
  PROVE  AtNoTouch'
<1>1. /\ t' \in TestType /\ t'.projected_vars = NoLine
      /\ Type(t'.proj, t'.weighted) \in {"mc", "pmc", "wmc", "pwmc"}
  BY ParamsPicked DEF GeneratorExits
<1>2. PICK type \in {"mc", "pmc", "wmc", "pwmc"} :
         type = Type(t'.proj, t'.weighted) /\ file' = [content EXCEPT !.type = type]
  BY <1>1 DEF GeneratorExits
<1>3. content \in FileType
  BY DEF Headed
<1>4. /\ file' \in FileType /\ file'.type = type /\ file'.p = content.p
      /\ file'.lines = content.lines /\ file'.max_var = content.max_var
      /\ file'.show = content.show /\ file'.no_touch = content.no_touch
      /\ file'.weights = content.weights /\ file'.cut = content.cut
  BY <1>2, <1>3 DEF FileType
<1>5. Headed(file)' /\ Bare(file)'
  BY <1>4 DEF Headed, Bare, NumVarsOf
<1>6. rest' = <<>>
  BY DEF GeneratorExits
<1> QED
  BY <1>1, <1>2, <1>4, <1>5, <1>6 DEF AtNoTouch, Generated

\* The numbers in Brummayer's output.
LEMMA CircuitNumbers ==
  ASSUME RandomPart, ClausesDone
  PROVE  \E n \in Nat, k \in Nat :
            /\ n = cnf_id - 1 /\ k = Len(cnf) /\ k = num_clauses
            /\ nodes[Root].cnf_id \in 1..n
            /\ {AbsVal(x) : x \in UNION {ToSet(c) : c \in ToSet(cnf)}} \subseteq 0..n
<1>1. /\ num_rclauses = 0 /\ places = 0 /\ cnf_id \in Nat \ {0}
      /\ {nodes[k].cnf_id : k \in Indices} = 1..(cnf_id - 1)
      /\ cnf \in Seq(ProperClauses(cnf_id - 1) \union {<<>>})
      /\ num_clauses = Len(cnf) + num_rclauses
      /\ \A k \in 1..Len(cnf) : cnf[k] # <<>>
  <2>1. places = 0
    BY DEF ClausesDone
  <2>2. ~(places > 0)
    BY <2>1
  <2> QED
    BY <2>1, <2>2 DEF RandomPart, ClausesDone
<1>2. PICK n \in Nat : n = cnf_id - 1
  BY <1>1
<1>3. PICK root \in Indices : unfinished2 = {root}
  BY DEF RandomPart
<1>4. Root = root
  BY <1>3 DEF Root
<1>5. nodes[Root].cnf_id \in 1..n
  BY <1>1, <1>2, <1>3, <1>4
<1>6. \A c \in ToSet(cnf) : ToSet(c) \subseteq LiteralsTo(n)
  <2>1. \A k \in 1..Len(cnf) : cnf[k] \in ProperClauses(n)
    BY <1>1, <1>2, ElementOfSeq
  <2>2. \A c \in ToSet(cnf) : \E k \in 1..Len(cnf) : c = cnf[k]
    BY <1>1, Place
  <2>3. \A c \in ProperClauses(n) : c \in Seq(Int)
    BY DEF ProperClauses
  <2> QED
    BY <2>1, <2>2, <2>3, ProperFrom
<1>7. {AbsVal(x) : x \in UNION {ToSet(c) : c \in ToSet(cnf)}} \subseteq 0..n
  <2>1. \A x \in UNION {ToSet(c) : c \in ToSet(cnf)} : x \in LiteralsTo(n)
    BY <1>6
  <2>2. \A x \in LiteralsTo(n) : AbsVal(x) \in 0..n
    BY DEF LiteralsTo
  <2> QED
    BY <2>1, <2>2
<1>8. PICK k \in Nat : k = Len(cnf) /\ k = num_clauses
  BY <1>1, LenProperties
<1> QED
  BY <1>2, <1>5, <1>7, <1>8

\* Brummayer's output.
LEMMA CircuitFileHeaded ==
  ASSUME RandomPart, ClausesDone
  PROVE  Headed(CircuitFile) /\ Bare(CircuitFile)
<1>1. PICK n \in Nat, k \in Nat :
         /\ n = cnf_id - 1 /\ k = Len(cnf) /\ k = num_clauses
         /\ nodes[Root].cnf_id \in 1..n
         /\ {AbsVal(x) : x \in UNION {ToSet(c) : c \in ToSet(cnf)}} \subseteq 0..n
  BY CircuitNumbers
<1> DEFINE vars_seen == {nodes[Root].cnf_id}
                          \union {AbsVal(x) : x \in UNION {ToSet(c) : c \in ToSet(cnf)}}
<1>2. vars_seen \in SUBSET (0..n) /\ vars_seen # {}
  BY <1>1
<1>3. PICK v \in 0..n : v = Max(vars_seen)
  BY <1>2, Largest
<1>4. PICK m \in Nat : m = k + 1
  BY <1>1
<1>5. CircuitFile = [EmptyFile EXCEPT !.p = Header(n, m), !.lines = m, !.max_var = v]
  BY <1>1, <1>3, <1>4 DEF CircuitFile
<1>6. v \in Nat /\ v <= n
  BY <1>3
<1> QED
  BY <1>5, <1>6, EmptyFits, HeaderTrue

\* The header alone, or with the "c t" line.
LEMMA BegunHeaded ==
  ASSUME NEW n \in Nat, NEW m \in Nat \ {0}, NEW whole, whole.p = Header(n, m),
         NEW type \in {"mc", "pmc", "wmc", "pwmc"}, NEW content \in Begun(whole, type)
  PROVE  Headed(content) /\ Bare(content) /\ content.type \in {NoLine, type}
<1>1. PICK p \in [pieces : {4}, vars : Nat, clauses : Nat] :
         p = Header(n, m) /\ p # NoLine /\ p.vars = n /\ p.clauses = m
  BY HeaderFits
<1>2. PICK line \in {NoLine, type} :
         content = [EmptyFile EXCEPT !.p = p, !.type = line, !.cut = TRUE]
  BY <1>1 DEF Begun
<1>3. /\ content \in FileType /\ content.p = p /\ content.lines = 0 /\ content.max_var = 0
      /\ content.show = NoLine /\ content.no_touch = NoLine /\ content.weights = <<>>
      /\ content.cut = TRUE /\ content.type = line
  <2>1. p \in {NoLine} \union [pieces : {4}, vars : Nat, clauses : Nat]
    BY <1>1
  <2>2. line \in {NoLine, "mc", "pmc", "wmc", "pwmc"}
    OBVIOUS
  <2> HIDE <1>1
  <2> QED
    BY <1>2, <2>1, <2>2, EmptyFits DEF FileType, Bare
<1>4. 0 < m /\ 0 <= n
  OBVIOUS
<1> QED
  BY <1>1, <1>3, <1>4 DEF Headed, Bare, NumVarsOf

\* What Brummayer has printed when a signal comes.
LEMMA PrintedHeaded ==
  ASSUME ClausesDone => RandomPart,
         NEW type \in {"mc", "pmc", "wmc", "pwmc"}, NEW content \in PrintedSoFar(type)
  PROVE  Headed(content) /\ Bare(content) /\ content.type \in {NoLine, type}
<1>1. CASE content = EmptyFile
  BY <1>1, EmptyFits
<1>2. CASE ClausesDone /\ content \in Begun(CircuitFile, type) \union {RootMissing(type)}
  <2>1. PICK n \in Nat, k \in Nat :
           /\ n = cnf_id - 1 /\ k = Len(cnf) /\ k = num_clauses
           /\ {AbsVal(x) : x \in UNION {ToSet(c) : c \in ToSet(cnf)}} \subseteq 0..n
    BY <1>2, CircuitNumbers
  <2>2. PICK m \in Nat \ {0} : m = k + 1 /\ k < m
    BY <2>1
  <2>3. CircuitFile.p = Header(n, m)
    BY <2>1, <2>2 DEF CircuitFile, EmptyFile
  <2>4. CASE content \in Begun(CircuitFile, type)
    BY <2>3, <2>4, BegunHeaded
  <2>5. CASE content = RootMissing(type)
    <3> DEFINE vars_seen == {0} \union {AbsVal(x) : x \in UNION {ToSet(c) : c \in ToSet(cnf)}}
    <3>1. vars_seen \in SUBSET (0..n) /\ vars_seen # {}
      BY <2>1
    <3>2. PICK v \in 0..n : v = Max(vars_seen)
      BY <3>1, Largest
    <3>3. PICK p \in [pieces : {4}, vars : Nat, clauses : Nat] :
             p = Header(n, m) /\ p # NoLine /\ p.vars = n /\ p.clauses = m
      BY <2>2, HeaderFits
    <3>4. content = [EmptyFile EXCEPT !.p = p, !.type = type, !.cut = TRUE,
                                      !.lines = k, !.max_var = v]
      BY <2>1, <2>3, <2>5, <3>2, <3>3 DEF RootMissing
    <3>5. v \in Nat /\ v <= p.vars /\ k < p.clauses
      BY <2>2, <3>2, <3>3
    <3>6. /\ content \in FileType /\ content.p = p /\ content.lines = k /\ content.max_var = v
          /\ content.show = NoLine /\ content.no_touch = NoLine /\ content.weights = <<>>
          /\ content.cut = TRUE /\ content.type = type
      <4>1. /\ p \in {NoLine} \union [pieces : {4}, vars : Nat, clauses : Nat]
            /\ type \in {NoLine, "mc", "pmc", "wmc", "pwmc"}
        OBVIOUS
      <4> HIDE <3>3
      <4> QED
        BY <3>4, <3>5, <4>1, EmptyFits DEF FileType, Bare
    <3> QED
      BY <3>3, <3>5, <3>6 DEF Headed, Bare, NumVarsOf
  <2> QED
    BY <1>2, <2>4, <2>5
<1>3. CASE TooManyNodes /\ content \in Begun(TooManyFile, type)
  <2>1. TooManyFile.p = Header(1, 1) /\ 1 \in Nat /\ 1 \in Nat \ {0}
    BY DEF TooManyFile, EmptyFile
  <2> QED
    BY <1>3, <2>1, BegunHeaded
<1> QED
  BY <1>1, <1>2, <1>3 DEF PrintedSoFar

\* Biere's output.
LEMMA LayersFileHeaded ==
  ASSUME LayersFit, LoopsFit, FileSoFar, LayersDone
  PROVE  LET content == [file EXCEPT !.p = Header(HighestVar, NumLines)]
         IN Headed(content) /\ Bare(content)
<1>1. /\ ~Working /\ at.layer \in Nat /\ at.layer \in 1..(Len(layers) + 1)
      /\ at.line = 0
  BY DEF LoopsFit, LayersDone
<1>2. PICK c \in {1, 2} : c = Len(layers)
  BY DEF LayersFit
<1>3. at.layer = c + 1
  BY <1>1, <1>2 DEF Working
<1>4. PICK n \in Nat : n = HighestVar
  BY LayerNumbers
<1>5. NumLines = LinesBefore(at.layer) /\ NumLines \in Nat
  <2>1. 1 \in 1..c /\ (c = 2 => 2 \in 1..c)
    OBVIOUS
  <2>2. layers[1].clauses \in Nat /\ (c = 2 => layers[2].clauses \in Nat)
    BY <1>2, <2>1, LayerNumbers
  <2>3. CASE c = 1
    BY <1>2, <1>3, <2>2, <2>3 DEF NumLines, LinesBefore
  <2>4. CASE c = 2
    BY <1>2, <1>3, <2>2, <2>4 DEF NumLines, LinesBefore
  <2> QED
    BY <2>3, <2>4
<1>6. PICK m \in Nat : m = NumLines
  BY <1>5
<1>7. /\ file \in FileType /\ Bare(file) /\ file.cut = FALSE
      /\ file.lines = m /\ file.max_var \in 0..n
  <2>1. m + 0 = m
    OBVIOUS
  <2> QED
    BY <1>1, <1>4, <1>5, <1>6, <2>1 DEF FileSoFar
<1>8. [file EXCEPT !.p = Header(n, m)]
        = [file EXCEPT !.p = Header(n, m), !.lines = m, !.max_var = file.max_var]
  BY <1>7 DEF FileType
<1>9. PICK v \in Nat : v = file.max_var /\ v <= n
  BY <1>7
<1> DEFINE content == [file EXCEPT !.p = Header(HighestVar, NumLines)]
<1>10. content = [file EXCEPT !.p = Header(n, m), !.lines = m, !.max_var = v]
  BY <1>4, <1>6, <1>8, <1>9
<1> HIDE DEF content
<1>11. Headed(content) /\ Bare(content)
  BY <1>7, <1>9, <1>10, HeaderTrue
<1> QED
  BY <1>11 DEF content

\* A generator ends, with any of the three outputs.
LEMMA GeneratorDoneReady ==
  ASSUME CircuitLines, LayerInv, FileInv, GeneratorDone
  PROVE  AtNoTouch' /\ pc' = "no-touch"
<1>1. rest = <<>> /\ pc = "generator"
  BY DEF GeneratorDone, Running, FileInv
<1>2. CASE ClausesDone /\ GeneratorExits(CircuitFile)
  <2>1. Headed(CircuitFile) /\ Bare(CircuitFile)
    BY <1>2, CircuitFileHeaded DEF CircuitLines, ClausesDone
  <2> QED
    BY <1>1, <1>2, <2>1, ExitsReady DEF GeneratorExits, Goto
<1>3. CASE GeneratorExits(TooManyFile)
  <2>1. 1 \in Nat /\ 1 <= 1
    OBVIOUS
  <2>2. Headed(TooManyFile) /\ Bare(TooManyFile)
    BY <2>1, EmptyFits, HeaderTrue DEF TooManyFile
  <2> QED
    BY <1>1, <1>3, <2>2, ExitsReady DEF GeneratorExits, Goto
<1>4. CASE /\ gen = "layers" /\ LayersDone
           /\ GeneratorExits([file EXCEPT !.p = Header(HighestVar, NumLines)])
  <2> DEFINE content == [file EXCEPT !.p = Header(HighestVar, NumLines)]
  <2> HIDE DEF content
  <2>1. LayersFit /\ LoopsFit /\ FileSoFar
    BY <1>4 DEF LayerInv
  <2>2. Headed(content) /\ Bare(content)
    BY <1>4, <2>1, LayersFileHeaded DEF content
  <2>3. GeneratorExits(content)
    BY <1>4 DEF content
  <2> QED
    BY <1>1, <2>2, <2>3, ExitsReady DEF GeneratorExits, Goto
<1> QED
  BY <1>2, <1>3, <1>4 DEF GeneratorDone

\* A generator is stopped by a signal.
LEMMA SignalledReady ==
  ASSUME CircuitLines, FileInv, GeneratorSignalled
  PROVE  pc' \in {"no-touch", "exited"} /\ AtNoTouch'
<1>1. rest' = <<>> /\ pc' \in {"no-touch", "exited"}
  BY DEF GeneratorSignalled, Running, FileInv, Goto
<1>2. PICK type \in {"mc", "pmc", "wmc", "pwmc"} : type = Type(t'.proj, t'.weighted)
  BY ParamsPicked DEF GeneratorSignalled
<1>3. t' \in TestType /\ t'.projected_vars = NoLine
  BY ParamsPicked DEF GeneratorSignalled
<1>4. file' = EmptyFile \/ file' \in PrintedSoFar(type)
  BY <1>2 DEF GeneratorSignalled
<1>5. file' \in PrintedSoFar(type)
  BY <1>4 DEF PrintedSoFar
<1>6. ClausesDone => RandomPart
  BY DEF CircuitLines, ClausesDone
<1>7. PICK content \in PrintedSoFar(type) : content = file'
  BY <1>5
<1>8. Headed(content) /\ Bare(content) /\ content.type \in {NoLine, type}
  BY <1>6, PrintedHeaded
<1>9. Headed(file)' /\ Bare(file)' /\ file'.type \in {NoLine, type}
  BY <1>7, <1>8 DEF Headed, Bare, NumVarsOf
<1> QED
  BY <1>1, <1>2, <1>3, <1>9 DEF AtNoTouch, Generated

\* There are never more no-touch variables than variables.
LEMMA NumNoTouchFits ==
  ASSUME NEW n \in Nat,
         NEW k \in {0} \union (IF n < 2 THEN {} ELSE 1..Max({1, n \div 4}))
  PROVE  k \in Nat /\ k <= n
<1>1. CASE n < 2
  BY <1>1
<1>2. CASE ~(n < 2)
  <2>1. PICK q \in Nat : q = n \div 4 /\ q <= n
    BY Z3
  <2>2. {1, q} \in SUBSET (0..n) /\ {1, q} # {}
    BY <1>2, <2>1
  <2>3. PICK m \in 0..n : m = Max({1, q})
    BY <2>2, Largest
  <2>4. k \in {0} \union 1..m
    BY <1>2, <2>1, <2>3
  <2> QED
    BY <2>3, <2>4
<1> QED
  BY <1>1, <1>2

\* The number of no-touch variables is drawn.
LEMMA NoTouchPicked ==
  ASSUME AtNoTouch, PickNumNoTouch
  PROVE  /\ pc' \in {"projection", "append"}
         /\ pc' = "projection" => AtProjection'
         /\ pc' = "append" => AtAppend'
<1>1. PICK n \in Nat : n = NumVarsOf(file)
  BY FileFields DEF AtNoTouch, Generated, Headed
<1>2. PICK k \in {0} \union (IF n < 2 THEN {} ELSE 1..Max({1, n \div 4})) :
         t' = [t EXCEPT !.num_no_touch = k]
  BY <1>1 DEF PickNumNoTouch
<1>3. k \in Nat /\ k <= n
  BY NumNoTouchFits
<1>4. t \in TestType
  BY DEF AtNoTouch, Generated
<1>5. /\ t' \in TestType /\ t'.num_no_touch = k
      /\ t'.proj = t.proj /\ t'.weighted = t.weighted /\ t'.cpx = t.cpx
      /\ t'.projected_vars = t.projected_vars
  <2> HIDE <1>2
  <2> QED
    BY <1>2, <1>3, <1>4 DEF TestType
<1>6. file' = file /\ rest' = rest /\ pc' = (IF t.proj THEN "projection" ELSE "append")
  BY DEF PickNumNoTouch, Goto
<1>7. Headed(file)' /\ Bare(file)' /\ NumVarsOf(file)' = n
  BY <1>1, <1>6 DEF AtNoTouch, Generated, Headed, Bare, NumVarsOf
<1>8. AtNoTouch'
  BY <1>5, <1>6, <1>7 DEF AtNoTouch, Generated
<1>9. CASE t.proj
  BY <1>3, <1>5, <1>6, <1>7, <1>8, <1>9 DEF AtProjection
<1>10. CASE ~t.proj
  <2>1. file'.show = NoLine /\ file'.weights = <<>> /\ t'.projected_vars = NoLine
    BY <1>7, <1>8 DEF AtNoTouch, Bare
  <2>2. Sampled(file)' = 1..n
    BY <1>7, <2>1 DEF Sampled
  <2>3. 1..k \subseteq 1..n
    BY <1>3
  <2>4. Projects'
    BY <1>5, <1>7, <1>10, <2>1, <2>2, <2>3 DEF Projects
  <2> QED
    BY <1>6, <1>8, <1>10, <2>1, <2>4 DEF AtAppend, AtNoTouch
<1> QED
  BY <1>9, <1>10

\* The "c p show" line has every no-touch variable, and each variable once.
LEMMA ProjectionAdded ==
  ASSUME AtProjection, AddProjection
  PROVE  pc' = "exited" \/ (pc' = "append" /\ AtAppend')
<1>1. PICK n \in Nat : n = NumVarsOf(file)
  BY FileFields DEF AtProjection, AtNoTouch, Generated, Headed
<1>2. CASE n = 0
  BY <1>1, <1>2 DEF AddProjection, Goto
<1>3. CASE n # 0
  <2> DEFINE k == t.num_no_touch
  <2>1. PICK drawn \in SUBSET (1..n) :
           /\ t' = [t EXCEPT !.projected_vars = SetToSeq(Projected(drawn, k))]
           /\ file' = [file EXCEPT !.show = SetToSeq(Projected(drawn, k))]
    BY <1>1, <1>3 DEF AddProjection
  <2>2. t \in TestType /\ k \in Nat /\ k <= n /\ file \in FileType
    BY <1>1 DEF AtProjection, AtNoTouch, Generated, Headed, TestType
  <2>3. Projected(drawn, k) \in SUBSET (1..n) /\ 1..k \subseteq Projected(drawn, k)
    <3>1. 1..k \subseteq 1..n
      BY <2>2
    <3> QED
      BY <3>1 DEF Projected
  <2>4. PICK proj \in Seq(Nat) : /\ proj = SetToSeq(Projected(drawn, k))
                                 /\ IsInjective(proj) /\ ToSet(proj) = Projected(drawn, k)
    BY <2>3, SetListed
  <2>5. proj # NoLine
    BY NoLineAssumption
  <2>6. /\ t' \in TestType /\ t'.projected_vars = proj /\ t'.num_no_touch = k
        /\ t'.proj = t.proj /\ t'.weighted = t.weighted /\ t'.cpx = t.cpx
    <3>1. proj \in {NoLine} \union Seq(Nat) /\ t' = [t EXCEPT !.projected_vars = proj]
      BY <2>1, <2>4
    <3> HIDE <2>1
    <3> QED
      BY <2>2, <3>1 DEF TestType
  <2>7. /\ file' \in FileType /\ file'.show = proj
        /\ file'.p = file.p /\ file'.lines = file.lines /\ file'.max_var = file.max_var
        /\ file'.type = file.type /\ file'.weights = file.weights /\ file'.cut = file.cut
    <3>1. proj \in {NoLine} \union Seq(Nat) /\ file' = [file EXCEPT !.show = proj]
      BY <2>1, <2>4
    <3> HIDE <2>1
    <3> QED
      BY <2>2, <3>1 DEF FileType
  <2>8. NumVarsOf(file)' = n /\ Headed(file)'
    BY <1>1, <2>7 DEF AtProjection, AtNoTouch, Generated, Headed, NumVarsOf
  <2>9. Sampled(file)' = Projected(drawn, k)
    BY <2>4, <2>5, <2>7 DEF Sampled
  <2>10. Projects'
    BY <2>3, <2>4, <2>5, <2>6, <2>7, <2>8, <2>9 DEF Projects, AtProjection
  <2>11. file.type \in {NoLine, Type(t.proj, t.weighted)} /\ file.weights = <<>> /\ rest = <<>>
    BY DEF AtProjection, AtNoTouch, Generated, Bare
  <2>12. Generated'
    BY <2>6, <2>7, <2>8, <2>11 DEF Generated
  <2>13. pc' = "append" /\ rest' = rest
    BY <1>1, <1>3 DEF AddProjection, Goto
  <2> QED
    BY <2>7, <2>10, <2>11, <2>12, <2>13 DEF AtAppend
<1> QED
  BY <1>2, <1>3

\* A line that is none of these leaves the others true.
LEMMA OtherLineAdded ==
  ASSUME Generated, Projects, t' = t, file' \in FileType,
         file'.p = file.p, file'.lines = file.lines, file'.max_var = file.max_var,
         file'.type = file.type, file'.show = file.show, file'.cut = file.cut
  PROVE  /\ Generated' /\ Projects'
         /\ Sampled(file)' = Sampled(file) /\ NumVarsOf(file)' = NumVarsOf(file)
<1>1. NumVarsOf(file)' = NumVarsOf(file)
  BY DEF NumVarsOf
<1>2. Sampled(file)' = Sampled(file)
  BY <1>1 DEF Sampled
<1>3. Headed(file)'
  BY <1>1 DEF Generated, Headed
<1> QED
  BY <1>1, <1>2, <1>3 DEF Generated, Projects

\* The "c p no-touch" line is added.
LEMMA NoTouchAdded ==
  ASSUME AtAppend, AddNoTouch
  PROVE  /\ pc' \in {"weights", "preproc"}
         /\ pc' = "weights" => AtWeights'
         /\ pc' = "preproc" => AtPreproc'
<1>1. /\ t' = t /\ rest' = rest
      /\ file' = [file EXCEPT !.no_touch = IF t.num_no_touch = 0 THEN NoLine
                                          ELSE [i \in 1..t.num_no_touch |-> i]]
      /\ pc' = (IF Announced THEN "weights" ELSE "preproc")
  BY DEF AddNoTouch, Goto, Announced
<1>2. file \in FileType /\ t.num_no_touch \in Nat /\ file.weights = <<>> /\ rest = <<>>
  BY DEF AtAppend, Generated, Headed, TestType
<1>3. PICK k \in Nat : k = t.num_no_touch
  BY <1>2
<1>4. PICK list \in Seq(Nat) : list = [i \in 1..k |-> i]
  BY UpToListed
<1>5. PICK line \in {NoLine} \union Seq(Nat) : line = IF k = 0 THEN NoLine ELSE list
  OBVIOUS
<1>6. file' = [file EXCEPT !.no_touch = line]
  BY <1>1, <1>3, <1>4, <1>5
<1>7. /\ file' \in FileType /\ file'.no_touch = line
      /\ file'.p = file.p /\ file'.lines = file.lines /\ file'.max_var = file.max_var
      /\ file'.type = file.type /\ file'.show = file.show /\ file'.weights = file.weights
      /\ file'.cut = file.cut
  <2> HIDE <1>1, <1>5
  <2> QED
    BY <1>2, <1>6 DEF FileType
<1>8. Generated' /\ Projects' /\ Sampled(file)' = Sampled(file)
  BY <1>1, <1>7, OtherLineAdded DEF AtAppend
<1>9. NoTouchLine'
  BY <1>1, <1>3, <1>4, <1>5, <1>7 DEF NoTouchLine
<1>10. rest' = <<>> /\ file'.weights = <<>> /\ (Announced' <=> Announced)
  BY <1>1, <1>2, <1>7 DEF Announced
<1>11. Weighs'
  <2>1. <<>> \in Seq(Nat) /\ ToSet(<<>>) = {} /\ IsInjective(<<>>)
    BY FewElements, FewInjective
  <2> QED
    BY <1>10, <2>1 DEF Weighs
<1>12. AtAppend'
  BY <1>8, <1>10 DEF AtAppend
<1> QED
  BY <1>1, <1>8, <1>9, <1>10, <1>11, <1>12 DEF AtWeights, AtPreproc

\* The loop over the sampled variables begins.
LEMMA WeightsStarted ==
  ASSUME AtWeights, StartWeights
  PROVE  pc' = "exited" \/ (pc' \in Weightings /\ InWeighting')
<1>1. CASE NumVarsOf(file) = 0
  BY <1>1 DEF StartWeights, Goto
<1>2. CASE NumVarsOf(file) # 0
  <2>1. t' = t /\ file' = file /\ rest' = WeightedVars /\ pc' \in Weightings
    BY <1>2 DEF StartWeights, Goto
  <2>2. Generated /\ Projects /\ NoTouchLine /\ Announced /\ file.weights = <<>>
    BY DEF AtWeights, AtAppend
  <2>3. PICK n \in Nat : n = NumVarsOf(file)
    BY <2>2, FileFields DEF Generated, Headed
  <2>4. /\ WeightedVars \in Seq(Nat) /\ IsInjective(WeightedVars)
        /\ ToSet(WeightedVars) = Sampled(file)
    <3>1. CASE file.show = NoLine
      <4>1. WeightedVars = [i \in 1..n |-> i] /\ Sampled(file) = 1..n
        BY <2>2, <2>3, <3>1 DEF WeightedVars, Sampled, Projects
      <4> QED
        BY <4>1, UpToListed
    <3>2. CASE file.show # NoLine
      <4>1. WeightedVars = file.show /\ Sampled(file) = ToSet(file.show)
        BY <2>2, <3>2 DEF WeightedVars, Sampled, Projects
      <4>2. file.show \in Seq(Nat) /\ IsInjective(file.show)
        BY <2>2, <3>2, FileFields DEF Projects, Generated, Headed
      <4> QED
        BY <4>1, <4>2
    <3> QED
      BY <3>1, <3>2
  <2>5. file' \in FileType /\ file'.weights = <<>>
    BY <2>1, <2>2 DEF Generated, Headed
  <2>6. Generated' /\ Projects' /\ Sampled(file)' = Sampled(file)
    BY <2>1, <2>2, <2>5, OtherLineAdded
  <2>7. NoTouchLine' /\ Announced'
    BY <2>1, <2>2 DEF NoTouchLine, Announced
  <2>8. Weighs'
    <3>1. ToSet(<<>>) = {} /\ IsInjective(<<>>)
      BY FewElements, FewInjective
    <3>2. rest' \in Seq(Nat) /\ IsInjective(rest') /\ ToSet(rest') \subseteq Sampled(file)'
      BY <2>1, <2>4, <2>6
    <3> QED
      BY <2>5, <3>1, <3>2 DEF Weighs
  <2> QED
    BY <2>1, <2>6, <2>7, <2>8 DEF InWeighting
<1> QED
  BY <1>1, <1>2

\* The literals that are given a weight are those of the variable, each once.
LEMMA LiteralsOf ==
  ASSUME NEW v \in Nat \ {0}, NEW weighting \in Weightings,
         NEW literals \in WeightChoices(v, weighting), t.cpx \in BOOLEAN
  PROVE  /\ literals \in Seq(Int) /\ IsInjective(literals)
         /\ \A x \in ToSet(literals) : AbsVal(x) = v
<1>1. literals \in {<<>>, <<v>>, <<-v>>, <<v, -v>>}
  <2>1. weighting \in {"zerocomps", "messy", "full"}
    BY WeightingAssumption
  <2> QED
    BY <2>1 DEF WeightChoices
<1>2. v \in Int /\ -v \in Int /\ v # -v /\ AbsVal(v) = v /\ AbsVal(-v) = v
  BY DEF AbsVal
<1>3. CASE literals = <<>>
  <2>1. <<>> \in Seq(Int) /\ ToSet(<<>>) = {} /\ IsInjective(<<>>)
    BY FewElements, FewInjective
  <2> QED
    BY <1>3, <2>1
<1>4. ASSUME NEW x \in {v, -v}
      PROVE  <<x>> \in Seq(Int) /\ ToSet(<<x>>) = {x} /\ IsInjective(<<x>>)
  <2>1. x \in Int
    BY <1>2
  <2> QED
    BY <2>1, FewElements, FewInjective
<1>5. CASE literals \in {<<v>>, <<-v>>}
  <2>1. PICK x \in {v, -v} : literals = <<x>>
    BY <1>5
  <2>2. <<x>> \in Seq(Int) /\ ToSet(<<x>>) = {x} /\ IsInjective(<<x>>) /\ AbsVal(x) = v
    BY <1>2, <1>4
  <2>3. literals \in Seq(Int) /\ ToSet(literals) = {x} /\ IsInjective(literals)
    BY <2>1, <2>2
  <2> QED
    BY <2>2, <2>3
<1>6. CASE literals = <<v, -v>>
  <2>1. literals = Append(<<v>>, -v)
    BY <1>6
  <2> DEFINE one == <<v>>
  <2>2. one \in Seq(Int) /\ ToSet(one) = {v} /\ IsInjective(one) /\ literals = Append(one, -v)
    BY <1>4, <2>1
  <2> HIDE DEF one
  <2>3. /\ literals \in Seq(Int) /\ IsInjective(literals)
        /\ ToSet(literals) = {v} \union {-v}
    BY <1>2, <2>2, AppendElements
  <2> QED
    BY <1>2, <2>3
<1> QED
  BY <1>1, <1>3, <1>5, <1>6

\* The weights of one variable more.
LEMMA VarWeighted ==
  ASSUME InWeighting, pc \in Weightings, WeightVar
  PROVE  InWeighting' /\ pc' = pc
<1>1. /\ Generated /\ Projects /\ NoTouchLine /\ Announced
      /\ rest \in Seq(Nat) /\ IsInjective(rest) /\ ToSet(rest) \subseteq Sampled(file)
      /\ IsInjective(file.weights)
      /\ \A x \in ToSet(file.weights) : AbsVal(x) \in Sampled(file) /\ AbsVal(x) \notin ToSet(rest)
  BY DEF InWeighting, Weighs
<1>2. rest # <<>> /\ rest' = Tail(rest) /\ t' = t /\ pc' = pc
  BY DEF WeightVar
<1>3. file \in FileType /\ file.weights \in Seq(Int) /\ t.cpx \in BOOLEAN
  BY <1>1, FileFields DEF Generated, Headed, TestType
<1>4. PICK v : v = Head(rest)
  OBVIOUS
<1>5. /\ rest' \in Seq(Nat) /\ IsInjective(rest') /\ v \in ToSet(rest)
      /\ ToSet(rest') = ToSet(rest) \ {v}
  BY <1>1, <1>2, <1>4, Taken
<1>6. v \in Sampled(file) /\ v \in Nat \ {0}
  <2>1. v \in Sampled(file) /\ Sampled(file) \subseteq 1..NumVarsOf(file)
    BY <1>1, <1>5 DEF Projects
  <2>2. PICK n \in Nat : n = NumVarsOf(file)
    BY <1>3, FileFields
  <2>3. v \in 1..n
    BY <2>1, <2>2
  <2> QED
    BY <2>1, <2>3
<1>7. PICK literals \in WeightChoices(v, pc) :
         file' = [file EXCEPT !.weights = @ \o literals]
  BY <1>4 DEF WeightVar
<1>8. /\ literals \in Seq(Int) /\ IsInjective(literals)
      /\ \A x \in ToSet(literals) : AbsVal(x) = v
  BY <1>3, <1>6, LiteralsOf
<1>9. PICK weights \in Seq(Int) :
         /\ weights = file.weights \o literals
         /\ ToSet(weights) = ToSet(file.weights) \union ToSet(literals)
  <2>1. PICK old \in Seq(Int) : old = file.weights
    BY <1>3
  <2>2. /\ old \o literals \in Seq(Int)
        /\ ToSet(old \o literals) = ToSet(old) \union ToSet(literals)
    BY <1>8, ElementsOfConcat
  <2> QED
    BY <2>1, <2>2
<1>10. IsInjective(weights)
  <2>1. \A x \in ToSet(file.weights) : x \notin ToSet(literals)
    BY <1>1, <1>5, <1>8
  <2> QED
    BY <1>1, <1>3, <1>8, <1>9, <2>1, InjectiveConcat
<1>11. file' = [file EXCEPT !.weights = weights]
  BY <1>7, <1>9
<1>12. /\ file' \in FileType /\ file'.weights = weights
       /\ file'.p = file.p /\ file'.lines = file.lines /\ file'.max_var = file.max_var
       /\ file'.type = file.type /\ file'.show = file.show /\ file'.no_touch = file.no_touch
       /\ file'.cut = file.cut
  <2> HIDE <1>7
  <2> QED
    BY <1>3, <1>11 DEF FileType
<1>13. Generated' /\ Projects' /\ Sampled(file)' = Sampled(file)
  BY <1>1, <1>2, <1>12, OtherLineAdded
<1>14. NoTouchLine' /\ Announced'
  BY <1>1, <1>2, <1>12 DEF NoTouchLine, Announced
<1>15. \A x \in ToSet(weights) : AbsVal(x) \in Sampled(file) /\ AbsVal(x) \notin ToSet(rest')
  <2>1. \A x \in ToSet(file.weights) : AbsVal(x) \in Sampled(file) /\ AbsVal(x) \notin ToSet(rest')
    BY <1>1, <1>5
  <2>2. \A x \in ToSet(literals) : AbsVal(x) \in Sampled(file) /\ AbsVal(x) \notin ToSet(rest')
    BY <1>5, <1>6, <1>8
  <2> QED
    BY <1>9, <2>1, <2>2
<1>16. ToSet(rest') \subseteq Sampled(file)
  BY <1>1, <1>5
<1>17. Weighs'
  BY <1>5, <1>10, <1>12, <1>13, <1>15, <1>16 DEF Weighs
<1> QED
  BY <1>2, <1>13, <1>14, <1>17 DEF InWeighting

\* The loop over the variables ends.
LEMMA WeightingDone ==
  ASSUME InWeighting, WeightsDone
  PROVE  AtPreproc' /\ pc' = "preproc"
<1>1. t' = t /\ file' = file /\ rest' = rest /\ pc' = "preproc"
  BY DEF WeightsDone, Goto
<1>2. Generated /\ Projects /\ NoTouchLine /\ Weighs /\ Announced
  BY DEF InWeighting
<1>3. file' \in FileType
  BY <1>1, <1>2 DEF Generated, Headed
<1>4. Generated' /\ Projects' /\ Sampled(file)' = Sampled(file)
  BY <1>1, <1>2, <1>3, OtherLineAdded
<1>5. NoTouchLine' /\ Announced' /\ Weighs'
  BY <1>1, <1>2, <1>4 DEF NoTouchLine, Announced, Weighs
<1> QED
  BY <1>1, <1>4, <1>5 DEF AtPreproc

\* While the file and the test stay as they are.
LEMMA FileInvStays ==
  ASSUME FileInv, t' = t, file' = file, rest' = rest, pc' = pc
  PROVE  FileInv'
<1>1. Headed(file)' = Headed(file) /\ Bare(file)' = Bare(file) /\ Sampled(file)' = Sampled(file)
  BY DEF Headed, Bare, Sampled, NumVarsOf
<1>2. NumVarsOf(file)' = NumVarsOf(file)
  BY DEF NumVarsOf
<1>3. Generated' = Generated /\ Projects' = Projects
  BY <1>1, <1>2 DEF Generated, Projects
<1>4. NoTouchLine' = NoTouchLine /\ Announced' = Announced /\ Weighs' = Weighs
  BY <1>1 DEF NoTouchLine, Announced, Weighs
<1>5. AtNoTouch => AtNoTouch'
  BY <1>1, <1>3 DEF AtNoTouch
<1>6. AtProjection => AtProjection'
  BY <1>2, <1>5 DEF AtProjection
<1>7. AtAppend => AtAppend'
  BY <1>3 DEF AtAppend
<1>8. AtWeights => AtWeights'
  BY <1>4, <1>7 DEF AtWeights
<1>9. InWeighting => InWeighting'
  BY <1>3, <1>4 DEF InWeighting
<1>10. AtPreproc => AtPreproc'
  BY <1>3, <1>4 DEF AtPreproc
<1> QED
  BY <1>5, <1>6, <1>7, <1>8, <1>9, <1>10 DEF FileInv

\* Every step keeps the file as it ought to be.
LEMMA FileInvStep ==
  ASSUME CircuitLines, LayerInv, FileInv, [Next]_vars
  PROVE  FileInv'
<1> USE WeightingAssumption
<1>1. CASE CallGenerator
  <2>1. pc = "draw" /\ pc' = "generator" /\ rest' = rest
    BY <1>1 DEF CallGenerator, Goto
  <2> QED
    BY <2>1 DEF FileInv
<1>2. CASE CircuitRuns
  <2>1. t' = t /\ file' = file /\ rest' = rest /\ pc' = pc
    BY <1>2 DEF CircuitRuns, file_vars
  <2> QED
    BY <2>1, FileInvStays
<1>3. CASE LayersRun
  <2>1. pc = "generator" /\ pc' = pc /\ rest' = rest
    BY <1>3 DEF LayersRun, Running
  <2> QED
    BY <2>1 DEF FileInv
<1>4. CASE GeneratorDone
  <2>1. AtNoTouch' /\ pc' = "no-touch"
    BY <1>4, GeneratorDoneReady
  <2> QED
    BY <2>1 DEF FileInv
<1>5. CASE GeneratorSignalled
  <2>1. AtNoTouch' /\ pc' \in {"no-touch", "exited"}
    BY <1>5, SignalledReady
  <2> QED
    BY <2>1 DEF FileInv
<1>6. CASE PickNumNoTouch
  <2>1. AtNoTouch
    BY <1>6 DEF PickNumNoTouch, FuzzStep, FileInv
  <2>2. /\ pc' \in {"projection", "append"}
        /\ pc' = "projection" => AtProjection'
        /\ pc' = "append" => AtAppend'
    BY <1>6, <2>1, NoTouchPicked
  <2> QED
    BY <2>2 DEF FileInv
<1>7. CASE AddProjection
  <2>1. AtProjection
    BY <1>7 DEF AddProjection, FuzzStep, FileInv
  <2>2. pc' = "exited" \/ (pc' = "append" /\ AtAppend')
    BY <1>7, <2>1, ProjectionAdded
  <2> QED
    BY <2>2 DEF FileInv
<1>8. CASE AddNoTouch
  <2>1. AtAppend
    BY <1>8 DEF AddNoTouch, FuzzStep, FileInv
  <2>2. /\ pc' \in {"weights", "preproc"}
        /\ pc' = "weights" => AtWeights'
        /\ pc' = "preproc" => AtPreproc'
    BY <1>8, <2>1, NoTouchAdded
  <2> QED
    BY <2>2 DEF FileInv
<1>9. CASE StartWeights
  <2>1. AtWeights
    BY <1>9 DEF StartWeights, FuzzStep, FileInv
  <2>2. pc' = "exited" \/ (pc' \in Weightings /\ InWeighting')
    BY <1>9, <2>1, WeightsStarted
  <2> QED
    BY <2>2 DEF FileInv
<1>10. CASE AddWeights
  <2>1. pc \in Weightings /\ InWeighting
    BY <1>10 DEF AddWeights, FileInv
  <2>2. CASE WeightVar
    <3>1. InWeighting' /\ pc' = pc
      BY <2>1, <2>2, VarWeighted
    <3> QED
      BY <2>1, <3>1 DEF FileInv
  <2>3. CASE WeightsDone
    <3>1. AtPreproc' /\ pc' = "preproc"
      BY <2>1, <2>3, WeightingDone
    <3> QED
      BY <3>1 DEF FileInv
  <2> QED
    BY <1>10, <2>2, <2>3 DEF AddWeights
<1>11. CASE RunPreproc
  <2>1. pc' \in {"skipped", "exited", "accepted"}
    BY <1>11 DEF RunPreproc, Goto
  <2> QED
    BY <2>1 DEF FileInv
<1>12. CASE UNCHANGED vars
  <2>1. t' = t /\ file' = file /\ rest' = rest /\ pc' = pc
    BY <1>12 DEF vars, file_vars
  <2> QED
    BY <2>1, FileInvStays
<1> QED
  BY <1>1, <1>2, <1>3, <1>4, <1>5, <1>6, <1>7, <1>8, <1>9, <1>10, <1>11, <1>12
     DEF Next, Generator, Ended

-----------------------------------------------------------------------------
(***************************************************************************)
(* The file is as it ought to be.                                          *)
(***************************************************************************)

\* The four invariants together.
FileIndInv == IndInv /\ CircuitLines /\ LayerInv /\ FileInv

\* It holds at the start.
LEMMA InitFileInv == Init => FileIndInv
<1> SUFFICES ASSUME Init PROVE FileIndInv
  OBVIOUS
<1>1. /\ gen = "idle" /\ pc = "draw" /\ file = EmptyFile /\ rest = <<>>
      /\ mark = {} /\ printed = <<>> /\ num_clauses = 0 /\ places = 0
  BY DEF Init, NoCircuit, NoLayers
<1>2. IndInv
  BY InitInv
<1>3. CircuitLines
  BY <1>1 DEF CircuitLines
<1>4. LayerInv
  BY <1>1 DEF LayerInv
<1>5. FileInv
  BY <1>1, WeightingAssumption DEF FileInv
<1> QED
  BY <1>2, <1>3, <1>4, <1>5 DEF FileIndInv

\* It holds always.
LEMMA FileInvariance == Spec => []FileIndInv
<1>1. FileIndInv /\ [Next]_vars => FileIndInv'
  <2> SUFFICES ASSUME FileIndInv, [Next]_vars PROVE FileIndInv'
    OBVIOUS
  <2>1. IndInv /\ CircuitLines /\ LayerInv /\ FileInv
    BY DEF FileIndInv
  <2>2. IndInv'
    BY <2>1, Inductive
  <2>3. CircuitLines'
    BY <2>1, CircuitLinesStep
  <2>4. LayerInv'
    BY <2>1, LayerInvStep
  <2>5. FileInv'
    BY <2>1, FileInvStep
  <2> QED
    BY <2>2, <2>3, <2>4, <2>5 DEF FileIndInv
<1> QED
  BY <1>1, InitFileInv, PTL DEF Spec

\* No generator prints an empty clause, a tautology, a literal twice or a variable that
\* the header does not have, for any circuit, any layers of variables, any lengths of the
\* clauses, and both values of the options -t and -m.
THEOREM ClausesAreProper == Spec => []ClausesProper
<1>1. FileIndInv => ClausesProper
  <2> SUFFICES ASSUME FileIndInv PROVE ClausesProper
    OBVIOUS
  <2>1. ASSUME gen = "rclauses", places = 0, NEW k \in 1..Len(cnf)
        PROVE  Proper(cnf[k], cnf_id - 1)
    <3>1. /\ cnf \in Seq(ProperClauses(cnf_id - 1) \union {<<>>})
          /\ cnf[k] = <<>> => places > 0
      BY <2>1 DEF FileIndInv, CircuitLines, RandomPart
    <3>2. ~(places > 0)
      BY <2>1
    <3>3. cnf[k] \in ProperClauses(cnf_id - 1)
      BY <3>1, <3>2, ElementOfSeq
    <3> QED
      BY <3>3 DEF ProperClauses
  <2>2. ASSUME gen = "layers", LineDone
        PROVE  Proper(printed, HighestVar)
    <3>1. LayersFit /\ LoopsFit /\ MarksFit
      BY <2>2 DEF FileIndInv, LayerInv
    <3>2. PICK n \in Nat : n = HighestVar
      BY <3>1, LayerNumbers
    <3>3. at.len > 0 /\ at.place > at.len /\ at.place \in Nat /\ at.len \in Nat
      BY <2>2, <3>1 DEF LineDone, LoopsFit
    <3>4. at.place > 1
      BY <3>3
    <3>5. /\ printed # <<>> /\ printed \in Seq(LiteralsTo(n)) /\ OncePerVar(printed)
      BY <3>1, <3>2, <3>3, <3>4 DEF MarksFit
    <3>6. LiteralsTo(n) \subseteq Int
      BY DEF LiteralsTo
    <3>7. printed \in Seq(Int) /\ ToSet(printed) \subseteq LiteralsTo(n)
      BY <3>5, <3>6, MoreClauses, Place
    <3>8. DOMAIN printed = 1..Len(printed) /\ \A k \in 1..Len(printed) : printed[k] \in LiteralsTo(n)
      BY <3>5, LenProperties, ElementOfSeq
    <3>9. IsInjective(printed)
      BY <3>5, <3>8 DEF IsInjective, OncePerVar
    <3>10. ~Tautology(printed)
      <4> SUFFICES ASSUME NEW i \in 1..Len(printed), NEW j \in 1..Len(printed),
                          printed[i] = -printed[j]
                   PROVE  FALSE
        BY DEF Tautology
      <4>1. PICK x \in LiteralsTo(n) : x = printed[j] /\ printed[i] = -x
        BY <3>8
      <4>2. AbsVal(-x) = AbsVal(x)
        BY Opposite
      <4>3. i = j
        BY <3>5, <4>1, <4>2 DEF OncePerVar
      <4>4. x = -x /\ x # 0 /\ x \in Int
        BY <4>1, <4>3 DEF LiteralsTo
      <4> QED
        BY <4>4
    <3>11. Consistent(printed)
      BY <3>7, <3>10, TautologyElements
    <3>12. printed \in ProperClauses(n)
      BY <3>5, <3>7, <3>9, <3>11, ProperFrom
    <3> QED
      BY <3>2, <3>12 DEF ProperClauses
  <2>3. ASSUME gen = "layers", ~InClause, ~LineDone
        PROVE  mark = {}
    <3>1. LoopsFit /\ MarksFit
      BY <2>3 DEF FileIndInv, LayerInv
    <3>2. at.len \in Nat /\ at.place \in Nat
      BY <3>1 DEF LoopsFit
    <3>3. at.len = 0
      BY <2>3, <3>1, <3>2 DEF InClause, LineDone, LoopsFit
    <3> QED
      BY <3>1, <3>3 DEF MarksFit
  <2> QED
    BY <2>1, <2>2, <2>3 DEF ClausesProper
<1> QED
  BY <1>1, FileInvariance, PTL

\* Whatever the generators draw and the tests ask for, the file that fuzz.py gives to
\* Arjun passes the check that it makes of the header in Arjun's output unless a signal
\* stopped Brummayer between its header and its last clause, and then it never passes;
\* the no-touch variables are there and sampled in either case.
THEOREM OwnFileIsAccepted == Spec => []OwnFileAccepted
<1>1. FileIndInv => OwnFileAccepted
  <2> SUFFICES ASSUME FileIndInv, pc = "preproc"
               PROVE  /\ CheckHeader(file) <=> ~file.cut
                      /\ CheckNoTouchPreserved(file, t.num_no_touch)
    BY DEF OwnFileAccepted
  <2>1. Generated /\ Projects /\ NoTouchLine
    BY DEF FileIndInv, FileInv, AtPreproc
  <2>2. file \in FileType /\ t.num_no_touch \in Nat
    BY <2>1 DEF Generated, Headed, TestType
  <2>3. CheckHeader(file) <=> ~file.cut
    <3>1. ~file.blank
      BY <2>2, FileFields
    <3>2. file.p # NoLine => file.p.pieces = 4
      <4>1. file.p # NoLine => file.p \in [pieces : {4}, vars : Nat, clauses : Nat]
        BY <2>2, FileFields
      <4> QED
        BY <4>1
    <3>3. CASE ~file.cut
      BY <2>1, <3>1, <3>2, <3>3 DEF CheckHeader, Generated, Headed
    <3>4. CASE file.cut
      <4>1. file.p # NoLine /\ file.lines < file.p.clauses
        BY <2>1, <3>4 DEF Generated, Headed
      <4>2. file.lines \in Nat /\ file.p \in [pieces : {4}, vars : Nat, clauses : Nat]
        BY <2>2, <4>1, FileFields
      <4>3. file.p.clauses \in Nat
        BY <4>2
      <4>4. file.lines # file.p.clauses
        BY <4>1, <4>2, <4>3
      <4> QED
        BY <3>4, <4>1, <4>4 DEF CheckHeader
    <3> QED
      BY <3>3, <3>4
  <2>4. CheckNoTouchPreserved(file, t.num_no_touch)
    <3>1. PICK n \in Nat, k \in Nat : n = NumVarsOf(file) /\ k = t.num_no_touch
      BY <2>2, FileFields
    <3>2. 1..k \subseteq Sampled(file) /\ Sampled(file) \subseteq 1..n
      BY <2>1, <3>1 DEF Projects
    <3>3. k # 0 => n >= k
      <4>1. k # 0 => k \in 1..k
        OBVIOUS
      <4>2. k # 0 => k \in 1..n
        BY <3>2, <4>1
      <4> QED
        BY <4>2
    <3> QED
      BY <2>1, <3>1, <3>2, <3>3 DEF CheckNoTouchPreserved, NoTouchLine
  <2> QED
    BY <2>3, <2>4
<1> QED
  BY <1>1, FileInvariance, PTL

\* The lines that generate_cnf appends fit together for any number of variables and any
\* draws: no-touch variables are sampled, sampled ones exist, a weight is given to
\* sampled variables only and once for a literal, and "c t" announces the lines.
THEOREM AppendedLinesFit == Spec => []LinesFit
<1>1. FileIndInv => LinesFit
  <2> SUFFICES ASSUME FileIndInv, pc = "preproc"
               PROVE  /\ Sampled(file) \subseteq 1..NumVarsOf(file)
                      /\ file.no_touch # NoLine => ToSet(file.no_touch) \subseteq Sampled(file)
                      /\ IsInjective(file.weights)
                      /\ \A x \in ToSet(file.weights) : AbsVal(x) \in Sampled(file)
                      /\ file.type # NoLine /\ ~t.cpx =>
                            /\ file.show # NoLine <=> file.type \in {"pmc", "pwmc"}
                            /\ file.weights # <<>> => file.type \in {"wmc", "pwmc"}
    BY DEF LinesFit
  <2>1. /\ Generated /\ Projects /\ NoTouchLine /\ Weighs
        /\ file.weights # <<>> => Announced
    BY DEF FileIndInv, FileInv, AtPreproc
  <2>2. file.no_touch # NoLine => ToSet(file.no_touch) \subseteq Sampled(file)
    <3>1. PICK k \in Nat : k = t.num_no_touch
      BY <2>1 DEF Generated, TestType
    <3>2. file.no_touch # NoLine => file.no_touch = [i \in 1..k |-> i]
      BY <2>1, <3>1 DEF NoTouchLine
    <3>3. ToSet([i \in 1..k |-> i]) = 1..k
      BY UpToListed
    <3>4. 1..k \subseteq Sampled(file)
      BY <2>1, <3>1 DEF Projects
    <3> QED
      BY <3>2, <3>3, <3>4
  <2>3. ASSUME file.type # NoLine, ~t.cpx
        PROVE  /\ file.show # NoLine <=> file.type \in {"pmc", "pwmc"}
               /\ file.weights # <<>> => file.type \in {"wmc", "pwmc"}
    <3>1. t.proj \in BOOLEAN /\ t.weighted \in BOOLEAN /\ t.cpx \in BOOLEAN
      BY <2>1 DEF Generated, TestType
    <3>2. file.type = Type(t.proj, t.weighted)
      BY <2>1, <2>3 DEF Generated
    <3>3. t.proj <=> file.show # NoLine
      BY <2>1 DEF Projects
    <3>4. file.weights # <<>> => t.weighted
      BY <2>1, <2>3 DEF Announced
    <3>5. /\ t.proj <=> file.type \in {"pmc", "pwmc"}
          /\ t.weighted => file.type \in {"wmc", "pwmc"}
      BY <3>1, <3>2 DEF Type
    <3> QED
      BY <3>3, <3>4, <3>5
  <2> QED
    BY <2>1, <2>2, <2>3 DEF Projects, Weighs
<1> QED
  BY <1>1, FileInvariance, PTL

=============================================================================
