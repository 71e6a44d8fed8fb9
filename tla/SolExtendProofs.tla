-------------------------- MODULE SolExtendProofs ---------------------------
(***************************************************************************)
(* Proofs about SolExtend, for directories with any number of names, every *)
(* formula without a tautology and whatever the solvers print.             *)
(*                                                                         *)
(* The names a round holds are told by where it is (HeldOK); so every file *)
(* of the process that it does not hold is a reconstruction of a slow      *)
(* Arjun, and they are counted one by one (LostOK).                        *)
(***************************************************************************)
EXTENDS SolExtend, FiniteSetTheorems, WellFoundedInduction, TLAPS

-----------------------------------------------------------------------------
(***************************************************************************)
(* The invariant.                                                          *)
(***************************************************************************)

States == {"absent", "old", "ours"}

\* The names a round holds when it gets to a place.
HeldAt(place) ==
    CASE place = "loop" -> {}
      [] place \in {"generate", "claim fname2"} -> {"fname"}
      [] place = "claim reconstruct" -> {"fname", "fname2"}
      [] place \in {"preproc", "solve", "claim tmp"} -> {"fname", "fname2", "reconstruct"}
      [] place = "postproc" -> Role

Places == {"loop", "generate", "claim fname2", "claim reconstruct", "preproc", "solve",
           "claim tmp", "postproc"}

TypeOK ==
    /\ dir \in [Slot -> States]
    /\ held \in [Role -> Slot \union {0}]
    /\ pc \in Places \union {"finish", "exited"}
    /\ formula \in Formulas \union {{}}
    /\ \A v \in DOMAIN solution : solution[v] \in BOOLEAN
    /\ slow \in Nat

HeldOK ==
    /\ pc \in Places => \A r \in Role : held[r] # 0 <=> r \in HeldAt(pc)
    /\ \A r \in Role : held[r] # 0 => dir[held[r]] = "ours"
    /\ \A r, s \in Role : held[r] = held[s] /\ held[r] # 0 => r = s

Lost == Ours \ Held

LostOK == IsFiniteSet(Lost) /\ Cardinality(Lost) = slow

\* The verdict is about the formula and the solution that are there.
Told ==
    /\ told = "verified" => pc = "finish" /\ TestFoundSolution(solution, formula)
    /\ told = "not satisfied" => pc = "exited" /\ ~TestFoundSolution(solution, formula)

IndInv == TypeOK /\ HeldOK /\ LostOK /\ Told

-----------------------------------------------------------------------------
(***************************************************************************)
(* What a check of a solution says of the formula.                         *)
(***************************************************************************)

\* A clause that holds is true however the solution is completed.
LEMMA ChecksAreSound ==
  ASSUME NEW sol, NEW clauses, TestFoundSolution(sol, clauses),
         NEW a \in Completions(sol, clauses)
  PROVE  Model(a, clauses)
<1> SUFFICES ASSUME NEW c \in clauses PROVE \E x \in c : a[VarOf(x)] = (x > 0)
  BY DEF Model
<1>1. PICK x \in c : VarOf(x) \in DOMAIN sol /\ sol[VarOf(x)] = (x > 0)
  BY DEF TestFoundSolution, Holds
<1>2. VarOf(x) \in VarsOf(clauses)
  BY DEF VarsOf
<1>3. a[VarOf(x)] = sol[VarOf(x)]
  BY <1>1, <1>2 DEF Completions
<1> QED
  BY <1>1, <1>3

\* A clause that does not hold is false in some completion, since it is no tautology.
LEMMA ChecksAreComplete ==
  ASSUME NEW sol, \A v \in DOMAIN sol : sol[v] \in BOOLEAN,
         NEW clauses \in Formulas \union {{}}, ~TestFoundSolution(sol, clauses)
  PROVE  \E a \in Completions(sol, clauses) : ~Model(a, clauses)
<1>1. PICK c \in clauses : ~Holds(c, sol)
  BY DEF TestFoundSolution
<1>2. \A x \in c : x \in Int /\ x # 0 /\ -x \notin c
  BY FormulaAssumption
<1> DEFINE a == [v \in VarsOf(clauses) |-> IF v \in DOMAIN sol THEN sol[v] ELSE v \notin c]
<1>3. a \in Completions(sol, clauses)
  <2>1. ASSUME NEW v \in VarsOf(clauses)
        PROVE  (IF v \in DOMAIN sol THEN sol[v] ELSE v \notin c) \in BOOLEAN
    <3>1. (v \notin c) \in BOOLEAN
      OBVIOUS
    <3> QED
      BY <3>1, Zenon
  <2>2. a \in [VarsOf(clauses) -> BOOLEAN]
    BY <2>1, Zenon
  <2>3. \A v \in VarsOf(clauses) \intersect DOMAIN sol : a[v] = sol[v]
    BY Zenon
  <2> HIDE DEF a
  <2> QED
    BY <2>2, <2>3, Zenon DEF Completions
<1>4. ASSUME NEW x \in c, a[VarOf(x)] = (x > 0) PROVE FALSE
  <2>1. VarOf(x) \in VarsOf(clauses)
    BY DEF VarsOf
  <2>2. CASE VarOf(x) \in DOMAIN sol
    <3>1. a[VarOf(x)] = sol[VarOf(x)]
      BY <2>1, <2>2, Zenon
    <3>2. sol[VarOf(x)] # (x > 0)
      BY <1>1, <2>2, Zenon DEF Holds
    <3> QED
      BY <1>4, <3>1, <3>2, Zenon
  <2>3. CASE VarOf(x) \notin DOMAIN sol
    <3>1. a[VarOf(x)] = (VarOf(x) \notin c)
      BY <2>1, <2>3, Zenon
    <3>2. (VarOf(x) \notin c) = (x > 0)
      BY <1>4, <3>1, Zenon
    <3> HIDE DEF a
    <3>3. CASE x > 0
      BY <1>2, <3>2, <3>3 DEF VarOf
    <3>4. CASE ~(x > 0)
      BY <1>2, <3>2, <3>4 DEF VarOf
    <3> QED
      BY <3>3, <3>4
  <2> QED
    BY <2>2, <2>3
<1> QED
  BY <1>1, <1>3, <1>4, Zenon DEF Model

-----------------------------------------------------------------------------
(***************************************************************************)
(* Names.                                                                  *)
(***************************************************************************)

\* unique_file finds the smallest number that is free.
LEMMA MinIsFree ==
  ASSUME NEW free \in SUBSET Slot, free # {}
  PROVE  Min(free) \in free
<1>1. free \subseteq Nat
  BY NamesAssumption DEF Slot
<1> DEFINE less == OpToRel(<, Nat)
<1>2. \A j, k \in Nat : j < k => <<j, k>> \in less
  BY DEF OpToRel
<1>3. IsWellFoundedOn(less, Nat)
  BY NatLessThanWellFounded
<1> HIDE DEF less
<1>4. PICK k \in free : \A j \in free : ~(<<j, k>> \in less)
  BY <1>1, <1>3, WFMin
<1>5. ASSUME NEW j \in free PROVE k <= j
  <2>1. j \in Nat /\ k \in Nat
    BY <1>1
  <2>2. ~(<<j, k>> \in less)
    BY <1>4
  <2>3. ~(j < k)
    BY <1>2, <2>1, <2>2
  <2> QED
    BY <2>1, <2>3
<1> QED
  BY <1>5 DEF Min

LEMMA ZeroIsNoSlot == 0 \notin Slot
BY DEF Slot

\* A file that is claimed is held and lost by nobody.
LEMMA ClaimInv ==
  ASSUME IndInv, NEW role \in Role, NEW next \in Places, pc \in Places,
         role \notin HeldAt(pc), HeldAt(next) = HeldAt(pc) \union {role},
         Claim(role, next), UNCHANGED <<formula, simp, solution, solver, slow>>
  PROVE  IndInv'
<1> DEFINE free == {k \in Slot : dir[k] = "absent"}
<1>0. TypeOK /\ HeldOK /\ LostOK
  BY DEF IndInv
<1>1. CASE free = {}
  <2>1. pc' = "exited" /\ told' = "no name" /\ dir' = dir /\ held' = held
    BY <1>1 DEF Claim, Exit
  <2>2. TypeOK'
    BY <1>0, <2>1 DEF TypeOK
  <2>3. HeldOK'
    BY <1>0, <2>1 DEF HeldOK, Places
  <2>4. LostOK'
    BY <1>0, <2>1 DEF LostOK, Lost, Ours, Held
  <2> QED
    BY <2>1, <2>2, <2>3, <2>4 DEF IndInv, Told
<1>2. CASE free # {}
  <2> DEFINE k == Min(free)
  <2>1. k \in Slot /\ dir[k] = "absent"
    <3>1. free \in SUBSET Slot
      OBVIOUS
    <3> HIDE DEF free
    <3>2. k \in free
      BY <1>2, <3>1, MinIsFree
    <3> QED
      BY <3>2 DEF free
  <2>2. /\ dir' = [dir EXCEPT ![k] = "ours"] /\ held' = [held EXCEPT ![role] = k]
        /\ pc' = next /\ told' = "nothing"
    BY <1>2 DEF Claim
  <2> HIDE DEF k, free
  <2>3. k # 0 /\ held[role] = 0
    BY <1>0, <2>1, ZeroIsNoSlot DEF HeldOK
  <2>4. TypeOK'
    BY <1>0, <2>1, <2>2 DEF TypeOK, States
  <2>5. /\ held'[role] = k /\ dir'[k] = "ours"
        /\ \A r \in Role : r # role => held'[r] = held[r]
        /\ \A j \in Slot : j # k => dir'[j] = dir[j]
    BY <1>0, <2>1, <2>2 DEF TypeOK
  <2>6. \A r \in Role : held[r] # 0 => held[r] \in Slot /\ held[r] # k
    BY <1>0, <2>1 DEF HeldOK, TypeOK
  <2>7. HeldOK'
    <3>1. \A r \in Role : held'[r] # 0 <=> r \in HeldAt(next)
      BY <1>0, <2>3, <2>5 DEF HeldOK
    <3>2. \A r \in Role : held'[r] # 0 => dir'[held'[r]] = "ours"
      BY <1>0, <2>5, <2>6 DEF HeldOK
    <3>3. \A r, s \in Role : held'[r] = held'[s] /\ held'[r] # 0 => r = s
      BY <1>0, <2>5, <2>6 DEF HeldOK
    <3> QED
      BY <2>2, <3>1, <3>2, <3>3 DEF HeldOK
  <2>8. Lost' = Lost
    <3>1. \A x : x \in Ours' <=> x \in Ours \/ x = k
      BY <2>1, <2>5 DEF Ours
    <3>2. \A x : x \in Held' <=> x \in Held \/ x = k
      BY <2>3, <2>5 DEF Held
    <3>3. k \notin Ours
      BY <2>1 DEF Ours
    <3> QED
      BY <3>1, <3>2, <3>3 DEF Lost
  <2>9. LostOK'
    BY <1>0, <2>8 DEF LostOK
  <2> QED
    BY <2>2, <2>4, <2>7, <2>9 DEF IndInv, Told
<1> QED
  BY <1>1, <1>2

LEMMA ClaimFileInv ==
  ASSUME IndInv, ClaimFile
  PROVE  IndInv'
<1>0. UNCHANGED <<formula, simp, solution, solver, slow>>
  BY DEF ClaimFile
<1>1. CASE pc = "loop" /\ Claim("fname", "generate")
  <2>1. HeldAt("loop") = {} /\ HeldAt("generate") = {"fname"} /\ "fname" \in Role
    BY DEF HeldAt, Role
  <2> QED
    BY <1>0, <1>1, <2>1, ClaimInv DEF Places
<1>2. CASE pc = "claim fname2" /\ Claim("fname2", "claim reconstruct")
  <2>1. /\ HeldAt("claim fname2") = {"fname"} /\ "fname2" \in Role
        /\ HeldAt("claim reconstruct") = {"fname", "fname2"}
    BY DEF HeldAt, Role
  <2> QED
    BY <1>0, <1>2, <2>1, ClaimInv DEF Places
<1>3. CASE pc = "claim reconstruct" /\ Claim("reconstruct", "preproc")
  <2>1. /\ HeldAt("claim reconstruct") = {"fname", "fname2"} /\ "reconstruct" \in Role
        /\ HeldAt("preproc") = {"fname", "fname2", "reconstruct"}
    BY DEF HeldAt, Role
  <2> QED
    BY <1>0, <1>3, <2>1, ClaimInv DEF Places
<1>4. CASE pc = "claim tmp" /\ Claim("fname_tmp", "postproc")
  <2>1. /\ HeldAt("claim tmp") = {"fname", "fname2", "reconstruct"} /\ "fname_tmp" \in Role
        /\ HeldAt("postproc") = HeldAt("claim tmp") \union {"fname_tmp"}
    BY DEF HeldAt, Role
  <2> QED
    BY <1>0, <1>4, <2>1, ClaimInv DEF Places
<1> QED
  BY <1>1, <1>2, <1>3, <1>4 DEF ClaimFile

-----------------------------------------------------------------------------
(***************************************************************************)
(* The other steps of a round.                                             *)
(***************************************************************************)

\* Nothing is claimed or unlinked.
LEMMA FilesStay ==
  ASSUME IndInv, dir' = dir, held' = held, slow' = slow,
         \/ pc' \in {"exited", "finish"}
         \/ pc \in Places /\ pc' \in Places /\ HeldAt(pc') = HeldAt(pc)
  PROVE  HeldOK' /\ LostOK'
<1>1. Ours' = Ours /\ Held' = Held
  BY DEF Ours, Held
<1>2. LostOK'
  BY <1>1 DEF IndInv, LostOK, Lost
<1>3. pc' \in Places => \A r \in Role : held[r] # 0 <=> r \in HeldAt(pc')
  <2>1. pc' \in Places => pc \in Places /\ HeldAt(pc') = HeldAt(pc)
    BY DEF Places
  <2> QED
    BY <2>1 DEF IndInv, HeldOK
<1>4. HeldOK'
  BY <1>3 DEF IndInv, HeldOK
<1> QED
  BY <1>2, <1>4

LEMMA SolutionTyped ==
  ASSUME NEW out
  PROVE  \A v \in DOMAIN Solution(out) : Solution(out)[v] \in BOOLEAN
<1> DEFINE lits == FlattenSeq([j \in 1..Len(out) |-> LitsOf(out[j])])
           value(v) == \E k \in 1..Len(lits) :
                          lits[k] = v /\ \A j \in (k + 1)..Len(lits) : VarOf(lits[j]) # v
<1>1. Solution(out) = [v \in {VarOf(x) : x \in ToSet(lits)} |-> value(v)]
  BY DEF Solution
<1>2. \A v : value(v) \in BOOLEAN
  OBVIOUS
<1> HIDE DEF value, lits
<1> QED
  BY <1>1, <1>2

LEMMA GenerateInv ==
  ASSUME IndInv, Generate
  PROVE  IndInv'
<1>1. /\ pc = "generate" /\ UNCHANGED <<dir, held, simp, solution, solver, slow>>
      /\ \/ pc' = "exited" /\ told' = "generator" /\ formula' = formula
         \/ formula' \in Formulas /\ pc' = "claim fname2" /\ told' = told
  BY DEF Generate, Exit
<1>2. HeldAt("claim fname2") = HeldAt("generate")
  BY DEF HeldAt
<1>3. HeldOK' /\ LostOK'
  BY <1>1, <1>2, FilesStay DEF Places
<1>4. TypeOK'
  BY <1>1 DEF IndInv, TypeOK, Places
<1>5. Told'
  BY <1>1 DEF IndInv, Told
<1> QED
  BY <1>3, <1>4, <1>5 DEF IndInv

\* A slow Arjun: the copy is unlinked and the reconstruction is lost.
LEMMA ArjunSlowInv ==
  ASSUME IndInv, pc = "preproc", dir' = Without(DroppedByMain),
         held' = [held EXCEPT !.fname2 = 0, !.reconstruct = 0],
         slow' = slow + 1, pc' = "finish"
  PROVE  HeldOK' /\ LostOK' /\ dir' \in [Slot -> States] /\ held' \in [Role -> Slot \union {0}]
<1>0. TypeOK /\ HeldOK /\ LostOK
  BY DEF IndInv
<1> DEFINE copy == held["fname2"]
           lost == held["reconstruct"]
<1>1. "fname2" \in Role /\ "reconstruct" \in Role /\ "fname2" # "reconstruct"
  BY DEF Role
<1>2. \A r \in {"fname2", "reconstruct"} : r \in HeldAt("preproc")
  BY DEF HeldAt
<1>3. copy # 0 /\ lost # 0
  BY <1>0, <1>1, <1>2 DEF HeldOK, Places
<1>4. copy \in Slot /\ lost \in Slot /\ dir[lost] = "ours" /\ copy # lost
  BY <1>0, <1>1, <1>3 DEF TypeOK, HeldOK
<1>5. /\ dir' \in [Slot -> States] /\ dir'[copy] = "absent"
      /\ \A k \in Slot : k # copy => dir'[k] = dir[k]
  BY <1>0, <1>4 DEF Without, DroppedByMain, TypeOK, States
<1>6. /\ held' \in [Role -> Slot \union {0}]
      /\ held'["fname2"] = 0 /\ held'["reconstruct"] = 0
      /\ \A r \in Role : r \notin {"fname2", "reconstruct"} => held'[r] = held[r]
  BY <1>0, <1>1 DEF TypeOK
<1> HIDE DEF copy, lost
<1>7. \A r \in Role : held'[r] # 0 => held'[r] = held[r] /\ held[r] \in Slot
                                      /\ held[r] # copy /\ held[r] # lost
  BY <1>0, <1>1, <1>6 DEF HeldOK, TypeOK, copy, lost
<1>8. HeldOK'
  <2>1. \A r \in Role : held'[r] # 0 => dir'[held'[r]] = "ours"
    BY <1>0, <1>5, <1>7 DEF HeldOK
  <2>2. \A r, s \in Role : held'[r] = held'[s] /\ held'[r] # 0 => r = s
    BY <1>0, <1>7 DEF HeldOK
  <2> QED
    BY <2>1, <2>2 DEF HeldOK, Places
<1>9. Lost' = Lost \union {lost}
  <2>1. \A x : x \in Ours' <=> x \in Ours /\ x # copy
    BY <1>4, <1>5 DEF Ours, States
  <2>2. \A x : x \in Held' <=> x \in Held /\ x # copy /\ x # lost
    <3>1. \A x : x \in Held' => x \in Held /\ x # copy /\ x # lost
      BY <1>7 DEF Held
    <3>2. ASSUME NEW x \in Held, x # copy, x # lost PROVE x \in Held'
      <4>1. PICK r \in Role : held[r] = x /\ x # 0
        BY DEF Held
      <4>2. r \notin {"fname2", "reconstruct"}
        BY <3>2, <4>1 DEF copy, lost
      <4> QED
        BY <1>6, <4>1, <4>2 DEF Held
    <3> QED
      BY <3>1, <3>2
  <2>3. copy \in Held /\ lost \in Ours
    BY <1>1, <1>3, <1>4 DEF Held, Ours, copy, lost
  <2> QED
    BY <1>4, <2>1, <2>2, <2>3 DEF Lost
<1>10. lost \notin Lost
  BY <1>1, <1>3 DEF Lost, Held, lost
<1>11. LostOK'
  BY <1>0, <1>9, <1>10, FS_AddElement DEF LostOK
<1> QED
  BY <1>5, <1>6, <1>8, <1>11

LEMMA RunPreprocInv ==
  ASSUME IndInv, RunPreproc
  PROVE  IndInv'
<1>0. pc = "preproc" /\ UNCHANGED <<formula, solution, solver>>
  BY DEF RunPreproc
<1>1. CASE /\ pc' = "exited" /\ told' \in {"error output", "broken header", "name error"}
           /\ UNCHANGED <<dir, held, simp, slow>>
  <2>1. HeldOK' /\ LostOK'
    BY <1>1, FilesStay
  <2>2. TypeOK'
    BY <1>0, <1>1 DEF IndInv, TypeOK
  <2>3. Told'
    BY <1>1 DEF Told
  <2> QED
    BY <2>1, <2>2, <2>3 DEF IndInv
<1>2. CASE /\ dir' = Without(DroppedByMain)
           /\ held' = [held EXCEPT !.fname2 = 0, !.reconstruct = 0]
           /\ slow' = slow + 1
           /\ pc' = "finish" /\ told' = "arjun slow"
  <2>1. HeldOK' /\ LostOK' /\ dir' \in [Slot -> States] /\ held' \in [Role -> Slot \union {0}]
    BY <1>0, <1>2, ArjunSlowInv
  <2>2. TypeOK'
    <3>1. slow' \in Nat
      <4>1. slow \in Nat
        BY DEF IndInv, TypeOK
      <4>2. slow' = slow + 1
        BY <1>2
      <4> QED
        BY <4>1, <4>2
    <3>2. formula' \in Formulas \union {{}} /\ \A v \in DOMAIN solution' : solution'[v] \in BOOLEAN
      BY <1>0 DEF IndInv, TypeOK
    <3>3. pc' \in Places \union {"finish", "exited"}
      BY <1>2
    <3> QED
      BY <2>1, <3>1, <3>2, <3>3 DEF TypeOK
  <2>3. Told'
    BY <1>2 DEF Told
  <2> QED
    BY <2>1, <2>2, <2>3 DEF IndInv
<1>3. CASE pc' = "solve" /\ UNCHANGED <<dir, held, slow, told>>
  <2>1. HeldAt("solve") = HeldAt("preproc")
    BY DEF HeldAt
  <2>2. HeldOK' /\ LostOK'
    BY <1>0, <1>3, <2>1, FilesStay DEF Places
  <2>3. TypeOK'
    BY <1>0, <1>3 DEF IndInv, TypeOK, Places
  <2>4. Told'
    BY <1>0, <1>3 DEF IndInv, Told
  <2> QED
    BY <2>2, <2>3, <2>4 DEF IndInv
<1> QED
  BY <1>1, <1>2, <1>3 DEF RunPreproc, Exit

LEMMA RunSolverInv ==
  ASSUME IndInv, RunSolver
  PROVE  IndInv'
<1>0. pc = "solve" /\ UNCHANGED <<dir, held, formula, simp, slow>>
  BY DEF RunSolver
<1> DEFINE parsed == solution' = solution \/ \E out : solution' = Solution(out)
           ends ==
             \/ /\ pc' \in {"exited", "finish"}
                /\ told' \in {"error output", "solver slow", "unreadable", "unsat", "solver wrong"}
             \/ pc' = "claim tmp" /\ told' = told
<1>1. parsed /\ ends
  <2>1. CASE Exit("error output") /\ UNCHANGED solution
    BY <2>1 DEF Exit
  <2>2. CASE pc' = "finish" /\ told' = "solver slow" /\ UNCHANGED solution
    BY <2>2
  <2>3. ASSUME NEW out \in Outputs,
               IF ~Readable(out) THEN Exit("unreadable") /\ UNCHANGED solution
               ELSE IF ~Sat(out) THEN pc' = "finish" /\ told' = "unsat" /\ UNCHANGED solution
               ELSE /\ solution' = Solution(out)
                    /\ IF TestFoundSolution(solution', simp)
                       THEN pc' = "claim tmp" /\ UNCHANGED told
                       ELSE Exit("solver wrong")
        PROVE  parsed /\ ends
    BY <2>3 DEF Exit
  <2> QED
    BY <2>1, <2>2, <2>3 DEF RunSolver
<1>2. \A v \in DOMAIN solution' : solution'[v] \in BOOLEAN
  <2>1. CASE solution' = solution
    BY <2>1 DEF IndInv, TypeOK
  <2>2. ASSUME NEW out, solution' = Solution(out)
        PROVE  \A v \in DOMAIN solution' : solution'[v] \in BOOLEAN
    BY <2>2, SolutionTyped
  <2> QED
    BY <1>1, <2>1, <2>2
<1>3. HeldAt("claim tmp") = HeldAt("solve")
  BY DEF HeldAt
<1>4. HeldOK' /\ LostOK'
  BY <1>0, <1>1, <1>3, FilesStay DEF Places
<1>5. TypeOK'
  BY <1>0, <1>1, <1>2 DEF IndInv, TypeOK, Places
<1>6. Told'
  BY <1>0, <1>1 DEF IndInv, Told
<1> QED
  BY <1>4, <1>5, <1>6 DEF IndInv

LEMMA PostprocInv ==
  ASSUME IndInv, Postproc
  PROVE  IndInv'
<1>0. /\ pc = "postproc" /\ UNCHANGED <<formula, simp, solver, slow>>
      /\ TypeOK /\ HeldOK /\ LostOK
  BY DEF Postproc, IndInv
<1>1. CASE /\ pc' = "exited" /\ told' \in {"error output", "unreadable"}
           /\ UNCHANGED <<dir, held, solution>>
  <2>1. HeldOK' /\ LostOK'
    BY <1>0, <1>1, FilesStay
  <2>2. TypeOK'
    BY <1>0, <1>1 DEF TypeOK
  <2>3. Told'
    BY <1>1 DEF Told
  <2> QED
    BY <2>1, <2>2, <2>3 DEF IndInv
<1>2. ASSUME NEW out, dir' = Without({held["fname_tmp"]}),
             held' = [held EXCEPT !.fname_tmp = 0], solution' = Solution(out),
             \/ TestFoundSolution(solution', formula) /\ pc' = "finish" /\ told' = "verified"
             \/ ~TestFoundSolution(solution', formula) /\ pc' = "exited" /\ told' = "not satisfied"
      PROVE  IndInv'
  <2> DEFINE tmp == held["fname_tmp"]
  <2>1. "fname_tmp" \in Role /\ "fname_tmp" \in HeldAt("postproc")
    BY DEF Role, HeldAt
  <2>2. tmp \in Slot /\ tmp # 0
    BY <1>0, <2>1 DEF HeldOK, TypeOK, Places
  <2>3. /\ dir' \in [Slot -> States] /\ dir'[tmp] = "absent"
        /\ \A k \in Slot : k # tmp => dir'[k] = dir[k]
    BY <1>0, <1>2, <2>2 DEF Without, TypeOK, States
  <2>4. /\ held' \in [Role -> Slot \union {0}] /\ held'["fname_tmp"] = 0
        /\ \A r \in Role : r # "fname_tmp" => held'[r] = held[r]
    BY <1>0, <1>2, <2>1 DEF TypeOK
  <2> HIDE DEF tmp
  <2>5. \A r \in Role : held'[r] # 0 => /\ held'[r] = held[r] /\ held[r] \in Slot
                                        /\ held[r] # tmp
    BY <1>0, <2>1, <2>4 DEF HeldOK, TypeOK, tmp
  <2>6. HeldOK'
    <3>1. \A r \in Role : held'[r] # 0 => dir'[held'[r]] = "ours"
      BY <1>0, <2>3, <2>5 DEF HeldOK
    <3>2. \A r, s \in Role : held'[r] = held'[s] /\ held'[r] # 0 => r = s
      BY <1>0, <2>5 DEF HeldOK
    <3> QED
      BY <1>2, <3>1, <3>2 DEF HeldOK, Places
  <2>7. Lost' = Lost
    <3>1. \A x : x \in Ours' <=> x \in Ours /\ x # tmp
      BY <2>2, <2>3 DEF Ours, States
    <3>2. \A x : x \in Held' => x \in Held /\ x # tmp
      BY <2>5 DEF Held
    <3>3. ASSUME NEW x \in Held, x # tmp PROVE x \in Held'
      <4>1. PICK r \in Role : held[r] = x /\ x # 0
        BY DEF Held
      <4>2. r # "fname_tmp"
        BY <3>3, <4>1 DEF tmp
      <4> QED
        BY <2>4, <4>1, <4>2 DEF Held
    <3>4. tmp \in Held
      BY <2>1, <2>2 DEF Held, tmp
    <3> QED
      BY <3>1, <3>2, <3>3, <3>4 DEF Lost
  <2>8. LostOK'
    BY <1>0, <2>7 DEF LostOK
  <2>9. \A v \in DOMAIN solution' : solution'[v] \in BOOLEAN
    BY <1>2, SolutionTyped
  <2>10. TypeOK'
    BY <1>0, <1>2, <2>3, <2>4, <2>9 DEF TypeOK
  <2>11. Told'
    BY <1>0, <1>2 DEF Told
  <2> QED
    BY <2>6, <2>8, <2>10, <2>11 DEF IndInv
<1>3. ASSUME NEW out \in Outputs,
             IF ~Readable(out) THEN Exit("unreadable") /\ UNCHANGED <<dir, held, solution>>
             ELSE /\ dir' = Without({held.fname_tmp})
                  /\ held' = [held EXCEPT !.fname_tmp = 0]
                  /\ solution' = Solution(out)
                  /\ IF TestFoundSolution(solution', formula)
                     THEN pc' = "finish" /\ told' = "verified"
                     ELSE Exit("not satisfied")
      PROVE  IndInv'
  <2>1. CASE ~Readable(out)
    BY <1>1, <1>3, <2>1 DEF Exit
  <2>2. CASE Readable(out)
    <3>1. /\ dir' = Without({held["fname_tmp"]}) /\ held' = [held EXCEPT !.fname_tmp = 0]
          /\ solution' = Solution(out)
          /\ \/ TestFoundSolution(solution', formula) /\ pc' = "finish" /\ told' = "verified"
             \/ ~TestFoundSolution(solution', formula) /\ pc' = "exited" /\ told' = "not satisfied"
      BY <1>3, <2>2 DEF Exit
    <3> QED
      BY <1>2, <3>1
  <2> QED
    BY <2>1, <2>2
<1> QED
  BY <1>1, <1>3 DEF Postproc, Exit

LEMMA FinishInv ==
  ASSUME IndInv, Finish
  PROVE  IndInv'
<1>0. TypeOK /\ HeldOK /\ LostOK
  BY DEF IndInv
<1>1. /\ dir' = Without(Held) /\ held' = NoNames /\ pc' = "loop" /\ told' = "nothing"
      /\ formula' = {} /\ solution' = <<>> /\ slow' = slow
  BY DEF Finish
<1>2. /\ dir' \in [Slot -> States]
      /\ \A k \in Slot : dir'[k] = IF k \in Held THEN "absent" ELSE dir[k]
  BY <1>0, <1>1 DEF Without, TypeOK, States
<1>3. held' \in [Role -> Slot \union {0}] /\ \A r \in Role : held'[r] = 0
  BY <1>1 DEF NoNames
<1>4. TypeOK'
  <2>1. \A v \in DOMAIN solution' : solution'[v] \in BOOLEAN
    BY <1>1
  <2>2. formula' \in Formulas \union {{}} /\ slow' \in Nat
    BY <1>0, <1>1 DEF TypeOK
  <2> QED
    BY <1>1, <1>2, <1>3, <2>1, <2>2 DEF TypeOK, Places
<1>5. HeldOK'
  BY <1>1, <1>3 DEF HeldOK, HeldAt
<1>6. Held' = {}
  BY <1>3 DEF Held
<1>7. Ours' = Ours \ Held
  BY <1>2 DEF Ours
<1>8. LostOK'
  BY <1>0, <1>1, <1>6, <1>7 DEF LostOK, Lost
<1> QED
  BY <1>1, <1>4, <1>5, <1>8 DEF IndInv, Told

\* The files of an earlier process are not counted.
LEMMA RestartInv ==
  ASSUME IndInv, Restart
  PROVE  IndInv'
<1>0. TypeOK /\ HeldOK /\ LostOK
  BY DEF IndInv
<1>1. /\ dir' = [k \in Slot |-> IF dir[k] = "ours" THEN "old" ELSE dir[k]]
      /\ held' = NoNames /\ pc' = "loop" /\ told' = "nothing"
      /\ formula' = {} /\ solution' = <<>> /\ slow' = 0
  BY DEF Restart
<1>2. dir' \in [Slot -> States] /\ Ours' = {}
  BY <1>0, <1>1 DEF TypeOK, States, Ours
<1>3. held' \in [Role -> Slot \union {0}] /\ \A r \in Role : held'[r] = 0
  BY <1>1 DEF NoNames
<1>4. TypeOK'
  <2>1. \A v \in DOMAIN solution' : solution'[v] \in BOOLEAN
    BY <1>1
  <2>2. formula' \in Formulas \union {{}} /\ slow' \in Nat
    BY <1>0, <1>1 DEF TypeOK
  <2> QED
    BY <1>1, <1>2, <1>3, <2>1, <2>2 DEF TypeOK, Places
<1>5. HeldOK'
  BY <1>1, <1>3 DEF HeldOK, HeldAt
<1>6. Lost' = {}
  BY <1>2 DEF Lost
<1>7. LostOK'
  BY <1>1, <1>6, FS_EmptySet DEF LostOK
<1> QED
  BY <1>1, <1>4, <1>5, <1>7 DEF IndInv, Told

-----------------------------------------------------------------------------
(***************************************************************************)
(* The specification.                                                      *)
(***************************************************************************)

LEMMA InitInv == Init => IndInv
<1> SUFFICES ASSUME Init PROVE IndInv
  OBVIOUS
<1>1. /\ dir \in [Slot -> {"absent", "old"}] /\ held = NoNames /\ pc = "loop"
      /\ formula = {} /\ solution = <<>> /\ slow = 0 /\ told = "nothing"
  BY DEF Init
<1>2. held \in [Role -> Slot \union {0}] /\ \A r \in Role : held[r] = 0
  BY <1>1 DEF NoNames
<1>3. TypeOK
  BY <1>1, <1>2 DEF TypeOK, States, Places
<1>4. HeldOK
  BY <1>1, <1>2 DEF HeldOK, HeldAt
<1>5. Lost = {}
  BY <1>1 DEF Lost, Ours
<1>6. LostOK
  BY <1>1, <1>5, FS_EmptySet DEF LostOK
<1> QED
  BY <1>1, <1>3, <1>4, <1>6 DEF IndInv, Told

LEMMA Inductive == IndInv /\ [Next]_vars => IndInv'
<1> SUFFICES ASSUME IndInv, [Next]_vars PROVE IndInv'
  OBVIOUS
<1>1. CASE ClaimFile
  BY <1>1, ClaimFileInv
<1>2. CASE Generate
  BY <1>2, GenerateInv
<1>3. CASE RunPreproc
  BY <1>3, RunPreprocInv
<1>4. CASE RunSolver
  BY <1>4, RunSolverInv
<1>5. CASE Postproc
  BY <1>5, PostprocInv
<1>6. CASE Finish
  BY <1>6, FinishInv
<1>7. CASE Restart
  BY <1>7, RestartInv
<1>8. CASE UNCHANGED vars
  <2>1. /\ dir' = dir /\ pc' = pc /\ held' = held /\ formula' = formula
        /\ solution' = solution /\ told' = told /\ slow' = slow
    BY <1>8 DEF vars
  <2>2. TypeOK'
    BY <2>1 DEF IndInv, TypeOK
  <2>3. HeldOK'
    BY <2>1 DEF IndInv, HeldOK
  <2>4. LostOK'
    BY <2>1 DEF IndInv, LostOK, Lost, Ours, Held
  <2>5. Told'
    BY <2>1 DEF IndInv, Told
  <2> QED
    BY <2>2, <2>3, <2>4, <2>5 DEF IndInv
<1> QED
  BY <1>1, <1>2, <1>3, <1>4, <1>5, <1>6, <1>7, <1>8 DEF Next

LEMMA Invariance == Spec => []IndInv
BY InitInv, Inductive, PTL DEF Spec

\* The variables keep their types: main only ever holds names of the range that
\* unique_file tries, and a solution maps variables to truth values.
THEOREM TypeCorrect == Spec => []TypeOK
<1>1. IndInv => TypeOK
  BY DEF IndInv
<1> QED
  BY <1>1, Invariance, PTL

\* However many variables the solution leaves open, "verified" means that the formula
\* given to Arjun is true, and solextend is only blamed if it can be false.
THEOREM VerdictsAreRight == Spec => []VerdictIsRight
<1>1. IndInv => VerdictIsRight
  <2> SUFFICES ASSUME IndInv PROVE VerdictIsRight
    OBVIOUS
  <2>1. /\ \A v \in DOMAIN solution : solution[v] \in BOOLEAN
        /\ formula \in Formulas \union {{}}
    BY DEF IndInv, TypeOK
  <2>2. ASSUME told = "verified", NEW a \in Completions(solution, formula)
        PROVE  Model(a, formula)
    BY <2>2, ChecksAreSound DEF IndInv, Told
  <2>3. ASSUME told = "not satisfied"
        PROVE  \E a \in Completions(solution, formula) : ~Model(a, formula)
    BY <2>1, <2>3, ChecksAreComplete DEF IndInv, Told
  <2> QED
    BY <2>2, <2>3 DEF VerdictIsRight
<1> QED
  BY <1>1, Invariance, PTL

\* In every directory, what the process leaves in out/ beside the files of its round is
\* one reconstruction for each time Arjun was too slow.
THEOREM LeaksAreCounted == Spec => []OnlySlowArjunLeaks
<1>1. IndInv => OnlySlowArjunLeaks
  <2> SUFFICES ASSUME IndInv PROVE OnlySlowArjunLeaks
    OBVIOUS
  <2>1. Held \subseteq Ours
    BY DEF IndInv, TypeOK, HeldOK, Held, Ours
  <2>2. Cardinality(Ours \ Held) = slow
    BY DEF IndInv, LostOK, Lost
  <2>3. pc = "loop" => Held = {}
    BY DEF IndInv, HeldOK, HeldAt, Held, Places
  <2> QED
    BY <2>1, <2>2, <2>3 DEF OnlySlowArjunLeaks
<1> QED
  BY <1>1, Invariance, PTL

=============================================================================
