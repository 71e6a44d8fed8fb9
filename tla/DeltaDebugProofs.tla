-------------------------- MODULE DeltaDebugProofs --------------------------
(***************************************************************************)
(* Proofs about DeltaDebug, for files of any number of clauses and for     *)
(* every counter, flaky ones and ones that are not monotone included.      *)
(*                                                                         *)
(* The argument is about one list, the one the program would go on with    *)
(* (Work): everything that is tried is shorter, everything that was saved  *)
(* is at least as long.  So an answer for a list that matters is never     *)
(* overwritten, even if the counter is flaky.                              *)
(***************************************************************************)
EXTENDS DeltaDebug, SequenceTheorems, TLAPS

-----------------------------------------------------------------------------
(***************************************************************************)
(* The invariant.                                                          *)
(***************************************************************************)

Lists == {list \in Seq(Nat) : IsList(list)}

TypeOK ==
    /\ pc \in {"start", "round", "grain", "pass", "returned",
               "verified", "warned", "traceback", "refused"}
    /\ flaky \in BOOLEAN /\ differs \in BOOLEAN /\ some_removed \in BOOLEAN
    /\ original \in Lists /\ current \in Lists /\ clauses \in Lists /\ new_clauses \in Lists
    /\ n \in Nat /\ granularity \in Nat \ {0} /\ chunk_size \in Nat \ {0} /\ i \in Nat
    /\ \A k \in DOMAIN saved : saved[k] \in Lists

\* The list the program would go on with.
Work ==
    CASE pc = "pass" -> new_clauses
      [] pc \in {"grain", "returned"} -> clauses
      [] OTHER -> current

Crashed(list) == list \in DOMAIN answers /\ answers[list]

Fine(list) == list \in DOMAIN answers /\ ~answers[list]

\* What the loops know of their lists.
Loops ==
    /\ Work = current \/ (Len(Work) < Len(current) /\ Crashed(Work))
    /\ pc \in {"grain", "pass"} => n = Len(clauses)
    /\ pc = "pass" =>
          /\ granularity <= n /\ chunk_size = n \div granularity
          /\ IF some_removed THEN Len(new_clauses) < Len(current) ELSE new_clauses = clauses

\* Only of the original list of a file that is rewritten otherwise it is not known
\* that it crashes.
CurrentCrashes ==
    /\ pc = "start" => current = original
    /\ pc \notin {"start", "refused", "warned"} =>
          Crashed(current) \/ (current = original /\ differs)

SavedOK ==
    /\ pc = "start" => DOMAIN saved = {}
    /\ pc # "warned" =>
          \A k \in DOMAIN saved \ {-1} :
              Len(saved[k]) = k /\ Crashed(saved[k]) /\ Len(Work) <= Len(saved[k])

\* Each of the first m clauses was left out alone.
Tried(list, m) == \A j \in 0..(m - 1) : Fine(Without(list, j, 1))

\* A round that removes nothing comes down to chunks of one clause.
Minimal ==
    /\ pc = "grain" /\ clauses = current /\ granularity > n => Tried(clauses, n)
    /\ pc = "pass" /\ ~some_removed /\ chunk_size = 1 => Tried(clauses, i)
    /\ pc = "returned" /\ clauses = current => Tried(current, Len(current))
    /\ pc \in {"verified", "warned"} => Tried(current, Len(current))

IndInv ==
    TypeOK /\ Loops /\ CurrentCrashes /\ SavedOK /\ Minimal /\ WarnsOnlyUnreduced

-----------------------------------------------------------------------------
(***************************************************************************)
(* Lists.                                                                  *)
(***************************************************************************)

\* Leaving out a chunk makes a list shorter, and moves the clauses behind it.
LEMMA WithoutSeq ==
  ASSUME NEW list \in Seq(Nat), NEW j \in Nat, NEW size \in Nat \ {0},
         j + size <= Len(list)
  PROVE  /\ Without(list, j, size) \in Seq(Nat)
         /\ Len(Without(list, j, size)) = Len(list) - size
         /\ \A k \in 1..(Len(list) - size) :
               Without(list, j, size)[k] = IF k <= j THEN list[k] ELSE list[k + size]
<1> DEFINE a == SubSeq(list, 1, j)
           b == SubSeq(list, j + size + 1, Len(list))
<1>0. /\ Len(list) \in Nat /\ 1 \in Int /\ j \in Int /\ j + size + 1 \in Int
      /\ Len(list) \in Int
      /\ \A k \in 1..Len(list) : list[k] \in Nat
  BY LenProperties, ElementOfSeq
<1>1. a \in Seq(Nat) /\ Len(a) = j /\ \A k \in 1..j : a[k] = list[k]
  <2>1. \A k \in 1..j : list[k] \in Nat
    BY <1>0
  <2> QED
    BY <1>0, <2>1, SubSeqProperties
<1>2. /\ b \in Seq(Nat) /\ Len(b) = Len(list) - size - j
      /\ \A k \in 1..(Len(list) - size - j) : b[k] = list[j + size + k]
  <2>1. \A k \in (j + size + 1)..Len(list) : list[k] \in Nat
    BY <1>0
  <2>2. /\ b \in Seq(Nat)
        /\ Len(b) = IF j + size + 1 <= Len(list) THEN Len(list) - (j + size + 1) + 1 ELSE 0
        /\ \A k \in 1..(Len(list) - (j + size + 1) + 1) : b[k] = list[(j + size + 1) + k - 1]
    BY <1>0, <2>1, SubSeqProperties
  <2> HIDE DEF b
  <2> QED
    BY <1>0, <2>2
<1>3. Without(list, j, size) = a \o b
  BY DEF Without
<1> HIDE DEF a, b
<1>4. /\ a \o b \in Seq(Nat) /\ Len(a \o b) = Len(a) + Len(b)
      /\ \A k \in 1..(Len(a) + Len(b)) :
            (a \o b)[k] = IF k <= Len(a) THEN a[k] ELSE b[k - Len(a)]
  BY <1>1, <1>2, ConcatProperties
<1>5. Len(a \o b) = Len(list) - size
  BY <1>0, <1>1, <1>2, <1>4
<1>6. ASSUME NEW k \in 1..(Len(list) - size)
      PROVE  (a \o b)[k] = IF k <= j THEN list[k] ELSE list[k + size]
  <2>1. k \in 1..(Len(a) + Len(b))
    BY <1>4, <1>5
  <2>2. CASE k <= j
    BY <1>1, <1>4, <2>1, <2>2
  <2>3. CASE ~(k <= j)
    <3>1. k - j \in 1..(Len(list) - size - j) /\ j + size + (k - j) = k + size
      BY <1>0, <2>3
    <3>2. (a \o b)[k] = b[k - j]
      BY <1>1, <1>4, <2>1, <2>3
    <3> QED
      BY <1>2, <2>3, <3>1, <3>2
  <2> QED
    BY <2>2, <2>3
<1> QED
  BY <1>3, <1>4, <1>5, <1>6

\* What is left is in the order of the file.
LEMMA WithoutList ==
  ASSUME NEW list \in Lists, NEW j \in Nat, NEW size \in Nat \ {0},
         j + size <= Len(list)
  PROVE  /\ Without(list, j, size) \in Lists
         /\ Len(Without(list, j, size)) = Len(list) - size
         /\ Len(Without(list, j, size)) \in Nat /\ Len(list) \in Nat
<1> DEFINE rest == Without(list, j, size)
<1>1. list \in Seq(Nat) /\ IsList(list) /\ Len(list) \in Nat
  BY LenProperties DEF Lists
<1>2. /\ rest \in Seq(Nat) /\ Len(rest) = Len(list) - size
      /\ \A k \in 1..(Len(list) - size) : rest[k] = IF k <= j THEN list[k] ELSE list[k + size]
  BY <1>1, WithoutSeq
<1> HIDE DEF rest
<1>3. Len(rest) \in Nat /\ MaxClauses \in Nat
  BY <1>1, <1>2, MaxClausesAssumption
<1>4. Len(rest) <= MaxClauses
  BY <1>1, <1>2, <1>3 DEF IsList
<1>5. \A k \in 1..Len(rest) : rest[k] \in 1..Len(original)
  <2>1. \A k \in 1..Len(rest) : k \in 1..Len(list) /\ k + size \in 1..Len(list)
    BY <1>1, <1>2
  <2> QED
    BY <1>1, <1>2, <2>1 DEF IsList
<1>6. ASSUME NEW k \in 1..Len(rest), NEW m \in 1..Len(rest), k < m
      PROVE  rest[k] < rest[m]
  <2> DEFINE place(x) == IF x <= j THEN x ELSE x + size
  <2>1. /\ place(k) \in 1..Len(list) /\ place(m) \in 1..Len(list) /\ place(k) < place(m)
    BY <1>1, <1>2, <1>6
  <2>2. rest[k] = list[place(k)] /\ rest[m] = list[place(m)]
    BY <1>2
  <2> HIDE DEF place
  <2> QED
    BY <1>1, <2>1, <2>2 DEF IsList, InOrder
<1>7. IsList(rest)
  BY <1>4, <1>5, <1>6 DEF IsList, InOrder
<1> QED
  BY <1>1, <1>2, <1>3, <1>7 DEF Lists, rest

LEMMA WithoutOnly ==
  ASSUME NEW list \in Seq(Nat), Len(list) = 1
  PROVE  Without(list, 0, 1) = <<>>
<1>1. /\ Without(list, 0, 1) \in Seq(Nat)
      /\ Len(Without(list, 0, 1)) = Len(list) - 1
  <2>1. 0 \in Nat /\ 1 \in Nat \ {0} /\ 0 + 1 <= Len(list)
    OBVIOUS
  <2> QED
    BY <2>1, WithoutSeq
<1> QED
  BY <1>1, EmptySeq

LEMMA EmptyList == <<>> \in Lists /\ Len(<<>>) = 0
  BY MaxClausesAssumption, EmptySeq DEF Lists, IsList, InOrder

\* The chunks of the last granularity have one clause.
LEMMA ChunkSizes ==
  ASSUME NEW len \in Nat, NEW grain \in Nat \ {0}, grain <= len
  PROVE  /\ len \div grain \in Nat \ {0}
         /\ len < grain * 2 => len \div grain = 1
<1> DEFINE q == len \div grain
           r == len % grain
<1>1. q \in Int /\ r \in 0..(grain - 1) /\ len = grain * q + r
  OBVIOUS
<1> HIDE DEF q, r
<1>2. q >= 1
  <2>1. ASSUME q <= 0 PROVE FALSE
    <3>1. grain * q <= 0
      BY <1>1, <2>1
    <3> QED
      BY <1>1, <3>1
  <2> QED
    BY <1>1, <2>1
<1>3. ASSUME len < grain * 2 PROVE q = 1
  <2>1. ASSUME q >= 2 PROVE FALSE
    <3>1. grain * q >= grain * 2
      BY <1>1, <2>1
    <3> QED
      BY <1>1, <1>3, <3>1
  <2> QED
    BY <1>1, <1>2, <2>1
<1> QED
  BY <1>1, <1>2, <1>3 DEF q

-----------------------------------------------------------------------------
(***************************************************************************)
(* Answers and files.                                                      *)
(***************************************************************************)

\* The answer for one list changes no other answer.
LEMMA AnswersRemembers ==
  ASSUME NEW list, NEW crashed, Answers(list, crashed)
  PROVE  /\ crashed => Crashed(list)'
         /\ ~crashed => Fine(list)'
         /\ \A l : l # list /\ Crashed(l) => Crashed(l)'
         /\ \A l : l # list /\ Fine(l) => Fine(l)'
         /\ ~crashed => \A l : Fine(l) => Fine(l)'
         /\ ~flaky /\ Crashed(list) => crashed
<1>1. /\ crashed \in BOOLEAN
      /\ answers' = [l \in DOMAIN answers \union {list} |->
                       IF l = list THEN crashed ELSE answers[l]]
  BY DEF Answers
<1>2. DOMAIN answers' = DOMAIN answers \union {list} /\ answers'[list] = crashed
  BY <1>1
<1>3. \A l \in DOMAIN answers : l # list => answers'[l] = answers[l]
  BY <1>1
<1>4. /\ crashed => Crashed(list)'
      /\ ~crashed => Fine(list)'
  BY <1>2 DEF Crashed, Fine
<1>5. /\ \A l : l # list /\ Crashed(l) => Crashed(l)'
      /\ \A l : l # list /\ Fine(l) => Fine(l)'
  BY <1>2, <1>3 DEF Crashed, Fine
<1>6. ~flaky /\ Crashed(list) => crashed
  BY DEF Answers, Crashed
<1> QED
  BY <1>4, <1>5, <1>6

\* The same for what is shorter than the list the program would go on with.
LEMMA ShorterAnswer ==
  ASSUME NEW list, NEW crashed, Answers(list, crashed), Len(list) < Len(Work),
         Len(list) \in Nat, Len(Work) \in Nat
  PROVE  \A l : Len(l) \in Nat /\ Len(Work) <= Len(l) /\ Crashed(l) => Crashed(l)'
<1>1. \A l : Len(l) \in Nat /\ Len(Work) <= Len(l) => l # list
  OBVIOUS
<1> QED
  BY <1>1, AnswersRemembers

LEMMA WorkTyped ==
  ASSUME TypeOK
  PROVE  Work \in Lists /\ Len(Work) \in Nat
<1>1. Work \in Lists
  BY DEF TypeOK, Work
<1> QED
  BY <1>1, LenProperties DEF Lists

\* Nothing is saved, and the list gets no longer.
LEMMA SavedStays ==
  ASSUME TypeOK, SavedOK, pc # "warned", pc' # "start", saved' = saved,
         \A l : Len(l) \in Nat /\ Len(Work) <= Len(l) /\ Crashed(l) => Crashed(l)',
         Len(Work') \in Nat, Len(Work') <= Len(Work)
  PROVE  SavedOK'
<1>1. Len(Work) \in Nat
  BY WorkTyped
<1>2. ASSUME NEW k \in DOMAIN saved \ {-1}
      PROVE  Len(saved[k]) = k /\ Crashed(saved[k])' /\ Len(Work') <= Len(saved[k])
  <2>1. Len(saved[k]) = k /\ Crashed(saved[k]) /\ Len(Work) <= Len(saved[k])
    BY <1>2 DEF SavedOK
  <2>2. Len(saved[k]) \in Nat
    BY <1>2, LenProperties DEF TypeOK, Lists
  <2>3. Len(Work') <= Len(saved[k])
    BY <1>1, <2>1, <2>2
  <2>4. Crashed(saved[k])'
    BY <2>1, <2>2 DEF Crashed
  <2> QED
    BY <2>1, <2>3, <2>4
<1> QED
  BY <1>2 DEF SavedOK

\* A list that crashed is saved.
LEMMA SavedMore ==
  ASSUME TypeOK, SavedOK, pc # "warned", pc' # "start",
         NEW list \in Lists, Save(Len(list), list),
         list \in DOMAIN answers' /\ answers'[list],
         \A l : Len(l) \in Nat /\ Len(Work) <= Len(l) /\ Crashed(l) => Crashed(l)',
         Work' = list, Len(list) <= Len(Work)
  PROVE  SavedOK'
<1>1. Len(Work) \in Nat /\ Len(list) \in Nat
  BY WorkTyped, LenProperties DEF Lists
<1>2. saved' = [j \in DOMAIN saved \union {Len(list)} |->
                   IF j = Len(list) THEN list ELSE saved[j]]
  BY DEF Save
<1>3. ASSUME NEW k \in DOMAIN saved' \ {-1}
      PROVE  /\ Len(saved'[k]) = k /\ Len(Work') <= Len(saved'[k])
             /\ saved'[k] \in DOMAIN answers' /\ answers'[saved'[k]]
  <2>1. CASE k = Len(list)
    <3>1. saved'[k] = list
      BY <1>2, <2>1
    <3>2. Len(Work') <= Len(list)
      BY <1>1
    <3> QED
      BY <2>1, <3>1, <3>2 DEF Crashed
  <2>2. CASE k # Len(list)
    <3>1. k \in DOMAIN saved \ {-1} /\ saved'[k] = saved[k]
      BY <1>2, <2>2
    <3>2. Len(saved[k]) = k /\ Crashed(saved[k]) /\ Len(Work) <= Len(saved[k])
      BY <3>1 DEF SavedOK
    <3>3. Len(saved[k]) \in Nat
      BY <3>1, LenProperties DEF TypeOK, Lists
    <3>4. Len(list) <= Len(saved[k])
      BY <1>1, <3>2, <3>3
    <3>5. saved[k] \in DOMAIN answers' /\ answers'[saved[k]]
      BY <3>2, <3>3 DEF Crashed
    <3> QED
      BY <3>1, <3>2, <3>4, <3>5
  <2> QED
    BY <2>1, <2>2
<1> QED
  BY <1>3 DEF SavedOK, Crashed

\* Saved lists are lists.
LEMMA SavedTyped ==
  ASSUME TypeOK, NEW k, NEW list \in Lists, Save(k, list)
  PROVE  \A j \in DOMAIN saved' : saved'[j] \in Lists
BY DEF Save, TypeOK

LEMMA ListsSame ==
  ASSUME original' = original
  PROVE  Lists' = Lists
BY DEF Lists, IsList

-----------------------------------------------------------------------------
(***************************************************************************)
(* The steps of a round.                                                   *)
(***************************************************************************)

LEMMA ConfirmInv ==
  ASSUME IndInv, Confirm
  PROVE  IndInv'
<1>1. /\ pc = "start" /\ pc' \in {"round", "refused"} /\ saved' = saved
      /\ UNCHANGED <<file, current, clauses, n, pass>>
  BY DEF Confirm
<1>2. TypeOK'
  BY <1>1, ListsSame DEF IndInv, TypeOK, file, pass
<1>3. Work' = current' /\ Loops'
  BY <1>1 DEF Work, Loops
<1>4. current = original /\ DOMAIN saved = {}
  BY <1>1 DEF IndInv, CurrentCrashes, SavedOK
<1>5. CurrentCrashes'
  <2>1. PICK crashed \in BOOLEAN :
           /\ IF differs THEN UNCHANGED answers ELSE Answers(original, crashed)
           /\ pc' = IF crashed THEN "round" ELSE "refused"
    BY DEF Confirm
  <2>2. pc' = "round" => differs \/ (original \in DOMAIN answers' /\ answers'[original])
    BY <2>1, AnswersRemembers DEF Crashed
  <2> QED
    BY <1>1, <1>4, <2>2 DEF CurrentCrashes, Crashed, file
<1>6. SavedOK' /\ Minimal' /\ WarnsOnlyUnreduced'
  BY <1>1, <1>4 DEF SavedOK, Minimal, WarnsOnlyUnreduced
<1> QED
  BY <1>2, <1>3, <1>5, <1>6 DEF IndInv

LEMMA StartEmptyInv ==
  ASSUME IndInv, StartEmpty
  PROVE  IndInv'
<1>1. /\ pc = "round" /\ pc' = "returned" /\ Len(current) = 0 /\ clauses' = <<>>
      /\ UNCHANGED <<file, current, n, pass, answers, saved>>
  BY DEF StartEmpty
<1>2. TypeOK'
  BY <1>1, ListsSame, EmptyList DEF IndInv, TypeOK, file, pass
<1>3. current = <<>>
  BY <1>1, EmptySeq DEF IndInv, TypeOK, Lists
<1>4. Work' = current /\ Work = current /\ Loops'
  BY <1>1, <1>3 DEF Work, Loops
<1>5. CurrentCrashes'
  BY <1>1 DEF IndInv, CurrentCrashes, Crashed, file
<1>6. SavedOK'
  BY <1>1, <1>4 DEF IndInv, SavedOK, Crashed
<1>7. Minimal'
  <2>1. \A j \in 0..(0 - 1) : FALSE
    OBVIOUS
  <2> QED
    BY <1>1, <2>1 DEF Minimal, Tried
<1>8. WarnsOnlyUnreduced'
  BY <1>1 DEF WarnsOnlyUnreduced
<1> QED
  BY <1>2, <1>4, <1>5, <1>6, <1>7, <1>8 DEF IndInv

LEMMA TryNoClausesInv ==
  ASSUME IndInv, TryNoClauses
  PROVE  IndInv'
<1>1. PICK crashed \in BOOLEAN :
         /\ Answers(<<>>, crashed)
         /\ IF crashed THEN clauses' = <<>> /\ pc' = "returned"
                       ELSE clauses' = current /\ pc' = "grain"
  BY DEF TryNoClauses
<1>2. /\ pc = "round" /\ Len(current) > 0 /\ n' = Len(current) /\ granularity' = 2
      /\ UNCHANGED <<file, current, chunk_size, new_clauses, i, some_removed, saved>>
  BY DEF TryNoClauses
<1>3. Len(current) \in Nat /\ current \in Seq(Nat) /\ Work = current
  BY <1>2, LenProperties DEF IndInv, TypeOK, Lists, Work
<1>4. TypeOK'
  BY <1>1, <1>2, <1>3, ListsSame, EmptyList DEF IndInv, TypeOK, file
<1>5. Len(<<>>) = 0 /\ current # <<>>
  BY <1>2, EmptyList
<1>6. \A l : Len(l) \in Nat /\ Len(Work) <= Len(l) /\ Crashed(l) => Crashed(l)'
  BY <1>1, <1>2, <1>3, <1>5, ShorterAnswer
<1>7. Work' = clauses'
  BY <1>1 DEF Work
<1>8. Loops'
  <2>1. CASE crashed
    <3>1. clauses' = <<>> /\ pc' = "returned" /\ <<>> \in DOMAIN answers' /\ answers'[<<>>]
      BY <1>1, <2>1, AnswersRemembers DEF Crashed
    <3>2. Len(clauses') < Len(current')
      BY <1>2, <1>5, <3>1
    <3> QED
      BY <1>7, <3>1, <3>2 DEF Loops, Crashed
  <2>2. CASE ~crashed
    BY <1>1, <1>2, <1>7, <2>2 DEF Loops
  <2> QED
    BY <2>1, <2>2
<1>9. CurrentCrashes'
  <2>1. Crashed(current) \/ (current = original /\ differs)
    BY <1>2 DEF IndInv, CurrentCrashes
  <2>2. Crashed(current) => current \in DOMAIN answers' /\ answers'[current]
    BY <1>3, <1>6 DEF Crashed
  <2> QED
    BY <1>1, <1>2, <2>1, <2>2 DEF CurrentCrashes, Crashed, file
<1>10. SavedOK'
  <2>1. Len(Work') \in Nat /\ Len(Work') <= Len(Work)
    BY <1>1, <1>2, <1>3, <1>5, <1>7
  <2> QED
    BY <1>1, <1>2, <1>6, <2>1, SavedStays DEF IndInv
<1>11. Minimal'
  <2>1. CASE crashed
    BY <1>1, <1>2, <1>5, <2>1 DEF Minimal
  <2>2. CASE ~crashed
    <3>1. pc' = "grain" /\ clauses' = current /\ <<>> \in DOMAIN answers' /\ ~answers'[<<>>]
      BY <1>1, <2>2, AnswersRemembers DEF Fine
    <3>2. 2 > Len(current) => Without(current, 0, 1) = <<>>
      <4>1. 2 > Len(current) => Len(current) = 1
        BY <1>2, <1>3
      <4> QED
        BY <1>3, <4>1, WithoutOnly
    <3>3. 2 > Len(current) => \A j \in 0..(Len(current) - 1) : j = 0
      BY <1>2, <1>3
    <3> QED
      BY <1>2, <3>1, <3>2, <3>3 DEF Minimal, Tried, Fine
  <2> QED
    BY <2>1, <2>2
<1>12. WarnsOnlyUnreduced'
  BY <1>1 DEF WarnsOnlyUnreduced
<1> QED
  BY <1>4, <1>8, <1>9, <1>10, <1>11, <1>12 DEF IndInv

LEMMA StartPassInv ==
  ASSUME IndInv, StartPass
  PROVE  IndInv'
<1>1. /\ pc = "grain" /\ granularity <= n /\ chunk_size' = n \div granularity
      /\ some_removed' = FALSE /\ new_clauses' = clauses /\ i' = 0 /\ pc' = "pass"
      /\ UNCHANGED <<file, current, clauses, n, granularity, answers, saved>>
  BY DEF StartPass
<1>2. n \in Nat /\ granularity \in Nat \ {0}
  BY DEF IndInv, TypeOK
<1>3. chunk_size' \in Nat \ {0}
  BY <1>1, <1>2, ChunkSizes
<1>4. TypeOK'
  BY <1>1, <1>3, ListsSame DEF IndInv, TypeOK, file
<1>5. Work' = Work
  BY <1>1 DEF Work
<1>6. Loops'
  BY <1>1, <1>5 DEF IndInv, Loops, Crashed
<1>7. CurrentCrashes'
  BY <1>1 DEF IndInv, CurrentCrashes, Crashed, file
<1>8. SavedOK'
  BY <1>1, <1>5 DEF IndInv, SavedOK, Crashed
<1>9. Minimal'
  <2>1. \A j \in 0..(0 - 1) : FALSE
    OBVIOUS
  <2> QED
    BY <1>1, <2>1 DEF Minimal, Tried
<1>10. WarnsOnlyUnreduced'
  BY <1>1 DEF WarnsOnlyUnreduced
<1> QED
  BY <1>4, <1>6, <1>7, <1>8, <1>9, <1>10 DEF IndInv

LEMMA GrainTooFineInv ==
  ASSUME IndInv, GrainTooFine
  PROVE  IndInv'
<1>1. /\ pc = "grain" /\ granularity > n /\ pc' = "returned"
      /\ UNCHANGED <<file, current, clauses, n, pass, answers, saved>>
  BY DEF GrainTooFine
<1>2. TypeOK'
  BY <1>1, ListsSame DEF IndInv, TypeOK, file, pass
<1>3. Work' = Work
  BY <1>1 DEF Work
<1>4. Loops'
  BY <1>1, <1>3 DEF IndInv, Loops, Crashed
<1>5. CurrentCrashes'
  BY <1>1 DEF IndInv, CurrentCrashes, Crashed, file
<1>6. SavedOK'
  BY <1>1, <1>3 DEF IndInv, SavedOK, Crashed
<1>7. Minimal'
  <2>1. n = Len(clauses) /\ (clauses = current => Tried(clauses, n))
    BY <1>1 DEF IndInv, Loops, Minimal
  <2> QED
    BY <1>1, <2>1 DEF Minimal, Tried, Fine
<1>8. WarnsOnlyUnreduced'
  BY <1>1 DEF WarnsOnlyUnreduced
<1> QED
  BY <1>2, <1>4, <1>5, <1>6, <1>7, <1>8 DEF IndInv

\* What is tried is shorter than the list, and what crashes becomes the list.
LEMMA TryChunkInv ==
  ASSUME IndInv, TryChunk
  PROVE  IndInv'
<1> DEFINE size == IF chunk_size < Len(new_clauses) - i
                   THEN chunk_size ELSE Len(new_clauses) - i
           test_set == Without(new_clauses, i, size)
<1>1. PICK crashed \in BOOLEAN :
         /\ Answers(test_set, crashed)
         /\ IF crashed
            THEN /\ new_clauses' = test_set
                 /\ some_removed' = TRUE
                 /\ Save(Len(test_set), test_set)
                 /\ UNCHANGED i
            ELSE /\ i' = i + size
                 /\ UNCHANGED <<new_clauses, some_removed, saved>>
  BY DEF TryChunk
<1>2. /\ pc = "pass" /\ pc' = "pass" /\ i < Len(new_clauses)
      /\ UNCHANGED <<file, current, clauses, n, granularity, chunk_size>>
  BY DEF TryChunk
<1>3. /\ new_clauses \in Lists /\ current \in Lists /\ Work = new_clauses
      /\ Len(new_clauses) \in Nat /\ Len(current) \in Nat
      /\ i \in Nat /\ chunk_size \in Nat \ {0}
  BY <1>2, LenProperties DEF IndInv, TypeOK, Lists, Work
<1>4. size \in Nat \ {0} /\ i + size <= Len(new_clauses) /\ (chunk_size = 1 => size = 1)
  BY <1>2, <1>3
<1> HIDE DEF size
<1>5. /\ test_set \in Lists /\ Len(test_set) \in Nat
      /\ Len(test_set) < Len(new_clauses)
  <2>1. /\ test_set \in Lists /\ Len(test_set) = Len(new_clauses) - size
        /\ Len(test_set) \in Nat
    BY <1>3, <1>4, WithoutList
  <2> HIDE DEF test_set
  <2> QED
    BY <1>3, <1>4, <2>1
<1>6. test_set = Without(new_clauses, i, size)
  OBVIOUS
<1> HIDE DEF test_set
<1>7. \A l : Len(l) \in Nat /\ Len(Work) <= Len(l) /\ Crashed(l) => Crashed(l)'
  BY <1>1, <1>3, <1>5, ShorterAnswer
<1>8. Len(new_clauses) <= Len(current)
  BY <1>3 DEF IndInv, Loops
<1>9. Work' = new_clauses'
  BY <1>2 DEF Work
<1>10. /\ n = Len(clauses) /\ granularity <= n /\ chunk_size = n \div granularity
       /\ IF some_removed THEN Len(new_clauses) < Len(current) ELSE new_clauses = clauses
  BY <1>2 DEF IndInv, Loops
<1>11. CurrentCrashes'
  <2>1. Crashed(current) \/ (current = original /\ differs)
    BY <1>2 DEF IndInv, CurrentCrashes
  <2>2. Crashed(current) => current \in DOMAIN answers' /\ answers'[current]
    BY <1>3, <1>7, <1>8 DEF Crashed
  <2> QED
    BY <1>2, <2>1, <2>2 DEF CurrentCrashes, Crashed, file
<1>12. WarnsOnlyUnreduced'
  BY <1>2 DEF WarnsOnlyUnreduced
<1>13. CASE crashed
  <2>1. /\ new_clauses' = test_set /\ some_removed' = TRUE /\ i' = i
        /\ Save(Len(test_set), test_set)
        /\ test_set \in DOMAIN answers' /\ answers'[test_set]
    BY <1>1, <1>13, AnswersRemembers DEF Crashed
  <2>2. TypeOK'
    <3>1. \A k \in DOMAIN saved' : saved'[k] \in Lists
      BY <1>5, <2>1, SavedTyped DEF IndInv
    <3> QED
      BY <1>2, <1>5, <2>1, <3>1, ListsSame DEF IndInv, TypeOK, file
  <2>3. Len(test_set) < Len(current)
    BY <1>3, <1>5, <1>8
  <2>4. Loops'
    BY <1>2, <1>9, <1>10, <2>1, <2>3 DEF Loops, Crashed
  <2>5. SavedOK'
    <3>1. Len(test_set) <= Len(Work)
      BY <1>3, <1>5
    <3> QED
      BY <1>2, <1>5, <1>7, <1>9, <2>1, <3>1, SavedMore DEF IndInv
  <2>6. Minimal'
    BY <1>2, <2>1 DEF Minimal
  <2> QED
    BY <1>11, <1>12, <2>2, <2>4, <2>5, <2>6 DEF IndInv
<1>14. CASE ~crashed
  <2>1. /\ i' = i + size
        /\ UNCHANGED <<new_clauses, some_removed, saved>>
    BY <1>1, <1>14
  <2>2. TypeOK'
    <3>1. i' \in Nat
      BY <1>3, <1>4, <2>1
    <3> QED
      BY <1>2, <2>1, <3>1, ListsSame DEF IndInv, TypeOK, file
  <2>3. Loops'
    <3>1. Work = current \/ (Len(Work) < Len(current) /\ Crashed(Work))
      BY DEF IndInv, Loops
    <3>2. Crashed(Work) => new_clauses \in DOMAIN answers' /\ answers'[new_clauses]
      BY <1>3, <1>7 DEF Crashed
    <3> QED
      BY <1>2, <1>3, <1>9, <1>10, <2>1, <3>1, <3>2 DEF Loops, Crashed
  <2>4. SavedOK'
    <3>1. Len(Work') \in Nat /\ Len(Work') <= Len(Work)
      BY <1>3, <1>9, <2>1
    <3> QED
      BY <1>2, <1>7, <2>1, <3>1, SavedStays DEF IndInv
  <2>5. Minimal'
    <3> SUFFICES ASSUME ~some_removed, chunk_size = 1, NEW j \in 0..i
                 PROVE  /\ Without(clauses, j, 1) \in DOMAIN answers'
                        /\ ~answers'[Without(clauses, j, 1)]
      <4>1. chunk_size = 1 => (i + size) - 1 = i
        BY <1>3, <1>4
      <4> QED
        BY <1>2, <2>1, <4>1 DEF Minimal, Tried, Fine
    <3>1. test_set = Without(clauses, i, 1)
      BY <1>4, <1>6, <1>10
    <3>2. CASE j = i
      BY <1>1, <1>14, <3>1, <3>2, AnswersRemembers DEF Fine
    <3>3. CASE j # i
      <4>1. j \in 0..(i - 1)
        BY <1>3, <3>3
      <4>2. Fine(Without(clauses, j, 1))
        BY <1>2, <4>1 DEF IndInv, Minimal, Tried
      <4>3. \A l : Fine(l) => l \in DOMAIN answers' /\ ~answers'[l]
        BY <1>1, <1>14, AnswersRemembers DEF Fine
      <4> QED
        BY <4>2, <4>3
    <3> QED
      BY <3>2, <3>3
  <2> QED
    BY <1>11, <1>12, <2>2, <2>3, <2>4, <2>5 DEF IndInv
<1> QED
  BY <1>13, <1>14

LEMMA EndPassInv ==
  ASSUME IndInv, EndPass
  PROVE  IndInv'
<1>1. /\ pc = "pass" /\ pc' = "grain" /\ i >= Len(new_clauses)
      /\ \/ /\ some_removed /\ clauses' = new_clauses /\ n' = Len(new_clauses)
            /\ granularity' = granularity
         \/ /\ ~some_removed /\ granularity' = granularity * 2
            /\ clauses' = clauses /\ n' = n
      /\ UNCHANGED <<file, current, chunk_size, new_clauses, i, some_removed, answers, saved>>
  BY DEF EndPass
<1>2. /\ Work = new_clauses /\ Work' = clauses' /\ new_clauses \in Lists
      /\ granularity \in Nat \ {0} /\ n \in Nat /\ i \in Nat
      /\ Len(new_clauses) \in Nat /\ Len(current) \in Nat
  BY <1>1, LenProperties DEF IndInv, TypeOK, Lists, Work
<1>3. /\ n = Len(clauses) /\ granularity <= n /\ chunk_size = n \div granularity
      /\ IF some_removed THEN Len(new_clauses) < Len(current) ELSE new_clauses = clauses
  BY <1>1 DEF IndInv, Loops
<1>4. TypeOK'
  <2>1. granularity * 2 \in Nat \ {0}
    BY <1>2
  <2> QED
    BY <1>1, <1>2, <2>1, ListsSame DEF IndInv, TypeOK, file
<1>5. clauses' = new_clauses /\ n' = Len(clauses')
  BY <1>1, <1>3
<1>6. Loops'
  BY <1>1, <1>2, <1>5 DEF IndInv, Loops, Crashed
<1>7. CurrentCrashes'
  BY <1>1 DEF IndInv, CurrentCrashes, Crashed, file
<1>8. SavedOK'
  BY <1>1, <1>2, <1>5 DEF IndInv, SavedOK, Crashed
<1>9. Minimal'
  <2>1. CASE some_removed
    BY <1>1, <1>2, <1>3, <1>5, <2>1 DEF Minimal
  <2>2. CASE ~some_removed
    <3>1. n < granularity * 2 => chunk_size = 1
      BY <1>2, <1>3, ChunkSizes
    <3>2. chunk_size = 1 => Tried(clauses, i)
      BY <1>1, <2>2 DEF IndInv, Minimal
    <3>3. \A j \in 0..(n - 1) : j \in 0..(i - 1)
      BY <1>1, <1>2, <1>3, <2>2
    <3>4. chunk_size = 1 => Tried(clauses, n)
      BY <3>2, <3>3 DEF Tried
    <3>5. granularity * 2 > n => n < granularity * 2
      BY <1>2
    <3> QED
      BY <1>1, <2>2, <3>1, <3>4, <3>5 DEF Minimal, Tried, Fine
  <2> QED
    BY <2>1, <2>2
<1>10. WarnsOnlyUnreduced'
  BY <1>1 DEF WarnsOnlyUnreduced
<1> QED
  BY <1>4, <1>6, <1>7, <1>8, <1>9, <1>10 DEF IndInv

-----------------------------------------------------------------------------
(***************************************************************************)
(* Rounds and the output.                                                  *)
(***************************************************************************)

LEMMA NextRoundInv ==
  ASSUME IndInv, NextRound
  PROVE  IndInv'
<1>1. /\ pc = "returned" /\ pc' = "round" /\ Len(clauses) # Len(current)
      /\ current' = clauses /\ Save(Len(clauses), clauses)
      /\ UNCHANGED <<file, clauses, n, pass, answers>>
  BY DEF NextRound
<1>2. clauses \in Lists /\ Work = clauses /\ Work' = clauses /\ Len(clauses) \in Nat
  BY <1>1, LenProperties DEF IndInv, TypeOK, Lists, Work
<1>3. Crashed(clauses)
  BY <1>1, <1>2 DEF IndInv, Loops
<1>4. TypeOK'
  <2>1. \A k \in DOMAIN saved' : saved'[k] \in Lists
    BY <1>1, <1>2, SavedTyped DEF IndInv
  <2> QED
    BY <1>1, <1>2, <2>1, ListsSame DEF IndInv, TypeOK, file, pass
<1>5. Loops'
  BY <1>1, <1>2 DEF Loops
<1>6. CurrentCrashes'
  BY <1>1, <1>3 DEF CurrentCrashes, Crashed
<1>7. SavedOK'
  <2>1. \A l : Crashed(l) => Crashed(l)'
    BY <1>1 DEF Crashed
  <2>2. clauses \in DOMAIN answers' /\ answers'[clauses]
    BY <1>1, <1>3 DEF Crashed
  <2>3. Len(clauses) <= Len(Work)
    BY <1>2
  <2> QED
    BY <1>1, <1>2, <2>1, <2>2, <2>3, SavedMore DEF IndInv
<1>8. Minimal' /\ WarnsOnlyUnreduced'
  BY <1>1 DEF Minimal, WarnsOnlyUnreduced
<1> QED
  BY <1>4, <1>5, <1>6, <1>7, <1>8 DEF IndInv

\* The list that is written was the list of the whole round.
LEMMA OutputInv ==
  ASSUME IndInv, Output
  PROVE  IndInv'
<1>1. /\ pc = "returned" /\ Len(clauses) = Len(current) /\ Save(-1, current)
      /\ UNCHANGED <<file, current, clauses, n, pass>>
  BY DEF Output
<1>2. PICK crashed \in BOOLEAN :
         Answers(current, crashed) /\ pc' = IF crashed THEN "verified" ELSE "warned"
  BY DEF Output
<1>3. /\ current \in Lists /\ clauses \in Lists /\ Len(current) \in Nat
  BY LenProperties DEF IndInv, TypeOK, Lists
<1>4. clauses = current /\ Work = current /\ Work' = current
  BY <1>1, <1>2, <1>3 DEF IndInv, Loops, Work
<1>5. \A k \in DOMAIN saved' \ {-1} : k \in DOMAIN saved \ {-1} /\ saved'[k] = saved[k]
  BY <1>1 DEF Save
<1>6. TypeOK'
  <2>1. \A k \in DOMAIN saved' : saved'[k] \in Lists
    BY <1>1, <1>3, SavedTyped DEF IndInv
  <2> QED
    BY <1>1, <1>2, <2>1, ListsSame DEF IndInv, TypeOK, file, pass
<1>7. Loops'
  BY <1>1, <1>2, <1>4 DEF Loops
<1>8. CurrentCrashes'
  BY <1>2, <1>1, AnswersRemembers DEF CurrentCrashes, Crashed
<1>9. SavedOK'
  <2> SUFFICES ASSUME crashed
               PROVE  \A k \in DOMAIN saved' \ {-1} :
                         /\ Len(saved'[k]) = k /\ Len(Work') <= Len(saved'[k])
                         /\ saved'[k] \in DOMAIN answers' /\ answers'[saved'[k]]
    BY <1>2 DEF SavedOK, Crashed
  <2>1. \A l : Crashed(l) => l \in DOMAIN answers' /\ answers'[l]
    BY <1>2, AnswersRemembers DEF Crashed
  <2>2. \A k \in DOMAIN saved \ {-1} :
           Len(saved[k]) = k /\ Crashed(saved[k]) /\ Len(Work) <= Len(saved[k])
    BY <1>1 DEF IndInv, SavedOK
  <2> QED
    BY <1>4, <1>5, <2>1, <2>2
<1>10. Minimal'
  <2>1. Tried(current, Len(current))
    BY <1>1, <1>4 DEF IndInv, Minimal
  <2>2. ASSUME NEW j \in 0..(Len(current) - 1)
        PROVE  /\ Without(current, j, 1) \in DOMAIN answers'
               /\ ~answers'[Without(current, j, 1)]
    <3>1. j \in Nat /\ 1 \in Nat \ {0} /\ j + 1 <= Len(current)
      BY <1>3
    <3>2. Len(Without(current, j, 1)) = Len(current) - 1
      BY <1>3, <3>1, WithoutList
    <3>3. Without(current, j, 1) # current
      BY <1>3, <3>2
    <3>4. Fine(Without(current, j, 1))
      BY <2>1 DEF Tried
    <3>5. \A l : l # current /\ Fine(l) => l \in DOMAIN answers' /\ ~answers'[l]
      BY <1>2, AnswersRemembers DEF Fine
    <3> QED
      BY <3>3, <3>4, <3>5
  <2> QED
    BY <1>1, <1>2, <2>2 DEF Minimal, Tried, Fine
<1>11. WarnsOnlyUnreduced'
  <2> SUFFICES ASSUME ~crashed, ~flaky PROVE current = original /\ differs
    BY <1>1, <1>2 DEF WarnsOnlyUnreduced, file
  <2>1. ~Crashed(current)
    BY <1>2, AnswersRemembers
  <2> QED
    BY <1>1, <2>1 DEF IndInv, CurrentCrashes
<1> QED
  BY <1>6, <1>7, <1>8, <1>9, <1>10, <1>11 DEF IndInv

LEMMA OutputDividesByZeroInv ==
  ASSUME IndInv, OutputDividesByZero
  PROVE  IndInv'
<1>1. /\ pc = "returned" /\ pc' = "traceback" /\ Len(original) = 0 /\ Save(-1, current)
      /\ UNCHANGED <<file, current, clauses, n, pass, answers>>
  BY DEF OutputDividesByZero
<1>2. /\ current \in Lists /\ clauses \in Lists
  BY DEF IndInv, TypeOK
<1>3. Work = clauses /\ Work' = current /\ clauses = <<>> /\ current = <<>>
  <2>1. \A list \in Lists : list = <<>>
    <3>1. \A list \in Lists : list \in Seq(Nat) /\ \A j \in 1..Len(list) : list[j] \in 1..0
      BY <1>1 DEF Lists, IsList
    <3>2. \A list \in Seq(Nat) : Len(list) \in Nat /\ (Len(list) = 0 => list = <<>>)
      BY LenProperties, EmptySeq
    <3>3. \A list \in Lists : ~(1 \in 1..Len(list))
      BY <3>1
    <3>4. \A m \in Nat : ~(1 \in 1..m) => m = 0
      OBVIOUS
    <3> QED
      BY <3>1, <3>2, <3>3, <3>4
  <2> QED
    BY <1>1, <1>2, <2>1 DEF Work
<1>4. \A k \in DOMAIN saved' \ {-1} : k \in DOMAIN saved \ {-1} /\ saved'[k] = saved[k]
  BY <1>1 DEF Save
<1>5. TypeOK'
  <2>1. \A k \in DOMAIN saved' : saved'[k] \in Lists
    BY <1>1, <1>2, SavedTyped DEF IndInv
  <2> QED
    BY <1>1, <2>1, ListsSame DEF IndInv, TypeOK, file, pass
<1>6. Loops'
  BY <1>1, <1>3 DEF Loops
<1>7. CurrentCrashes'
  BY <1>1 DEF IndInv, CurrentCrashes, Crashed, file
<1>8. SavedOK'
  BY <1>1, <1>3, <1>4 DEF IndInv, SavedOK, Crashed
<1>9. Minimal' /\ WarnsOnlyUnreduced'
  BY <1>1 DEF Minimal, WarnsOnlyUnreduced
<1> QED
  BY <1>5, <1>6, <1>7, <1>8, <1>9 DEF IndInv

-----------------------------------------------------------------------------
(***************************************************************************)
(* The theorems.                                                           *)
(***************************************************************************)

LEMMA Start ==
  ASSUME Init
  PROVE  IndInv
<1>1. PICK k \in 0..(IF flaky THEN MaxIfFlaky ELSE MaxClauses) :
         original = [j \in 1..k |-> j]
  BY DEF Init
<1>2. k \in Nat /\ k <= MaxClauses
  BY MaxClausesAssumption DEF Init
<1>3. original \in Lists
  <2>1. original \in [1..k -> Nat]
    BY <1>1
  <2>2. original \in Seq(Nat)
    BY <1>2, <2>1, SeqDef
  <2>3. Len(original) = k
    BY <1>2, <2>1, <2>2, LenProperties
  <2>4. IsList(original)
    BY <1>1, <1>2, <2>3 DEF IsList, InOrder
  <2> QED
    BY <2>2, <2>4 DEF Lists
<1>4. DOMAIN saved = {} /\ pc = "start" /\ current = original
  BY DEF Init
<1>5. TypeOK
  <2>1. /\ clauses = <<>> /\ new_clauses = <<>> /\ n = 0 /\ granularity = 2 /\ chunk_size = 1
        /\ i = 0 /\ some_removed = FALSE /\ flaky \in BOOLEAN /\ differs \in BOOLEAN
    BY DEF Init
  <2>2. clauses \in Lists /\ new_clauses \in Lists
    BY <2>1, EmptyList
  <2>3. \A f \in DOMAIN saved : saved[f] \in Lists
    BY <1>4
  <2>4. n \in Nat /\ granularity \in Nat \ {0} /\ chunk_size \in Nat \ {0} /\ i \in Nat
    BY <2>1
  <2> QED
    BY <1>3, <1>4, <2>1, <2>2, <2>3, <2>4 DEF TypeOK
<1>6. Loops /\ CurrentCrashes /\ SavedOK /\ Minimal /\ WarnsOnlyUnreduced
  BY <1>4 DEF Loops, Work, CurrentCrashes, SavedOK, Minimal, WarnsOnlyUnreduced
<1> QED
  BY <1>5, <1>6 DEF IndInv

LEMMA UnchangedInv ==
  ASSUME IndInv, UNCHANGED vars
  PROVE  IndInv'
<1>1. /\ pc' = pc /\ original' = original /\ flaky' = flaky /\ differs' = differs
      /\ current' = current /\ clauses' = clauses /\ n' = n /\ granularity' = granularity
      /\ chunk_size' = chunk_size /\ new_clauses' = new_clauses /\ i' = i
      /\ some_removed' = some_removed /\ answers' = answers /\ saved' = saved
  BY DEF vars
<1>2. TypeOK'
  BY <1>1, ListsSame DEF IndInv, TypeOK
<1>3. Work' = Work
  BY <1>1 DEF Work
<1>4. Loops' /\ CurrentCrashes'
  BY <1>1, <1>3 DEF IndInv, Loops, CurrentCrashes, Crashed
<1>5. SavedOK'
  BY <1>1, <1>3 DEF IndInv, SavedOK, Crashed
<1>6. Minimal' /\ WarnsOnlyUnreduced'
  BY <1>1 DEF IndInv, Minimal, Tried, Fine, WarnsOnlyUnreduced
<1> QED
  BY <1>2, <1>4, <1>5, <1>6 DEF IndInv

LEMMA Inductive == Spec => []IndInv
<1>1. Init => IndInv
  BY Start
<1>2. IndInv /\ [Next]_vars => IndInv'
  BY ConfirmInv, StartEmptyInv, TryNoClausesInv, StartPassInv, GrainTooFineInv, TryChunkInv,
     EndPassInv, NextRoundInv, OutputInv, OutputDividesByZeroInv, UnchangedInv DEF Next, Done
<1> QED
  BY <1>1, <1>2, PTL DEF Spec

\* Every list that is tried, saved or written holds clauses of the file in the order of
\* the file, and the chunks never have length 0, which would end no pass.
THEOREM ListsAreParts == Spec => []TypeOK
<1>1. IndInv => TypeOK
  BY DEF IndInv
<1> QED
  BY <1>1, Inductive, PTL

\* However long the file is, and whether or not the crash is monotone or even
\* repeatable, every single clause of the output was left out in vain.
THEOREM OutputIsMinimal == Spec => []OneMinimal
<1>1. IndInv => OneMinimal
  BY DEF IndInv, Minimal, Tried, Fine, OneMinimal
<1> QED
  BY <1>1, Inductive, PTL

\* However the counter answers, the file "<base>-<k>.cnf" has k clauses, and the last
\* answer for them is a crash.
THEOREM SavedFilesCrash == Spec => []SavedCrash
<1>1. IndInv => SavedCrash
  BY DEF IndInv, SavedOK, Crashed, SavedCrash
<1> QED
  BY <1>1, Inductive, PTL

\* The output of a deterministic counter still crashes, unless it has all the clauses of
\* a file that the program does not rewrite as it was.
THEOREM WarningMeansUnreduced == Spec => []WarnsOnlyUnreduced
<1>1. IndInv => WarnsOnlyUnreduced
  BY DEF IndInv
<1> QED
  BY <1>1, Inductive, PTL

=============================================================================
