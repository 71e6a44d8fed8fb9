---------------------------- MODULE OutDirProofs ----------------------------
(***************************************************************************)
(* Proofs about OutDir, for any number of processes and of slots.          *)
(*                                                                         *)
(* Exclusive is not inductive by itself: that a claim leaves the other     *)
(* paths of the test alone, and that a path is unlinked once, depends on   *)
(* which fields are set at which place, which is PlaceInv; PlaceInv in     *)
(* turn needs the types.  On these rest what is in the files when the      *)
(* counters run (Written), the bound on how far a scan of the directory    *)
(* gets (BoundAt), and that OutDir implements SlotOwner.                   *)
(***************************************************************************)
EXTENDS OutDirOwners, FiniteSetTheorems, TLAPS

-----------------------------------------------------------------------------
(***************************************************************************)
(* The steps the operations share keep the types.                          *)
(***************************************************************************)

\* The paths of a test are numbers of the directory.
LEMMA HeldAreSlots ==
  ASSUME TypeOK, NEW p \in Proc
  PROVE  HeldBy(p) \subseteq Slot
BY DEF TypeOK, HeldBy

\* unique_file starts with a number of the directory.
LEMMA StartClaimTyped ==
  ASSUME TypeOK, NEW p \in Proc, NEW r \in Role, StartClaim(p, r),
         dir' \in [Slot -> [by : Proc \union {NoOne}, data : Data]],
         held' \in [Proc -> [Role -> Slot \union {0}]],
         UNCHANGED <<status, left>>
  PROVE  TypeOK'
<1>1. counter' \in [Proc -> Slot]
  BY MaxAssumption DEF TypeOK, StartClaim, Slot
<1>2. role' \in [Proc -> Role]
  BY DEF TypeOK, StartClaim
<1> QED
  BY <1>1, <1>2 DEF TypeOK, StartClaim, Goto

\* An exit only moves the paths of a test to those left behind.
LEMMA ExitTyped ==
  ASSUME TypeOK, NEW p \in Proc,
         NEW how \in {"running", "finished", "full", "error", "seed",
                      "signal"},
         Exit(p, how), UNCHANGED <<dir, role, counter>>
  PROVE  TypeOK'
BY HeldAreSlots DEF TypeOK, Exit, Goto, NoFiles

\* A file is written under the name of the process that writes it.
LEMMA WriteTyped ==
  ASSUME TypeOK, NEW p \in Proc, NEW k, NEW data \in Data, Write(p, k, data)
  PROVE  dir' \in [Slot -> [by : Proc \union {NoOne}, data : Data]]
BY DEF TypeOK, Write

-----------------------------------------------------------------------------
(***************************************************************************)
(* Every operation keeps the types.                                        *)
(***************************************************************************)

LEMMA TypeStep ==
  ASSUME TypeOK, PlaceInv, [Next]_vars
  PROVE  TypeOK'
<1>0. /\ "cnf" \in Role /\ "arjun" \in Role /\ "plain" \in Role
      /\ "none" \in Data /\ "empty" \in Data /\ "formula" \in Data
      /\ "simplified" \in Data
  BY DEF Role, Data
<1>1. CASE UNCHANGED vars
  BY <1>1 DEF vars, TypeOK
<1>2. ASSUME NEW p \in Proc, Step(p) PROVE TypeOK'
  <2>1. CASE Begin(p)
    <3>1. UNCHANGED dir /\ UNCHANGED held
      BY <2>1 DEF Begin
    <3> QED
      BY <1>0, <2>1, <3>1, StartClaimTyped DEF Begin, TypeOK
  <2>2. CASE Finish(p) \/ GenerateFail(p) \/ PreprocFail(p) \/ RunsFail(p)
             \/ GiveUp(p)
    BY <2>2, ExitTyped
       DEF Finish, GenerateFail, PreprocFail, RunsFail, GiveUp
  <2>3. CASE ClaimHit(p)
    <3>1. dir' \in [Slot -> [by : Proc \union {NoOne}, data : Data]]
      BY <1>0, <2>3, WriteTyped DEF ClaimHit
    <3>2. held' \in [Proc -> [Role -> Slot \union {0}]]
      BY <2>3 DEF ClaimHit, TypeOK
    <3>3. pc'[p] \in {"generate", "preproc", "copy"}
      BY <2>3 DEF ClaimHit, TypeOK, Goto, Role
    <3> QED
      BY <2>3, <3>1, <3>2, <3>3 DEF ClaimHit, TypeOK, Goto
  <2>4. CASE ClaimMiss(p)
    BY <2>4, MaxAssumption DEF ClaimMiss, TypeOK, Slot
  <2>5. CASE Generate(p)
    <3>1. dir' \in [Slot -> [by : Proc \union {NoOne}, data : Data]]
      BY <1>0, <2>5, WriteTyped DEF Generate
    <3> QED
      BY <1>0, <2>5, <3>1, StartClaimTyped DEF Generate, TypeOK
  <2>6. CASE PreprocOk(p)
    <3>1. dir' \in [Slot -> [by : Proc \union {NoOne}, data : Data]]
      BY <1>0, <2>6, WriteTyped DEF PreprocOk
    <3> QED
      BY <1>0, <2>6, <3>1, StartClaimTyped DEF PreprocOk, TypeOK
  <2>7. CASE PreprocSlow(p)
    <3>1. dir' \in [Slot -> [by : Proc \union {NoOne}, data : Data]]
      BY <1>0, <2>7 DEF PreprocSlow, TypeOK, Absent
    <3>2. held' \in [Proc -> [Role -> Slot \union {0}]]
      BY <2>7 DEF PreprocSlow, TypeOK
    <3> QED
      BY <1>0, <2>7, <3>1, <3>2, StartClaimTyped DEF PreprocSlow
  <2>8. CASE CopyPlain(p)
    <3>1. held[p]["cnf"] \in Slot
      BY <2>8 DEF CopyPlain, PlaceInv, Place, Holds, TypeOK, Role
    <3>2. dir[held[p]["cnf"]].data \in Data
      BY <3>1 DEF TypeOK
    <3>3. dir' \in [Slot -> [by : Proc \union {NoOne}, data : Data]]
      BY <2>8, <3>2, WriteTyped DEF CopyPlain
    <3> QED
      BY <2>8, <3>3 DEF CopyPlain, TypeOK, Goto
  <2>9. CASE RunsEnd(p)
    <3>1. CASE p \in Seeded
      BY <2>9, <3>1, ExitTyped DEF RunsEnd
    <3>2. CASE p \notin Seeded
      BY <1>0, <2>9, <3>2 DEF RunsEnd, TypeOK, Goto
    <3> QED
      BY <3>1, <3>2
  <2>10. CASE Unlink(p)
    <3>1. dir' \in [Slot -> [by : Proc \union {NoOne}, data : Data]]
      BY <1>0, <2>10 DEF Unlink, TypeOK, Absent
    <3>2. held' \in [Proc -> [Role -> Slot \union {0}]]
      BY <2>10 DEF Unlink, TypeOK
    <3>3. /\ role' \in [Proc -> Role]
          /\ pc' = [pc EXCEPT ![p] = "cleanup"] \/ pc' = [pc EXCEPT ![p] = "loop"]
      BY <1>0, <2>10 DEF Unlink, AfterUnlink, TypeOK, Goto, Role
    <3> QED
      BY <2>10, <3>1, <3>2, <3>3 DEF Unlink, TypeOK
  <2> QED
    BY <1>2, <2>1, <2>2, <2>3, <2>4, <2>5, <2>6, <2>7, <2>8, <2>9, <2>10
       DEF Step, Claim, Preproc
<1>3. ASSUME NEW p \in Proc, Signal(p) PROVE TypeOK'
  BY <1>3, ExitTyped DEF Signal
<1>4. ASSUME NEW p \in Proc, Restart(p) PROVE TypeOK'
  BY <1>4 DEF Restart, TypeOK, Goto
<1> QED
  BY <1>1, <1>2, <1>3, <1>4 DEF Next

-----------------------------------------------------------------------------
(***************************************************************************)
(* Every operation keeps the right files held at every place.              *)
(***************************************************************************)

\* A step of p that leaves the other processes where they are only has to get
\* p's own place right.
LEMMA PlaceOfOthers ==
  ASSUME TypeOK, PlaceInv, NEW p \in Proc,
         \A q \in Proc \ {p} :
            pc'[q] = pc[q] /\ role'[q] = role[q] /\ held'[q] = held[q],
         Place(p)'
  PROVE  PlaceInv'
<1>1. ASSUME NEW q \in Proc, q # p PROVE Place(q)'
  <2>1. pc'[q] = pc[q] /\ role'[q] = role[q] /\ held'[q] = held[q]
    BY <1>1
  <2> QED
    BY <2>1 DEF PlaceInv, Place, Holds
<1> QED
  BY <1>1 DEF PlaceInv

\* A process that exited holds nothing.
LEMMA PlaceAfterExit ==
  ASSUME TypeOK, PlaceInv, NEW p \in Proc, NEW how, Exit(p, how), UNCHANGED role
  PROVE  PlaceInv'
<1>1. pc'[p] = "exited" /\ \A r \in Role : held'[p][r] = 0
  BY DEF TypeOK, Exit, Goto, NoFiles
<1>2. Place(p)'
  BY <1>1 DEF Place, Holds
<1>3. \A q \in Proc \ {p} :
         pc'[q] = pc[q] /\ role'[q] = role[q] /\ held'[q] = held[q]
  BY DEF TypeOK, Exit, Goto
<1> QED
  BY <1>2, <1>3, PlaceOfOthers

LEMMA PlaceStep ==
  ASSUME TypeOK, PlaceInv, [Next]_vars
  PROVE  PlaceInv'
<1>1. CASE UNCHANGED vars
  BY <1>1 DEF vars, PlaceInv, Place, Holds
<1>2. ASSUME NEW p \in Proc, Step(p) PROVE PlaceInv'
  <2>0. Place(p)
    BY DEF PlaceInv
  <2>1. CASE Finish(p) \/ GenerateFail(p) \/ PreprocFail(p) \/ RunsFail(p)
             \/ GiveUp(p)
    BY <2>1, PlaceAfterExit
       DEF Finish, GenerateFail, PreprocFail, RunsFail, GiveUp
  <2>2. CASE RunsEnd(p) /\ p \in Seeded
    BY <2>2, PlaceAfterExit DEF RunsEnd
  <2>3. CASE Begin(p) \/ ClaimHit(p) \/ ClaimMiss(p) \/ Generate(p)
             \/ PreprocOk(p) \/ PreprocSlow(p) \/ CopyPlain(p)
             \/ (RunsEnd(p) /\ p \notin Seeded) \/ Unlink(p)
    <3>1. \A q \in Proc \ {p} :
             pc'[q] = pc[q] /\ role'[q] = role[q] /\ held'[q] = held[q]
      <4> USE DEF TypeOK, Goto, StartClaim
      <4>1. CASE Begin(p) \/ Generate(p) \/ PreprocOk(p) \/ PreprocSlow(p)
        BY <4>1 DEF Begin, Generate, PreprocOk, PreprocSlow
      <4>2. CASE ClaimHit(p) \/ ClaimMiss(p)
        BY <4>2 DEF ClaimHit, ClaimMiss
      <4>3. CASE CopyPlain(p) \/ (RunsEnd(p) /\ p \notin Seeded)
        BY <4>3 DEF CopyPlain, RunsEnd
      <4>4. CASE Unlink(p)
        BY <4>4 DEF Unlink, AfterUnlink, Role
      <4> QED
        BY <2>3, <4>1, <4>2, <4>3, <4>4
    <3>2. Place(p)'
      <4> USE <2>0 DEF TypeOK, Place, Holds, Role, Goto, StartClaim
      <4>1. CASE Begin(p)
        BY <4>1 DEF Begin
      <4>2. CASE ClaimHit(p)
        BY <4>2 DEF ClaimHit, Slot
      <4>3. CASE ClaimMiss(p)
        BY <4>3 DEF ClaimMiss
      <4>4. CASE Generate(p)
        BY <4>4 DEF Generate
      <4>5. CASE PreprocOk(p)
        BY <4>5 DEF PreprocOk
      <4>6. CASE PreprocSlow(p)
        BY <4>6 DEF PreprocSlow
      <4>7. CASE CopyPlain(p)
        BY <4>7 DEF CopyPlain
      <4>8. CASE RunsEnd(p) /\ p \notin Seeded
        BY <4>8 DEF RunsEnd
      <4>9. CASE Unlink(p)
        BY <4>9 DEF Unlink, AfterUnlink
      <4> QED
        BY <2>3, <4>1, <4>2, <4>3, <4>4, <4>5, <4>6, <4>7, <4>8, <4>9
    <3> QED
      BY <3>1, <3>2, PlaceOfOthers
  <2> QED
    BY <1>2, <2>1, <2>2, <2>3 DEF Step, Claim, Preproc
<1>3. ASSUME NEW p \in Proc, Signal(p) PROVE PlaceInv'
  BY <1>3, PlaceAfterExit DEF Signal
<1>4. ASSUME NEW p \in Proc, Restart(p) PROVE PlaceInv'
  BY <1>4 DEF Restart, TypeOK, Goto, PlaceInv, Place, Holds
<1> QED
  BY <1>1, <1>2, <1>3, <1>4 DEF Next

-----------------------------------------------------------------------------
(***************************************************************************)
(* What a step can do to the files: nothing, write one it holds, create    *)
(* one, unlink one it holds, or leave all it holds behind.                 *)
(***************************************************************************)

Keep == UNCHANGED <<dir, held, left>>

Rewrite(p, r, data) ==
    /\ held[p][r] # 0
    /\ Write(p, held[p][r], data)
    /\ UNCHANGED <<held, left>>

Create(p, r, k) ==
    /\ held[p][r] = 0
    /\ ~Exists(k)
    /\ Write(p, k, "empty")
    /\ held' = [held EXCEPT ![p][r] = k]
    /\ UNCHANGED left

Drop(p, r) ==
    /\ held[p][r] # 0
    /\ dir' = [dir EXCEPT ![held[p][r]] = Absent]
    /\ held' = [held EXCEPT ![p][r] = 0]
    /\ UNCHANGED left

Leave(p) ==
    /\ left' = left \union HeldBy(p)
    /\ held' = [held EXCEPT ![p] = NoFiles]
    /\ UNCHANGED dir

FileStep(p) ==
    \/ Keep
    \/ \E r \in Role, data \in Data : Rewrite(p, r, data)
    \/ \E r \in Role, k \in Slot : Create(p, r, k)
    \/ \E r \in Role : Drop(p, r)
    \/ Leave(p)

LEMMA StepFiles ==
  ASSUME TypeOK, PlaceInv, NEW p \in Proc, Step(p)
  PROVE  FileStep(p)
<1>0. /\ Place(p)
      /\ "cnf" \in Role /\ "arjun" \in Role /\ "plain" \in Role
      /\ "formula" \in Data /\ "simplified" \in Data
  BY DEF PlaceInv, Role, Data
<1>1. CASE Begin(p) \/ ClaimMiss(p) \/ (RunsEnd(p) /\ p \notin Seeded)
  BY <1>1 DEF Begin, ClaimMiss, RunsEnd, FileStep, Keep
<1>2. CASE Finish(p) \/ GenerateFail(p) \/ PreprocFail(p) \/ RunsFail(p)
           \/ GiveUp(p) \/ (RunsEnd(p) /\ p \in Seeded)
  BY <1>2 DEF Finish, GenerateFail, PreprocFail, RunsFail, GiveUp, RunsEnd, Exit, FileStep, Leave
<1>3. CASE ClaimHit(p)
  <2>1. role[p] \in Role /\ counter[p] \in Slot
    BY DEF TypeOK
  <2>2. held[p][role[p]] = 0
    BY <1>0, <1>3, <2>1 DEF ClaimHit, Place, Holds, Role
  <2>3. Create(p, role[p], counter[p])
    BY <1>3, <2>2 DEF ClaimHit, Create
  <2> QED
    BY <2>1, <2>3 DEF FileStep
<1>4. CASE Generate(p)
  <2>1. Rewrite(p, "cnf", "formula")
    BY <1>0, <1>4 DEF Generate, Place, Holds, Rewrite
  <2> QED
    BY <1>0, <2>1 DEF FileStep
<1>5. CASE PreprocOk(p)
  <2>1. Rewrite(p, "arjun", "simplified")
    BY <1>0, <1>5 DEF PreprocOk, Place, Holds, Rewrite
  <2> QED
    BY <1>0, <2>1 DEF FileStep
<1>6. CASE PreprocSlow(p)
  <2>1. Drop(p, "arjun")
    BY <1>0, <1>6 DEF PreprocSlow, Place, Holds, Drop
  <2> QED
    BY <1>0, <2>1 DEF FileStep
<1>7. CASE CopyPlain(p)
  <2>1. Rewrite(p, "plain", dir[held[p]["cnf"]].data)
    BY <1>0, <1>7 DEF CopyPlain, Place, Holds, Rewrite
  <2>2. dir[held[p]["cnf"]].data \in Data
    BY <1>0, <1>7 DEF CopyPlain, Place, Holds, TypeOK
  <2> QED
    BY <1>0, <2>1, <2>2 DEF FileStep
<1>8. CASE Unlink(p)
  <2>1. role[p] \in Role
    BY DEF TypeOK
  <2>2. held[p][role[p]] # 0
    BY <1>0, <1>8, <2>1 DEF Unlink, Place, Holds, Role
  <2>3. Drop(p, role[p])
    BY <1>8, <2>2 DEF Unlink, Drop
  <2> QED
    BY <2>1, <2>3 DEF FileStep
<1> QED
  BY <1>1, <1>2, <1>3, <1>4, <1>5, <1>6, <1>7, <1>8 DEF Step, Claim, Preproc

\* The steps from outside are no different.
LEMMA NextFiles ==
  ASSUME TypeOK, PlaceInv, [Next]_vars
  PROVE  Keep \/ \E p \in Proc : FileStep(p)
<1>1. CASE UNCHANGED vars
  BY <1>1 DEF vars, Keep
<1>2. ASSUME NEW p \in Proc, Signal(p) \/ Restart(p) PROVE FileStep(p)
  BY <1>2 DEF Signal, Restart, Exit, FileStep, Leave, Keep
<1> QED
  BY <1>1, <1>2, StepFiles DEF Next

-----------------------------------------------------------------------------
(***************************************************************************)
(* Who holds what.                                                         *)
(***************************************************************************)

\* Exclusive, one slot at a time: a held slot is its holder's own file, and a
\* slot is held under one name only.
LEMMA ExclusiveStep ==
  ASSUME TypeOK, PlaceInv, Exclusive, [Next]_vars
  PROVE  Exclusive'
<1>1. CASE Keep
  BY <1>1 DEF Keep, Exclusive
<1>2. ASSUME NEW p \in Proc, FileStep(p) PROVE Exclusive'
  <2>1. CASE Keep
    BY <2>1 DEF Keep, Exclusive
  <2>2. ASSUME NEW r \in Role, NEW data \in Data, Rewrite(p, r, data)
        PROVE  Exclusive'
    BY <2>2 DEF Rewrite, Write, Exclusive, TypeOK
  <2>3. ASSUME NEW r \in Role, NEW k \in Slot, Create(p, r, k)
        PROVE  Exclusive'
    <3>1. \A q \in Proc, s \in Role : held[q][s] # k
      BY <2>3, NoOneAssumption DEF Create, Exists, Absent, Exclusive, Slot
    <3>2. \A q \in Proc, s \in Role :
             held'[q][s] = IF q = p /\ s = r THEN k ELSE held[q][s]
      BY <2>3 DEF Create, TypeOK
    <3>3. /\ dir'[k].by = p
          /\ \A l \in Slot \ {k} : dir'[l] = dir[l]
      BY <2>3 DEF Create, Write, TypeOK
    <3>4. \A q \in Proc, s \in Role : held[q][s] \in Slot \union {0}
      BY DEF TypeOK
    <3> QED
      BY <3>1, <3>2, <3>3, <3>4 DEF Exclusive
  <2>4. ASSUME NEW r \in Role, Drop(p, r) PROVE Exclusive'
    <3>1. \A q \in Proc, s \in Role :
             held'[q][s] = IF q = p /\ s = r THEN 0 ELSE held[q][s]
      BY <2>4 DEF Drop, TypeOK
    <3>2. \A l \in Slot \ {held[p][r]} : dir'[l] = dir[l]
      BY <2>4 DEF Drop, TypeOK
    <3>3. \A q \in Proc, s \in Role : held[q][s] \in Slot \union {0}
      BY DEF TypeOK
    <3> QED
      BY <2>4, <3>1, <3>2, <3>3 DEF Exclusive, Drop
  <2>5. CASE Leave(p)
    <3>1. \A q \in Proc, s \in Role :
             held'[q][s] = IF q = p THEN 0 ELSE held[q][s]
      BY <2>5 DEF Leave, NoFiles, TypeOK
    <3> QED
      BY <2>5, <3>1 DEF Leave, Exclusive
  <2> QED
    BY <1>2, <2>1, <2>2, <2>3, <2>4, <2>5 DEF FileStep
<1> QED
  BY <1>1, <1>2, NextFiles

-----------------------------------------------------------------------------
(***************************************************************************)
(* What becomes of every file.                                             *)
(***************************************************************************)

\* Accounted, one slot at a time.
Tracked ==
    \A k \in Slot :
        Exists(k) <=> k \in left \/ \E p \in Proc, r \in Role : held[p][r] = k

Apart == \A p \in Proc, r \in Role : held[p][r] \notin left

LEMMA AccountedPointwise ==
  ASSUME TypeOK
  PROVE  Accounted <=> Tracked /\ Apart
<1>0. /\ 0 \notin Slot /\ left \subseteq Slot
      /\ \A p \in Proc, r \in Role : held[p][r] \in Slot \union {0}
  BY MaxAssumption DEF TypeOK, Slot
<1>1. \A p \in Proc : \A k : k \in HeldBy(p) <=>
         k # 0 /\ \E r \in Role : held[p][r] = k
  BY DEF HeldBy
<1> DEFINE Held == UNION {HeldBy(p) : p \in Proc}
<1>u. \A k : k \in Held <=> \E p \in Proc : k \in HeldBy(p)
  OBVIOUS
<1>e. \A k : k \in {l \in Slot : Exists(l)} <=> k \in Slot /\ Exists(k)
  BY Zenon
<1>a. Accounted <=> /\ {l \in Slot : Exists(l)} = Held \union left
                   /\ \A p \in Proc : left \intersect HeldBy(p) = {}
  BY DEF Accounted
<1> HIDE DEF Held
<1>2. Accounted => Tracked /\ Apart
  <2>1. ASSUME Accounted PROVE Tracked
    <3> SUFFICES ASSUME NEW k \in Slot
                 PROVE  Exists(k) <=> k \in left \/ \E p \in Proc, r \in Role : held[p][r] = k
      BY DEF Tracked
    <3>1. k \in {l \in Slot : Exists(l)} <=> k \in Held \/ k \in left
      BY <1>a, <2>1
    <3>2. Exists(k) <=> k \in left \/ \E p \in Proc : k \in HeldBy(p)
      BY <1>u, <1>e, <3>1
    <3> QED
      BY <1>0, <1>1, <3>2
  <2>2. ASSUME Accounted PROVE Apart
    <3> SUFFICES ASSUME NEW p \in Proc, NEW r \in Role PROVE held[p][r] \notin left
      BY DEF Apart
    <3>1. held[p][r] # 0 => held[p][r] \in HeldBy(p)
      BY <1>1
    <3> QED
      BY <1>0, <2>2, <3>1 DEF Accounted
  <2> QED
    BY <2>1, <2>2
<1>3. Tracked /\ Apart => Accounted
  <2> SUFFICES ASSUME Tracked, Apart PROVE Accounted
    OBVIOUS
  <2>1. \A k \in Slot : Exists(k) <=> k \in left \/ \E p \in Proc : k \in HeldBy(p)
    BY <1>0, <1>1 DEF Tracked
  <2>2. \A p \in Proc : HeldBy(p) \subseteq Slot
    BY HeldAreSlots
  <2>3. \A p \in Proc : left \intersect HeldBy(p) = {}
    BY <1>1 DEF Apart
  <2>4. \A k : k \in {l \in Slot : Exists(l)} <=> k \in Held \union left
    BY <1>0, <1>e, <1>u, <2>1, <2>2
  <2>5. {l \in Slot : Exists(l)} = Held \union left
    BY <2>4, Zenon
  <2> QED
    BY <1>a, <2>3, <2>5
<1> QED
  BY <1>2, <1>3

\* No step loses track of a file.
LEMMA TrackedStep ==
  ASSUME TypeOK, PlaceInv, Exclusive, Tracked, Apart, [Next]_vars
  PROVE  Tracked' /\ Apart'
<1>0. /\ 0 \notin Slot /\ left \subseteq Slot
      /\ \A p \in Proc, r \in Role : held[p][r] \in Slot \union {0}
  BY MaxAssumption DEF TypeOK, Slot
<1>1. CASE Keep
  BY <1>1 DEF Keep, Tracked, Apart, Exists
<1>2. ASSUME NEW p \in Proc, FileStep(p) PROVE Tracked' /\ Apart'
  <2>1. CASE Keep
    BY <2>1 DEF Keep, Tracked, Apart, Exists
  <2>2. ASSUME NEW r \in Role, NEW data \in Data, Rewrite(p, r, data)
        PROVE  Tracked' /\ Apart'
    <3>1. \A k \in Slot : Exists(k)' <=> Exists(k)
      <4>1. Exists(held[p][r])
        BY <1>0, <2>2 DEF Rewrite, Tracked
      <4>2. dir'[held[p][r]] # Absent
        BY <1>0, <2>2, NoOneAssumption DEF Rewrite, Write, TypeOK, Absent
      <4> QED
        BY <2>2, <4>1, <4>2 DEF Rewrite, Write, TypeOK, Exists
    <3> QED
      BY <2>2, <3>1 DEF Rewrite, Tracked, Apart
  <2>3. ASSUME NEW r \in Role, NEW k \in Slot, Create(p, r, k)
        PROVE  Tracked' /\ Apart'
    <3>1. \A q \in Proc, s \in Role :
             held'[q][s] = IF q = p /\ s = r THEN k ELSE held[q][s]
      BY <2>3 DEF Create, TypeOK
    <3>2. \A l \in Slot : Exists(l)' <=> l = k \/ Exists(l)
      BY <2>3, NoOneAssumption DEF Create, Write, TypeOK, Exists, Absent
    <3>3. k \notin left /\ held[p][r] = 0 /\ left' = left
      BY <2>3 DEF Create, Tracked
    <3>4. Tracked'
      <4> SUFFICES ASSUME NEW l \in Slot
                   PROVE  Exists(l)' <=>
                            l \in left' \/ \E q \in Proc, s \in Role : held'[q][s] = l
        BY DEF Tracked
      <4>1. Exists(l) <=> l \in left \/ \E q \in Proc, s \in Role : held[q][s] = l
        BY DEF Tracked
      <4>2. (\E q \in Proc, s \in Role : held'[q][s] = l)
              <=> l = k \/ \E q \in Proc, s \in Role : held[q][s] = l
        BY <1>0, <3>1, <3>3
      <4> QED
        BY <3>2, <3>3, <4>1, <4>2
    <3>5. Apart'
      BY <3>1, <3>3 DEF Apart
    <3> QED
      BY <3>4, <3>5
  <2>4. ASSUME NEW r \in Role, Drop(p, r) PROVE Tracked' /\ Apart'
    <3>1. \A q \in Proc, s \in Role :
             held'[q][s] = IF q = p /\ s = r THEN 0 ELSE held[q][s]
      BY <2>4 DEF Drop, TypeOK
    <3>2. \A l \in Slot : Exists(l)' <=> l # held[p][r] /\ Exists(l)
      BY <2>4 DEF Drop, TypeOK, Exists
    <3>3. held[p][r] \in Slot /\ held[p][r] \notin left /\ left' = left
      BY <1>0, <2>4 DEF Drop, Apart
    <3>4. Tracked'
      <4> SUFFICES ASSUME NEW l \in Slot
                   PROVE  Exists(l)' <=>
                            l \in left' \/ \E q \in Proc, s \in Role : held'[q][s] = l
        BY DEF Tracked
      <4>1. Exists(l) <=> l \in left \/ \E q \in Proc, s \in Role : held[q][s] = l
        BY DEF Tracked
      <4>2. (\E q \in Proc, s \in Role : held'[q][s] = l)
              <=> l # held[p][r] /\ \E q \in Proc, s \in Role : held[q][s] = l
        BY <1>0, <3>1, <3>3 DEF Exclusive
      <4> QED
        BY <3>2, <3>3, <4>1, <4>2
    <3>5. Apart'
      BY <1>0, <3>1, <3>3 DEF Apart
    <3> QED
      BY <3>4, <3>5
  <2>5. CASE Leave(p)
    <3>1. \A q \in Proc, s \in Role :
             held'[q][s] = IF q = p THEN 0 ELSE held[q][s]
      BY <2>5 DEF Leave, NoFiles, TypeOK
    <3>2. \A l \in Slot : l \in left' <=> l \in left \/ \E s \in Role : held[p][s] = l
      BY <1>0, <2>5 DEF Leave, HeldBy
    <3>3. \A l \in Slot : Exists(l)' <=> Exists(l)
      BY <2>5 DEF Leave, Exists
    <3>4. 0 \notin left'
      BY <1>0, <2>5 DEF Leave, HeldBy
    <3>5. Tracked'
      <4> SUFFICES ASSUME NEW l \in Slot
                   PROVE  Exists(l)' <=>
                            l \in left' \/ \E q \in Proc, s \in Role : held'[q][s] = l
        BY DEF Tracked
      <4>1. Exists(l) <=> l \in left \/ \E q \in Proc, s \in Role : held[q][s] = l
        BY DEF Tracked
      <4> QED
        BY <1>0, <3>1, <3>2, <3>3, <4>1
    <3>6. Apart'
      BY <1>0, <3>1, <3>2, <3>4 DEF Apart, Exclusive
    <3> QED
      BY <3>5, <3>6
  <2> QED
    BY <1>2, <2>1, <2>2, <2>3, <2>4, <2>5 DEF FileStep
<1> QED
  BY <1>1, <1>2, NextFiles

\* A step that changes a file changes one its process wrote and still holds, or
\* creates one.
LEMMA OwnFilesOnly ==
  ASSUME TypeOK, PlaceInv, Exclusive, Apart, NEW p \in Proc, FileStep(p),
         NEW k \in Slot, dir'[k] # dir[k]
  PROVE  IF Exists(k) THEN dir[k].by = p /\ k \notin left ELSE dir'[k].by = p
<1>1. CASE Keep \/ Leave(p)
  BY <1>1 DEF Keep, Leave
<1>2. ASSUME NEW r \in Role, NEW data \in Data, Rewrite(p, r, data)
      PROVE  k = held[p][r] /\ dir[k].by = p /\ k \notin left
  BY <1>2 DEF Rewrite, Write, Exclusive, Apart, TypeOK
<1>3. ASSUME NEW r \in Role, NEW l \in Slot, Create(p, r, l)
      PROVE  ~Exists(k) /\ dir'[k].by = p
  BY <1>3 DEF Create, Write, TypeOK
<1>4. ASSUME NEW r \in Role, Drop(p, r)
      PROVE  k = held[p][r] /\ dir[k].by = p /\ k \notin left
  BY <1>4 DEF Drop, Exclusive, Apart, TypeOK
<1>5. dir[k].by = p => Exists(k)
  BY NoOneAssumption DEF Exists, Absent
<1> QED
  BY <1>1, <1>2, <1>3, <1>4, <1>5 DEF FileStep

\* The file cleanup is about to unlink is there.
LEMMA HeldExist ==
  ASSUME TypeOK, PlaceInv, Exclusive
  PROVE  CleanupFindsFile
<1> SUFFICES ASSUME NEW p \in Proc, pc[p] = "cleanup"
             PROVE  Exists(held[p][role[p]])
  BY DEF CleanupFindsFile
<1>1. role[p] \in Role /\ held[p][role[p]] # 0
  BY DEF PlaceInv, Place, Holds, TypeOK, Role
<1>2. dir[held[p][role[p]]].by = p
  BY <1>1 DEF Exclusive
<1> QED
  BY <1>2, NoOneAssumption DEF Exists, Absent

-----------------------------------------------------------------------------
(***************************************************************************)
(* What is in the files of a test.                                         *)
(***************************************************************************)

\* What the files held at each place contain: the formula from its generation on,
\* Arjun's output from its answer on.
Written(p) ==
    /\ \/ pc[p] = "claim" /\ role[p] \in {"arjun", "plain"}
       \/ pc[p] \in {"preproc", "copy", "runs"}
       => dir[held[p]["cnf"]] = [by |-> p, data |-> "formula"]
    /\ \/ pc[p] = "claim" /\ role[p] = "plain"
       \/ pc[p] \in {"copy", "runs"}
       => (held[p]["arjun"] # 0 =>
             dir[held[p]["arjun"]] = [by |-> p, data |-> "simplified"])
    /\ pc[p] = "runs" => dir[held[p]["plain"]] = [by |-> p, data |-> "formula"]

WrittenInv == \A p \in Proc : Written(p)

\* A step of one process changes nothing that another one's Written speaks of.
LEMMA WrittenOfOthers ==
  ASSUME TypeOK, PlaceInv, Exclusive, Apart, NEW p \in Proc, FileStep(p),
         NEW q \in Proc, q # p, Written(q),
         pc'[q] = pc[q], role'[q] = role[q], held'[q] = held[q]
  PROVE  Written(q)'
<1>1. ASSUME NEW r \in Role, held[q][r] # 0
      PROVE  dir'[held[q][r]] = dir[held[q][r]]
  <2>1. held[q][r] \in Slot /\ dir[held[q][r]].by = q
    BY <1>1 DEF TypeOK, Exclusive
  <2>2. Exists(held[q][r])
    BY <2>1, NoOneAssumption DEF Exists, Absent
  <2> QED
    BY <2>1, <2>2, OwnFilesOnly
<1>2. Place(q)
  BY DEF PlaceInv
<1> QED
  BY <1>1, <1>2 DEF Written, Place, Holds, Role

\* The other processes stay where they are.
LEMMA OthersStay ==
  ASSUME TypeOK, NEW p \in Proc, Step(p) \/ Signal(p) \/ Restart(p),
         NEW q \in Proc, q # p
  PROVE  pc'[q] = pc[q] /\ role'[q] = role[q] /\ held'[q] = held[q]
<1> USE DEF TypeOK, Goto, StartClaim, Exit
<1>1. CASE Begin(p) \/ Generate(p) \/ PreprocOk(p) \/ PreprocSlow(p)
  BY <1>1 DEF Begin, Generate, PreprocOk, PreprocSlow
<1>2. CASE ClaimHit(p) \/ ClaimMiss(p)
  BY <1>2 DEF ClaimHit, ClaimMiss
<1>3. CASE CopyPlain(p) \/ RunsEnd(p)
  BY <1>3 DEF CopyPlain, RunsEnd
<1>4. CASE Unlink(p)
  BY <1>4 DEF Unlink, AfterUnlink, Role
<1>5. CASE Finish(p) \/ GenerateFail(p) \/ PreprocFail(p) \/ RunsFail(p)
           \/ GiveUp(p)
  BY <1>5 DEF Finish, GenerateFail, PreprocFail, RunsFail, GiveUp
<1>6. CASE Signal(p) \/ Restart(p)
  BY <1>6 DEF Signal, Restart
<1> QED
  BY <1>1, <1>2, <1>3, <1>4, <1>5, <1>6 DEF Step, Claim, Preproc

\* Each operation leaves its own files as the next place needs them.
LEMMA WrittenByItself ==
  ASSUME TypeOK, PlaceInv, Exclusive, NEW p \in Proc, Written(p),
         Step(p) \/ Signal(p) \/ Restart(p)
  PROVE  Written(p)'
<1>0. /\ Place(p)
      /\ "cnf" \in Role /\ "arjun" \in Role /\ "plain" \in Role
  BY DEF PlaceInv, Role
<1>a. \A r, s \in Role : held[p][r] # 0 /\ held[p][r] = held[p][s] => r = s
  BY DEF Exclusive
<1>b. \A r \in Role : held[p][r] \in Slot \union {0}
  BY DEF TypeOK
<1> USE DEF TypeOK, Goto, StartClaim, Written
<1>1. CASE Begin(p)
  BY <1>1 DEF Begin
<1>2. CASE ClaimHit(p)
  <2>1. counter[p] \in Slot /\ role[p] \in Role
    OBVIOUS
  <2>2. \A r \in Role : held[p][r] # 0 => held[p][r] # counter[p]
    BY <1>2, <1>b, NoOneAssumption DEF ClaimHit, Exclusive, Exists, Absent
  <2>3. \A r \in Role : held'[p][r] = IF r = role[p] THEN counter[p] ELSE held[p][r]
    BY <1>2 DEF ClaimHit
  <2>4. \A k \in Slot : k # counter[p] => dir'[k] = dir[k]
    BY <1>2 DEF ClaimHit, Write
  <2>5. /\ pc'[p] = CASE role[p] = "cnf" -> "generate"
                     [] role[p] = "arjun" -> "preproc"
                     [] role[p] = "plain" -> "copy"
        /\ pc[p] = "claim"
    BY <1>2 DEF ClaimHit
  <2> QED
    BY <1>0, <1>b, <2>1, <2>2, <2>3, <2>4, <2>5 DEF Place, Holds, Role
<1>3. CASE ClaimMiss(p)
  BY <1>3 DEF ClaimMiss
<1>4. CASE Generate(p)
  BY <1>0, <1>4 DEF Generate, Write, Place, Holds
<1>5. CASE PreprocOk(p)
  BY <1>0, <1>a, <1>b, <1>5 DEF PreprocOk, Write, Place, Holds
<1>6. CASE PreprocSlow(p)
  BY <1>0, <1>a, <1>b, <1>6 DEF PreprocSlow, Place, Holds
<1>7. CASE CopyPlain(p)
  <2>1. held[p]["plain"] \in Slot
    BY <1>0, <1>b, <1>7 DEF CopyPlain, Place, Holds
  <2>2. dir' = [dir EXCEPT ![held[p]["plain"]] = [by |-> p, data |-> "formula"]]
    BY <1>7 DEF CopyPlain, Write
  <2> QED
    BY <1>0, <1>a, <1>b, <1>7, <2>1, <2>2 DEF CopyPlain, Place, Holds
<1>8. CASE RunsEnd(p)
  BY <1>8 DEF RunsEnd, Exit
<1>9. CASE Unlink(p)
  BY <1>9 DEF Unlink, AfterUnlink, Role
<1>10. CASE Finish(p) \/ GenerateFail(p) \/ PreprocFail(p) \/ RunsFail(p)
            \/ GiveUp(p) \/ Signal(p)
  BY <1>10 DEF Finish, GenerateFail, PreprocFail, RunsFail, GiveUp, Signal, Exit
<1>11. CASE Restart(p)
  BY <1>11 DEF Restart
<1> QED
  BY <1>1, <1>2, <1>3, <1>4, <1>5, <1>6, <1>7, <1>8, <1>9, <1>10, <1>11
     DEF Step, Claim, Preproc

LEMMA WrittenStep ==
  ASSUME TypeOK, PlaceInv, Exclusive, Apart, WrittenInv, [Next]_vars
  PROVE  WrittenInv'
<1>1. CASE UNCHANGED vars
  BY <1>1 DEF vars, WrittenInv, Written
<1>2. ASSUME NEW p \in Proc, Step(p) \/ Signal(p) \/ Restart(p)
      PROVE  WrittenInv'
  <2>1. FileStep(p)
    BY <1>2, StepFiles DEF Signal, Restart, Exit, FileStep, Leave, Keep
  <2>2. ASSUME NEW q \in Proc PROVE Written(q)'
    <3>0. Written(q)
      BY DEF WrittenInv
    <3>1. CASE q = p
      BY <1>2, <3>0, <3>1, WrittenByItself
    <3>2. CASE q # p
      BY <1>2, <2>1, <3>0, <3>2, OthersStay, WrittenOfOthers
    <3> QED
      BY <3>1, <3>2
  <2> QED
    BY <2>2 DEF WrittenInv
<1> QED
  BY <1>1, <1>2 DEF Next

-----------------------------------------------------------------------------
(***************************************************************************)
(* How far a scan for a free number gets.                                  *)
(*                                                                         *)
(* ScanBound for the slots from m on follows from ScanBound for those from *)
(* m - 1 on when a process finds slot m - 1 taken; at slot 1 it says that  *)
(* a process has three files at most, of which one that scans lacks one.   *)
(***************************************************************************)

Files(m) == {k \in Slot : k >= m /\ Exists(k)}

Scans(m) == {p \in Proc : pc[p] = "claim" /\ counter[p] >= m}

\* ScanBound at one slot.
BoundAt(m) ==
    LET beyond == Cardinality(Files(m)) + Cardinality(Scans(m))
    IN beyond = 0 \/ beyond <= 3 * Cardinality(Proc) + Cardinality(left) - (m - 1)

\* Everything that is counted is finite.
LEMMA CountsAreNumbers ==
  ASSUME TypeOK, NEW m \in Slot
  PROVE  /\ IsFiniteSet(Files(m)) /\ Cardinality(Files(m)) \in Nat
         /\ IsFiniteSet(Scans(m)) /\ Cardinality(Scans(m)) \in Nat
         /\ IsFiniteSet(left) /\ Cardinality(left) \in Nat
         /\ Cardinality(Proc) \in Nat
         /\ m \in Nat
<1>1. IsFiniteSet(Slot) /\ m \in Nat
  BY MaxAssumption, FS_Interval DEF Slot
<1>2. Files(m) \subseteq Slot /\ left \subseteq Slot /\ Scans(m) \subseteq Proc
  BY DEF Files, Scans, TypeOK
<1>3. IsFiniteSet(Files(m)) /\ IsFiniteSet(left) /\ IsFiniteSet(Scans(m))
  BY <1>1, <1>2, ProcAssumption, FS_Subset
<1> QED
  BY <1>1, <1>3, ProcAssumption, FS_CardinalityType

LEMMA ThreeRoles == IsFiniteSet(Role) /\ Cardinality(Role) = 3
<1>1. IsFiniteSet({"cnf"}) /\ Cardinality({"cnf"}) = 1
  BY FS_Singleton
<1>2. IsFiniteSet({"cnf"} \union {"arjun"}) /\ Cardinality({"cnf"} \union {"arjun"}) = 2
  BY <1>1, FS_AddElement
<1>3. Role = ({"cnf"} \union {"arjun"}) \union {"plain"}
  BY DEF Role
<1>4. "plain" \notin {"cnf"} \union {"arjun"}
  OBVIOUS
<1> QED
  BY <1>2, <1>3, <1>4, FS_AddElement

\* The files that are not left over are held in places of their own, and a scan
\* is for a place that holds none: there are three places for each process.
LEMMA BoundAtFirst ==
  ASSUME TypeOK, PlaceInv, Tracked
  PROVE  BoundAt(1)
<1> DEFINE Full == {a \in Proc \X Role : held[a[1]][a[2]] # 0}
           Wanted == {a \in Proc \X Role : a[1] \in Scans(1) /\ a[2] = role[a[1]]}
           Mine == Files(1) \ left
<1>0. 1 \in Slot
  BY MaxAssumption DEF Slot
<1>1. /\ IsFiniteSet(Proc \X Role)
      /\ Cardinality(Proc \X Role) = 3 * Cardinality(Proc)
  <2>1. /\ IsFiniteSet(Proc \X Role)
        /\ Cardinality(Proc \X Role) = Cardinality(Proc) * Cardinality(Role)
    BY ThreeRoles, ProcAssumption, FS_Product
  <2>2. Cardinality(Proc) \in Nat
    BY ProcAssumption, FS_CardinalityType
  <2> QED
    BY <2>1, <2>2, ThreeRoles
<1>2. /\ IsFiniteSet(Full) /\ IsFiniteSet(Wanted) /\ IsFiniteSet(Full \union Wanted)
      /\ Cardinality(Full \union Wanted) <= 3 * Cardinality(Proc)
  <2>1. Full \in SUBSET (Proc \X Role) /\ Wanted \in SUBSET (Proc \X Role)
    OBVIOUS
  <2>2. Full \union Wanted \in SUBSET (Proc \X Role)
    BY <2>1
  <2> HIDE DEF Full, Wanted
  <2> QED
    BY <1>1, <2>1, <2>2, FS_Subset
<1>3. Full \intersect Wanted = {}
  <2> SUFFICES ASSUME NEW p \in Proc, p \in Scans(1) PROVE held[p][role[p]] = 0
    OBVIOUS
  <2>1. Place(p) /\ pc[p] = "claim" /\ role[p] \in Role
    BY DEF PlaceInv, Scans, TypeOK
  <2> QED
    BY <2>1 DEF Place, Holds, Role
<1>4. Cardinality(Mine) <= Cardinality(Full)
  <2> DEFINE f == [k \in Mine |-> CHOOSE a \in Full : held[a[1]][a[2]] = k]
  <2>1. ASSUME NEW k \in Mine PROVE \E a \in Full : held[a[1]][a[2]] = k
    <3>1. k \in Slot /\ Exists(k) /\ k \notin left
      BY DEF Files
    <3>2. PICK p \in Proc, r \in Role : held[p][r] = k
      BY <3>1 DEF Tracked
    <3>3. k # 0
      BY <3>1, MaxAssumption DEF Slot
    <3>4. <<p, r>> \in Full
      BY <3>2, <3>3
    <3> QED
      BY <3>2, <3>4
  <2>2. \A k \in Mine : f[k] \in Full /\ held[f[k][1]][f[k][2]] = k
    BY <2>1
  <2> HIDE DEF f, Mine, Full
  <2>3. f \in [Mine -> Full]
    BY <2>2 DEF f
  <2>4. \A k, l \in Mine : f[k] = f[l] => k = l
    BY <2>2
  <2>5. f \in Injection(Mine, Full)
    BY <2>3, <2>4 DEF Injection, IsInjective
  <2> QED
    BY <1>2, <2>5, FS_Injection
<1>5. Cardinality(Scans(1)) <= Cardinality(Wanted)
  <2> DEFINE f == [p \in Scans(1) |-> <<p, role[p]>>]
  <2>1. \A p \in Scans(1) : <<p, role[p]>> \in Wanted
    BY DEF Scans, TypeOK
  <2> HIDE DEF Wanted
  <2>2. f \in [Scans(1) -> Wanted]
    BY <2>1
  <2>3. \A p, q \in Scans(1) : f[p] = f[q] => p = q
    OBVIOUS
  <2> HIDE DEF f
  <2>4. f \in Injection(Scans(1), Wanted)
    BY <2>2, <2>3 DEF Injection, IsInjective
  <2> QED
    BY <1>2, <2>4, FS_Injection
<1> HIDE DEF Full, Wanted
<1>6. Cardinality(Full) + Cardinality(Wanted) <= 3 * Cardinality(Proc)
  <2>1. Cardinality(Full \intersect Wanted) = 0
    BY <1>3, FS_EmptySet
  <2>2. Cardinality(Full \union Wanted)
          = Cardinality(Full) + Cardinality(Wanted) - Cardinality(Full \intersect Wanted)
    BY <1>2, FS_Union
  <2>3. Cardinality(Full) \in Nat /\ Cardinality(Wanted) \in Nat
    BY <1>2, FS_CardinalityType
  <2> QED
    BY <1>2, <2>1, <2>2, <2>3
<1>7. Cardinality(Files(1)) <= Cardinality(Mine) + Cardinality(left)
  <2>1. IsFiniteSet(Files(1)) /\ IsFiniteSet(left)
    BY <1>0, CountsAreNumbers
  <2>2. Cardinality(Mine) = Cardinality(Files(1)) - Cardinality(Files(1) \intersect left)
    BY <2>1, FS_Difference
  <2>3. /\ Cardinality(Files(1) \intersect left) <= Cardinality(left)
        /\ IsFiniteSet(Files(1) \intersect left)
    BY <2>1, FS_Intersection
  <2>4. Cardinality(Files(1) \intersect left) \in Nat
    BY <2>3, FS_CardinalityType
  <2> QED
    BY <1>0, <2>2, <2>3, <2>4, CountsAreNumbers
<1>8. IsFiniteSet(Mine)
  BY <1>0, CountsAreNumbers, FS_Difference
<1> HIDE DEF Mine
<1>9. Cardinality(Mine) \in Nat /\ Cardinality(Full) \in Nat /\ Cardinality(Wanted) \in Nat
  BY <1>2, <1>8, FS_CardinalityType
<1> QED
  BY <1>0, <1>4, <1>5, <1>6, <1>7, <1>9, CountsAreNumbers DEF BoundAt

\* A step that adds no file and no scan from m on keeps the bound.
LEMMA BoundWhenFewer ==
  ASSUME TypeOK, TypeOK', NEW m \in Slot, BoundAt(m),
         Files(m)' \subseteq Files(m), Scans(m)' \subseteq Scans(m), left \subseteq left'
  PROVE  BoundAt(m)'
<1>1. /\ IsFiniteSet(left') /\ Cardinality(left') \in Nat
      /\ Cardinality(Files(m)') \in Nat /\ Cardinality(Scans(m)') \in Nat
  <2>1. IsFiniteSet(Slot) /\ left' \subseteq Slot
    BY MaxAssumption, FS_Interval DEF Slot, TypeOK
  <2>2. IsFiniteSet(left') /\ IsFiniteSet(Files(m)') /\ IsFiniteSet(Scans(m)')
    BY <2>1, CountsAreNumbers, FS_Subset
  <2> QED
    BY <2>2, FS_CardinalityType
<1>2. /\ Cardinality(Files(m)') <= Cardinality(Files(m))
      /\ Cardinality(Scans(m)') <= Cardinality(Scans(m))
      /\ Cardinality(left) <= Cardinality(left')
  BY <1>1, CountsAreNumbers, FS_Subset
<1>3. Cardinality(left)' = Cardinality(left') /\ Cardinality(Proc)' = Cardinality(Proc)
  OBVIOUS
<1> QED
  BY <1>1, <1>2, <1>3, CountsAreNumbers DEF BoundAt

\* A process that finds its slot free trades its scan for a file.
LEMMA BoundWhenClaimed ==
  ASSUME TypeOK, NEW p \in Proc, ClaimHit(p), NEW m \in Slot, BoundAt(m)
  PROVE  BoundAt(m)'
<1>0. /\ counter[p] \in Nat /\ m \in Nat /\ counter[p] \in Slot
      /\ left' = left /\ pc[p] = "claim" /\ ~Exists(counter[p]) /\ pc'[p] # "claim"
  BY DEF TypeOK, Slot, ClaimHit, Goto, Role
<1>1. \A k \in Slot : Exists(k)' <=> k = counter[p] \/ Exists(k)
  BY NoOneAssumption DEF ClaimHit, Write, TypeOK, Exists, Absent
<1>2. \A q \in Proc : /\ counter'[q] = counter[q]
                      /\ pc'[q] = "claim" <=> q # p /\ pc[q] = "claim"
  BY <1>0 DEF ClaimHit, TypeOK, Goto
<1>3. Scans(m)' = Scans(m) \ {p}
  BY <1>2 DEF Scans
<1>4. CASE counter[p] >= m
  <2>1. Files(m)' = Files(m) \union {counter[p]} /\ counter[p] \notin Files(m)
    BY <1>0, <1>1, <1>4 DEF Files
  <2>2. p \in Scans(m)
    BY <1>0, <1>4 DEF Scans
  <2>3. Cardinality(Files(m)') = Cardinality(Files(m)) + 1
    BY <2>1, CountsAreNumbers, FS_AddElement
  <2>4. Cardinality(Scans(m)') = Cardinality(Scans(m)) - 1
    BY <1>3, <2>2, CountsAreNumbers, FS_RemoveElement
  <2> QED
    BY <1>0, <2>3, <2>4, CountsAreNumbers DEF BoundAt
<1>5. CASE ~(counter[p] >= m)
  <2>1. Files(m)' = Files(m)
    BY <1>0, <1>1, <1>5 DEF Files
  <2>2. p \notin Scans(m)
    BY <1>5 DEF Scans
  <2>3. Scans(m)' = Scans(m)
    BY <1>3, <2>2
  <2> QED
    BY <1>0, <2>1, <2>3 DEF BoundAt
<1> QED
  BY <1>4, <1>5

\* A process that finds slot m - 1 taken goes on to m: it and the file there are
\* counted from m - 1 on, and the file is not from m on.
LEMMA BoundWhenMissed ==
  ASSUME TypeOK, NEW p \in Proc, ClaimMiss(p), NEW m \in Slot, BoundAt(m),
         \A l \in Slot : l = m - 1 => BoundAt(l)
  PROVE  BoundAt(m)'
<1>0. /\ counter[p] \in Nat /\ m \in Nat /\ counter[p] \in Slot
      /\ left' = left /\ pc[p] = "claim" /\ Exists(counter[p])
      /\ dir' = dir /\ pc' = pc
      /\ counter' = [counter EXCEPT ![p] = @ + 1]
  BY DEF TypeOK, Slot, ClaimMiss
<1>1. Files(m)' = Files(m)
  BY <1>0 DEF Files, Exists
<1>2. CASE m # counter[p] + 1
  <2>1. \A q \in Proc : counter'[q] >= m <=> counter[q] >= m
    <3> SUFFICES ASSUME NEW q \in Proc PROVE counter'[q] >= m <=> counter[q] >= m
      OBVIOUS
    <3>1. CASE q = p
      <4>1. counter'[p] = counter[p] + 1
        BY <1>0 DEF TypeOK
      <4> QED
        BY <1>0, <1>2, <3>1, <4>1
    <3>2. CASE q # p
      BY <1>0, <3>2 DEF TypeOK
    <3> QED
      BY <3>1, <3>2
  <2>2. Scans(m)' = Scans(m)
    BY <1>0, <2>1 DEF Scans
  <2> QED
    BY <1>0, <1>1, <2>2 DEF BoundAt
<1>3. CASE m = counter[p] + 1
  <2> DEFINE l == counter[p]
  <2>0. l \in Slot /\ l = m - 1 /\ BoundAt(l)
    BY <1>0, <1>3
  <2>1. Files(l) = Files(m) \union {l} /\ l \notin Files(m)
    BY <1>0, <1>3 DEF Files, Slot
  <2>2. Scans(m)' = Scans(m) \union {p} /\ p \notin Scans(m)
    BY <1>0, <1>3 DEF Scans, TypeOK
  <2>3. Scans(m) \union {p} \subseteq Scans(l)
    BY <1>0, <1>3 DEF Scans, TypeOK, Slot
  <2> HIDE DEF l
  <2>4. Cardinality(Files(l)) = Cardinality(Files(m)) + 1
    BY <2>1, CountsAreNumbers, FS_AddElement
  <2>5. Cardinality(Scans(m) \union {p}) = Cardinality(Scans(m)) + 1
    BY <2>2, CountsAreNumbers, FS_AddElement
  <2>6. Cardinality(Scans(m) \union {p}) <= Cardinality(Scans(l))
    BY <2>0, <2>3, CountsAreNumbers, FS_Subset
  <2> QED
    BY <1>0, <1>1, <2>0, <2>2, <2>4, <2>5, <2>6, CountsAreNumbers DEF BoundAt
<1> QED
  BY <1>2, <1>3

\* The other operations add no file, and no scan beyond slot 1.
LEMMA OthersAddNothing ==
  ASSUME TypeOK, PlaceInv, Exclusive, NEW p \in Proc,
         Step(p) \/ Signal(p) \/ Restart(p), ~ClaimHit(p), ~ClaimMiss(p),
         NEW m \in Slot, m # 1
  PROVE  /\ Files(m)' \subseteq Files(m)
         /\ Scans(m)' \subseteq Scans(m)
         /\ left \subseteq left'
<1>0. m > 1 /\ m \in Nat /\ Place(p)
      /\ "cnf" \in Role /\ "arjun" \in Role /\ "plain" \in Role
  BY MaxAssumption DEF Slot, PlaceInv, Role
<1>1. ASSUME NEW r \in Role, held[p][r] # 0 PROVE Exists(held[p][r])
  BY <1>1, NoOneAssumption DEF Exclusive, Exists, Absent
<1>2. Files(m)' \subseteq Files(m)
  <2> SUFFICES ASSUME NEW k \in Slot, Exists(k)' PROVE Exists(k)
    BY DEF Files
  <2> USE DEF TypeOK, Exists
  <2>1. CASE Begin(p) \/ Finish(p) \/ GiveUp(p) \/ GenerateFail(p) \/ PreprocFail(p)
             \/ RunsEnd(p) \/ RunsFail(p) \/ Signal(p) \/ Restart(p)
    BY <2>1 DEF Begin, Finish, GiveUp, GenerateFail, PreprocFail, RunsEnd, RunsFail,
                Signal, Restart
  <2>2. CASE Generate(p)
    BY <1>0, <1>1, <2>2 DEF Generate, Write, Place, Holds
  <2>3. CASE PreprocOk(p)
    BY <1>0, <1>1, <2>3 DEF PreprocOk, Write, Place, Holds
  <2>4. CASE CopyPlain(p)
    BY <1>0, <1>1, <2>4 DEF CopyPlain, Write, Place, Holds
  <2>5. CASE PreprocSlow(p) \/ Unlink(p)
    BY <2>5 DEF PreprocSlow, Unlink
  <2> QED
    BY <2>1, <2>2, <2>3, <2>4, <2>5 DEF Step, Claim, Preproc
<1>3. \A q \in Proc : pc'[q] = "claim" /\ counter'[q] >= m =>
                          pc[q] = "claim" /\ counter'[q] = counter[q]
  <2> USE <1>0 DEF TypeOK, Goto, StartClaim, Exit
  <2>1. CASE Begin(p) \/ Generate(p) \/ PreprocOk(p) \/ PreprocSlow(p)
    BY <2>1 DEF Begin, Generate, PreprocOk, PreprocSlow
  <2>2. CASE CopyPlain(p) \/ RunsEnd(p)
    BY <2>2 DEF CopyPlain, RunsEnd
  <2>3. CASE Unlink(p)
    BY <2>3 DEF Unlink, AfterUnlink, Role
  <2>4. CASE Finish(p) \/ GenerateFail(p) \/ PreprocFail(p) \/ RunsFail(p) \/ GiveUp(p)
    BY <2>4 DEF Finish, GenerateFail, PreprocFail, RunsFail, GiveUp
  <2>5. CASE Signal(p) \/ Restart(p)
    BY <2>5 DEF Signal, Restart
  <2> QED
    BY <2>1, <2>2, <2>3, <2>4, <2>5 DEF Step, Claim, Preproc
<1>4. left \subseteq left'
  <2>1. FileStep(p)
    BY StepFiles DEF Signal, Restart, Exit, FileStep, Leave, Keep
  <2> QED
    BY <2>1 DEF FileStep, Keep, Rewrite, Create, Drop, Leave
<1> QED
  BY <1>2, <1>3, <1>4 DEF Scans

BoundInv == \A m \in Slot : m # 1 => BoundAt(m)

LEMMA BoundStep ==
  ASSUME TypeOK, TypeOK', PlaceInv, Exclusive, Tracked, BoundInv, [Next]_vars
  PROVE  BoundInv'
<1> SUFFICES ASSUME NEW m \in Slot, m # 1 PROVE BoundAt(m)'
  BY DEF BoundInv
<1>0. \A l \in Slot : BoundAt(l)
  BY BoundAtFirst DEF BoundInv
<1>1. CASE UNCHANGED vars
  BY <1>0, <1>1 DEF vars, BoundAt, Files, Scans, Exists
<1>2. ASSUME NEW p \in Proc, Step(p) \/ Signal(p) \/ Restart(p)
      PROVE  BoundAt(m)'
  <2>1. CASE ClaimHit(p)
    BY <1>0, <2>1, BoundWhenClaimed
  <2>2. CASE ClaimMiss(p)
    BY <1>0, <2>2, BoundWhenMissed
  <2>3. CASE ~ClaimHit(p) /\ ~ClaimMiss(p)
    BY <1>0, <1>2, <2>3, OthersAddNothing, BoundWhenFewer
  <2> QED
    BY <2>1, <2>2, <2>3
<1> QED
  BY <1>1, <1>2 DEF Next

\* Only a process that gives up becomes "full".
LEMMA FullOnlyByGivingUp ==
  ASSUME TypeOK, NEW p \in Proc, status'[p] = "full", status[p] # "full", [Next]_vars
  PROVE  GiveUp(p)
<1>1. ~UNCHANGED vars
  BY DEF vars
<1>2. PICK q \in Proc : Step(q) \/ Signal(q) \/ Restart(q)
  BY <1>1 DEF Next
<1> USE DEF TypeOK, Exit
<1>3. CASE Begin(q) \/ ClaimHit(q) \/ ClaimMiss(q) \/ Generate(q) \/ PreprocOk(q)
           \/ PreprocSlow(q) \/ CopyPlain(q) \/ Unlink(q)
  BY <1>3 DEF Begin, ClaimHit, ClaimMiss, Generate, PreprocOk, PreprocSlow, CopyPlain, Unlink
<1>4. CASE Finish(q) \/ GenerateFail(q) \/ PreprocFail(q) \/ RunsFail(q) \/ RunsEnd(q)
           \/ Signal(q) \/ Restart(q)
  BY <1>4 DEF Finish, GenerateFail, PreprocFail, RunsFail, RunsEnd, Signal, Restart
<1>5. CASE GiveUp(q)
  <2>1. q = p
    BY <1>5 DEF GiveUp
  <2> QED
    BY <1>5, <2>1
<1> QED
  BY <1>2, <1>3, <1>4, <1>5 DEF Step, Claim, Preproc

\* A process that gives up found the last slot taken: there are more files and
\* scans than the processes can account for.
LEMMA GivingUpNeedsLeftovers ==
  ASSUME TypeOK, PlaceInv, Tracked, BoundInv, NEW p \in Proc, GiveUp(p)
  PROVE  Cardinality(left) + 3 * Cardinality(Proc) > MaxNumFiles
<1> DEFINE m == MaxNumFiles
<1>1. m \in Slot /\ counter[p] = m /\ pc[p] = "claim" /\ Exists(m)
  BY MaxAssumption DEF Slot, TypeOK, GiveUp
<1>2. BoundAt(m)
  BY <1>1, BoundAtFirst DEF BoundInv
<1>3. m \in Files(m) /\ p \in Scans(m)
  BY <1>1, MaxAssumption DEF Files, Scans, Slot
<1> HIDE DEF m
<1>4. Cardinality(Files(m)) # 0 /\ Cardinality(Scans(m)) # 0
  BY <1>1, <1>3, CountsAreNumbers, FS_EmptySet
<1> QED
  BY <1>1, <1>2, <1>4, CountsAreNumbers DEF BoundAt, m

-----------------------------------------------------------------------------
(***************************************************************************)
(* OutDir implements SlotOwner.                                            *)
(***************************************************************************)

\* The owner of every slot, without the function that gives it.
LEMMA OwnerOf ==
  \A k \in Slot : Owner[k] = IF ~Exists(k) THEN Free
                             ELSE IF k \in left THEN Abandoned ELSE dir[k].by
BY DEF Owner

\* What a running process owns is what its test holds.
LEMMA OwnedIsHeld ==
  ASSUME TypeOK, Exclusive, Tracked, Apart, NEW p \in Proc, NEW k \in Slot
  PROVE  Owner[k] = p <=> \E r \in Role : held[p][r] = k
<1>0. k # 0
  BY MaxAssumption DEF Slot
<1>1. ASSUME Owner[k] = p PROVE \E r \in Role : held[p][r] = k
  <2>1. Exists(k) /\ k \notin left /\ dir[k].by = p
    BY <1>1, OwnerOf, SentinelsAssumption
  <2>2. PICK q \in Proc, r \in Role : held[q][r] = k
    BY <2>1 DEF Tracked
  <2>3. dir[k].by = q
    BY <1>0, <2>2 DEF Exclusive
  <2> QED
    BY <2>1, <2>2, <2>3
<1>2. ASSUME NEW r \in Role, held[p][r] = k PROVE Owner[k] = p
  <2>1. dir[k].by = p /\ k \notin left
    BY <1>0, <1>2 DEF Exclusive, Apart
  <2>2. Exists(k)
    BY <2>1, NoOneAssumption DEF Exists, Absent
  <2> QED
    BY <2>1, <2>2, OwnerOf
<1> QED
  BY <1>1, <1>2

\* A process that still lacks a file owns fewer than three.
LEMMA RoomForOneMore ==
  ASSUME TypeOK, Exclusive, Tracked, Apart, NEW p \in Proc,
         NEW r \in Role, held[p][r] = 0
  PROVE  Cardinality(Slots!Owned(p)) < 3
<1> DEFINE Own == Slots!Owned(p)
           f == [k \in Own |-> CHOOSE s \in Role : held[p][s] = k]
<1>1. \A k \in Own : k \in Slot /\ Owner[k] = p /\ k # 0
  BY MaxAssumption DEF Slots!Owned, Slot
<1>2. \A k \in Own : \E s \in Role : held[p][s] = k
  BY <1>1, OwnedIsHeld
<1>3. \A k \in Own : f[k] \in Role /\ held[p][f[k]] = k
  BY <1>2
<1>4. \A k \in Own : f[k] \in Role \ {r} /\ held[p][f[k]] = k
  BY <1>1, <1>3
<1>5. IsFiniteSet(Role \ {r}) /\ Cardinality(Role \ {r}) = 2
  BY ThreeRoles, FS_RemoveElement
<1>6. f \in [Own -> Role \ {r}]
  BY <1>4
<1>7. \A k, l \in Own : f[k] = f[l] => k = l
  BY <1>4
<1> HIDE DEF f, Own
<1>8. f \in Injection(Own, Role \ {r})
  BY <1>6, <1>7 DEF Injection, IsInjective, f
<1>9. IsFiniteSet(Own) /\ Cardinality(Own) <= 2
  BY <1>5, <1>8, FS_Injection
<1>10. Cardinality(Own) \in Nat
  BY <1>9, FS_CardinalityType
<1> QED
  BY <1>9, <1>10 DEF Own

LEMMA OwnersStep ==
  ASSUME TypeOK, PlaceInv, Exclusive, Tracked, Apart, [Next]_vars
  PROVE  [Slots!Next]_Owner
<1>0. Owner = [k \in Slot |-> Owner[k]]
  BY DEF Owner
<1>a. \A k \in Slot : Owner'[k] = IF dir'[k] = Absent THEN Free
                                  ELSE IF k \in left' THEN Abandoned ELSE dir'[k].by
  BY DEF Owner, Exists
<1>b. Owner' = [k \in Slot |-> Owner'[k]]
  BY DEF Owner
<1>c. \A k \in Slot : Owner[k] = IF dir[k] = Absent THEN Free
                                 ELSE IF k \in left THEN Abandoned ELSE dir[k].by
  BY DEF Owner, Exists
<1>1. ASSUME \A k \in Slot : Owner'[k] = Owner[k] PROVE UNCHANGED Owner
  BY <1>0, <1>1, <1>b
<1>2. CASE Keep
  BY <1>1, <1>2, <1>a, <1>c DEF Keep
<1>3. ASSUME NEW p \in Proc, FileStep(p) PROVE [Slots!Next]_Owner
  <2>1. ASSUME NEW r \in Role, NEW data \in Data, Rewrite(p, r, data)
        PROVE  UNCHANGED Owner
    <3> DEFINE k == held[p][r]
    <3>1. k \in Slot /\ dir[k].by = p
      BY <2>1 DEF Rewrite, TypeOK, Exclusive
    <3>2. dir[k] # Absent /\ dir'[k] # Absent /\ dir'[k].by = p /\ left' = left
      BY <2>1, <3>1, NoOneAssumption DEF Rewrite, Write, TypeOK, Exists, Absent
    <3>3. \A l \in Slot : l # k => dir'[l] = dir[l]
      BY <2>1 DEF Rewrite, Write, TypeOK
    <3> HIDE DEF k
    <3> QED
      BY <1>1, <1>a, <1>c, <3>1, <3>2, <3>3
  <2>2. ASSUME NEW r \in Role, NEW k \in Slot, Create(p, r, k)
        PROVE  Slots!Take(p, k)
    <3>1. Owner[k] = Free
      BY <2>2, OwnerOf DEF Create
    <3>2. Cardinality(Slots!Owned(p)) < 3
      BY <2>2, RoomForOneMore DEF Create
    <3>3. k \notin left
      BY <2>2 DEF Create, Tracked
    <3>4. dir'[k] # Absent /\ dir'[k].by = p /\ left' = left
      BY <2>2, NoOneAssumption DEF Create, Write, TypeOK, Exists, Absent
    <3>5. \A l \in Slot : l # k => dir'[l] = dir[l]
      BY <2>2 DEF Create, Write, TypeOK
    <3>6. \A l \in Slot : Owner'[l] = IF l = k THEN p ELSE Owner[l]
      BY <1>a, <1>c, <3>3, <3>4, <3>5
    <3>7. Owner' = [Owner EXCEPT ![k] = p]
      BY <1>0, <1>b, <3>6
    <3> QED
      BY <3>1, <3>2, <3>7 DEF Slots!Take, Slots!Cardinality, Cardinality
  <2>3. ASSUME NEW r \in Role, Drop(p, r)
        PROVE  held[p][r] \in Slot /\ Slots!Release(p, held[p][r])
    <3>1. held[p][r] \in Slot
      BY <2>3 DEF Drop, TypeOK
    <3>2. Owner[held[p][r]] = p
      BY <3>1, OwnedIsHeld
    <3>3. dir'[held[p][r]] = Absent /\ left' = left
      BY <2>3, <3>1 DEF Drop, TypeOK
    <3>4. \A l \in Slot : l # held[p][r] => dir'[l] = dir[l]
      BY <2>3 DEF Drop, TypeOK
    <3>5. \A l \in Slot : Owner'[l] = IF l = held[p][r] THEN Free ELSE Owner[l]
      BY <1>a, <1>c, <3>3, <3>4
    <3>6. Owner' = [Owner EXCEPT ![held[p][r]] = Free]
      BY <1>0, <1>b, <3>1, <3>5
    <3> QED
      BY <3>1, <3>2, <3>6 DEF Slots!Release
  <2>4. ASSUME Leave(p) PROVE Slots!Abandon(p)
    <3>1. dir' = dir
      BY <2>4 DEF Leave
    <3>2. \A k \in Slot : k \in left' <=> k \in left \/ \E r \in Role : held[p][r] = k
      BY <2>4, MaxAssumption DEF Leave, HeldBy, Slot
    <3>3. \A k \in Slot : k \in left' <=> k \in left \/ Owner[k] = p
      BY <3>2, OwnedIsHeld
    <3>4. \A k \in Slot : Owner[k] = p => dir[k] # Absent
      BY <1>c, SentinelsAssumption
    <3>5. \A k \in Slot : Owner'[k] = IF Owner[k] = p THEN Abandoned ELSE Owner[k]
      BY <1>a, <1>c, <3>1, <3>3, <3>4
    <3>6. Owner' = [k \in Slot |-> IF Owner[k] = p THEN Abandoned ELSE Owner[k]]
      BY <1>b, <3>5
    <3> QED
      BY <3>6 DEF Slots!Abandon
  <2> QED
    BY <1>2, <1>3, <2>1, <2>2, <2>3, <2>4 DEF FileStep, Slots!Next
<1> QED
  BY <1>2, <1>3, NextFiles

-----------------------------------------------------------------------------
(***************************************************************************)
(* The theorems.                                                           *)
(***************************************************************************)

IndInv == TypeOK /\ PlaceInv /\ Exclusive /\ Tracked /\ Apart

LEMMA Inductive == Spec => []IndInv
<1>1. Init => IndInv
  <2> SUFFICES ASSUME Init PROVE IndInv
    OBVIOUS
  <2>1. TypeOK
    BY MaxAssumption
       DEF Init, TypeOK, NoFiles, Absent, Slot, Role, Data
  <2>2. PlaceInv
    BY DEF Init, PlaceInv, Place, Holds, NoFiles
  <2>3. Exclusive /\ Apart
    BY DEF Init, Exclusive, Apart, NoFiles
  <2>4. Tracked
    BY MaxAssumption DEF Init, Tracked, Exists, Slot, NoFiles
  <2> QED
    BY <2>1, <2>2, <2>3, <2>4 DEF IndInv
<1>2. IndInv /\ [Next]_vars => IndInv'
  BY TypeStep, PlaceStep, ExclusiveStep, TrackedStep DEF IndInv
<1> QED
  BY <1>1, <1>2, PTL DEF Spec

\* The state is always well formed; in particular unique_file never opens a
\* number past max_num_files.
THEOREM TypeCorrect == Spec => []TypeOK
<1>1. IndInv => TypeOK
  BY DEF IndInv
<1> QED
  BY <1>1, Inductive, PTL

\* At every place of a test the process holds the files that place needs.
THEOREM PlaceCorrect == Spec => []PlaceInv
<1>1. IndInv => PlaceInv
  BY DEF IndInv
<1> QED
  BY <1>1, Inductive, PTL

\* However many processes share out/, no file is held by two of them, or twice
\* by one, and nobody else's file is ever held: O_CREAT|O_EXCL is enough.
THEOREM MutualExclusion == Spec => []Exclusive
<1>1. IndInv => Exclusive
  BY DEF IndInv
<1> QED
  BY <1>1, Inductive, PTL

\* A running process loses track of no file: what is in out/ is held or was left
\* by an exit.
THEOREM NothingLost == Spec => []Accounted
<1>1. IndInv => Accounted
  BY AccountedPointwise DEF IndInv
<1> QED
  BY <1>1, Inductive, PTL

\* The os.unlink calls of cleanup raise nothing, whatever the other processes do.
THEOREM CleanupSafe == Spec => []CleanupFindsFile
<1>1. IndInv => CleanupFindsFile
  BY HeldExist DEF IndInv
<1> QED
  BY <1>1, Inductive, PTL

\* Whatever the other processes do meanwhile, the counters are given complete files:
\* the formula, its copy, and Arjun's output if Arjun answered in time.
THEOREM CompleteFiles == Spec => []FilesReady
<1>1. Init => WrittenInv
  BY DEF Init, WrittenInv, Written
<1>2. IndInv /\ WrittenInv /\ [Next]_vars => WrittenInv'
  BY WrittenStep DEF IndInv
<1>3. IndInv /\ WrittenInv => FilesReady
  BY DEF IndInv, WrittenInv, Written, FilesReady
<1> QED
  BY <1>1, <1>2, <1>3, Inductive, PTL DEF Spec

\* Nobody writes or unlinks a file of somebody else.
THEOREM Untouched == Spec => ForeignFilesUntouched
<1> DEFINE Mine ==
      \A p \in Proc : Step(p) =>
          \A k \in Slot : dir'[k] # dir[k] =>
              IF Exists(k) THEN dir[k].by = p /\ k \notin left
                           ELSE dir'[k].by = p
<1>1. IndInv => Mine
  <2> SUFFICES ASSUME IndInv, NEW p \in Proc, Step(p), NEW k \in Slot, dir'[k] # dir[k]
               PROVE  IF Exists(k) THEN dir[k].by = p /\ k \notin left
                                   ELSE dir'[k].by = p
    OBVIOUS
  <2>1. FileStep(p)
    BY StepFiles DEF IndInv
  <2> QED
    BY <2>1, OwnFilesOnly DEF IndInv
<1>2. IndInv /\ [Next]_vars => [Mine]_vars
  BY <1>1
<1>3. [][Mine]_vars <=> ForeignFilesUntouched
  BY DEF ForeignFilesUntouched
<1> QED
  BY <1>2, <1>3, Inductive, PTL DEF Spec

\* The bound on the files and scans at and beyond a slot holds all the time.
LEMMA Bounded == Spec => []BoundInv
<1>1. Init => BoundInv
  <2> SUFFICES ASSUME Init, NEW m \in Slot PROVE BoundAt(m)
    BY DEF BoundInv
  <2>1. Files(m) = {} /\ Scans(m) = {} /\ left = {}
    BY DEF Init, Files, Scans, Exists
  <2>2. m \in Nat /\ m <= MaxNumFiles
    BY MaxAssumption DEF Slot
  <2> QED
    BY <2>1, FS_EmptySet DEF BoundAt
<1>2. IndInv /\ IndInv' /\ BoundInv /\ [Next]_vars => BoundInv'
  BY BoundStep DEF IndInv
<1> QED
  BY <1>1, <1>2, Inductive, PTL DEF Spec

\* However the scans of unique_file interleave, nobody gets past a slot that no file
\* stays at.
THEOREM ScansBounded == Spec => []ScanBound
<1>1. IndInv /\ BoundInv => ScanBound
  <2> SUFFICES ASSUME IndInv, BoundInv, NEW m \in Slot PROVE BoundAt(m)
    BY DEF ScanBound, BoundAt, Files, Scans
  <2> QED
    BY BoundAtFirst DEF IndInv, BoundInv
<1> QED
  BY <1>1, Inductive, Bounded, PTL

\* Only leftovers make the numbers run out, however many processes there are and
\* however their scans of the directory interleave.
THEOREM NumbersSuffice == Spec => FullOnlyByLeftovers
<1> DEFINE Full ==
      \A p \in Proc : status'[p] = "full" /\ status[p] # "full" =>
          Cardinality(left) + 3 * Cardinality(Proc) > MaxNumFiles
<1>1. IndInv /\ BoundInv /\ [Next]_vars => [Full]_vars
  BY FullOnlyByGivingUp, GivingUpNeedsLeftovers DEF IndInv
<1>2. [][Full]_vars <=> FullOnlyByLeftovers
  BY DEF FullOnlyByLeftovers
<1> QED
  BY <1>1, <1>2, Inductive, Bounded, PTL DEF Spec

\* Seen through who owns which file, out/ is a pool of slots that hands each one out
\* to one process at a time, three to a process at most.
THEOREM Implements == Spec => OwnsSlots
<1>1. Init => Slots!Init
  BY DEF Init, Slots!Init, Owner, Exists
<1>2. IndInv /\ [Next]_vars => [Slots!Next]_Owner
  BY OwnersStep DEF IndInv
<1> QED
  BY <1>1, <1>2, Inductive, PTL DEF Spec, OwnsSlots, Slots!Spec

=============================================================================
