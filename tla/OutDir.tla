------------------------------- MODULE OutDir -------------------------------
(***************************************************************************)
(* The life of the files of out/ under several fuzz.py processes.          *)
(*                                                                         *)
(* fuzz_session_ganak.sh starts up to 24 fuzz.py processes in the same     *)
(* directory.  They share out/ and nothing else, and they share it without *)
(* a lock: a process claims a file by creating out/fuzzTest_<k>.cnf with   *)
(* O_CREAT|O_EXCL for the first k that is free (unique_file), keeps up to  *)
(* three files for the length of a test (the formula, Arjun's output and   *)
(* the plain copy), and unlinks them when the test ends well (cleanup).    *)
(* Every other end of a process, an error exit, the exit after a --seed    *)
(* test or a signal, leaves its files behind.                              *)
(*                                                                         *)
(* Slot k stands for the path out/fuzzTest_<k>.cnf.                        *)
(***************************************************************************)
EXTENDS Integers, FiniteSets

CONSTANTS
    Proc,         \* the fuzz.py processes, one per tmux window
    Seeded,       \* those started with --seed
    MaxNumFiles,  \* the parameter max_num_files of unique_file
    NoOne         \* author of a file that does not exist

ASSUME ProcAssumption == IsFiniteSet(Proc)
ASSUME SeededAssumption == Seeded \subseteq Proc
ASSUME MaxAssumption == MaxNumFiles \in Nat \ {0}
ASSUME NoOneAssumption == NoOne \notin Proc

VARIABLES
    dir,      \* the directory: slot -> author and contents of the file
    pc,       \* where each process is
    role,     \* the file it is claiming or unlinking
    counter,  \* the local counter of unique_file
    held,     \* the paths in the fields of the FuzzTest t, 0 for none
    status,   \* how an exited process ended
    left      \* history: the slots abandoned by processes that exited

vars == <<dir, pc, role, counter, held, status, left>>

Slot == 1..MaxNumFiles

\* t.cnf_path, and the paths t.simplified pairs with Arjun and with no preproc.
Role == {"cnf", "arjun", "plain"}

Data == {"none", "empty", "formula", "simplified"}

Absent == [by |-> NoOne, data |-> "none"]

Exists(k) == dir[k] # Absent

NoFiles == [r \in Role |-> 0]

HeldBy(p) == {held[p][r] : r \in Role} \ {0}

Init ==
    /\ dir = [k \in Slot |-> Absent]
    /\ pc = [p \in Proc |-> "loop"]
    /\ role = [p \in Proc |-> "cnf"]
    /\ counter = [p \in Proc |-> 1]
    /\ held = [p \in Proc |-> NoFiles]
    /\ status = [p \in Proc |-> "running"]
    /\ left = {}

-----------------------------------------------------------------------------
(***************************************************************************)
(* Steps several operations share.                                         *)
(***************************************************************************)

Goto(p, label) == pc' = [pc EXCEPT ![p] = label]

\* Mutant: the counter is kept from one call of unique_file to the next.
StartClaimWhereLeftOff(p, r) ==
    /\ Goto(p, "claim")
    /\ role' = [role EXCEPT ![p] = r]
    /\ UNCHANGED counter

\* unique_file is entered: its counter starts again from 1.
StartClaim(p, r) ==
    /\ Goto(p, "claim")
    /\ role' = [role EXCEPT ![p] = r]
    /\ counter' = [counter EXCEPT ![p] = 1]

\* sys.exit, or an uncaught exception: nobody unlinks the files of t.
Exit(p, how) ==
    /\ Goto(p, "exited")
    /\ status' = [status EXCEPT ![p] = how]
    /\ left' = left \union HeldBy(p)
    /\ held' = [held EXCEPT ![p] = NoFiles]

Write(p, k, data) == dir' = [dir EXCEPT ![k] = [by |-> p, data |-> data]]

-----------------------------------------------------------------------------
(***************************************************************************)
(* The operations of fuzz.py.                                              *)
(***************************************************************************)

\* The main loop starts a test, whose first act is to claim the formula's file.
Begin(p) ==
    /\ pc[p] = "loop"
    /\ StartClaim(p, "cnf")
    /\ UNCHANGED <<dir, held, status, left>>

\* The --only tests are done.
Finish(p) ==
    /\ pc[p] = "loop"
    /\ Exit(p, "finished")
    /\ UNCHANGED <<dir, role, counter>>

\* Mutant: the file is opened without O_EXCL.
ClaimHitNotExclusive(p) ==
    /\ pc[p] = "claim"
    /\ Write(p, counter[p], "empty")
    /\ held' = [held EXCEPT ![p][role[p]] = counter[p]]
    /\ Goto(p, CASE role[p] = "cnf" -> "generate"
                 [] role[p] = "arjun" -> "preproc"
                 [] role[p] = "plain" -> "copy")
    /\ UNCHANGED <<role, counter, status, left>>

\* os.open(path, O_CREAT | O_EXCL) succeeds: the test now owns an empty file.
ClaimHit(p) ==
    /\ pc[p] = "claim"
    /\ ~Exists(counter[p])
    /\ Write(p, counter[p], "empty")
    /\ held' = [held EXCEPT ![p][role[p]] = counter[p]]
    /\ Goto(p, CASE role[p] = "cnf" -> "generate"
                 [] role[p] = "arjun" -> "preproc"
                 [] role[p] = "plain" -> "copy")
    /\ UNCHANGED <<role, counter, status, left>>

\* Mutant: max_num_files is not looked at.
ClaimMissUnbounded(p) ==
    /\ pc[p] = "claim"
    /\ Exists(counter[p])
    /\ counter' = [counter EXCEPT ![p] = @ + 1]
    /\ UNCHANGED <<dir, pc, role, held, status, left>>

\* It fails with OSError, which is swallowed, and the next number is tried.
ClaimMiss(p) ==
    /\ pc[p] = "claim"
    /\ Exists(counter[p])
    /\ counter[p] + 1 <= MaxNumFiles
    /\ counter' = [counter EXCEPT ![p] = @ + 1]
    /\ UNCHANGED <<dir, pc, role, held, status, left>>

\* Mutant: the search starts again at 1 when the numbers run out.
GiveUpNever(p) ==
    /\ pc[p] = "claim"
    /\ Exists(counter[p])
    /\ counter[p] + 1 > MaxNumFiles
    /\ counter' = [counter EXCEPT ![p] = 1]
    /\ UNCHANGED <<dir, pc, role, held, status, left>>

\* The numbers ran out: "Cannot create unique_file".
GiveUp(p) ==
    /\ pc[p] = "claim"
    /\ Exists(counter[p])
    /\ counter[p] + 1 > MaxNumFiles
    /\ Exit(p, "full")
    /\ UNCHANGED <<dir, role, counter>>

\* The generator, then the show, no-touch and weight lines, fill the file.
Generate(p) ==
    /\ pc[p] = "generate"
    /\ Write(p, held[p]["cnf"], "formula")
    /\ StartClaim(p, "arjun")
    /\ UNCHANGED <<held, status, left>>

\* The generator failed, or the file has no "p cnf" line.
GenerateFail(p) ==
    /\ pc[p] = "generate"
    /\ Exit(p, "error")
    /\ UNCHANGED <<dir, role, counter>>

\* Mutant: Arjun is given the formula's path as its output as well.
PreprocOkInPlace(p) ==
    /\ pc[p] = "preproc"
    /\ Write(p, held[p]["cnf"], "simplified")
    /\ StartClaim(p, "plain")
    /\ UNCHANGED <<held, status, left>>

\* Arjun answered in time and its output passed the checks.
PreprocOk(p) ==
    /\ pc[p] = "preproc"
    /\ Write(p, held[p]["arjun"], "simplified")
    /\ StartClaim(p, "plain")
    /\ UNCHANGED <<held, status, left>>

\* Mutant: the unlinked path is added to t.simplified all the same.
PreprocSlowKeepsPath(p) ==
    /\ pc[p] = "preproc"
    /\ dir' = [dir EXCEPT ![held[p]["arjun"]] = Absent]
    /\ StartClaim(p, "plain")
    /\ UNCHANGED <<held, status, left>>

\* Mutant: the output is neither added nor unlinked.
PreprocSlowLeaks(p) ==
    /\ pc[p] = "preproc"
    /\ held' = [held EXCEPT ![p]["arjun"] = 0]
    /\ StartClaim(p, "plain")
    /\ UNCHANGED <<dir, status, left>>

\* Arjun took too long: its output is unlinked and not added to t.simplified.
PreprocSlow(p) ==
    /\ pc[p] = "preproc"
    /\ dir' = [dir EXCEPT ![held[p]["arjun"]] = Absent]
    /\ held' = [held EXCEPT ![p]["arjun"] = 0]
    /\ StartClaim(p, "plain")
    /\ UNCHANGED <<status, left>>

\* Arjun crashed, or wrote a broken header, or lost the no-touch variables.
PreprocFail(p) ==
    /\ pc[p] = "preproc"
    /\ Exit(p, "error")
    /\ UNCHANGED <<dir, role, counter>>

\* The empty preprocessor: shutil.copyfile(t.cnf_path, simp_path).
CopyPlain(p) ==
    /\ pc[p] = "copy"
    /\ Write(p, held[p]["plain"], dir[held[p]["cnf"]].data)
    /\ Goto(p, "runs")
    /\ UNCHANGED <<role, counter, held, status, left>>

\* do_runs, and compare_counts when there is an exact count, found no error:
\* a --seed process exits here, any other one cleans up.
RunsEnd(p) ==
    /\ pc[p] = "runs"
    /\ IF p \in Seeded
       THEN /\ Exit(p, "seed")
            /\ UNCHANGED <<dir, role, counter>>
       ELSE /\ Goto(p, "cleanup")
            /\ role' = [role EXCEPT ![p] = "cnf"]
            /\ UNCHANGED <<dir, counter, held, status, left>>

\* A counter crashed, its output made no sense, or the counts disagree.
RunsFail(p) ==
    /\ pc[p] = "runs"
    /\ Exit(p, "error")
    /\ UNCHANGED <<dir, role, counter>>

\* cleanup unlinks t.cnf_path first, then the files of t.simplified in order.
AfterUnlink(p) ==
    CASE role[p] = "cnf" ->
            /\ Goto(p, "cleanup")
            /\ role' = [role EXCEPT ![p] = IF held[p]["arjun"] # 0
                                           THEN "arjun" ELSE "plain"]
      [] role[p] = "arjun" ->
            /\ Goto(p, "cleanup")
            /\ role' = [role EXCEPT ![p] = "plain"]
      [] role[p] = "plain" ->
            /\ Goto(p, "loop")
            /\ role' = [role EXCEPT ![p] = "cnf"]

\* os.unlink; a file that is not there would raise (CleanupFindsFile).
Unlink(p) ==
    /\ pc[p] = "cleanup"
    /\ Exists(held[p][role[p]])
    /\ dir' = [dir EXCEPT ![held[p][role[p]]] = Absent]
    /\ held' = [held EXCEPT ![p][role[p]] = 0]
    /\ AfterUnlink(p)
    /\ UNCHANGED <<counter, status, left>>

-----------------------------------------------------------------------------
(***************************************************************************)
(* What happens to a process from outside.                                 *)
(***************************************************************************)

\* SIGHUP or SIGTERM: _cleanup_and_exit kills the child and exits; it unlinks
\* nothing.
Signal(p) ==
    /\ pc[p] # "exited"
    /\ Exit(p, "signal")
    /\ UNCHANGED <<dir, role, counter>>

\* Somebody starts fuzz.py again in the window.
Restart(p) ==
    /\ pc[p] = "exited"
    /\ Goto(p, "loop")
    /\ status' = [status EXCEPT ![p] = "running"]
    /\ UNCHANGED <<dir, role, counter, held, left>>

Claim(p) == ClaimHit(p) \/ ClaimMiss(p) \/ GiveUp(p)

Preproc(p) == PreprocOk(p) \/ PreprocSlow(p) \/ PreprocFail(p)

\* What the program does of itself.
Step(p) ==
    \/ Begin(p) \/ Finish(p) \/ Claim(p)
    \/ Generate(p) \/ GenerateFail(p)
    \/ Preproc(p) \/ CopyPlain(p)
    \/ RunsEnd(p) \/ RunsFail(p)
    \/ Unlink(p)

Next == \E p \in Proc : Step(p) \/ Signal(p) \/ Restart(p)

Spec == Init /\ [][Next]_vars

\* A process keeps running: every child it waits for has a timeout, or ends by
\* itself (the generators).  Nothing makes a signal or a restart happen.
FairSpec == Spec /\ \A p \in Proc : WF_vars(Step(p))

-----------------------------------------------------------------------------
(***************************************************************************)
(* What the sharing of out/ must guarantee.                                *)
(***************************************************************************)

\* The states of a file, and of a process: no number outside the directory, no
\* file without an author (unique_file never opens a path past max_num_files).
TypeOK ==
    /\ dir \in [Slot -> [by : Proc \union {NoOne}, data : Data]]
    /\ pc \in [Proc -> {"loop", "claim", "generate", "preproc", "copy", "runs",
                        "cleanup", "exited"}]
    /\ role \in [Proc -> Role]
    /\ counter \in [Proc -> Slot]
    /\ held \in [Proc -> [Role -> Slot \union {0}]]
    /\ status \in [Proc -> {"running", "finished", "full", "error", "seed",
                            "signal"}]
    /\ left \subseteq Slot

\* A path a test holds names a file that exists, that its own process wrote, and
\* that no other process, and no other field of the same test, holds: what
\* O_CREAT|O_EXCL in unique_file is there for.
Exclusive ==
    \A p, q \in Proc : \A r, s \in Role :
        held[p][r] # 0 =>
            /\ dir[held[p][r]].by = p
            /\ held[p][r] = held[q][s] => p = q /\ r = s

\* At every place of a test exactly the files it needs are held: what cleanup
\* unlinks is what the test claimed, and a test begins with nothing.
Holds(p, files) == \A r \in Role : held[p][r] # 0 <=> r \in files

Place(p) ==
    /\ pc[p] \in {"loop", "exited"} => Holds(p, {})
    /\ pc[p] = "claim" /\ role[p] = "cnf" => Holds(p, {})
    /\ pc[p] = "generate" => Holds(p, {"cnf"})
    /\ pc[p] = "claim" /\ role[p] = "arjun" => Holds(p, {"cnf"})
    /\ pc[p] = "preproc" => Holds(p, {"cnf", "arjun"})
    /\ pc[p] = "claim" /\ role[p] = "plain" =>
          Holds(p, {"cnf"}) \/ Holds(p, {"cnf", "arjun"})
    /\ pc[p] \in {"copy", "runs"} => Holds(p, {"cnf", "plain"}) \/ Holds(p, Role)
    /\ pc[p] = "cleanup" /\ role[p] = "cnf" =>
          Holds(p, {"cnf", "plain"}) \/ Holds(p, Role)
    /\ pc[p] = "cleanup" /\ role[p] = "arjun" => Holds(p, {"arjun", "plain"})
    /\ pc[p] = "cleanup" /\ role[p] = "plain" => Holds(p, {"plain"})

PlaceInv == \A p \in Proc : Place(p)

\* Every file of out/ either belongs to the test of a running process or was
\* left by one that exited: while a process runs it loses track of nothing it
\* created, even when the preprocessor is given up.
Accounted ==
    /\ {k \in Slot : Exists(k)} = (UNION {HeldBy(p) : p \in Proc}) \union left
    /\ \A p \in Proc : left \intersect HeldBy(p) = {}

\* cleanup never finds that one of its files is gone, which would end the process
\* with a traceback: the files of a test stay in place from unique_file to cleanup
\* whatever the other processes do, and none is unlinked twice.
CleanupFindsFile ==
    \A p \in Proc : pc[p] = "cleanup" => Exists(held[p][role[p]])

\* When the counters run, every file they are given is complete: the formula and
\* the plain copy hold the generated formula, and the third file, if Arjun
\* answered in time, its output.
FilesReady ==
    \A p \in Proc : pc[p] = "runs" =>
        /\ dir[held[p]["cnf"]] = [by |-> p, data |-> "formula"]
        /\ dir[held[p]["plain"]] = [by |-> p, data |-> "formula"]
        /\ held[p]["arjun"] # 0 =>
              dir[held[p]["arjun"]] = [by |-> p, data |-> "simplified"]

\* The scan of unique_file is not atomic: the slots it finds taken were taken at
\* different times.  Still nobody gets past slot m unless a file stays at m: if there
\* are files or scans at or beyond m at all, they are at most those there can be, less
\* m - 1.
ScanBound ==
    \A m \in Slot :
        LET beyond == Cardinality({k \in Slot : k >= m /\ Exists(k)})
                        + Cardinality({p \in Proc : pc[p] = "claim" /\ counter[p] >= m})
        IN beyond = 0 \/ beyond <= 3 * Cardinality(Proc) + Cardinality(left) - (m - 1)

\* "Cannot create unique_file" is the fault of the files others left behind: the
\* running processes alone, three files each, never use up the numbers, although
\* unique_file scans the directory without a lock.
FullOnlyByLeftovers ==
    [][\A p \in Proc : status'[p] = "full" /\ status[p] # "full" =>
          Cardinality(left) + 3 * Cardinality(Proc) > MaxNumFiles]_vars

\* A step of the processes changes or removes only a file that its process
\* created, and it creates only files that did not exist.
ForeignFilesUntouched ==
    [][\A p \in Proc : Step(p) =>
          \A k \in Slot : dir'[k] # dir[k] =>
              IF Exists(k) THEN dir[k].by = p /\ k \notin left
                           ELSE dir'[k].by = p]_vars

\* A process that starts a test gets to its end, or to an exit: the scan of
\* unique_file is bounded even when the other processes keep taking the slots it
\* is about to try.
TestEnds ==
    \A p \in Proc :
        pc[p] \notin {"loop", "exited"} ~> pc[p] \in {"loop", "exited"}

=============================================================================
