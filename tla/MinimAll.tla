------------------------------ MODULE MinimAll ------------------------------
(***************************************************************************)
(* minim_all.py: the option, weight and clause minimizers one after the    *)
(* other on one command with one CNF file, each result verified before the *)
(* next one.                                                               *)
(*                                                                         *)
(* The minimizers are what OptMinim, WeightMinim and DeltaDebug find them  *)
(* to be; here only what they leave behind matters.  The counter is        *)
(* external and deterministic: a command on a content has one outcome.     *)
(***************************************************************************)
EXTENDS Naturals, Sequences, SequencesExt

CONSTANTS
    Seconds,           \* how long a run may take
    MinimizerTimeout,  \* process.wait(timeout=600), in units of Tick
    MaxElapsed,        \* bound: how long a minimizer runs
    Intermediates      \* the suffixes "-<k>" of the files that minim_cnf.py saves on its way

ASSUME TimeAssumption ==
    /\ Seconds \subseteq Nat
    /\ MinimizerTimeout \in Nat /\ MaxElapsed \in Nat

ASSUME IntermediatesAssumption ==
    Intermediates \intersect {"_min_weights", "_min_clauses"} = {}

VARIABLES
    weighted,     \* has the original file weight lines?
    files,        \* the contents of the files that exist
    outcomes,     \* what is known of the counter
    result_type,  \* of the original command
    pc,
    current_cmd,
    cnf_file,
    elapsed,      \* since the current minimizer was started
    clean         \* the steps whose minimizer exited with code 0

vars == <<weighted, files, outcomes, result_type, pc, current_cmd, cnf_file, elapsed, clean>>

\* A file name is the sequence of suffixes that replace() put before ".cnf".  A
\* content is how it came to be: from the original file, in an earlier run, or by a
\* minimizer that died while it wrote it.  The backup, which nothing reads, is left out.
Original == <<>>
Names == {<<>>, <<"_min_weights">>, <<"_min_clauses">>, <<"_min_weights", "_min_clauses">>}
             \union {<<k>> : k \in Intermediates}
             \union {<<"_min_weights", k>> : k \in Intermediates}
Stale == <<"stale">>
Partial == <<"partial">>

\* The options are those of the original command or what minim_opts.py left.
Cmd(opts, file) == [opts |-> opts, file |-> file]

\* A count equals the original one, is within the 0.1% of minim_opts.py, or is
\* neither.
Outcomes ==
    [crash : BOOLEAN, count : {"same", "near", "other", "none"}, secs : Seconds]

Steps == {"opts", "weights", "clauses"}

Init ==
    /\ weighted \in BOOLEAN
    /\ \E old \in SUBSET (Names \ {Original}) :
          files = [name \in old \union {Original} |->
                      IF name = Original THEN Original ELSE Stale]
    /\ outcomes = <<>>
    /\ result_type = "none"
    /\ pc = "detect"
    /\ current_cmd = Cmd("original", Original)
    /\ cnf_file = Original
    /\ elapsed = 0
    /\ clean = {}

-----------------------------------------------------------------------------
(***************************************************************************)
(* Running commands.                                                       *)
(***************************************************************************)

\* What the counter does depends on the options and the content of the file.
Key(cmd, fs) == <<cmd.opts, fs[cmd.file]>>

Runs(cmd, fs, outcome) ==
    /\ outcome \in Outcomes
    /\ Key(cmd, fs) \in DOMAIN outcomes => outcome = outcomes[Key(cmd, fs)]
    /\ outcomes' = [key \in DOMAIN outcomes \union {Key(cmd, fs)} |->
                       IF key = Key(cmd, fs) THEN outcome ELSE outcomes[key]]

\* check_result_type: 20 seconds, and a crash before a count.
ResultType(outcome) ==
    IF outcome.secs > 20 THEN "timeout"
    ELSE IF outcome.crash THEN "crash"
    ELSE IF outcome.count # "none" THEN "count" ELSE "unknown"

\* verify_result_preserved: any crash, but the very count.
Preserved(outcome) ==
    /\ ResultType(outcome) = result_type
    /\ result_type = "count" => outcome.count = "same"

\* test_crash of minim_weights.py and minim_cnf.py: 10 seconds.
CrashesSoon(outcome) == outcome.crash /\ outcome.secs <= 10

Detect ==
    /\ pc = "detect"
    /\ \E outcome \in Outcomes :
          /\ outcome.count \in {"same", "none"}
          /\ Runs(current_cmd, files, outcome)
          /\ result_type' = ResultType(outcome)
    /\ pc' = IF result_type' \in {"crash", "count"} THEN "opts" ELSE "refused"
    /\ UNCHANGED <<weighted, files, current_cmd, cnf_file, elapsed, clean>>

\* run_minimizer_script reads the minimizer's output to its end before it waits
\* for the process with a timeout.
Tick ==
    /\ pc \in Steps
    /\ elapsed < MaxElapsed
    /\ elapsed' = elapsed + 1
    /\ UNCHANGED <<weighted, files, outcomes, result_type, pc, current_cmd, cnf_file, clean>>

GoTo(step) == pc' = step /\ elapsed' = 0

-----------------------------------------------------------------------------
(***************************************************************************)
(* The steps.                                                              *)
(***************************************************************************)

\* Mutant: the command of minim_opts.py is taken unseen.
OptionsStepUnverified ==
    /\ pc = "opts"
    /\ \E outcome \in Outcomes : Runs(Cmd("minimized", cnf_file), files, outcome)
    /\ current_cmd' = Cmd("minimized", cnf_file)
    /\ clean' = clean \union {"opts"}
    /\ GoTo("weights")
    /\ UNCHANGED <<weighted, files, result_type, cnf_file>>

\* minim_opts.py found another command.  It may have any outcome: a crash or a
\* count within two minutes or within 0.1%, a count before a crash, or one nobody
\* has seen, if tokens were lost on parsing.
OptionsStep ==
    /\ pc = "opts"
    /\ LET new_cmd == Cmd("minimized", cnf_file)
       IN \E outcome \in Outcomes :
             /\ Runs(new_cmd, files, outcome)
             /\ current_cmd' = IF Preserved(outcome) THEN new_cmd ELSE current_cmd
    /\ clean' = clean \union {"opts"}
    /\ GoTo("weights")
    /\ UNCHANGED <<weighted, files, result_type, cnf_file>>

\* It found none, or it failed.
OptionsUnchanged ==
    /\ pc = "opts"
    /\ \E ok \in BOOLEAN : clean' = IF ok THEN clean \union {"opts"} ELSE clean
    /\ GoTo("weights")
    /\ UNCHANGED <<weighted, files, outcomes, result_type, current_cmd, cnf_file>>

NoWeights ==
    /\ pc = "weights"
    /\ ~weighted
    /\ GoTo("clauses")
    /\ UNCHANGED <<weighted, files, outcomes, result_type, current_cmd, cnf_file, clean>>

\* Mutant: an output file that exists is left as it is.
WrittenOnce(suffixes) ==
    LET new_files == {Append(cnf_file, suffix) : suffix \in suffixes}
    IN [name \in DOMAIN files \union new_files |->
           IF name \in new_files \ DOMAIN files
           THEN Append(files[cnf_file], Last(name)) ELSE files[name]]

\* What a minimizer writes replaces the files of an earlier run.
Written(suffixes) ==
    LET new_files == {Append(cnf_file, suffix) : suffix \in suffixes}
    IN [name \in DOMAIN files \union new_files |->
           IF name \in new_files THEN Append(files[cnf_file], Last(name)) ELSE files[name]]

\* Mutant: it is not removed.
RemovedNot(fs, new_file) == fs

\* The file of a rejected result is removed.
Removed(fs, new_file) == [name \in DOMAIN fs \ {new_file} |-> fs[name]]

\* minim_weights.py or minim_cnf.py saw a crash and exits with 0.  It has written its
\* file, which takes the place of the old one in the command or is removed, and on the
\* way those that it saves, which stay.
MinimizerRuns(suffix, saved, next) ==
    /\ CrashesSoon(outcomes[Key(current_cmd, files)])
    /\ LET written == Written(saved \union {suffix})
           new_file == Append(cnf_file, suffix)
           new_cmd == Cmd(current_cmd.opts, new_file)
       IN \E outcome \in Outcomes :
             /\ Runs(new_cmd, written, outcome)
             /\ IF Preserved(outcome)
                THEN /\ files' = written
                     /\ current_cmd' = new_cmd
                     /\ cnf_file' = new_file
                ELSE /\ files' = Removed(written, new_file)
                     /\ UNCHANGED <<current_cmd, cnf_file>>
    /\ clean' = clean \union {pc}
    /\ GoTo(next)
    /\ UNCHANGED <<weighted, result_type>>

\* It did not see a crash, and exits with code 1.
MinimizerRefuses(next) ==
    /\ ~CrashesSoon(outcomes[Key(current_cmd, files)])
    /\ GoTo(next)
    /\ UNCHANGED <<weighted, files, outcomes, result_type, current_cmd, cnf_file, clean>>

\* It saw one, and fails or is killed before the last file it comes to, in the middle
\* of it, or after it: whatever there is stays and is not used.
MinimizerDies(suffix, saved, next) ==
    /\ CrashesSoon(outcomes[Key(current_cmd, files)])
    /\ \E last \in saved \union {suffix} :
          LET written == Written(saved \union {last})
          IN files' \in {Written(saved \ {last}), written,
                         [written EXCEPT ![Append(cnf_file, last)] = Partial]}
    /\ GoTo(next)
    /\ UNCHANGED <<weighted, outcomes, result_type, current_cmd, cnf_file, clean>>

WeightsStep == pc = "weights" /\ weighted /\ MinimizerRuns("_min_weights", {}, "clauses")

WeightsRefused == pc = "weights" /\ weighted /\ MinimizerRefuses("clauses")

WeightsDies == pc = "weights" /\ weighted /\ MinimizerDies("_min_weights", {}, "clauses")

ClausesStep ==
    /\ pc = "clauses"
    /\ \E saved \in SUBSET Intermediates : MinimizerRuns("_min_clauses", saved, "final")

ClausesRefused == pc = "clauses" /\ MinimizerRefuses("final")

ClausesDies ==
    /\ pc = "clauses"
    /\ \E saved \in SUBSET Intermediates : MinimizerDies("_min_clauses", saved, "final")

Finish ==
    /\ pc = "final"
    /\ \E outcome \in Outcomes :
          /\ Runs(current_cmd, files, outcome)
          /\ pc' = IF Preserved(outcome) THEN "success" ELSE "failure"
    /\ UNCHANGED <<weighted, files, result_type, current_cmd, cnf_file, elapsed, clean>>

Done == pc \in {"success", "failure", "refused"} /\ UNCHANGED vars

Next ==
    \/ Detect \/ Tick
    \/ OptionsStep \/ OptionsUnchanged
    \/ NoWeights \/ WeightsStep \/ WeightsRefused \/ WeightsDies
    \/ ClausesStep \/ ClausesRefused \/ ClausesDies
    \/ Finish \/ Done

Spec == Init /\ [][Next]_vars

-----------------------------------------------------------------------------
(***************************************************************************)
(* Properties.                                                             *)
(***************************************************************************)

\* The final verification does not fail ("This should not happen"), although the
\* scripts disagree about how long a run may take, and about what is the same
\* count.
FinalHolds == pc # "failure"

\* The command runs on a file that is there and that was made from the original
\* one, never on what an earlier run left behind; the original is as it was.
FromOriginal ==
    /\ current_cmd.file = cnf_file
    /\ {Original, cnf_file} \subseteq DOMAIN files
    /\ files[Original] = Original
    /\ files[cnf_file] = cnf_file

\* No rejected file stays: one that was made in this run and that the command was
\* never about was saved by minim_cnf.py on its way, or it is what a minimizer that did
\* not exit with 0 has left of its output.
RejectedRemoved ==
    \A name \in DOMAIN files :
        \/ files[name] = Stale
        \/ IsPrefix(name, cnf_file)
        \/ Last(name) \in Intermediates /\ pc \notin Steps
        \/ Last(name) = "_min_weights" /\ pc \notin {"opts", "weights"} /\ "weights" \notin clean
        \/ Last(name) = "_min_clauses" /\ pc \notin Steps /\ "clauses" \notin clean

-----------------------------------------------------------------------------
(***************************************************************************)
(* What the documentation says and the code does not do.                   *)
(***************************************************************************)

\* The comment of process.wait: "10 minute timeout".
TenMinutes == elapsed <= MinimizerTimeout

=============================================================================
