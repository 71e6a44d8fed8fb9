--------------------------- MODULE MinimAllProofs ---------------------------
(***************************************************************************)
(* The pipeline of minim_all.py ends with a command that has the original  *)
(* result, whatever the time limits are and however long anything takes,   *)
(* and leaves no output of a minimizer that was rejected.                  *)
(*                                                                         *)
(* Its first step, minim_opts.py or one of its two variants, is OptMinim:  *)
(* for commands of any length and any counter the current command always   *)
(* had the original result, each option that is left is needed, and the    *)
(* second pass moves none.  What a filter leaves of a command is proved    *)
(* from the ranks of the places it keeps.                                  *)
(***************************************************************************)
EXTENDS MinimAll, OptMinim, SequenceTheorems, FiniteSetTheorems, TLAPS

Suffix == {"_min_weights", "_min_clauses"} \union Intermediates

\* The counter, and what its outcome on the current command and file is known to be.
Known ==
    /\ pc \in Steps \union {"detect", "final", "success", "refused"}
    /\ pc \notin {"detect", "refused"} =>
          /\ Key(current_cmd, files) \in DOMAIN outcomes
          /\ Preserved(outcomes[Key(current_cmd, files)])

IndInv == cnf_file \in Seq(Suffix) /\ FromOriginal /\ Known

-----------------------------------------------------------------------------
(***************************************************************************)
(* Names, files and runs.                                                  *)
(***************************************************************************)

LEMMA NewName ==
  ASSUME NEW name \in Seq(Suffix), NEW suffix \in Suffix
  PROVE  /\ Append(name, suffix) \in Seq(Suffix)
         /\ Append(name, suffix) # name
         /\ Append(name, suffix) # Original
         /\ Last(Append(name, suffix)) = suffix
<1>1. /\ Append(name, suffix) \in Seq(Suffix)
      /\ Len(Append(name, suffix)) = Len(name) + 1
      /\ Append(name, suffix)[Len(name) + 1] = suffix
      /\ Len(name) \in Nat
  BY AppendProperties
<1>2. Len(Original) = 0
  BY DEF Original
<1> QED
  BY <1>1, <1>2 DEF Last

\* What a minimizer writes changes its own files only.
LEMMA WrittenFiles ==
  ASSUME IndInv, NEW suffixes \in SUBSET Suffix
  PROVE  /\ {Original, cnf_file} \subseteq DOMAIN Written(suffixes)
         /\ Written(suffixes)[Original] = Original
         /\ Written(suffixes)[cnf_file] = cnf_file
         /\ \A suffix \in suffixes :
               /\ Append(cnf_file, suffix) \in DOMAIN Written(suffixes)
               /\ Written(suffixes)[Append(cnf_file, suffix)] = Append(cnf_file, suffix)
         /\ \A name \in DOMAIN Written(suffixes) :
               \/ \E suffix \in suffixes : name = Append(cnf_file, suffix)
               \/ name \in DOMAIN files /\ Written(suffixes)[name] = files[name]
<1> DEFINE new_files == {Append(cnf_file, suffix) : suffix \in suffixes}
<1>1. /\ {Original, cnf_file} \subseteq DOMAIN files /\ cnf_file \in Seq(Suffix)
      /\ files[Original] = Original /\ files[cnf_file] = cnf_file
  BY DEF IndInv, FromOriginal
<1>2. Original \notin new_files /\ cnf_file \notin new_files
  BY <1>1, NewName
<1>3. \A suffix \in suffixes : Last(Append(cnf_file, suffix)) = suffix
  BY <1>1, NewName
<1>4. Written(suffixes) = [name \in DOMAIN files \union new_files |->
         IF name \in new_files THEN Append(files[cnf_file], Last(name)) ELSE files[name]]
  BY DEF Written
<1>5. \A suffix \in suffixes : Append(cnf_file, suffix) \in new_files
  OBVIOUS
<1>6. \A name \in new_files : \E suffix \in suffixes : name = Append(cnf_file, suffix)
  OBVIOUS
<1> HIDE DEF new_files
<1> QED
  BY <1>1, <1>2, <1>3, <1>4, <1>5, <1>6

\* A rejected file is removed, and no other.
LEMMA RemovedFiles ==
  ASSUME IndInv, NEW fs, {Original, cnf_file} \subseteq DOMAIN fs,
         fs[Original] = Original, fs[cnf_file] = cnf_file, NEW suffix \in Suffix
  PROVE  LET new_fs == Removed(fs, Append(cnf_file, suffix))
         IN /\ {Original, cnf_file} \subseteq DOMAIN new_fs
            /\ new_fs[Original] = Original /\ new_fs[cnf_file] = cnf_file
            /\ \A name \in DOMAIN new_fs :
                  /\ name \in DOMAIN fs /\ new_fs[name] = fs[name]
                  /\ name # Append(cnf_file, suffix)
BY NewName DEF IndInv, Removed

\* What a minimizer that dies leaves.
LEMMA LeftFiles ==
  ASSUME IndInv, NEW suffix \in Suffix, NEW saved \in SUBSET Intermediates, NEW next,
         MinimizerDies(suffix, saved, next)
  PROVE  /\ {Original, cnf_file} \subseteq DOMAIN files'
         /\ files'[Original] = Original /\ files'[cnf_file] = cnf_file
         /\ \A name \in DOMAIN files' :
               \/ \E ending \in saved \union {suffix} : name = Append(cnf_file, ending)
               \/ name \in DOMAIN files /\ files'[name] = files[name]
<1>1. PICK last \in saved \union {suffix} :
         files' \in {Written(saved \ {last}), Written(saved \union {last}),
                    [Written(saved \union {last}) EXCEPT ![Append(cnf_file, last)] = Partial]}
  BY DEF MinimizerDies
<1>2. saved \union {last} \in SUBSET Suffix /\ saved \ {last} \in SUBSET Suffix /\ last \in Suffix
  BY DEF Suffix
<1>3. CASE files' = Written(saved \ {last})
  BY <1>2, <1>3, WrittenFiles
<1>4. CASE files' = Written(saved \union {last})
  BY <1>2, <1>4, WrittenFiles
<1>5. CASE files' = [Written(saved \union {last}) EXCEPT ![Append(cnf_file, last)] = Partial]
  <2> DEFINE written == Written(saved \union {last})
             n == Append(cnf_file, last)
  <2>1. /\ {Original, cnf_file} \subseteq DOMAIN written
        /\ written[Original] = Original /\ written[cnf_file] = cnf_file
        /\ \A name \in DOMAIN written :
              \/ \E ending \in saved \union {last} : name = Append(cnf_file, ending)
              \/ name \in DOMAIN files /\ written[name] = files[name]
    BY <1>2, WrittenFiles
  <2>2. n # Original /\ n # cnf_file
    BY <1>2, NewName DEF IndInv
  <2>3. DOMAIN files' = DOMAIN written
        /\ \A name \in DOMAIN written : name # n => files'[name] = written[name]
    <3> HIDE DEF written, n
    <3>1. files' = [written EXCEPT ![n] = Partial]
      BY <1>5 DEF written, n
    <3>2. written = [name \in DOMAIN written |-> written[name]]
      BY DEF written, Written
    <3> QED
      BY <3>1, <3>2
  <2> QED
    BY <2>1, <2>2, <2>3
<1> QED
  BY <1>1, <1>3, <1>4, <1>5

\* A run is remembered and changes nothing that was known before.
LEMMA RunsRemembers ==
  ASSUME NEW command, NEW fs, NEW outcome, Runs(command, fs, outcome)
  PROVE  /\ Key(command, fs) \in DOMAIN outcomes'
         /\ outcomes'[Key(command, fs)] = outcome
         /\ \A key \in DOMAIN outcomes :
               key \in DOMAIN outcomes' /\ outcomes'[key] = outcomes[key]
<1> DEFINE n == Key(command, fs)
<1>1. /\ n \in DOMAIN outcomes => outcome = outcomes[n]
      /\ outcomes' = [key \in DOMAIN outcomes \union {n} |->
                         IF key = n THEN outcome ELSE outcomes[key]]
  BY DEF Runs
<1> HIDE DEF n
<1>2. /\ n \in DOMAIN outcomes'
      /\ outcomes'[n] = outcome
      /\ \A key \in DOMAIN outcomes :
            key \in DOMAIN outcomes' /\ outcomes'[key] = outcomes[key]
  BY <1>1
<1> QED
  BY <1>2 DEF n

-----------------------------------------------------------------------------
(***************************************************************************)
(* The invariant.                                                          *)
(***************************************************************************)

LEMMA InitInv == Init => IndInv
<1> SUFFICES ASSUME Init PROVE IndInv
  OBVIOUS
<1>1. Original \in Seq(Suffix)
  BY DEF Original
<1>2. Original \in DOMAIN files /\ files[Original] = Original
  BY DEF Init
<1> QED
  BY <1>1, <1>2 DEF Init, IndInv, FromOriginal, Known, Cmd

\* A minimizer was run.
LEMMA MinimizerInv ==
  ASSUME IndInv, pc \in Steps, NEW suffix \in Suffix, NEW saved \in SUBSET Intermediates,
         NEW next \in Steps \union {"final"},
         \/ MinimizerRuns(suffix, saved, next) \/ MinimizerRefuses(next)
         \/ MinimizerDies(suffix, saved, next)
  PROVE  IndInv'
<1>1. CASE MinimizerRefuses(next)
  BY <1>1 DEF MinimizerRefuses, GoTo, IndInv, FromOriginal, Known, Key, Preserved, Steps
<1>2. CASE MinimizerRuns(suffix, saved, next)
  <2> DEFINE written == Written(saved \union {suffix})
             new_file == Append(cnf_file, suffix)
             new_cmd == Cmd(current_cmd.opts, new_file)
  <2>1. PICK outcome \in Outcomes :
           /\ Runs(new_cmd, written, outcome)
           /\ IF Preserved(outcome)
              THEN /\ files' = written
                   /\ current_cmd' = new_cmd
                   /\ cnf_file' = new_file
              ELSE /\ files' = Removed(written, new_file)
                   /\ UNCHANGED <<current_cmd, cnf_file>>
    BY <1>2 DEF MinimizerRuns
  <2>2. pc' = next /\ result_type' = result_type
    BY <1>2 DEF MinimizerRuns, GoTo
  <2>3. /\ Key(new_cmd, written) \in DOMAIN outcomes'
        /\ outcomes'[Key(new_cmd, written)] = outcome
        /\ \A key \in DOMAIN outcomes :
              key \in DOMAIN outcomes' /\ outcomes'[key] = outcomes[key]
    BY <2>1, RunsRemembers
  <2>4. saved \union {suffix} \in SUBSET Suffix /\ suffix \in saved \union {suffix}
    BY DEF Suffix
  <2>5. /\ {Original, cnf_file, new_file} \subseteq DOMAIN written
        /\ written[Original] = Original /\ written[cnf_file] = cnf_file
        /\ written[new_file] = new_file
    BY <2>4, WrittenFiles
  <2> HIDE DEF written
  <2>6. CASE Preserved(outcome)
    <3>1. files' = written /\ current_cmd' = new_cmd /\ cnf_file' = new_file
      BY <2>1, <2>6
    <3>2. new_file \in Seq(Suffix)
      BY NewName DEF IndInv
    <3>3. FromOriginal'
      BY <2>5, <3>1 DEF FromOriginal, Cmd
    <3>4. Known'
      BY <2>2, <2>3, <2>6, <3>1 DEF Known, Preserved, Steps, Key
    <3> QED
      BY <3>1, <3>2, <3>3, <3>4 DEF IndInv
  <2>7. CASE ~Preserved(outcome)
    <3>1. files' = Removed(written, new_file) /\ current_cmd' = current_cmd /\ cnf_file' = cnf_file
      BY <2>1, <2>7
    <3>2. /\ {Original, cnf_file} \subseteq DOMAIN files'
          /\ files'[Original] = Original /\ files'[cnf_file] = cnf_file
      BY <2>5, <3>1, RemovedFiles
    <3>3. FromOriginal' /\ Key(current_cmd, files)' = Key(current_cmd, files)
      BY <3>1, <3>2 DEF FromOriginal, Key, IndInv
    <3>4. Key(current_cmd, files) \in DOMAIN outcomes
          /\ Preserved(outcomes[Key(current_cmd, files)])
      BY DEF IndInv, Known, Steps
    <3>5. Known'
      BY <2>2, <2>3, <3>3, <3>4 DEF Known, Preserved, Steps
    <3> QED
      BY <3>1, <3>3, <3>5 DEF IndInv
  <2> QED
    BY <2>6, <2>7
<1>3. CASE MinimizerDies(suffix, saved, next)
  <2>1. /\ pc' = next /\ UNCHANGED <<outcomes, result_type, current_cmd, cnf_file>>
    BY <1>3 DEF MinimizerDies, GoTo
  <2>2. /\ {Original, cnf_file} \subseteq DOMAIN files'
        /\ files'[Original] = Original /\ files'[cnf_file] = cnf_file
    BY <1>3, LeftFiles
  <2>3. Key(current_cmd, files)' = Key(current_cmd, files)
    BY <2>1, <2>2 DEF Key, IndInv, FromOriginal
  <2>4. Known'
    BY <2>1, <2>3 DEF IndInv, Known, Preserved, Steps
  <2> QED
    BY <2>1, <2>2, <2>4 DEF IndInv, FromOriginal
<1> QED
  BY <1>1, <1>2, <1>3

LEMMA NextInv == IndInv /\ [Next]_vars => IndInv'
<1> SUFFICES ASSUME IndInv, [Next]_vars PROVE IndInv'
  OBVIOUS
<1>1. CASE Detect
  <2>1. PICK outcome \in Outcomes :
           /\ outcome.count \in {"same", "none"}
           /\ Runs(current_cmd, files, outcome)
           /\ result_type' = ResultType(outcome)
    BY <1>1 DEF Detect
  <2>2. /\ pc' = IF result_type' \in {"crash", "count"} THEN "opts" ELSE "refused"
        /\ UNCHANGED <<files, current_cmd, cnf_file>>
    BY <1>1 DEF Detect
  <2>3. Key(current_cmd, files) \in DOMAIN outcomes'
        /\ outcomes'[Key(current_cmd, files)] = outcome
    BY <2>1, RunsRemembers
  <2>4. pc' = "opts" => Preserved(outcome)'
    BY <2>1, <2>2 DEF Preserved, ResultType
  <2>5. Known'
    BY <2>2, <2>3, <2>4 DEF Known, Steps, Key, Preserved
  <2> QED
    BY <2>2, <2>5 DEF IndInv, FromOriginal
<1>2. CASE Tick
  BY <1>2 DEF Tick, IndInv, FromOriginal, Known, Key, Preserved
<1>3. CASE OptionsStep
  <2> DEFINE new_cmd == Cmd("minimized", cnf_file)
  <2>1. PICK outcome \in Outcomes :
           /\ Runs(new_cmd, files, outcome)
           /\ current_cmd' = IF Preserved(outcome) THEN new_cmd ELSE current_cmd
    BY <1>3 DEF OptionsStep
  <2>2. pc = "opts" /\ pc' = "weights" /\ UNCHANGED <<files, result_type, cnf_file>>
    BY <1>3 DEF OptionsStep, GoTo
  <2>3. /\ Key(new_cmd, files) \in DOMAIN outcomes'
        /\ outcomes'[Key(new_cmd, files)] = outcome
        /\ \A key \in DOMAIN outcomes :
              key \in DOMAIN outcomes' /\ outcomes'[key] = outcomes[key]
    BY <2>1, RunsRemembers
  <2>4. FromOriginal'
    BY <2>1, <2>2 DEF IndInv, FromOriginal, Cmd
  <2>5. Key(current_cmd, files) \in DOMAIN outcomes
        /\ Preserved(outcomes[Key(current_cmd, files)])
    BY <2>2 DEF IndInv, Known
  <2>6. Known'
    <3>1. CASE Preserved(outcome)
      BY <2>1, <2>2, <2>3, <3>1 DEF Known, Key, Preserved, Steps
    <3>2. CASE ~Preserved(outcome)
      BY <2>1, <2>2, <2>3, <2>5, <3>2 DEF Known, Key, Preserved, Steps
    <3> QED
      BY <3>1, <3>2
  <2> QED
    BY <2>2, <2>4, <2>6 DEF IndInv
<1>4. CASE OptionsUnchanged \/ NoWeights
  BY <1>4 DEF OptionsUnchanged, NoWeights, GoTo, IndInv, FromOriginal, Known, Key,
              Preserved, Steps
<1>5. CASE WeightsStep \/ WeightsRefused \/ WeightsDies
  <2>1. /\ pc \in Steps /\ "clauses" \in Steps \union {"final"} /\ "_min_weights" \in Suffix
        /\ {} \in SUBSET Intermediates
    BY <1>5 DEF WeightsStep, WeightsRefused, WeightsDies, Steps, Suffix
  <2>2. \/ MinimizerRuns("_min_weights", {}, "clauses") \/ MinimizerRefuses("clauses")
        \/ MinimizerDies("_min_weights", {}, "clauses")
    BY <1>5 DEF WeightsStep, WeightsRefused, WeightsDies
  <2> QED
    BY <2>1, <2>2, MinimizerInv
<1>6. CASE ClausesStep \/ ClausesRefused \/ ClausesDies
  <2>1. pc \in Steps /\ "final" \in Steps \union {"final"} /\ "_min_clauses" \in Suffix
    BY <1>6 DEF ClausesStep, ClausesRefused, ClausesDies, Steps, Suffix
  <2>2. PICK saved \in SUBSET Intermediates :
           \/ MinimizerRuns("_min_clauses", saved, "final") \/ MinimizerRefuses("final")
           \/ MinimizerDies("_min_clauses", saved, "final")
    BY <1>6 DEF ClausesStep, ClausesRefused, ClausesDies
  <2> QED
    BY <2>1, <2>2, MinimizerInv
<1>7. CASE Finish
  <2>1. PICK outcome \in Outcomes :
           /\ Runs(current_cmd, files, outcome)
           /\ pc' = IF Preserved(outcome) THEN "success" ELSE "failure"
    BY <1>7 DEF Finish
  <2>2. pc = "final" /\ UNCHANGED <<files, result_type, current_cmd, cnf_file>>
    BY <1>7 DEF Finish
  <2>3. Key(current_cmd, files) \in DOMAIN outcomes
        /\ Preserved(outcomes[Key(current_cmd, files)])
    BY <2>2 DEF IndInv, Known
  <2>4. outcome = outcomes[Key(current_cmd, files)]
    BY <2>1, <2>3 DEF Runs
  <2>5. Key(current_cmd, files) \in DOMAIN outcomes'
        /\ outcomes'[Key(current_cmd, files)] = outcome
    BY <2>1, RunsRemembers
  <2>6. Known'
    BY <2>1, <2>2, <2>3, <2>4, <2>5 DEF Known, Key, Preserved
  <2> QED
    BY <2>2, <2>6 DEF IndInv, FromOriginal
<1>8. CASE UNCHANGED vars
  BY <1>8 DEF vars, IndInv, FromOriginal, Known, Key, Preserved
<1> QED
  BY <1>1, <1>2, <1>3, <1>4, <1>5, <1>6, <1>7, <1>8 DEF Next, Done

LEMMA Invariance == Spec => []IndInv
  BY InitInv, NextInv, PTL DEF Spec

\* "This should not happen": the final verification of minim_all.py never fails,
\* although its minimizers have other time limits and another idea of when two
\* counts are the same than it has itself.
THEOREM FinalVerificationHolds == Spec => []FinalHolds
<1>1. IndInv => FinalHolds
  BY DEF IndInv, Known, FinalHolds, Steps
<1> QED
  BY <1>1, Invariance, PTL

\* The command is always about a file that was made from the original one, and the
\* original file is not touched, whatever earlier runs left behind.
THEOREM MadeFromOriginal == Spec => []FromOriginal
<1>1. IndInv => FromOriginal
  BY DEF IndInv
<1> QED
  BY <1>1, Invariance, PTL

-----------------------------------------------------------------------------
(***************************************************************************)
(* The files that stay.                                                    *)
(***************************************************************************)

\* A file that was made in this run is one the command has been about, or minim_cnf.py
\* saved it, or a minimizer that did not exit with 0 has left it.
Kept(name) ==
    \/ files[name] = Stale
    \/ IsPrefix(name, cnf_file)
    \/ Last(name) \in Intermediates /\ pc \in {"final", "success"}
    \/ /\ Last(name) = "_min_weights" /\ pc \in {"clauses", "final", "success"}
       /\ "weights" \notin clean
    \/ Last(name) = "_min_clauses" /\ pc \in {"final", "success"} /\ "clauses" \notin clean

FilesInv ==
    /\ \A name \in DOMAIN files : name \in Seq(Suffix) /\ Kept(name)
    /\ "weights" \in clean => pc \in {"clauses", "final", "success"}
    /\ "clauses" \in clean => pc \in {"final", "success"}

LEMMA SamePrefix ==
  ASSUME NEW list \in Seq(Suffix), NEW last \in Suffix, NEW n \in 0..Len(list)
  PROVE  SubSeq(Append(list, last), 1, n) = SubSeq(list, 1, n)
OBVIOUS

\* A name is a prefix of itself, and of every longer name made of it.
LEMMA PrefixGrows ==
  ASSUME NEW name \in Seq(Suffix), NEW old \in Seq(Suffix), NEW suffix \in Suffix
  PROVE  /\ IsPrefix(name, name)
         /\ IsPrefix(old, name) => IsPrefix(old, Append(name, suffix))
<1>1. Len(name) \in Nat /\ Len(old) \in Nat
  BY LenProperties
<1>2. Len(Append(name, suffix)) = Len(name) + 1
  BY AppendProperties
<1>3. IsPrefix(name, name)
  BY <1>1 DEF IsPrefix
<1>4. ASSUME IsPrefix(old, name) PROVE IsPrefix(old, Append(name, suffix))
  <2>1. Len(old) <= Len(name) /\ SubSeq(old, 1, Len(old)) = SubSeq(name, 1, Len(old))
    BY <1>4 DEF IsPrefix
  <2>2. Len(old) <= Len(name) + 1 /\ Len(old) \in 0..Len(name)
    BY <1>1, <2>1
  <2>3. SubSeq(Append(name, suffix), 1, Len(old)) = SubSeq(name, 1, Len(old))
    BY <2>2, SamePrefix
  <2> QED
    BY <1>2, <2>1, <2>2, <2>3 DEF IsPrefix
<1> QED
  BY <1>3, <1>4

\* What is known of the files while a minimizer runs.
LEMMA WhileRunning ==
  ASSUME FilesInv, pc \in Steps
  PROVE  /\ "clauses" \notin clean
         /\ pc # "clauses" => "weights" \notin clean
         /\ \A name \in DOMAIN files :
               /\ name \in Seq(Suffix)
               /\ \/ files[name] = Stale \/ IsPrefix(name, cnf_file)
                  \/ Last(name) = "_min_weights" /\ pc = "clauses" /\ "weights" \notin clean
BY DEF FilesInv, Kept, Steps

\* A file that was there stays what it was when the next step comes.
LEMMA OldFilesKept ==
  ASSUME IndInv, FilesInv, NEW suffix \in Suffix,
         \/ pc = "weights" /\ pc' = "clauses"
         \/ pc = "clauses" /\ pc' = "final",
         clean' \in {clean, clean \union {pc}}, cnf_file' \in {cnf_file, Append(cnf_file, suffix)}
  PROVE  /\ "weights" \in clean' => pc' \in {"clauses", "final", "success"}
         /\ "clauses" \in clean' => pc' \in {"final", "success"}
         /\ \A name \in DOMAIN files :
               name \in DOMAIN files' /\ files'[name] = files[name]
                  => name \in Seq(Suffix) /\ Kept(name)'
<1>1. pc \in Steps /\ cnf_file \in Seq(Suffix)
  BY DEF Steps, IndInv
<1>2. \A name \in Seq(Suffix) : IsPrefix(name, cnf_file) => IsPrefix(name, cnf_file')
  BY <1>1, PrefixGrows
<1>3. "weights" \notin clean /\ pc = "clauses" => "weights" \notin clean'
  OBVIOUS
<1>4. /\ "weights" \in clean' => pc' \in {"clauses", "final", "success"}
      /\ "clauses" \in clean' => pc' \in {"final", "success"}
  BY <1>1, WhileRunning
<1> QED
  BY <1>1, <1>2, <1>3, <1>4, WhileRunning DEF Kept

\* The result of a minimizer is verified and used, or removed, unless it dies.
LEMMA MinimizerFiles ==
  ASSUME IndInv, FilesInv, NEW suffix \in Suffix, NEW saved \in SUBSET Intermediates,
         NEW next,
         \/ pc = "weights" /\ next = "clauses" /\ suffix = "_min_weights" /\ saved = {}
         \/ pc = "clauses" /\ next = "final" /\ suffix = "_min_clauses",
         \/ MinimizerRuns(suffix, saved, next) \/ MinimizerRefuses(next)
         \/ MinimizerDies(suffix, saved, next)
  PROVE  FilesInv'
<1>1. /\ pc \in Steps /\ cnf_file \in Seq(Suffix) /\ pc' = next
      /\ clean' \in {clean, clean \union {pc}} /\ cnf_file' \in {cnf_file, Append(cnf_file, suffix)}
  BY DEF MinimizerRuns, MinimizerRefuses, MinimizerDies, GoTo, Steps, IndInv
<1>2. /\ "weights" \in clean' => pc' \in {"clauses", "final", "success"}
      /\ "clauses" \in clean' => pc' \in {"final", "success"}
      /\ \A name \in DOMAIN files :
            name \in DOMAIN files' /\ files'[name] = files[name]
               => name \in Seq(Suffix) /\ Kept(name)'
  BY <1>1, OldFilesKept
<1>3. saved \union {suffix} \in SUBSET Suffix
  BY DEF Suffix
<1>4. PICK base \in Seq(Suffix) : base = cnf_file
  BY <1>1
<1>5. PICK new_file \in Seq(Suffix) : new_file = Append(base, suffix) /\ Last(new_file) = suffix
  BY NewName
<1>6. \A ending \in saved \union {suffix} :
         Append(base, ending) \in Seq(Suffix) /\ Last(Append(base, ending)) = ending
  BY <1>3, NewName
<1>7. \A ending \in saved : Kept(Append(base, ending))'
  BY <1>1, <1>6 DEF Kept
<1>8. CASE MinimizerRefuses(next)
  <2>1. files' = files
    BY <1>8 DEF MinimizerRefuses
  <2> QED
    BY <1>2, <2>1 DEF FilesInv
<1>9. CASE MinimizerRuns(suffix, saved, next)
  <2>1. PICK written :
           /\ written = Written(saved \union {suffix})
           /\ \/ files' = written /\ cnf_file' = new_file
              \/ files' = Removed(written, new_file)
    BY <1>4, <1>5, <1>9 DEF MinimizerRuns
  <2>2. \A name \in DOMAIN written :
           \/ name = new_file
           \/ \E ending \in saved : name = Append(base, ending)
           \/ name \in DOMAIN files /\ written[name] = files[name]
    BY <1>3, <1>4, <1>5, <2>1, WrittenFiles
  <2>3. \A name \in DOMAIN files' : name \in DOMAIN written /\ files'[name] = written[name]
    BY <2>1 DEF Removed
  <2>4. new_file \in DOMAIN files' => Kept(new_file)'
    <3>1. CASE cnf_file' = new_file
      <4>1. IsPrefix(new_file, new_file)
        BY <1>5, PrefixGrows
      <4> QED
        BY <3>1, <4>1 DEF Kept
    <3>2. CASE files' = Removed(written, new_file)
      BY <3>2 DEF Removed
    <3> QED
      BY <2>1, <3>1, <3>2
  <2>5. ASSUME NEW name \in DOMAIN files' PROVE name \in Seq(Suffix) /\ Kept(name)'
    <3>1. CASE name = new_file
      BY <1>5, <2>4, <3>1
    <3>2. CASE \E ending \in saved : name = Append(base, ending)
      BY <1>6, <1>7, <3>2
    <3>3. CASE name \in DOMAIN files /\ written[name] = files[name]
      BY <1>2, <2>3, <3>3
    <3> QED
      BY <2>2, <2>3, <3>1, <3>2, <3>3
  <2> QED
    BY <1>2, <2>5 DEF FilesInv
<1>10. CASE MinimizerDies(suffix, saved, next)
  <2>1. \A name \in DOMAIN files' :
           \/ \E ending \in saved \union {suffix} : name = Append(base, ending)
           \/ name \in DOMAIN files /\ files'[name] = files[name]
    BY <1>4, <1>10, LeftFiles
  <2>2. clean' = clean
    BY <1>10 DEF MinimizerDies
  <2>3. Kept(new_file)'
    <3>1. pc = "weights" => "weights" \notin clean
      BY <1>1, WhileRunning
    <3>2. "clauses" \notin clean
      BY <1>1, WhileRunning
    <3> QED
      BY <1>1, <1>5, <2>2, <3>1, <3>2 DEF Kept
  <2>4. ASSUME NEW name \in DOMAIN files' PROVE name \in Seq(Suffix) /\ Kept(name)'
    <3>1. CASE \E ending \in saved \union {suffix} : name = Append(base, ending)
      BY <1>5, <1>6, <1>7, <2>3, <3>1
    <3>2. CASE name \in DOMAIN files /\ files'[name] = files[name]
      BY <1>2, <3>2
    <3> QED
      BY <2>1, <3>1, <3>2
  <2> QED
    BY <1>2, <2>4 DEF FilesInv
<1> QED
  BY <1>8, <1>9, <1>10

LEMMA InitFiles == Init => FilesInv
<1> SUFFICES ASSUME Init PROVE FilesInv
  OBVIOUS
<1>1. \A name \in Names : name \in Seq(Suffix)
  <2>1. "_min_weights" \in Suffix /\ "_min_clauses" \in Suffix /\ Intermediates \subseteq Suffix
    BY DEF Suffix
  <2> HIDE DEF Suffix
  <2>2. \A a, b \in Suffix : /\ <<>> \in Seq(Suffix) /\ <<a>> \in Seq(Suffix)
                           /\ <<a, b>> \in Seq(Suffix)
    OBVIOUS
  <2> QED
    BY <2>1, <2>2 DEF Names
<1>2. DOMAIN files \subseteq Names
  BY DEF Init, Original, Names
<1>3. \A name \in DOMAIN files : name = Original \/ files[name] = Stale
  BY DEF Init
<1>4. Original \in Seq(Suffix) /\ cnf_file = Original
  BY DEF Original, Init
<1>5. IsPrefix(Original, cnf_file)
  BY <1>4, PrefixGrows DEF Suffix
<1>6. clean = {}
  BY DEF Init
<1> QED
  BY <1>1, <1>2, <1>3, <1>5, <1>6 DEF FilesInv, Kept

LEMMA NextFiles == IndInv /\ FilesInv /\ [Next]_vars => FilesInv'
<1> SUFFICES ASSUME IndInv, FilesInv, [Next]_vars PROVE FilesInv'
  OBVIOUS
<1>1. CASE Detect \/ Tick
  <2>1. /\ files' = files /\ cnf_file' = cnf_file /\ clean' = clean
        /\ pc' = pc \/ pc = "detect"
    BY <1>1 DEF Detect, Tick
  <2> QED
    BY <2>1 DEF FilesInv, Kept
<1>2. CASE OptionsStep \/ OptionsUnchanged \/ NoWeights
  <2>1. /\ files' = files /\ cnf_file' = cnf_file
        /\ clean' \in {clean, clean \union {"opts"}}
        /\ pc \in Steps /\ pc \in {"opts", "weights"}
    BY <1>2 DEF OptionsStep, OptionsUnchanged, NoWeights, Steps
  <2>2. "clauses" \notin clean' /\ "weights" \notin clean'
    BY <2>1, WhileRunning
  <2> QED
    BY <2>1, <2>2, WhileRunning DEF FilesInv, Kept
<1>3. CASE WeightsStep \/ WeightsRefused \/ WeightsDies
  <2>1. pc = "weights" /\ "_min_weights" \in Suffix /\ {} \in SUBSET Intermediates
    BY <1>3 DEF WeightsStep, WeightsRefused, WeightsDies, Suffix
  <2>2. \/ MinimizerRuns("_min_weights", {}, "clauses") \/ MinimizerRefuses("clauses")
        \/ MinimizerDies("_min_weights", {}, "clauses")
    BY <1>3 DEF WeightsStep, WeightsRefused, WeightsDies
  <2> QED
    BY <2>1, <2>2, MinimizerFiles
<1>4. CASE ClausesStep \/ ClausesRefused \/ ClausesDies
  <2>1. pc = "clauses" /\ "_min_clauses" \in Suffix
    BY <1>4 DEF ClausesStep, ClausesRefused, ClausesDies, Suffix
  <2>2. PICK saved \in SUBSET Intermediates :
           \/ MinimizerRuns("_min_clauses", saved, "final") \/ MinimizerRefuses("final")
           \/ MinimizerDies("_min_clauses", saved, "final")
    BY <1>4 DEF ClausesStep, ClausesRefused, ClausesDies
  <2> QED
    BY <2>1, <2>2, MinimizerFiles
<1>5. CASE Finish
  <2>1. /\ files' = files /\ cnf_file' = cnf_file /\ clean' = clean /\ pc = "final"
        /\ pc' \in {"success", "failure"}
    BY <1>5 DEF Finish
  <2>2. pc' # "failure"
    BY NextInv DEF IndInv, Known, Steps
  <2> QED
    BY <2>1, <2>2 DEF FilesInv, Kept
<1>6. CASE UNCHANGED vars
  BY <1>6 DEF vars, FilesInv, Kept
<1> QED
  BY <1>1, <1>2, <1>3, <1>4, <1>5, <1>6 DEF Next, Done

\* Whatever the minimizers find, how long they take and what earlier runs have left, the
\* output of a minimizer that exits with 0 does not stay if it is rejected; what stays
\* unused is what minim_cnf.py saved on its way and what a minimizer that died has left.
THEOREM NoRejectedFile == Spec => []RejectedRemoved
<1>1. FilesInv => RejectedRemoved
  BY DEF FilesInv, Kept, RejectedRemoved, Steps
<1> QED
  BY <1>1, InitFiles, NextFiles, Invariance, PTL DEF Spec


-----------------------------------------------------------------------------
(***************************************************************************)
(* Places of a command and their ranks.                                    *)
(***************************************************************************)

\* f lists the m members of S in increasing order.
Lists(f, m, S) ==
    /\ m \in Nat
    /\ f \in [1..m -> S]
    /\ \A a, b \in 1..m : a < b => f[a] < f[b]
    /\ \A j \in S : \E a \in 1..m : f[a] = j

\* The members of S up to j: their number is the rank of j.
UpTo(S, j) == {l \in S : l <= j}

LEMMA PlacesFinite ==
  ASSUME NEW n \in Nat, NEW S \in SUBSET (1..n)
  PROVE  /\ S \subseteq Nat
         /\ IsFiniteSet(S)
         /\ Cardinality(S) \in Nat
<1>1. IsFiniteSet(1..n)
  BY FS_Interval
<1>2. IsFiniteSet(S)
  BY <1>1, FS_Subset
<1> QED
  BY <1>2, FS_CardinalityType

\* Different places have different ranks.
LEMMA RanksDiffer ==
  ASSUME NEW n \in Nat, NEW S \in SUBSET (1..n), NEW j \in S, NEW l \in S, j < l
  PROVE  Cardinality(UpTo(S, j)) < Cardinality(UpTo(S, l))
<1>1. S \subseteq Nat /\ IsFiniteSet(S)
  BY PlacesFinite
<1>2. UpTo(S, j) \in SUBSET UpTo(S, l) /\ UpTo(S, l) \in SUBSET S
  <2>1. ASSUME NEW a \in S, a <= j PROVE a <= l
    <3>1. a \in Nat /\ j \in Nat /\ l \in Nat
      BY <1>1
    <3> QED
      BY <2>1, <3>1
  <2> QED
    BY <2>1 DEF UpTo
<1>3. l \in UpTo(S, l) /\ l \notin UpTo(S, j)
  BY <1>1 DEF UpTo
<1>4. IsFiniteSet(UpTo(S, l))
  BY <1>1, <1>2, FS_Subset
<1>5. /\ IsFiniteSet(UpTo(S, j))
      /\ Cardinality(UpTo(S, j)) <= Cardinality(UpTo(S, l))
      /\ Cardinality(UpTo(S, l)) = Cardinality(UpTo(S, j)) => UpTo(S, l) = UpTo(S, j)
  BY <1>2, <1>4, FS_Subset
<1>6. Cardinality(UpTo(S, j)) \in Nat /\ Cardinality(UpTo(S, l)) \in Nat
  BY <1>4, <1>5, FS_CardinalityType
<1>7. UpTo(S, l) # UpTo(S, j)
  BY <1>3
<1> QED
  BY <1>5, <1>6, <1>7

LEMMA RanksTyped ==
  ASSUME NEW n \in Nat, NEW S \in SUBSET (1..n), NEW j \in S
  PROVE  Cardinality(UpTo(S, j)) \in 1..Cardinality(S)
<1>1. S \subseteq Nat /\ IsFiniteSet(S) /\ Cardinality(S) \in Nat
  BY PlacesFinite
<1>2. UpTo(S, j) \in SUBSET S /\ j \in UpTo(S, j)
  BY <1>1 DEF UpTo
<1>3. IsFiniteSet(UpTo(S, j)) /\ Cardinality(UpTo(S, j)) <= Cardinality(S)
  BY <1>1, <1>2, FS_Subset
<1>4. Cardinality(UpTo(S, j)) \in Nat /\ Cardinality(UpTo(S, j)) # 0
  BY <1>2, <1>3, FS_CardinalityType, FS_EmptySet
<1> QED
  BY <1>1, <1>3, <1>4

\* At has an option for each place, in the order of the places.
LEMMA PlacesListed ==
  ASSUME NEW n \in Nat, NEW S \in SUBSET (1..n)
  PROVE  \E f : Lists(f, Cardinality(S), S)
<1> DEFINE m == Cardinality(S)
           rank == [j \in S |-> Cardinality(UpTo(S, j))]
           f == [i \in 1..m |-> CHOOSE j \in S : rank[j] = i]
<1>1. S \subseteq Nat /\ IsFiniteSet(S) /\ m \in Nat
  BY PlacesFinite
<1>2. \A j \in S : rank[j] \in 1..m
  BY RanksTyped
<1>3. \A j, l \in S : j < l => rank[j] < rank[l]
  BY RanksDiffer
<1> HIDE DEF m
<1>4. IsFiniteSet(1..m) /\ Cardinality(1..m) = m
  BY <1>1, FS_Interval
<1>5. rank \in [S -> 1..m]
  BY <1>2
<1>6. \A j, l \in S : rank[j] = rank[l] => j = l
  <2> SUFFICES ASSUME NEW j \in S, NEW l \in S, rank[j] = rank[l] PROVE j = l
    OBVIOUS
  <2>1. j \in Nat /\ l \in Nat /\ rank[j] \in Nat
    BY <1>1, <1>2
  <2>2. ~(j < l) /\ ~(l < j)
    BY <1>3, <2>1
  <2> QED
    BY <2>1, <2>2
<1> HIDE DEF rank
<1>7. rank \in Injection(S, 1..m)
  BY <1>5, <1>6 DEF Injection, IsInjective
<1>8. rank \in Surjection(S, 1..m)
  BY <1>4, <1>7, FS_Injection DEF m
<1>9. \A i \in 1..m : f[i] \in S /\ rank[f[i]] = i
  <2> TAKE i \in 1..m
  <2>1. \E j \in S : rank[j] = i
    BY <1>8 DEF Surjection
  <2> QED
    BY <2>1
<1>10. \A j \in S : f[rank[j]] = j
  BY <1>2, <1>6, <1>9
<1>11. f \in [1..m -> S]
  BY <1>9
<1> HIDE DEF f
<1>12. ASSUME NEW a \in 1..m, NEW b \in 1..m, a < b PROVE f[a] < f[b]
  <2>1. f[a] \in S /\ f[b] \in S /\ f[a] \in Nat /\ f[b] \in Nat
    BY <1>1, <1>9
  <2>2. f[a] # f[b] /\ ~(f[b] < f[a])
    <3>1. rank[f[a]] = a /\ rank[f[b]] = b
      BY <1>9
    <3>2. a \in Nat /\ b \in Nat
      BY <1>1
    <3> QED
      BY <1>3, <2>1, <1>12, <3>1, <3>2
  <2> QED
    BY <2>1, <2>2
<1>13. Lists(f, m, S)
  BY <1>1, <1>2, <1>10, <1>11, <1>12 DEF Lists
<1> QED
  BY <1>13 DEF m

\* There is only one such list, and it is the one that At reads.
LEMMA NthListed ==
  ASSUME NEW n \in Nat, NEW S \in SUBSET (1..n), NEW f, NEW m, Lists(f, m, S)
  PROVE  Cardinality(S) = m /\ \A i \in 1..m : Nth(S, i) = f[i]
<1>1. S \subseteq Nat /\ IsFiniteSet(S) /\ Cardinality(S) \in Nat
  BY PlacesFinite
<1>2. /\ m \in Nat
      /\ f \in [1..m -> S]
      /\ \A a, b \in 1..m : a < b => f[a] < f[b]
      /\ \A j \in S : \E a \in 1..m : f[a] = j
  BY DEF Lists
<1>3. \A a, b \in 1..m : f[a] = f[b] => a = b
  <2> SUFFICES ASSUME NEW a \in 1..m, NEW b \in 1..m, f[a] = f[b], a # b PROVE FALSE
    OBVIOUS
  <2>1. a \in Nat /\ b \in Nat
    BY <1>2
  <2>2. f[a] \in S /\ f[b] \in S
    BY <1>2
  <2>3. f[a] \in Nat /\ f[b] \in Nat
    BY <1>1, <2>2
  <2>4. a < b => f[a] < f[b]
    BY <1>2
  <2>5. b < a => f[b] < f[a]
    BY <1>2
  <2> QED
    BY <2>1, <2>3, <2>4, <2>5
<1>4. \A a, b \in 1..m : f[a] <= f[b] <=> a <= b
  <2> SUFFICES ASSUME NEW a \in 1..m, NEW b \in 1..m PROVE f[a] <= f[b] <=> a <= b
    OBVIOUS
  <2>0. a \in Nat /\ b \in Nat /\ f[a] \in S /\ f[b] \in S
    BY <1>2
  <2>1. f[a] \in Nat /\ f[b] \in Nat /\ a \in Nat /\ b \in Nat
    BY <1>1, <2>0
  <2>2. a < b => f[a] < f[b]
    BY <1>2
  <2>3. b < a => f[b] < f[a]
    BY <1>2
  <2> QED
    BY <2>1, <2>2, <2>3
<1>5. ASSUME NEW i \in 1..m PROVE Cardinality(UpTo(S, f[i])) = i
  <2> DEFINE g == [a \in 1..i |-> f[a]]
  <2>1. i \in Nat /\ 1..i \subseteq 1..m /\ IsFiniteSet(1..i) /\ Cardinality(1..i) = i
    BY <1>2, FS_Interval
  <2>2. \A a \in 1..i : f[a] \in UpTo(S, f[i])
    BY <1>2, <1>4, <2>1 DEF UpTo
  <2>3. g \in [1..i -> UpTo(S, f[i])]
    BY <2>2
  <2>4. \A l \in UpTo(S, f[i]) : \E a \in 1..i : g[a] = l
    <3> TAKE l \in UpTo(S, f[i])
    <3>1. l \in S /\ l <= f[i]
      BY DEF UpTo
    <3>2. PICK a \in 1..m : f[a] = l
      BY <1>2, <3>1
    <3>3. a <= i
      BY <1>4, <3>1, <3>2
    <3>4. a \in 1..i
      BY <1>2, <3>3
    <3> QED
      BY <3>2, <3>4
  <2>5. \A a, b \in 1..i : g[a] = g[b] => a = b
    BY <1>3, <2>1
  <2> HIDE DEF g
  <2>6. g \in Surjection(1..i, UpTo(S, f[i])) /\ g \in Injection(1..i, UpTo(S, f[i]))
    BY <2>3, <2>4, <2>5 DEF Surjection, Injection, IsInjective
  <2> QED
    BY <2>1, <2>6, FS_Surjection
<1>6. Cardinality(S) = m
  <2>1. IsFiniteSet(1..m) /\ Cardinality(1..m) = m
    BY <1>2, FS_Interval
  <2>2. f \in Surjection(1..m, S) /\ f \in Injection(1..m, S)
    BY <1>2, <1>3 DEF Surjection, Injection, IsInjective
  <2> QED
    BY <2>1, <2>2, FS_Surjection
<1>7. ASSUME NEW i \in 1..m
      PROVE  (CHOOSE j \in S : Cardinality({l \in S : l <= j}) = i) = f[i]
  <2>1. \A j \in S : Cardinality({l \in S : l <= j}) = i <=> j = f[i]
    <3> TAKE j \in S
    <3>1. PICK a \in 1..m : f[a] = j
      BY <1>2
    <3>2. Cardinality(UpTo(S, j)) = a
      BY <1>5, <3>1
    <3> QED
      BY <1>3, <3>1, <3>2 DEF UpTo
  <2>2. f[i] \in S
    BY <1>2
  <2> QED
    BY <2>1, <2>2
<1> QED
  BY <1>6, <1>7 DEF Nth

-----------------------------------------------------------------------------
(***************************************************************************)
(* Commands, and what is done to them.                                     *)
(***************************************************************************)

LEMMA PlacesTyped ==
  ASSUME NEW O, NEW command \in Seq(O), NEW names
  PROVE  /\ Len(command) \in Nat
         /\ Places(command, names) \in SUBSET (1..Len(command))
         /\ (1..Len(command)) \ Places(command, names) \in SUBSET (1..Len(command))
         /\ IsFiniteSet(Places(command, names))
         /\ Cardinality(Places(command, names)) \in Nat
<1>1. Len(command) \in Nat
  BY LenProperties
<1>2. Places(command, names) \in SUBSET (1..Len(command))
  BY DEF Places
<1> QED
  BY <1>1, <1>2, PlacesFinite

LEMMA ChosenOptions ==
  ASSUME NEW O, NEW command \in Seq(O), NEW S \in SUBSET (1..Len(command))
  PROVE  /\ At(command, S) \in Seq(O)
         /\ \E f : /\ Lists(f, Len(At(command, S)), S)
                   /\ \A i \in 1..Len(At(command, S)) : At(command, S)[i] = command[f[i]]
<1>1. Len(command) \in Nat /\ command \in [1..Len(command) -> O]
  BY LenProperties
<1>2. PICK f : Lists(f, Cardinality(S), S)
  BY <1>1, PlacesListed
<1> DEFINE m == Cardinality(S)
<1> HIDE DEF m
<1>3. m \in Nat /\ f \in [1..m -> S]
  BY <1>2 DEF Lists, m
<1>4. At(command, S) = [i \in 1..m |-> command[f[i]]]
  <2>1. \A i \in 1..m : Nth(S, i) = f[i]
    BY <1>1, <1>2, NthListed DEF m
  <2> QED
    BY <2>1 DEF At, m
<1>5. At(command, S) \in [1..m -> O]
  BY <1>1, <1>3, <1>4
<1>6. At(command, S) \in Seq(O) /\ Len(At(command, S)) = m
  BY <1>3, <1>5, SeqDef, LenProperties
<1>7. \A i \in 1..m : At(command, S)[i] = command[f[i]]
  BY <1>4
<1> QED
  BY <1>2, <1>6, <1>7 DEF m

\* Without leaves out the options of these names, and no other.
LEMMA WithoutOptions ==
  ASSUME NEW O, NEW command \in Seq(O), NEW names
  PROVE  /\ Without(command, names) \in Seq(O)
         /\ ToSet(Without(command, names)) = {o \in ToSet(command) : o.name \notin names}
<1> DEFINE S == (1..Len(command)) \ Places(command, names)
           rest == Without(command, names)
<1>1. S \in SUBSET (1..Len(command)) /\ DOMAIN command = 1..Len(command)
  BY LenProperties
<1>2. rest = At(command, S)
  BY DEF Without
<1>3. \A j \in S : command[j].name \notin names
  BY DEF Places
<1>4. \A j \in 1..Len(command) : command[j].name \notin names => j \in S
  BY DEF Places
<1> HIDE DEF S, rest
<1>5. rest \in Seq(O)
  BY <1>1, <1>2, ChosenOptions
<1>6. PICK f : Lists(f, Len(rest), S) /\ \A i \in 1..Len(rest) : rest[i] = command[f[i]]
  BY <1>1, <1>2, ChosenOptions
<1>7. DOMAIN rest = 1..Len(rest)
  BY <1>5, LenProperties
<1>8. /\ f \in [1..Len(rest) -> S]
      /\ \A j \in S : \E a \in 1..Len(rest) : f[a] = j
  BY <1>6 DEF Lists
<1>9. ASSUME NEW o \in ToSet(rest) PROVE o \in ToSet(command) /\ o.name \notin names
  <2>1. PICK i \in 1..Len(rest) : rest[i] = o
    BY <1>7 DEF ToSet
  <2>2. f[i] \in S /\ o = command[f[i]]
    BY <1>6, <1>8, <2>1
  <2> QED
    BY <1>1, <1>3, <2>2 DEF ToSet
<1>10. ASSUME NEW o \in ToSet(command), o.name \notin names PROVE o \in ToSet(rest)
  <2>1. PICK j \in 1..Len(command) : command[j] = o
    BY <1>1 DEF ToSet
  <2>2. PICK a \in 1..Len(rest) : f[a] = j
    BY <1>4, <1>8, <1>10, <2>1
  <2>3. rest[a] = o
    BY <1>6, <2>1, <2>2
  <2> QED
    BY <1>7, <2>3 DEF ToSet
<1>11. ToSet(rest) = {o \in ToSet(command) : o.name \notin names}
  BY <1>9, <1>10
<1> QED
  BY <1>5, <1>11 DEF rest

\* h leads from the places S to the places T, to one after the other.
Moves(h, S, T) ==
    /\ h \in [S -> T]
    /\ \A i, j \in S : i < j => h[i] < h[j]
    /\ \A j \in T : \E i \in S : h[i] = j

\* h leads from places of new to those of old, in their order: there are no more of
\* them in new.
LEMMA NotMore ==
  ASSUME NEW O, NEW new \in Seq(O), NEW old \in Seq(O), NEW names,
         NEW h \in [Places(new, names) -> Places(old, names)],
         \A i, j \in Places(new, names) : i < j => h[i] < h[j]
  PROVE  Cardinality(Places(new, names)) <= Cardinality(Places(old, names))
<1> DEFINE S == Places(new, names)
           T == Places(old, names)
<1>1. S \subseteq Nat /\ T \subseteq Nat /\ IsFiniteSet(T)
  BY PlacesTyped
<1> HIDE DEF S, T
<1>2. h \in [S -> T] /\ \A i, j \in S : i < j => h[i] < h[j]
  BY DEF S, T
<1>3. ASSUME NEW i \in S, NEW j \in S, h[i] = h[j] PROVE i = j
  <2>1. i \in Nat /\ j \in Nat
    BY <1>1
  <2>2. h[i] \in T /\ h[j] \in T
    BY <1>2
  <2>3. h[i] \in Nat /\ h[j] \in Nat
    BY <1>1, <2>2
  <2>4. (i < j => h[i] < h[j]) /\ (j < i => h[j] < h[i])
    BY <1>2
  <2> QED
    BY <1>3, <2>1, <2>3, <2>4
<1>4. h \in Injection(S, T)
  BY <1>2, <1>3 DEF Injection, IsInjective
<1> QED
  BY <1>1, <1>4, FS_Injection DEF S, T

\* The places after such a move, in their order.
LEMMA NthMoved ==
  ASSUME NEW n \in Nat, NEW S \in SUBSET (1..n), NEW o \in Nat, NEW T \in SUBSET (1..o),
         NEW h, Moves(h, S, T)
  PROVE  /\ Cardinality(T) = Cardinality(S)
         /\ \A a \in 1..Cardinality(S) : Nth(S, a) \in S /\ Nth(T, a) = h[Nth(S, a)]
<1>1. PICK f : Lists(f, Cardinality(S), S)
  BY PlacesListed
<1>2. \A a \in 1..Cardinality(S) : Nth(S, a) = f[a]
  BY <1>1, NthListed
<1> DEFINE m == Cardinality(S)
           g == [a \in 1..m |-> h[f[a]]]
<1> HIDE DEF m
<1>3. /\ m \in Nat
      /\ f \in [1..m -> S]
      /\ \A a, b \in 1..m : a < b => f[a] < f[b]
      /\ \A j \in S : \E a \in 1..m : f[a] = j
  BY <1>1 DEF Lists, m
<1>4. g \in [1..m -> T]
  BY <1>3 DEF Moves
<1>5. \A a, b \in 1..m : a < b => g[a] < g[b]
  BY <1>3 DEF Moves
<1>6. \A j \in T : \E a \in 1..m : g[a] = j
  BY <1>3 DEF Moves
<1>7. \A a \in 1..m : g[a] = h[f[a]]
  OBVIOUS
<1> HIDE DEF g
<1>8. Lists(g, m, T)
  BY <1>3, <1>4, <1>5, <1>6 DEF Lists
<1>9. Cardinality(T) = m /\ \A a \in 1..m : Nth(T, a) = g[a]
  BY <1>8, NthListed
<1> QED
  BY <1>2, <1>3, <1>7, <1>9 DEF m

\* If also the options are the same, they are the same command.
LEMMA OnlySame ==
  ASSUME NEW O, NEW new \in Seq(O), NEW old \in Seq(O), NEW names,
         NEW h, Moves(h, Places(new, names), Places(old, names)),
         \A i \in Places(new, names) : new[i] = old[h[i]]
  PROVE  Only(new, names) = Only(old, names)
<1> DEFINE S == Places(new, names)
           T == Places(old, names)
<1>1. /\ Len(new) \in Nat /\ Len(old) \in Nat
      /\ S \in SUBSET (1..Len(new)) /\ T \in SUBSET (1..Len(old))
  BY PlacesTyped
<1>2. /\ Cardinality(T) = Cardinality(S)
      /\ \A a \in 1..Cardinality(S) : Nth(S, a) \in S /\ Nth(T, a) = h[Nth(S, a)]
  BY <1>1, NthMoved
<1>3. \A a \in 1..Cardinality(S) : new[Nth(S, a)] = old[Nth(T, a)]
  BY <1>2
<1> HIDE DEF S, T
<1> QED
  BY <1>2, <1>3 DEF Only, At, S, T

\* No option is given more often than before, or more than once, and those that are
\* always kept are what they were.
Fits(new, old) ==
    /\ \A name : \/ Cardinality(Places(new, {name})) <= Cardinality(Places(old, {name}))
                 \/ Cardinality(Places(new, {name})) <= 1
    /\ Only(new, KeepOpts) = Only(old, KeepOpts)

LEMMA WithoutFits ==
  ASSUME NEW O, NEW old \in Seq(O), NEW name, name \notin KeepOpts
  PROVE  Fits(Without(old, {name}), old)
<1> DEFINE new == Without(old, {name})
           S == (1..Len(old)) \ Places(old, {name})
<1>1. new \in Seq(O)
  BY WithoutOptions
<1>2. S \in SUBSET (1..Len(old)) /\ Len(old) \in Nat /\ Len(new) \in Nat
  BY <1>1, LenProperties
<1>3. PICK f : Lists(f, Len(new), S) /\ \A i \in 1..Len(new) : new[i] = old[f[i]]
  BY <1>2, ChosenOptions DEF Without
<1>4. /\ \A j \in S : old[j].name # name
      /\ \A j \in 1..Len(old) : old[j].name # name => j \in S
  BY DEF Places
<1> HIDE DEF new, S
<1>5. /\ f \in [1..Len(new) -> S]
      /\ \A a, b \in 1..Len(new) : a < b => f[a] < f[b]
      /\ \A j \in S : \E a \in 1..Len(new) : f[a] = j
  BY <1>3 DEF Lists
<1>6. ASSUME NEW names
      PROVE  LET h == [i \in Places(new, names) |-> f[i]]
             IN /\ h \in [Places(new, names) -> Places(old, names)]
                /\ \A i, j \in Places(new, names) : i < j => h[i] < h[j]
                /\ \A i \in Places(new, names) : new[i] = old[h[i]]
  <2>1. Places(new, names) \subseteq 1..Len(new)
    BY DEF Places
  <2>2. \A i \in Places(new, names) : f[i] \in Places(old, names)
    BY <1>2, <1>3, <1>5, <2>1 DEF Places
  <2> QED
    BY <1>3, <1>5, <2>1, <2>2
<1>7. ASSUME NEW names
      PROVE  Cardinality(Places(new, names)) <= Cardinality(Places(old, names))
  BY <1>1, <1>6, NotMore
<1>8. Only(new, KeepOpts) = Only(old, KeepOpts)
  <2> DEFINE h == [i \in Places(new, KeepOpts) |-> f[i]]
  <2>1. \A j \in Places(old, KeepOpts) : \E i \in Places(new, KeepOpts) : h[i] = j
    <3> TAKE j \in Places(old, KeepOpts)
    <3>1. j \in 1..Len(old) /\ old[j].name \in KeepOpts
      BY DEF Places
    <3>2. PICK a \in 1..Len(new) : f[a] = j
      BY <1>4, <1>5, <3>1
    <3>3. a \in Places(new, KeepOpts)
      BY <1>3, <3>1, <3>2 DEF Places
    <3> QED
      BY <3>2, <3>3
  <2>2. /\ h \in [Places(new, KeepOpts) -> Places(old, KeepOpts)]
        /\ \A i, j \in Places(new, KeepOpts) : i < j => h[i] < h[j]
        /\ \A i \in Places(new, KeepOpts) : new[i] = old[h[i]]
    BY <1>6
  <2> HIDE DEF h
  <2>3. Moves(h, Places(new, KeepOpts), Places(old, KeepOpts))
    BY <2>1, <2>2 DEF Moves
  <2> QED
    BY <1>1, <2>2, <2>3, OnlySame
<1> QED
  BY <1>7, <1>8 DEF Fits, new

LEMMA ReplacedFits ==
  ASSUME NEW O, NEW old \in Seq(O), NEW new \in Seq(O), Len(new) = Len(old),
         \A i \in 1..Len(old) : /\ new[i].name = old[i].name
                                /\ old[i].name \in KeepOpts => new[i] = old[i]
  PROVE  Fits(new, old)
<1>1. ASSUME NEW names PROVE Places(new, names) = Places(old, names)
  BY DEF Places
<1>2. ASSUME NEW names PROVE Cardinality(Places(new, names)) \in Nat
  BY PlacesTyped
<1>3. ASSUME NEW name
      PROVE  Cardinality(Places(new, {name})) <= Cardinality(Places(old, {name}))
  BY <1>1, <1>2
<1>4. Only(new, KeepOpts) = Only(old, KeepOpts)
  <2> DEFINE S == Places(old, KeepOpts)
             h == [i \in S |-> i]
  <2>1. S \subseteq 1..Len(old) /\ \A i \in S : old[i].name \in KeepOpts
    BY DEF Places
  <2>2. Places(new, KeepOpts) = S
    BY <1>1
  <2> HIDE DEF S
  <2>3. /\ h \in [S -> S]
        /\ \A i, j \in S : i < j => h[i] < h[j]
        /\ \A j \in S : \E i \in S : h[i] = j
        /\ \A i \in S : new[i] = old[h[i]]
    BY <2>1
  <2> HIDE DEF h
  <2>4. Moves(h, S, S)
    BY <2>3 DEF Moves
  <2>5. Moves(h, Places(new, KeepOpts), Places(old, KeepOpts))
    BY <2>2, <2>4 DEF S
  <2>6. \A i \in Places(new, KeepOpts) : new[i] = old[h[i]]
    BY <2>2, <2>3
  <2> QED
    BY <2>5, <2>6, OnlySame
<1> QED
  BY <1>3, <1>4 DEF Fits

\* An option is added that was not there.
LEMMA AddedFits ==
  ASSUME NEW O, NEW old \in Seq(O), NEW new \in Seq(O), NEW p \in 1..(Len(old) + 1),
         Len(new) = Len(old) + 1,
         \A i \in 1..Len(new) : /\ i < p => new[i] = old[i]
                                /\ i > p => new[i] = old[i - 1],
         new[p].name \notin KeepOpts,
         Places(old, {new[p].name}) = {}
  PROVE  Fits(new, old)
<1> DEFINE back == [i \in Nat |-> IF i < p THEN i ELSE i - 1]
<1>1. Len(old) \in Nat /\ p \in Nat /\ 1 <= p /\ p <= Len(old) + 1
  BY LenProperties
<1>2. ASSUME NEW i \in 1..Len(new), i # p
      PROVE  i \in Nat /\ back[i] \in 1..Len(old) /\ new[i] = old[back[i]]
  <2>1. i \in Nat /\ 1 <= i /\ i <= Len(old) + 1
    BY <1>1
  <2>2. CASE i < p
    BY <1>1, <2>1, <2>2
  <2>3. CASE i > p
    BY <1>1, <2>1, <2>3
  <2> QED
    BY <1>1, <1>2, <2>1, <2>2, <2>3
<1>3. ASSUME NEW i \in 1..Len(new), NEW j \in 1..Len(new), i # p, j # p, i < j
      PROVE  back[i] < back[j]
  <2>1. i \in Nat /\ j \in Nat
    BY <1>2, <1>3
  <2> QED
    BY <1>1, <1>3, <2>1
<1>4. ASSUME NEW j \in 1..Len(old)
      PROVE  \E i \in 1..Len(new) : i # p /\ back[i] = j
  <2>1. j \in Nat /\ 1 <= j /\ j <= Len(old)
    BY <1>1
  <2>2. CASE j < p
    <3>1. j \in 1..Len(new) /\ j # p /\ back[j] = j
      BY <1>1, <2>1, <2>2
    <3> QED
      BY <3>1
  <2>3. CASE ~(j < p)
    <3>1. j + 1 \in 1..Len(new) /\ j + 1 # p /\ back[j + 1] = j
      BY <1>1, <2>1, <2>3
    <3> QED
      BY <3>1
  <2> QED
    BY <2>2, <2>3
<1> HIDE DEF back
<1>5. ASSUME NEW names, new[p].name \notin names
      PROVE  LET h == [i \in Places(new, names) |-> back[i]]
             IN /\ Moves(h, Places(new, names), Places(old, names))
                /\ \A i \in Places(new, names) : new[i] = old[h[i]]
  <2> DEFINE S == Places(new, names)
             T == Places(old, names)
  <2>1. \A i \in S : i \in 1..Len(new) /\ i # p
    BY <1>5 DEF Places
  <2>2. \A i \in S : back[i] \in T /\ new[i] = old[back[i]]
    BY <1>2, <2>1 DEF Places
  <2>3. \A j \in T : \E i \in S : back[i] = j
    <3> TAKE j \in T
    <3>1. j \in 1..Len(old) /\ old[j].name \in names
      BY DEF Places
    <3>2. PICK i \in 1..Len(new) : i # p /\ back[i] = j
      BY <1>4, <3>1
    <3>3. i \in S
      BY <1>2, <3>1, <3>2 DEF Places
    <3> QED
      BY <3>2, <3>3
  <2>4. \A i, j \in S : i < j => back[i] < back[j]
    BY <1>3, <2>1
  <2> HIDE DEF S, T
  <2>5. LET h == [i \in S |-> back[i]]
        IN Moves(h, S, T) /\ \A i \in S : new[i] = old[h[i]]
    BY <2>2, <2>3, <2>4 DEF Moves
  <2> QED
    BY <2>5 DEF S, T
<1>6. ASSUME NEW name, name # new[p].name
      PROVE  Cardinality(Places(new, {name})) <= Cardinality(Places(old, {name}))
  <2> DEFINE h == [i \in Places(new, {name}) |-> back[i]]
  <2>1. Moves(h, Places(new, {name}), Places(old, {name}))
    BY <1>5, <1>6
  <2> HIDE DEF h
  <2> QED
    BY <2>1, NotMore DEF Moves
<1>7. Cardinality(Places(new, {new[p].name})) <= 1
  <2>1. Places(new, {new[p].name}) \subseteq {p}
    <3> SUFFICES ASSUME NEW i \in Places(new, {new[p].name}), i # p PROVE FALSE
      OBVIOUS
    <3>1. i \in 1..Len(new) /\ new[i].name = new[p].name
      BY DEF Places
    <3>2. back[i] \in Places(old, {new[p].name})
      BY <1>2, <3>1 DEF Places
    <3> QED
      BY <3>2
  <2>2. IsFiniteSet({p}) /\ Cardinality({p}) = 1
    BY FS_Singleton
  <2> QED
    BY <2>1, <2>2, FS_Subset
<1>8. Only(new, KeepOpts) = Only(old, KeepOpts)
  <2> DEFINE h == [i \in Places(new, KeepOpts) |-> back[i]]
  <2>1. /\ Moves(h, Places(new, KeepOpts), Places(old, KeepOpts))
        /\ \A i \in Places(new, KeepOpts) : new[i] = old[h[i]]
    BY <1>5
  <2> HIDE DEF h
  <2> QED
    BY <2>1, OnlySame
<1> QED
  BY <1>6, <1>7, <1>8 DEF Fits

LEMMA FirstAndLast ==
  ASSUME NEW n \in Nat, NEW S \in SUBSET (1..n), S # {}
  PROVE  Min(S) \in S /\ Max(S) \in S
<1>1. S \subseteq Nat
  OBVIOUS
<1>2. PICK f : Lists(f, Cardinality(S), S)
  BY PlacesListed
<1> DEFINE m == Cardinality(S)
<1> HIDE DEF m
<1>3. /\ m \in Nat
      /\ f \in [1..m -> S]
      /\ \A a, b \in 1..m : a < b => f[a] < f[b]
      /\ \A j \in S : \E a \in 1..m : f[a] = j
  BY <1>2 DEF Lists, m
<1>4. 1 \in 1..m /\ m \in 1..m
  <2>1. PICK j \in S : TRUE
    OBVIOUS
  <2>2. PICK a \in 1..m : f[a] = j
    BY <1>3, <2>1
  <2> QED
    BY <1>3, <2>2
<1>5. ASSUME NEW j \in S PROVE f[1] <= j /\ f[m] >= j
  <2>1. PICK a \in 1..m : f[a] = j
    BY <1>3
  <2>6. f[1] \in S /\ f[m] \in S
    BY <1>3, <1>4
  <2>7. a \in Nat
    BY <1>3
  <2>2. a \in Nat /\ f[1] \in Nat /\ f[m] \in Nat /\ j \in Nat
    BY <1>1, <2>6, <2>7
  <2>3. 1 < a => f[1] < f[a]
    BY <1>3, <1>4
  <2>4. a < m => f[a] < f[m]
    BY <1>3, <1>4
  <2>5. (a = 1 \/ 1 < a) /\ (a = m \/ a < m)
    BY <1>3, <2>2
  <2> QED
    BY <2>1, <2>2, <2>3, <2>4, <2>5
<1>6. f[1] \in S /\ f[m] \in S
  BY <1>3, <1>4
<1> QED
  BY <1>5, <1>6 DEF Min, Max

LEMMA InsertedAt ==
  ASSUME NEW O, NEW old \in Seq(O), NEW p \in 1..(Len(old) + 1), NEW o \in O
  PROVE  /\ InsertAt(old, p, o) \in Seq(O)
         /\ Len(InsertAt(old, p, o)) = Len(old) + 1
         /\ InsertAt(old, p, o)[p] = o
         /\ \A i \in 1..(Len(old) + 1) :
               /\ i < p => InsertAt(old, p, o)[i] = old[i]
               /\ i > p => InsertAt(old, p, o)[i] = old[i - 1]
<1> DEFINE before == SubSeq(old, 1, p - 1)
           after == SubSeq(old, p, Len(old))
           start == before \o <<o>>
<1>1. Len(old) \in Nat /\ p \in Nat /\ 1 <= p /\ p <= Len(old) + 1
  BY LenProperties
<1>2. /\ before \in Seq(O) /\ Len(before) = p - 1
      /\ \A i \in 1..(p - 1) : before[i] = old[i]
  <2>1. \A i \in 1..(p - 1) : i \in 1..Len(old)
    BY <1>1
  <2>2. 1 \in 1..(Len(old) + 1) /\ p - 1 \in 0..Len(old)
    BY <1>1
  <2> QED
    BY <1>1, <2>1, <2>2, SubSeqProperties
<1>3. /\ after \in Seq(O) /\ Len(after) = Len(old) + 1 - p
      /\ \A i \in 1..(Len(old) + 1 - p) : after[i] = old[p + i - 1]
  <2>1. Len(old) \in 0..Len(old)
    BY <1>1
  <2> QED
    BY <1>1, <2>1, SubSeqProperties
<1>4. InsertAt(old, p, o) = start \o after
  BY DEF InsertAt
<1> HIDE DEF before, after
<1>5. <<o>> \in Seq(O) /\ Len(<<o>>) = 1 /\ <<o>>[1] = o
  OBVIOUS
<1>6. /\ start \in Seq(O) /\ Len(start) = p
      /\ start[p] = o
      /\ \A i \in 1..(p - 1) : start[i] = old[i]
  <2>1. start \in Seq(O) /\ Len(start) = p
    BY <1>1, <1>2, <1>5, ConcatProperties
  <2>2. \A i \in 1..p : start[i] = IF i <= p - 1 THEN before[i] ELSE <<o>>[i - (p - 1)]
    BY <1>1, <1>2, <1>5, ConcatProperties
  <2>3. p \in 1..p /\ ~(p <= p - 1) /\ p - (p - 1) = 1
    BY <1>1
  <2>4. \A i \in 1..(p - 1) : i \in 1..p /\ i <= p - 1
    BY <1>1
  <2> QED
    BY <1>2, <1>5, <2>1, <2>2, <2>3, <2>4
<1> HIDE DEF start
<1> DEFINE new == start \o after
<1>7. /\ new \in Seq(O)
      /\ Len(new) = Len(start) + Len(after)
      /\ \A i \in 1..(Len(start) + Len(after)) :
            new[i] = IF i <= Len(start) THEN start[i] ELSE after[i - Len(start)]
  <2>1. start \in Seq(O) /\ after \in Seq(O)
    BY <1>3, <1>6
  <2> QED
    BY <2>1, ConcatProperties
<1>8. Len(start) + Len(after) = Len(old) + 1
  BY <1>1, <1>3, <1>6
<1>9. \A i \in 1..(Len(old) + 1) : new[i] = IF i <= p THEN start[i] ELSE after[i - p]
  BY <1>6, <1>7, <1>8
<1> HIDE DEF new
<1>10. new[p] = o
  BY <1>1, <1>6, <1>9
<1>11. ASSUME NEW i \in 1..(Len(old) + 1), i < p PROVE new[i] = old[i]
  <2>1. i \in 1..(p - 1) /\ i <= p
    BY <1>1, <1>11
  <2> QED
    BY <1>6, <1>9, <2>1
<1>12. ASSUME NEW i \in 1..(Len(old) + 1), i > p PROVE new[i] = old[i - 1]
  <2>1. i - p \in 1..(Len(old) + 1 - p) /\ ~(i <= p) /\ p + (i - p) - 1 = i - 1
    BY <1>1, <1>12
  <2>2. after[i - p] = old[p + (i - p) - 1]
    BY <1>3, <2>1
  <2> QED
    BY <1>9, <2>1, <2>2
<1> QED
  BY <1>4, <1>7, <1>8, <1>10, <1>11, <1>12 DEF new

LEMMA ReplacedAt ==
  ASSUME NEW O, NEW old \in Seq(O), NEW p \in 1..Len(old), NEW o \in O
  PROVE  /\ ReplaceAt(old, p, o) \in Seq(O)
         /\ Len(ReplaceAt(old, p, o)) = Len(old)
         /\ ReplaceAt(old, p, o)[p] = o
         /\ \A i \in 1..Len(old) : i # p => ReplaceAt(old, p, o)[i] = old[i]
BY ExceptSeq, LenProperties DEF ReplaceAt

-----------------------------------------------------------------------------
(***************************************************************************)
(* The invariant.                                                          *)
(***************************************************************************)

\* The options that commands are made of.
Options ==
    CmdOptions \union {Opt("--td", "0"), Opt("--arjun", "0"), Opt("--threads", "1"),
                       Opt("--debugthreads", "1")}

OptTypeOK ==
    /\ cmd \in Seq(Options)
    /\ options \in Seq(Options)
    /\ current \in Seq(Options)
    /\ k \in Nat \ {0}
    /\ pass = "start" => current = options /\ k = 1
    /\ mode = "unknown" <=> pass \in {"start", "refused"}

\* What is known of the original command and of the current one.
KnownToPreserve ==
    mode # "unknown" =>
        /\ cmd \in DOMAIN answers /\ Preserves(mode, answers[cmd])
        /\ \/ current = options
           \/ current \in DOMAIN answers /\ Preserves(mode, answers[current])

\* The option of this name is gone, or a command without it did not preserve the
\* result that had all the others that are left.
Settled(name) ==
    \/ \A o \in ToSet(current) : o.name # name
    \/ \E c \in DOMAIN answers :
          /\ Includes(c, Without(current, {name}))
          /\ ~Preserves(mode, answers[c])

Tried ==
    pass \in {"drop", "td"} =>
        /\ ToSet(current) \subseteq ToSet(options)
        /\ \A j \in 1..Len(options) :
              (j < k \/ pass = "td") /\ options[j].name \notin KeepOpts =>
                  Settled(options[j].name)

OptIndInv == OptTypeOK /\ KnownToPreserve /\ Tried /\ Fits(current, options)

-----------------------------------------------------------------------------

LEMMA FitsItself ==
  ASSUME NEW O, NEW command \in Seq(O)
  PROVE  Fits(command, command)
<1>1. ASSUME NEW name
      PROVE  Cardinality(Places(command, {name})) <= Cardinality(Places(command, {name}))
  BY PlacesTyped
<1> QED
  BY <1>1 DEF Fits

LEMMA FitsFurther ==
  ASSUME NEW O, NEW a \in Seq(O), NEW b \in Seq(O), NEW c \in Seq(O), Fits(a, b), Fits(b, c)
  PROVE  Fits(a, c)
<1>1. ASSUME NEW name
      PROVE  \/ Cardinality(Places(a, {name})) <= Cardinality(Places(c, {name}))
             \/ Cardinality(Places(a, {name})) <= 1
  <2> DEFINE A == Cardinality(Places(a, {name}))
             B == Cardinality(Places(b, {name}))
             C == Cardinality(Places(c, {name}))
  <2>1. A \in Nat /\ B \in Nat /\ C \in Nat
    BY PlacesTyped
  <2>2. (A <= B \/ A <= 1) /\ (B <= C \/ B <= 1)
    BY DEF Fits
  <2> HIDE DEF A, B, C
  <2>3. A <= C \/ A <= 1
    BY <2>1, <2>2
  <2> QED
    BY <2>3 DEF A, C
<1>2. Only(a, KeepOpts) = Only(c, KeepOpts)
  BY DEF Fits
<1> QED
  BY <1>1, <1>2 DEF Fits

\* A command that is run keeps its answer, and so do those that were run before.
LEMMA AnswersRemembered ==
  ASSUME NEW command, NEW answer, Answered(command, answer)
  PROVE  /\ command \in DOMAIN answers' /\ answers'[command] = answer
         /\ \A c \in DOMAIN answers : c \in DOMAIN answers' /\ answers'[c] = answers[c]
BY DEF Answered

\* What is tried becomes the current command or did not preserve the result.
LEMMA TryStep ==
  ASSUME NEW trial, Try(trial)
  PROVE  /\ \A c \in DOMAIN answers : c \in DOMAIN answers' /\ answers'[c] = answers[c]
         /\ trial \in DOMAIN answers'
         /\ \/ current' = trial /\ Preserves(mode, answers'[trial])
            \/ current' = current /\ ~Preserves(mode, answers'[trial])
<1>1. PICK answer \in Answers :
         /\ Answered(trial, answer)
         /\ current' = IF Preserves(mode, answer) THEN trial ELSE current
  BY DEF Try
<1>2. /\ trial \in DOMAIN answers' /\ answers'[trial] = answer
      /\ \A c \in DOMAIN answers : c \in DOMAIN answers' /\ answers'[c] = answers[c]
  BY <1>1, AnswersRemembered
<1>3. CASE Preserves(mode, answer)
  BY <1>1, <1>2, <1>3
<1>4. CASE ~Preserves(mode, answer)
  BY <1>1, <1>2, <1>4
<1> QED
  BY <1>3, <1>4

LEMMA KnownKept ==
  ASSUME KnownToPreserve, mode # "unknown",
         cmd' = cmd, options' = options, mode' = mode,
         \A c \in DOMAIN answers : c \in DOMAIN answers' /\ answers'[c] = answers[c],
         \/ current' = current
         \/ current' \in DOMAIN answers' /\ Preserves(mode, answers'[current'])
  PROVE  KnownToPreserve'
BY DEF KnownToPreserve, Preserves

\* What was settled stays so when options go.
LEMMA SettledKept ==
  ASSUME current \in Seq(Options), current' \in Seq(Options), mode' = mode,
         ToSet(current') \subseteq ToSet(current),
         \A c \in DOMAIN answers : c \in DOMAIN answers' /\ answers'[c] = answers[c]
  PROVE  \A name : Settled(name) => Settled(name)'
<1> SUFFICES ASSUME NEW name, Settled(name) PROVE Settled(name)'
  OBVIOUS
<1>1. CASE \A o \in ToSet(current) : o.name # name
  BY <1>1 DEF Settled
<1>2. CASE \E c \in DOMAIN answers :
              Includes(c, Without(current, {name})) /\ ~Preserves(mode, answers[c])
  <2>1. PICK c \in DOMAIN answers :
           Includes(c, Without(current, {name})) /\ ~Preserves(mode, answers[c])
    BY <1>2
  <2>2. /\ ToSet(Without(current, {name})) = {o \in ToSet(current) : o.name \notin {name}}
        /\ ToSet(Without(current', {name})) = {o \in ToSet(current') : o.name \notin {name}}
    BY WithoutOptions
  <2>3. Includes(c, Without(current', {name}))
    BY <2>1, <2>2 DEF Includes
  <2>4. c \in DOMAIN answers' /\ ~Preserves(mode', answers'[c])
    BY <2>1
  <2> QED
    BY <2>3, <2>4 DEF Settled
<1> QED
  BY <1>1, <1>2 DEF Settled

LEMMA OptInitInv == OptInit => OptIndInv
<1> SUFFICES ASSUME OptInit PROVE OptIndInv
  OBVIOUS
<1>1. cmd \in Seq(Options)
  <2>1. PICK m \in 0..MaxOptions : cmd \in [1..m -> CmdOptions]
    BY DEF OptInit
  <2>2. m \in Nat /\ cmd \in [1..m -> Options]
    BY <2>1, OptionsAssumption DEF Options
  <2> QED
    BY <2>2, SeqDef
<1>2. options \in Seq(Options) /\ current = options /\ k = 1 /\ pass = "start" /\ mode = "unknown"
  BY <1>1, WithoutOptions DEF OptInit, Parse
<1>3. Fits(current, options)
  BY <1>2, FitsItself
<1> QED
  BY <1>1, <1>2, <1>3 DEF OptIndInv, OptTypeOK, KnownToPreserve, Tried

LEMMA DetectInv == OptIndInv /\ DetectMode => OptIndInv'
<1> SUFFICES ASSUME OptIndInv, DetectMode PROVE OptIndInv'
  OBVIOUS
<1> USE DEF OptIndInv
<1>1. /\ pass = "start" /\ current = options
      /\ cmd' = cmd /\ script' = script /\ options' = options /\ k' = k /\ current' = current
      /\ pass' = IF mode' = "unknown" THEN "refused" ELSE "drop"
  BY DEF DetectMode, OptTypeOK, run
<1>2. PICK answer \in Answers :
         /\ Answered(cmd, answer)
         /\ mode' = IF "crash" \in Modes /\ answer.crash THEN "crash"
                    ELSE IF "count" \in Modes /\ answer.same_count THEN "count"
                    ELSE "unknown"
  BY DEF DetectMode
<1>3. OptTypeOK'
  BY <1>1 DEF OptTypeOK
<1>4. KnownToPreserve'
  <2>1. cmd \in DOMAIN answers' /\ answers'[cmd] = answer
    BY <1>2, AnswersRemembered
  <2>2. mode' # "unknown" => Preserves(mode', answer)
    BY <1>2 DEF Preserves
  <2> QED
    BY <1>1, <2>1, <2>2 DEF KnownToPreserve
<1>5. Tried'
  <2>1. k' = 1 /\ (pass' = "refused" \/ pass' = "drop") /\ ToSet(current') = ToSet(options')
    BY <1>1 DEF OptTypeOK
  <2>2. \A j \in 1..Len(options') : ~(j < k')
    BY <2>1
  <2> QED
    BY <2>1, <2>2 DEF Tried
<1>6. Fits(current, options)'
  BY <1>1 DEF Fits, KeepOpts
<1> QED
  BY <1>3, <1>4, <1>5, <1>6

LEMMA TryDropInv == OptIndInv /\ TryDrop => OptIndInv'
<1> SUFFICES ASSUME OptIndInv, TryDrop PROVE OptIndInv'
  OBVIOUS
<1> USE DEF OptIndInv
<1> DEFINE name == options[k].name
           trial == Without(current, {name})
<1>1. /\ pass = "drop" /\ k <= Len(options) /\ name \notin KeepOpts
      /\ Try(trial)
      /\ k' = k + 1
      /\ cmd' = cmd /\ script' = script /\ options' = options /\ mode' = mode /\ pass' = pass
  BY DEF TryDrop, run
<1>2. /\ \A c \in DOMAIN answers : c \in DOMAIN answers' /\ answers'[c] = answers[c]
      /\ trial \in DOMAIN answers'
      /\ \/ current' = trial /\ Preserves(mode, answers'[trial])
         \/ current' = current /\ ~Preserves(mode, answers'[trial])
  BY <1>1, TryStep
<1>3. /\ trial \in Seq(Options)
      /\ ToSet(trial) = {o \in ToSet(current) : o.name \notin {name}}
      /\ Fits(trial, current)
  BY <1>1, WithoutOptions, WithoutFits DEF OptTypeOK
<1>4. current' \in Seq(Options) /\ ToSet(current') \subseteq ToSet(current)
  BY <1>2, <1>3 DEF OptTypeOK
<1>5. OptTypeOK'
  BY <1>1, <1>4 DEF OptTypeOK
<1>6. KnownToPreserve'
  <2>1. mode # "unknown"
    BY <1>1 DEF OptTypeOK
  <2>2. \/ current' = current
        \/ current' \in DOMAIN answers' /\ Preserves(mode, answers'[current'])
    BY <1>2
  <2> QED
    BY <1>1, <1>2, <2>1, <2>2, KnownKept
<1>7. Tried'
  <2>1. \A n : Settled(n) => Settled(n)'
    BY <1>1, <1>2, <1>4, SettledKept DEF OptTypeOK
  <2>2. ASSUME NEW n, n = name PROVE Settled(n)'
    <3>1. CASE current' = trial
      BY <1>3, <2>2, <3>1 DEF Settled
    <3>2. CASE current' = current /\ ~Preserves(mode, answers'[trial])
      <4>1. Includes(trial, Without(current', {n}))
        BY <2>2, <3>2 DEF Includes
      <4> QED
        BY <1>1, <1>2, <3>2, <4>1 DEF Settled
    <3> QED
      BY <1>2, <3>1, <3>2
  <2>3. /\ ToSet(current) \subseteq ToSet(options)
        /\ \A j \in 1..Len(options) :
              j < k /\ options[j].name \notin KeepOpts => Settled(options[j].name)
    BY <1>1 DEF Tried
  <2>4. KeepOpts' = KeepOpts
    BY <1>1 DEF KeepOpts
  <2>5. ASSUME NEW j \in 1..Len(options), j < k', options[j].name \notin KeepOpts, NEW n,
               n = options[j].name
        PROVE  Settled(n)'
    <3>1. CASE j < k
      BY <2>1, <2>3, <2>5, <3>1
    <3>2. CASE j = k
      BY <2>2, <2>5, <3>2
    <3>3. j < k \/ j = k
      <4>1. j \in Nat /\ k \in Nat
        BY LenProperties DEF OptTypeOK
      <4> QED
        BY <1>1, <2>5, <4>1
    <3> QED
      BY <3>1, <3>2, <3>3
  <2>6. \A j \in 1..Len(options) :
           j < k' /\ options[j].name \notin KeepOpts => Settled(options[j].name)'
    BY <1>1, <2>5 DEF Settled
  <2>7. ToSet(current') \subseteq ToSet(options')
    BY <1>1, <1>4, <2>3
  <2> QED
    BY <1>1, <2>4, <2>6, <2>7 DEF Tried
<1>8. Fits(current', options)
  BY <1>2, <1>3, FitsFurther DEF OptTypeOK
<1>9. Fits(current, options)'
  BY <1>1, <1>8 DEF Fits, KeepOpts
<1> QED
  BY <1>5, <1>6, <1>7, <1>9

LEMMA SkipKeptInv == OptIndInv /\ SkipKept => OptIndInv'
<1> SUFFICES ASSUME OptIndInv, SkipKept PROVE OptIndInv'
  OBVIOUS
<1> USE DEF OptIndInv
<1>1. /\ pass = "drop" /\ k <= Len(options) /\ options[k].name \in KeepOpts
      /\ k' = k + 1
      /\ cmd' = cmd /\ script' = script /\ options' = options /\ mode' = mode /\ pass' = pass
      /\ current' = current /\ answers' = answers
  BY DEF SkipKept, run
<1>2. OptTypeOK'
  BY <1>1 DEF OptTypeOK
<1>3. KnownToPreserve'
  BY <1>1 DEF KnownToPreserve
<1>4. Tried'
  <2>1. /\ ToSet(current) \subseteq ToSet(options)
        /\ \A j \in 1..Len(options) :
              j < k /\ options[j].name \notin KeepOpts => Settled(options[j].name)
    BY <1>1 DEF Tried
  <2>2. KeepOpts' = KeepOpts
    BY <1>1 DEF KeepOpts
  <2>3. ASSUME NEW j \in 1..Len(options), j < k', options[j].name \notin KeepOpts
        PROVE  Settled(options[j].name)
    <3>1. j \in Nat /\ k \in Nat
      BY LenProperties DEF OptTypeOK
    <3>2. j < k \/ j = k
      BY <1>1, <2>3, <3>1
    <3> QED
      BY <1>1, <2>1, <2>3, <3>2
  <2>4. \A j \in 1..Len(options) :
           j < k' /\ options[j].name \notin KeepOpts => Settled(options[j].name)'
    BY <1>1, <2>3 DEF Settled
  <2> QED
    BY <1>1, <2>1, <2>2, <2>4 DEF Tried
<1>5. Fits(current, options)'
  BY <1>1 DEF Fits, KeepOpts
<1> QED
  BY <1>2, <1>3, <1>4, <1>5

LEMMA DropDoneInv == OptIndInv /\ DropDone => OptIndInv'
<1> SUFFICES ASSUME OptIndInv, DropDone PROVE OptIndInv'
  OBVIOUS
<1> USE DEF OptIndInv
<1>1. /\ pass = "drop" /\ k > Len(options) /\ pass' = "td"
      /\ cmd' = cmd /\ script' = script /\ options' = options /\ mode' = mode /\ k' = k
      /\ current' = current /\ answers' = answers
  BY DEF DropDone, run
<1>2. OptTypeOK'
  BY <1>1 DEF OptTypeOK
<1>3. KnownToPreserve'
  BY <1>1 DEF KnownToPreserve
<1>4. Tried'
  <2>1. \A j \in 1..Len(options) : j < k
    <3>1. k \in Nat /\ Len(options) \in Nat
      BY LenProperties DEF OptTypeOK
    <3> QED
      BY <1>1, <3>1
  <2>2. /\ ToSet(current) \subseteq ToSet(options)
        /\ \A j \in 1..Len(options) :
              options[j].name \notin KeepOpts => Settled(options[j].name)
    BY <1>1, <2>1 DEF Tried
  <2>3. KeepOpts' = KeepOpts
    BY <1>1 DEF KeepOpts
  <2>4. \A j \in 1..Len(options) :
           options[j].name \notin KeepOpts => Settled(options[j].name)'
    BY <1>1, <2>2 DEF Settled
  <2> QED
    BY <1>1, <2>2, <2>3, <2>4 DEF Tried
<1>5. Fits(current, options)'
  BY <1>1 DEF Fits, KeepOpts
<1> QED
  BY <1>2, <1>3, <1>4, <1>5

-----------------------------------------------------------------------------
(***************************************************************************)
(* The second pass.                                                        *)
(***************************************************************************)

LEMMA SimplifyInv ==
  ASSUME OptIndInv, NEW step \in {"td", "arjun", "threads"},
         NEW next \in {"arjun", "threads", "done"},
         NEW trial \in Seq(Options), Fits(trial, current), Simplify(step, trial, next)
  PROVE  OptIndInv'
<1> USE DEF OptIndInv
<1>1. /\ pass = step /\ pass' = next
      /\ cmd' = cmd /\ script' = script /\ options' = options /\ mode' = mode /\ k' = k
  BY DEF Simplify, run
<1>2. /\ \A c \in DOMAIN answers : c \in DOMAIN answers' /\ answers'[c] = answers[c]
      /\ \/ current' = current
         \/ /\ current' = trial
            /\ current' \in DOMAIN answers' /\ Preserves(mode, answers'[current'])
  <2>1. CASE UNCHANGED <<current, answers>>
    BY <2>1
  <2>2. CASE Try(trial)
    BY <2>2, TryStep
  <2> QED
    BY <2>1, <2>2 DEF Simplify
<1>3. current' \in Seq(Options)
  BY <1>2 DEF OptTypeOK
<1>4. OptTypeOK'
  BY <1>1, <1>3 DEF OptTypeOK
<1>5. KnownToPreserve'
  <2>1. mode # "unknown"
    BY <1>1 DEF OptTypeOK
  <2> QED
    BY <1>1, <1>2, <2>1, KnownKept
<1>6. Tried'
  BY <1>1 DEF Tried
<1>7. Fits(current', options)
  BY <1>2, FitsFurther DEF OptTypeOK
<1>8. Fits(current, options)'
  BY <1>1, <1>7 DEF Fits, KeepOpts
<1> QED
  BY <1>4, <1>5, <1>6, <1>8

LEMMA ZeroedFits ==
  ASSUME current \in Seq(Options), NEW name, name \notin KeepOpts, Opt(name, "0") \in Options
  PROVE  Zeroed(name) \in Seq(Options) /\ Fits(Zeroed(name), current)
<1> DEFINE o == Opt(name, "0")
           S == Places(current, {name})
<1>1. Len(current) \in Nat /\ S \in SUBSET (1..Len(current))
  BY PlacesTyped
<1>2. \A j \in S : current[j].name = name
  BY DEF Places
<1>3. o.name = name /\ o \in Options
  BY DEF Opt
<1> HIDE DEF o
<1>4. CASE S # {}
  <2> DEFINE p == Min(S)
             new == ReplaceAt(current, p, o)
  <2>1. p \in S
    BY <1>1, <1>4, FirstAndLast
  <2>2. p \in 1..Len(current)
    BY <1>1, <2>1
  <2> HIDE DEF p
  <2>3. /\ new \in Seq(Options) /\ Len(new) = Len(current) /\ new[p] = o
        /\ \A i \in 1..Len(current) : i # p => new[i] = current[i]
    BY <1>3, <2>2, ReplacedAt
  <2> HIDE DEF new, S
  <2>4. \A i \in 1..Len(current) : /\ new[i].name = current[i].name
                                   /\ current[i].name \in KeepOpts => new[i] = current[i]
    BY <1>2, <1>3, <2>1, <2>3
  <2>5. Fits(new, current)
    BY <2>3, <2>4, ReplacedFits
  <2>6. Zeroed(name) = new
    BY <1>4 DEF Zeroed, S, new, p, o
  <2> QED
    BY <2>3, <2>5, <2>6
<1>5. CASE S = {} /\ script = "count"
  <2>1. Zeroed(name) = current
    BY <1>5 DEF Zeroed
  <2> QED
    BY <2>1, FitsItself
<1>6. CASE S = {} /\ script # "count"
  <2> DEFINE new == Append(current, o)
  <2>1. /\ new \in Seq(Options) /\ Len(new) = Len(current) + 1
        /\ \A i \in 1..Len(current) : new[i] = current[i]
        /\ new[Len(current) + 1] = o
    BY <1>3, AppendProperties
  <2> HIDE DEF new
  <2> DEFINE p == Len(current) + 1
  <2>2. p \in 1..(Len(current) + 1) /\ new[p].name = name
    BY <1>1, <1>3, <2>1
  <2>3. \A i \in 1..Len(new) : /\ i < p => new[i] = current[i]
                               /\ i > p => new[i] = current[i - 1]
    BY <1>1, <2>1
  <2> HIDE DEF p
  <2>4. new[p].name \notin KeepOpts /\ Places(current, {new[p].name}) = {}
    BY <1>6, <2>2
  <2>5. Fits(new, current)
    BY <2>1, <2>2, <2>3, <2>4, AddedFits
  <2>6. Zeroed(name) = new
    BY <1>6 DEF Zeroed, new, o
  <2> QED
    BY <2>1, <2>5, <2>6
<1> QED
  BY <1>4, <1>5, <1>6

LEMMA SingleThreadedFits ==
  ASSUME current \in Seq(Options)
  PROVE  SingleThreaded \in Seq(Options) /\ Fits(SingleThreaded, current)
<1> DEFINE threads == Places(current, {"--threads"})
           debug == Places(current, {"--debugthreads"})
           one == Opt("--threads", "1")
           two == Opt("--debugthreads", "1")
<1>1. /\ Len(current) \in Nat
      /\ threads \in SUBSET (1..Len(current)) /\ debug \in SUBSET (1..Len(current))
  BY PlacesTyped
<1>2. /\ \A j \in threads : current[j].name = "--threads"
      /\ \A j \in debug : current[j].name = "--debugthreads"
  BY DEF Places
<1>3. /\ one \in Options /\ one.name = "--threads"
      /\ two \in Options /\ two.name = "--debugthreads"
  BY DEF Options, Opt
<1>4. "--threads" \notin KeepOpts /\ "--debugthreads" \notin KeepOpts
  BY DEF KeepOpts
<1> HIDE DEF one, two
<1>5. CASE threads = {}
  <2>1. SingleThreaded = current
    BY <1>5 DEF SingleThreaded
  <2> QED
    BY <2>1, FitsItself
<1>6. CASE threads # {}
  <2> DEFINE p == Max(threads)
             single == ReplaceAt(current, p, one)
  <2>1. p \in threads
    BY <1>1, <1>6, FirstAndLast
  <2>2. p \in 1..Len(current)
    BY <1>1, <2>1
  <2> HIDE DEF p
  <2>3. /\ single \in Seq(Options) /\ Len(single) = Len(current) /\ single[p] = one
        /\ \A i \in 1..Len(current) : i # p => single[i] = current[i]
    BY <1>3, <2>2, ReplacedAt
  <2> HIDE DEF single, threads, debug
  <2>4. \A i \in 1..Len(current) :
           /\ single[i].name = current[i].name
           /\ current[i].name \in KeepOpts => single[i] = current[i]
    BY <1>2, <1>3, <1>4, <2>1, <2>3
  <2>5. Fits(single, current)
    BY <2>3, <2>4, ReplacedFits
  <2>6. CASE debug # {}
    <3> DEFINE q == Max(debug)
               new == ReplaceAt(single, q, two)
    <3>1. q \in debug
      BY <1>1, <2>6, FirstAndLast
    <3>2. q \in 1..Len(single)
      BY <1>1, <2>3, <3>1
    <3> HIDE DEF q
    <3>3. /\ new \in Seq(Options) /\ Len(new) = Len(single) /\ new[q] = two
          /\ \A i \in 1..Len(single) : i # q => new[i] = single[i]
      BY <1>3, <2>3, <3>2, ReplacedAt
    <3>4. single[q].name = "--debugthreads"
      BY <1>2, <2>3, <2>4, <3>1, <3>2
    <3> HIDE DEF new
    <3>5. \A i \in 1..Len(single) :
             /\ new[i].name = single[i].name
             /\ single[i].name \in KeepOpts => new[i] = single[i]
      BY <1>3, <1>4, <3>3, <3>4
    <3>6. Fits(new, single)
      BY <2>3, <3>3, <3>5, ReplacedFits
    <3>7. Fits(new, current)
      BY <2>3, <2>5, <3>3, <3>6, FitsFurther
    <3>8. SingleThreaded = new
      BY <1>6, <2>6 DEF SingleThreaded, threads, debug, new, single, p, q, one, two
    <3> QED
      BY <3>3, <3>7, <3>8
  <2>7. CASE debug = {}
    <3> DEFINE q == p + 1
               new == InsertAt(single, q, two)
    <3>1. q \in 1..(Len(single) + 1)
      BY <1>1, <2>2, <2>3
    <3> HIDE DEF q
    <3>2. /\ new \in Seq(Options) /\ Len(new) = Len(single) + 1 /\ new[q] = two
          /\ \A i \in 1..(Len(single) + 1) : /\ i < q => new[i] = single[i]
                                             /\ i > q => new[i] = single[i - 1]
      BY <1>3, <2>3, <3>1, InsertedAt
    <3> HIDE DEF new
    <3>3. Places(single, {"--debugthreads"}) = {}
      <4>1. Places(single, {"--debugthreads"}) = debug
        BY <2>3, <2>4 DEF Places, debug
      <4> QED
        BY <2>7, <4>1
    <3>4. new[q].name \notin KeepOpts /\ Places(single, {new[q].name}) = {}
      BY <1>3, <1>4, <3>2, <3>3
    <3>5. Fits(new, single)
      BY <2>3, <3>1, <3>2, <3>4, AddedFits
    <3>6. Fits(new, current)
      BY <2>3, <2>5, <3>2, <3>5, FitsFurther
    <3>7. SingleThreaded = new
      BY <1>6, <2>7 DEF SingleThreaded, threads, debug, new, single, p, q, one, two
    <3> QED
      BY <3>2, <3>6, <3>7
  <2> QED
    BY <2>6, <2>7
<1> QED
  BY <1>5, <1>6

LEMMA OptNextInv == OptIndInv /\ [OptNext]_opt_vars => OptIndInv'
<1> SUFFICES ASSUME OptIndInv, [OptNext]_opt_vars PROVE OptIndInv'
  OBVIOUS
<1>1. current \in Seq(Options)
  BY DEF OptIndInv, OptTypeOK
<1>2. CASE DetectMode
  BY <1>2, DetectInv
<1>3. CASE TryDrop
  BY <1>3, TryDropInv
<1>4. CASE SkipKept
  BY <1>4, SkipKeptInv
<1>5. CASE DropDone
  BY <1>5, DropDoneInv
<1>6. CASE ZeroTd
  <2>1. "--td" \notin KeepOpts /\ Opt("--td", "0") \in Options
    BY DEF KeepOpts, Options
  <2>2. Zeroed("--td") \in Seq(Options) /\ Fits(Zeroed("--td"), current)
    BY <1>1, <2>1, ZeroedFits
  <2> QED
    BY <1>6, <2>2, SimplifyInv DEF ZeroTd
<1>7. CASE ZeroArjun
  <2>1. "--arjun" \notin KeepOpts /\ Opt("--arjun", "0") \in Options
    BY DEF KeepOpts, Options
  <2>2. Zeroed("--arjun") \in Seq(Options) /\ Fits(Zeroed("--arjun"), current)
    BY <1>1, <2>1, ZeroedFits
  <2> QED
    BY <1>7, <2>2, SimplifyInv DEF ZeroArjun
<1>8. CASE SetThreads
  <2>1. SingleThreaded \in Seq(Options) /\ Fits(SingleThreaded, current)
    BY <1>1, SingleThreadedFits
  <2> QED
    BY <1>8, <2>1, SimplifyInv DEF SetThreads
<1>9. CASE UNCHANGED opt_vars
  BY <1>9 DEF opt_vars, run, OptIndInv, OptTypeOK, KnownToPreserve, Tried, Settled, Fits, KeepOpts
<1> QED
  BY <1>2, <1>3, <1>4, <1>5, <1>6, <1>7, <1>8, <1>9 DEF OptNext, OptDone

LEMMA OptInvariance == OptSpec => []OptIndInv
BY OptInitInv, OptNextInv, PTL DEF OptSpec

\* minim_opts.py and its two variants: the current command was run and had the
\* result of the original one, or nothing was changed but that tokens were lost in
\* parse_command.
THEOREM CommandsPreserve == OptSpec => []CurrentPreserves
<1>1. OptIndInv => CurrentPreserves
  BY DEF OptIndInv, KnownToPreserve, CurrentPreserves
<1> QED
  BY <1>1, OptInvariance, PTL

\* One pass over the options: of those left when the second pass starts, each that
\* may be dropped has a command on record that lacks it and has all the others, and
\* that lost the result.
THEOREM OptionsAreNeeded == OptSpec => []NoOptionTooMany
<1>1. OptIndInv => NoOptionTooMany
  <2> SUFFICES ASSUME OptIndInv, pass = "td", NEW o \in ToSet(current), o.name \notin KeepOpts
               PROVE  \E c \in DOMAIN answers :
                         /\ Includes(c, Without(current, {o.name}))
                         /\ ~Preserves(mode, answers[c])
    BY DEF NoOptionTooMany
  <2>1. /\ ToSet(current) \subseteq ToSet(options)
        /\ \A j \in 1..Len(options) :
              options[j].name \notin KeepOpts => Settled(options[j].name)
    BY DEF OptIndInv, Tried
  <2>2. PICK j \in 1..Len(options) : options[j] = o
    BY <2>1, LenProperties DEF ToSet, OptIndInv, OptTypeOK
  <2>3. Settled(o.name)
    BY <2>1, <2>2
  <2> QED
    BY <2>3 DEF Settled
<1> QED
  BY <1>1, OptInvariance, PTL

\* The second pass: whatever the command is, no option is given more often than it
\* was, but once for one that was not there, and those that are always kept stand in
\* their order.
THEOREM OptionsStayInPlace == OptSpec => []OptionsInPlace
<1>1. OptIndInv => OptionsInPlace
  <2> SUFFICES ASSUME OptIndInv PROVE OptionsInPlace
    OBVIOUS
  <2>1. ASSUME NEW name
        PROVE  Cardinality(Places(current, {name}))
                  <= Max({1, Cardinality(Places(options, {name}))})
    <3> DEFINE a == Cardinality(Places(current, {name}))
               b == Cardinality(Places(options, {name}))
    <3>1. a \in Nat /\ b \in Nat
      BY PlacesTyped DEF OptIndInv, OptTypeOK
    <3>2. a <= b \/ a <= 1
      BY DEF OptIndInv, Fits
    <3> HIDE DEF a, b
    <3>3. Max({1, b}) = IF b >= 1 THEN b ELSE 1
      BY <3>1 DEF Max
    <3>4. a <= Max({1, b})
      BY <3>1, <3>2, <3>3
    <3> QED
      BY <3>4 DEF a, b
  <2> QED
    BY <2>1 DEF OptionsInPlace, OptIndInv, Fits
<1> QED
  BY <1>1, OptInvariance, PTL
=============================================================================
