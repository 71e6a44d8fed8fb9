------------------------------ MODULE OptMinim ------------------------------
(***************************************************************************)
(* minim_opts.py, minim_opts_crash.py and minim_opts_count.py: leaving out *)
(* options of a command, then setting three of them to values that make    *)
(* the counter simpler.                                                    *)
(*                                                                         *)
(* The name of the counter and the file stay what they are: a command is   *)
(* the sequence of its options.  The counter is external: the answer to a  *)
(* command is any of Answers, and the same whenever it is run.             *)
(*                                                                         *)
(* This is a component: minim_all.py starts one of the three first.        *)
(***************************************************************************)
EXTENDS Integers, Sequences, SequencesExt, FiniteSetsExt

CONSTANTS
    CmdOptions,  \* the options of the original commands
    MaxOptions,  \* bound: how many of them a command has
    Stray        \* tokens without "--" that are no value: "-s", for example

ASSUME OptionsAssumption == MaxOptions \in Nat

VARIABLES
    script,    \* "opts", "crash" or "count": which of the three it is
    monotone,  \* does the result of the counter last when options are added?
    cmd,       \* the original command
    options,   \* what parse_command makes of it
    mode,      \* what minim_opts.py preserves; the others have one mode each
    pass,
    k,         \* the index of the first loop
    current,
    answers   \* of the commands run so far

run == <<script, monotone, cmd>>

opt_vars == <<run, options, mode, pass, k, current, answers>>

Opt(name, val) == [name |-> name, val |-> val]

\* Of a count it matters whether counts_close takes it for the original one.  A
\* run that times out neither crashes nor counts.
Answers == [crash : BOOLEAN, same_count : BOOLEAN]

Modes == CASE script = "opts" -> {"crash", "count"}
           [] script = "crash" -> {"crash"}
           [] script = "count" -> {"count"}

\* property_preserved: a count is looked for whatever the exit code was.
Preserves(m, answer) == IF m = "crash" THEN answer.crash ELSE answer.same_count

KeepOpts == IF script = "crash" THEN {"--mode"} ELSE {"--mode", "--verb"}

\* Where a command has options of these names.
Places(command, names) == {j \in 1..Len(command) : command[j].name \in names}

\* The i-th of these places.
Nth(places, i) == CHOOSE j \in places : Cardinality({l \in places : l <= j}) = i

\* The options at these places, in their order.
At(command, places) == [i \in 1..Cardinality(places) |-> command[Nth(places, i)]]

Only(command, names) == At(command, Places(command, names))

Without(command, names) == At(command, (1..Len(command)) \ Places(command, names))

\* parse_command: a token that neither starts with "--" nor follows one that does
\* is left out.
Parse(command) == Without(command, Stray)

OptInit ==
    /\ script \in {"opts", "crash", "count"}
    /\ monotone \in BOOLEAN
    /\ cmd \in UNION {[1..m -> CmdOptions] : m \in 0..MaxOptions}
    /\ options = Parse(cmd)
    /\ mode = "unknown"
    /\ pass = "start"
    /\ k = 1
    /\ current = options
    /\ answers = <<>>

-----------------------------------------------------------------------------

\* Does command have every option of part, with the same values?
Includes(command, part) == ToSet(part) \subseteq ToSet(command)

\* command is run and has this answer.
Answered(command, answer) ==
    /\ command \in DOMAIN answers => answer = answers[command]
    /\ answers' = [c \in DOMAIN answers \union {command} |->
                       IF c = command THEN answer ELSE answers[c]]

\* If the result is monotone, a command has it when some part of it has.
Consistent(m) ==
    monotone => \A c, d \in DOMAIN answers' :
                   Preserves(m, answers'[d]) /\ Includes(c, d) =>
                       Preserves(m, answers'[c])

\* The original command is run; minim_opts.py looks for a crash first.
DetectMode ==
    /\ pass = "start"
    /\ \E answer \in Answers :
          /\ Answered(cmd, answer)
          /\ mode' = IF "crash" \in Modes /\ answer.crash THEN "crash"
                     ELSE IF "count" \in Modes /\ answer.same_count THEN "count"
                     ELSE "unknown"
    /\ pass' = IF mode' = "unknown" THEN "refused" ELSE "drop"
    /\ UNCHANGED <<run, options, k, current>>

\* trial becomes the current command if the result is preserved.
Try(trial) ==
    \E answer \in Answers :
        /\ Answered(trial, answer)
        /\ Consistent(mode)
        /\ current' = IF Preserves(mode, answer) THEN trial ELSE current

\* Mutant: the options that were dropped before come back.
TryDropForgets ==
    /\ pass = "drop"
    /\ k <= Len(options)
    /\ options[k].name \notin KeepOpts
    /\ Try(Without(options, {options[k].name}))
    /\ k' = k + 1
    /\ UNCHANGED <<run, options, mode, pass>>

\* Mutant: what was tried is kept when the result was lost.
TryDropInverted ==
    /\ pass = "drop"
    /\ k <= Len(options)
    /\ options[k].name \notin KeepOpts
    /\ \E answer \in Answers :
          LET trial == Without(current, {options[k].name})
          IN /\ Answered(trial, answer)
             /\ Consistent(mode)
             /\ current' = IF Preserves(mode, answer) THEN current ELSE trial
    /\ k' = k + 1
    /\ UNCHANGED <<run, options, mode, pass>>

\* One option is left out, wherever it occurs.
TryDrop ==
    /\ pass = "drop"
    /\ k <= Len(options)
    /\ options[k].name \notin KeepOpts
    /\ Try(Without(current, {options[k].name}))
    /\ k' = k + 1
    /\ UNCHANGED <<run, options, mode, pass>>

SkipKept ==
    /\ pass = "drop"
    /\ k <= Len(options)
    /\ options[k].name \in KeepOpts
    /\ k' = k + 1
    /\ UNCHANGED <<run, options, mode, pass, current, answers>>

DropDone ==
    /\ pass = "drop"
    /\ k > Len(options)
    /\ pass' = "td"
    /\ UNCHANGED <<run, options, mode, k, current, answers>>

-----------------------------------------------------------------------------
(***************************************************************************)
(* The second pass.                                                        *)
(***************************************************************************)

\* Mutant: the option is added although it is there.
ZeroedAppends(name) == Append(current, Opt(name, "0"))

\* --td 0, then --arjun 0: the first occurrence is set; minim_opts_count.py does
\* not add the option when there is none.
Zeroed(name) ==
    IF Places(current, {name}) # {}
    THEN ReplaceAt(current, Min(Places(current, {name})), Opt(name, "0"))
    ELSE IF script = "count" THEN current
    ELSE Append(current, Opt(name, "0"))

\* --threads 1 --debugthreads 1, on the last occurrence of each, if --threads is
\* there.
SingleThreaded ==
    LET threads == Places(current, {"--threads"})
        debug == Places(current, {"--debugthreads"})
        single == ReplaceAt(current, Max(threads), Opt("--threads", "1"))
    IN IF threads = {} THEN current
       ELSE IF debug # {}
       THEN ReplaceAt(single, Max(debug), Opt("--debugthreads", "1"))
       ELSE InsertAt(single, Max(threads) + 1, Opt("--debugthreads", "1"))

\* The command is run if the change makes a difference.
Simplify(step, trial, next) ==
    /\ pass = step
    /\ IF trial = current THEN UNCHANGED <<current, answers>> ELSE Try(trial)
    /\ pass' = next
    /\ UNCHANGED <<run, options, mode, k>>

ZeroTd == Simplify("td", Zeroed("--td"), "arjun")

ZeroArjun == Simplify("arjun", Zeroed("--arjun"), "threads")

SetThreads == Simplify("threads", SingleThreaded, "done")

OptDone == pass \in {"done", "refused"} /\ UNCHANGED opt_vars

OptNext ==
    \/ DetectMode \/ TryDrop \/ SkipKept \/ DropDone
    \/ ZeroTd \/ ZeroArjun \/ SetThreads \/ OptDone

OptSpec == OptInit /\ [][OptNext]_opt_vars

-----------------------------------------------------------------------------
(***************************************************************************)
(* Properties.                                                             *)
(***************************************************************************)

\* At every moment the current command was run and had the result of the original
\* one, unless nothing was changed but that stray tokens were lost.
CurrentPreserves ==
    mode # "unknown" =>
        \/ current = options /\ options # cmd
        \/ current \in DOMAIN answers /\ Preserves(mode, answers[current])

\* If the result lasts when options are added, one try for each option is enough:
\* of what is left, no option that may be dropped can be.
NoOptionTooMany ==
    monotone /\ pass = "td" =>
        \A o \in ToSet(current) : o.name \notin KeepOpts =>
            \E c \in DOMAIN answers :
                /\ Includes(c, Without(current, {o.name}))
                /\ ~Preserves(mode, answers[c])

\* The second pass replaces options in place: no option is given twice that was
\* given once, and none of those that are always kept is lost or moved.
OptionsInPlace ==
    /\ \A o \in ToSet(current) :
          Cardinality(Places(current, {o.name}))
             <= Max({1, Cardinality(Places(options, {o.name}))})
    /\ Only(current, KeepOpts) = Only(options, KeepOpts)

=============================================================================
