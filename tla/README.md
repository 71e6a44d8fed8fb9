# A verification of count_fuzzer

count_fuzzer generates random CNF formulas, runs the model counters ganak and
approxmc on them and compares the counts (`fuzz.py`), and shrinks what it finds
(`minim_*.py`). This directory holds TLA+ models of its parts, the TLC runs that
check them, and proofs.

## 1. The system and its parts

| part | source | state it keeps | operations | interaction |
|---|---|---|---|---|
| one test | `fuzz.py` `one_test` and what it calls | the `FuzzTest` `t`: flags, solvers, files, counts, reference | draw, generate, choose solvers, preprocess, count, compare | calls the generators, arjun and the counters; reads and writes `out/` |
| files of `out/` | `fuzz.py` `unique_file`, `run_preprocs`, `cleanup` | the directory, shared by all processes | claim, write, unlink, leave behind | up to 24 processes share it without a lock |
| child processes | `fuzz.py` `run`, `_cleanup_and_exit` | `current_proc` | start, wait with a timeout, kill | SIGHUP and SIGTERM |
| counter output | `fuzz.py` `run_one_counter` | `count`, `unsat_found` | read a line | gives the test (ok, count) |
| file decoration | `fuzz.py` `add_*`, `check_*` | lines of the file | append show, no-touch, weights; check Arjun's output | |
| minim_cnf | `minim_cnf.py` | the clause list, granularity, files | remove a chunk, refine, repeat | runs the counter, is run by minim_all |
| minim_weights | `minim_weights.py` | the weight lines | remove one | same |
| minim_opts* | `minim_opts*.py` | the option list | remove, set | same |
| minim_all | `minim_all.py` | the command, the file | run each minimizer, verify, replace | subprocesses |
| solextend_fuzz | `solextend_fuzz.py` | files, solutions | preprocess, solve, extend, check | |
| generators | `cnf-fuzz-brummayer.py`, `cnf-fuzz-biere.cc` (and the same program as `generators/cnf-fuzz-biere.c`) | layers, nodes, clauses | generate | standard output |
| session | `fuzz_session_ganak.sh` | a tmux session | attach or create, open windows | starts the fuzz.py processes |

What is hard: several processes in one directory without locks, processes that
die at any moment, children that crash, hang or lie, a verdict that depends on
who answered, and loops over an arbitrary external program.
The properties that make each part correct, and where they are stated:

- *files of `out/`*: a file has one holder; nobody changes or removes the file of
  another process; a running process never loses track of a file; `cleanup` finds
  what it unlinks; the counters get complete files; the numbers only run out
  because of files left behind; every test ends (`OutDir`).
- *one test*: a mismatch is never reported of counters that are right; a passed
  test has no two exact counts that disagree and no unexplained approximate one;
  the counters chosen can read the file that was written; the program's own
  assertions hold; every test comes to a verdict (`Oracle`).
- *child processes and their output*: a count is that of a counter that ended by
  itself and said nothing worse; a timeout is never taken for a crash; signals
  leave no orphan; nothing hangs (`RunCounter`).
- *files of a test*: the generators' clauses are proper and define the circuit, the
  lines that fuzz.py appends fit together and to the header, a file of ours passes
  the checks that are made of Arjun's, and the generators end (`TestFile`).
- *solextend_fuzz*: an extended model is judged rightly although it was found on
  another file; which files a round leaves behind (`SolExtend`).
- *minimizers*: what is written crashes, is minimal in the sense the algorithm can
  promise, comes from the file that was given, and the loops end (`DeltaDebug`,
  `WeightMinim`, `OptMinim`, `MinimAll`).

## 2. Modules and the code they model

| module | models | code |
|---|---|---|
| `OutDir` | the files of `out/` under several processes | `fuzz.py` 54–62, 339–354, 867–911, 953–985, 1036–1057, 1185–1235 |
| `SlotOwner`, `OutDirOwners` | what `out/` promises: a pool of slots with one owner each; the refinement mapping from `OutDir` | the same |
| `Brummayer` | the random circuit and its Tseitin encoding | `cnf-fuzz-brummayer.py` from line 172 on |
| `Biere` | random clauses over layers of variables | `cnf-fuzz-biere.cc` from line 53 on |
| `TestFile` | the file of a test: `Brummayer` and `Biere` composed with `generate_cnf`, the lines it appends, and the checks of Arjun's output | `fuzz.py` 190–336, 783–899, 953–985 |
| `SolExtend` | `solextend_fuzz.py` | all of it but argument parsing and the random options |
| `Oracle` | one test from the draw to the verdict | `fuzz.py` 500–506, 612–613, 855–864, 934–1205 |
| `RunProc` | `run()`, the signal handler, the timing of `run_one_counter` | `fuzz.py` 49–62, 169–187, 660–678 |
| `CounterOutput` | the loop over the lines of a counter's output | `fuzz.py` 680–780 |
| `RunCounter` | `run_one_counter`: `RunProc` and `CounterOutput` composed | `fuzz.py` 648–780 |
| `DeltaDebug` | `minim_cnf.py` | all of it but argument parsing |
| `Greedy` | what a minimizer that tries every item once promises | – |
| `WeightMinim` | `minim_weights.py`, an implementation of `Greedy` | all of it but argument parsing |
| `OptMinim` | `minim_opts.py`, `minim_opts_crash.py`, `minim_opts_count.py` | all of them but argument parsing |
| `MinimAll` | `minim_all.py` | `main`, its verifications and its files |
| `MCOutDir`, `MCTestFile`, `MCSolExtend`, `MCOracle`, `MCOptMinim` | the instances TLC checks | – |
| `OutDirProofs`, `TestFileProofs`, `SolExtendProofs`, `OracleProofs`, `RunCounterProofs`, `DeltaDebugProofs`, `WeightMinimProofs`, `MinimAllProofs` | theorems and proofs of the module of that name; those of `Greedy` are in `WeightMinimProofs` | – |

Definitions whose comment begins with "Mutant:" are not part of a model. Each is
one of its definitions with a plausible bug; replacing the definition by it makes
a property fail, which shows that the property depends on that code.

**`OutDir`.** Slot *k* is the path `out/fuzzTest_<k>.cnf`. A file has an author
and abstract contents: empty, the formula, Arjun's output. Each process has a
program counter (`loop`, `claim`, `generate`, `preproc`, `copy`, `runs`,
`cleanup`, `exited`), the local counter of `unique_file`, and in `held` the paths
that the `FuzzTest` object keeps. One iteration of `unique_file`'s loop is one
action (`ClaimHit`, `ClaimMiss`, `GiveUp`), since other processes claim and unlink
between two of them; each `unlink` of `cleanup` is one. `Signal` may end a
process anywhere, `Restart` starts another one in its window. `left` is a history
variable: the files that exits abandoned. The generator always writes a formula
here; what a signalled one leaves is in `TestFile`.

**`TestFile`, `Brummayer`, `Biere`.** `gen` says which generator runs and in which
phase; a generator has its own state (`nodes`, the stack and the clauses of the
search; the layers, the loop counters, the marks and the array of Biere), and
`TestFile` starts it, lets it run beside the rest and takes its output when it
ends. Node *k* of the Python list is `nodes[k + 1]`. One iteration of each loop is
an action: a random clause of Brummayer begins with one (`BeginRClause`; `places`
is how many of its literals are still to come) and each literal is one, like each of
Biere's, whose array and marks outlive a clause. Biere has one or two layers, as
`pick(1,2)` gives. `StartWeights` chooses which of the weight loops runs, `WeightVar`
is one variable of those in `rest`, `WeightsDone` ends it. The file is reduced to
what `fuzz.py` reads of it again: header, number of lines, largest variable, and
the `c t`, show, no-touch and weight lines, `NoLine` where there is none. `cut` is a history
field: a signal stopped Brummayer after its header and before its last clause. Its
handler exits with status 0, and what was printed so far is written (`PrintedSoFar`):
nothing, a header with or without the line `c t`, or all but the clause of the root. A signal
comes between two prints; the text of the clauses is one write. Brummayer draws an
operand again until it differs from the other one; that loop, which ends with
probability one, is a choice of two different operands. The flags of the test are drawn when
the generator ends, where they matter first; that keeps the generators' states from
being multiplied. Arjun is external: `Outputs` is the file, an empty one, and
the file with each of the defects that the checks look for. The abstraction of
Biere's file while it is being written (`LayersRun`) is the number of lines and the
largest variable; its clauses are checked as they are printed.

**`SolExtend`.** `dir` has the names of `out/`, ours or an earlier process's, and
`held` the names in the program's variables. `solver` is whether the global
variable of that name exists, on which a message of `run_one_preproc` depends.
CaDiCaL and solextend print any lines; `Solution` is the dictionary made of the
literals, with the later ones overwriting the earlier ones. The directory is
scanned in one step here, since `OutDir` is about processes that scan it together.

**`Oracle`.** A count is a number of units; for weighted counts a unit is a
fraction of 1e-10, so that the absolute slack of `compare_counts` (`FloatSlack`)
is a number of units too. `t` is the `FuzzTest`, `file` what `generate_cnf`
appended. A run of a counter answers any count, gives none, or crashes. A rerun of the
approximate counter is two steps, `BeginRerun` and what `run_one_counter` then gives: a
count, none, or the end of the program. So a loop that goes round and changes nothing is
a sequence of steps, which fairness and `Concludes` see, and not a stuttering step that
they do not. The size of a signed or complex count stands for it, and `rerun` is what the
last reruns came to. The model has no true count: `NoFalseAlarm` says that for each
one it could be (`Truths`), the counters that gave what they gave were not all right. Division by
zero in `check_approx` is one of the ways in which a test ends.

**`RunCounter`.** `RunProc` has the main program inside `run()` and, above it, the
signal handler; `interrupted` is where the handler was entered. `Popen.wait` and
`poll` take a lock that is not reentrant around `waitpid`. If the signal comes while
the main program is inside, `poll` answers None for a process that is dead and
`wait` never returns (`HandlerStuck`). `CounterOutput` gives a line as its kind and its
number. `Call`, `Answer` and `ReadOutput` compose the two: `run_one_counter`
classifies what `run()` returned and reads the output only if the run was neither
slow nor crashed. What the model calls a place between two steps is a moment at
which Python may run the handler.

**`DeltaDebug`.** Clauses are named by their place in the file. What is run first is the
file itself, and later what `write_cnf_file` makes of the clauses read from it: without
empty clauses and most comments, with a true header, the special lines sorted around the
clauses. `differs` is whether that is another file; if it is, the first answer says nothing
of the list of all clauses. `answers` is what
the counter last said of every list it ran on; a deterministic counter repeats
itself, a flaky one need not. `pc` is the loop that is at work: the rounds of
`minimize_clauses`, the granularities and the passes of `delta_debug_minimize`.
`saved` is the files `<base>-<k>.cnf` and, as -1, the output. A file is written
in one step; a kill in the middle of a write is not covered.

**`Greedy` and `WeightMinim`.** `Greedy` has the items left (`kept`) and those
whose removal was not tried (`untried`), and tries them in any order. The Python
loop has a list that shrinks under its index; `WeightMinim` maps the lines at and
behind the index to `untried`. The counter is a function of the set of lines,
chosen in the initial state among all functions.

**`OptMinim`.** One module for the three scripts; `script` tells them apart (what
they preserve, which options they always keep, whether they add an option that is
missing). `answers` is what the counter said of each command. With `monotone` an
option that is added never takes the result away. Filtering a command is leaving
out places of it: `At` gives the options at those that stay, `Nth` the place of each
rank, so that what a filter leaves can be reasoned about without recursion.

**`MinimAll`.** A file is named by the suffixes that were put before `.cnf`, and
its content is how it was made: from the original, or `Stale`, by an earlier run.
The minimizers are represented by what they leave: a command, a file, or nothing,
with any outcome that the counter may have on it. `minim_cnf.py` also leaves the
files `<base>-<k>.cnf` it saves on its way (`Intermediates`), which nobody removes. A
minimizer that does not exit with 0 has refused a command that does not crash
(`MinimizerRefuses`), or died (`MinimizerDies`): before the last file it comes to, in the
middle of it (`Partial`), or after it. Times matter because the
scripts give the counter 10, 20 and 120 seconds. The backup of the original file
is not modelled, nothing reads it; nor is an exception in `run_minimizer_script`
itself, after which the minimizer would go on beside the next one.

## 3. Runs

| run | instance | what it shows |
|---|---|---|
| `out_dir` | 2 processes, one with `--seed`, 6 numbers, at most one file left behind | ownership, complete files, that `unique_file` gives up only because of leftovers, and that every test ends, under weak fairness of each process |
| `test_file` | circuits over one input referenced 3 times, up to 2 nodes and their join; layers of up to 3 variables; all lines and flags | proper clauses, circuits numbered and defined, our own file accepted unless a signal cut it short, lines that fit, generators that end |
| `sol_extend` | 6 names, 3 formulas, outputs of up to 3 lines | right verdicts, and what is left behind |
| `oracle` | all 7 modes, with `--buddy` and with the four flags that set weights and projection; up to 8 runs, 5 counts | no false alarm; what a pass means; modes fit the file, the assertions hold, every test comes to a verdict |
| `run_counter` | time limit of 8 half seconds, 2 signals, outputs of up to 3 lines | counts, failures, orphans, progress |
| `delta_debug` | up to 6 clauses, up to 5 if the counter is flaky, files that are rewritten as they were and others | 1-minimality, intermediate files, termination |
| `weights` | up to 4 weight lines, all 2^16 counters | minimality, and that the loop is `Greedy` |
| `options` | 3 scripts, commands of up to 3 of 7 options | results preserved, no option too many, nothing lost |
| `pipeline` | files with and without weights, any stale files, one intermediate file, runs of 10, 20 and 120 seconds | the final verification, file provenance, rejected files |
| `oracle_unweighted` | `--unweighted` | violated: see section 6 |
| `oracle_rerun` | default options | violated: see section 6 |
| `pipeline_timeout` | one minimizer that runs on | violated: see section 6 |

**Bounds and why they are enough.**

- `out_dir`: 6 numbers are what two processes can hold (3 files each), so that
  `unique_file` can only fail if files are left behind; one leftover makes it
  possible. `FewLeft` is a state constraint, and cuts the behaviours in which two or
  more files are left behind; they are those of a smaller directory, where no new
  kind of step appears. `TestEnds` is checked of the behaviours within the
  constraint. The safety properties that are proved hold for any numbers and
  without the constraint (section 5).
- `test_file`: one input that needs three references makes nodes whose operands are
  equal, opposite, shared and inputs; two nodes and their join have up to 12
  clauses, and 6 per cent round to one random clause if there are nine or more and
  to none otherwise. Two nodes are also the limit at which
  the generator gives up. The header has at most 4 variables: at most one no-touch
  variable is drawn then. Biere's clauses have 2 or 3 places of at most 3 variables,
  so that places are left empty and unused literals run out; two layers are needed
  for a literal of an earlier layer. The generators' assertions on random values
  bound all of these from above in the code (30000 nodes, layers of 50, 50 places).
- `sol_extend`: a round holds 4 names; with 6, and names that earlier processes
  took, slow runs of Arjun use them up. The formulas have one, no and several
  models; lines are SAT, UNSAT, an s line of another kind, an unknown line, a comment
  and v lines with a 0 in the middle, an opposite literal, or part of the variables.
- `MaxNumFiles` is 10000 in the code. Why 3 files per process are the most it
  can need although the scan is not atomic: a scanner passes slot *m* only if a
  file is there at that moment, so if there are files or scans at or beyond *m* at
  all, they are at most what all processes can have, less *m* - 1 (`ScanBound` in
  `OutDir`, proved as `ScansBounded`). The kept property is its consequence,
  `FullOnlyByLeftovers`.
- `oracle`: counts 200 and 201 differ by less than 2 per cent, 0 is the edge of the
  relative comparison, 600 is out of range for epsilon 0.8. With a slack of 10
  units, 0 and 5 are within it. `NumReruns` and `MaxFailed` are 100 and 5 in the
  code, 4 and 2 here; the percentages are computed from them as in the code. With a delta of
40 per cent one wrong rerun of four is within it and two are not.
- `run_counter`: a tick is half a second, the default limit of the tests 4 seconds
  in this scale; `maxtimediff` is 1 second. A second signal is needed because
  the handler itself waits. Three lines are enough for an answer, a contradiction
  of it and an error in any order.
- `delta_debug`: with 6 clauses the granularity takes the values 2, 4 and 8 and the
  chunks are of 3, 2 and 1 clauses, with a remainder. The answers are chosen when
  they are asked for, so that all 2^64 counters are covered.
- `options`: the 7 options are the three that are set to other values, one that is
  always kept, an ordinary one, `--debugthreads`, and a token that is lost on
  parsing; commands repeat options.
- `pipeline`: the times are at and beyond each of the limits. One intermediate file
  stands for any number: none of them is used again.

**Fairness.** `TestEnds` assumes that each process goes on (`WF_vars(Step(p))`):
every child it waits for has a time limit, except the generators, and they end by
`GeneratorEnds`, which assumes that the generator's process runs
(`WF_vars(Generator)`). Nothing is assumed of signals and restarts.
`Concludes` and `Terminates` assume that the program takes steps, since `run()`
and `subprocess.run` end every child. In `RunCounter` that a child ever ends by
itself is not assumed, only that time passes, that a killed process dies, and
that the program and its handler are scheduled.

## 4. Deadlock

All runs check deadlock. Specifications of programs that stop have an explicit
step for it (`Stopped`, `Done`, `Ended`, `Terminated`); `HandlerStuck` is the one hang that
is known, and `SignalTerminates` says exactly when it happens.

## 5. Proofs

The theorems hold for every value of the constants that the assumptions of the
modules allow. Four of these are more than types. `ProcAssumption` of `OutDir`:
there are finitely many processes, since they are counted. `FormulaAssumption`
of `SolExtend`: no clause has a literal and its opposite. The generators print
none, because `solextend_fuzz.py` and `fuzz.py` call them without `-t`; without it
`VerdictIsRight` would be false, as `test_found_solution` does not see that such a
clause is true while its variable is open. `SentinelsAssumption` of `OutDirOwners`: the
values that stand for "no owner" are no processes. `NoLineAssumption` of `TestFile`: the
value for a missing line is neither a list of numbers nor a header.

- **`OutDirProofs`**: types, `PlaceCorrect`, `MutualExclusion`, `NothingLost`,
  `CleanupSafe`, `Untouched`, `CompleteFiles`, `ScansBounded`, `NumbersSuffice`,
  `Implements`. `Exclusive` is not inductive: that a claim does not forget a path,
  and that a path is unlinked once, needs to know which paths are held at each
  place (`PlaceInv`), which needs the types. The inductive invariant is their
  conjunction with the accounting of leftovers. Steps are sorted by what they do to
  the directory (keep, rewrite, create, drop, leave behind), and each kind is
  treated once. On it rest what each file has in it at each place (`Written`) and
  the bound on scans for one slot at a time (`BoundAt`): a claim
  turns a scan into a file, and a scan only moves past a slot that has a file. `NumbersSuffice` is the case of the last number. For `Implements` the owner
  of a slot is who holds it (`OwnedIsHeld`), and every action of `OutDir` claims,
  gives back or leaves behind at most one slot, or stutters.
- **`TestFileProofs`**: `AllNodesNumbered` and `ClausesDefineCircuit`, for circuits of
  any size and both values of `-t` and `-m`. While the circuit grows, every node
  that is not waiting for a reference has one (`Graph`). The search is described by
  `Reaches`: the operands of a node that was entered are numbered or above it
  on the stack. This is not inductive by itself, since an operand that is entered
  already would come up before its own operands are numbered; no such operand
  exists because above a node that was entered only earlier nodes are on the stack
  (`Entered`). At the end all nodes are numbered: the last that is not would have a
  parent that is not (`AllReached`). `DefinitionMeans` says of the clauses of
  `and`, `or` and `iff`, with what is left out of them, that they are true exactly of
  the gate's value, also if operands are the same or opposite; `Meaning` adds that up.

  Also `ClausesAreProper`, `OwnFileIsAccepted` and `AppendedLinesFit`, for any number of
  inputs, layers, clauses and weight lines. None of the three properties is
  inductive, and each needs the one before it. `OwnFileIsAccepted` says that the header check
  passes exactly for a file that is not `cut`: one that is lacks the clause of the root. `CircuitLines`: Brummayer's clauses are
  as many as were counted and over the numbers given so far, the random clause in
  progress being the only one that may be short. `LayerInv`: Biere's marks are
  exactly the variables of the line, and the array finds each of them at a place before
  the one reached (`MarksFit`), so that a place that is passed over was set by the
  same line; the lines so far are what the layers above and the loop counters
  say (`FileSoFar`). `FileInv`: each step of `generate_cnf` finds a file with a true
  header and what the steps before it appended (`AtNoTouch`, `AtProjection`,
  `AtAppend`, `AtWeights`, `InWeighting`, `AtPreproc`). The invariant is `FileIndInv`,
  their conjunction with that of the circuit.
- **`SolExtendProofs`**: types, `VerdictsAreRight`, `LeaksAreCounted`. Where the program
  is says which names it holds (`HeldOK`), and what it has beside them is counted
  (`LostOK`). `ChecksAreSound` and `ChecksAreComplete` are about the check of a
  solution itself: for the second, all open variables are given the values that
  make the clause false.
- **`OracleProofs`**: types, `ModesFit`, `SelfChecksHold`, `NoAlarmIsFalse`, `PassesAgree`.
  The invariant follows the test: flags and file agree (`Drawn`), the solvers suit
  the flags, the reference is a count that was given and an exact one (`RefOK`), and
  what is before the cursor passed its comparison (`Compared`). The rest is
  arithmetic, whose core is `MatchesAgree`: two counts that match the reference are
  as close to each other as `PassMeansAgreement` says, within the slack.
- **`RunCounterProofs`**: `CountsAreEarned`, `FailuresAreOwn`, `CountsAreStated`,
  `NoneLeftBehind`. `ProcInv` says what is known of the child at each place of
  `run()` and of the handler above it; that a killed child was too slow
  (`KilledIsSlow`) is what keeps its output from being read. `OutInv` says what the
  lines read so far have made of `count` and `unsat_found`.
- **`DeltaDebugProofs`**: `ListsAreParts`, `OutputIsMinimal`, `SavedFilesCrash`,
  `WarningMeansUnreduced`, for files of any length and counters that answer anything.
  A flaky counter may overwrite its answers; so the argument is about the list the
  program would go on with (`Work`): what is tried is shorter than it, what was
  saved is at least as long. When the granularity *g* last fits, *g* <= *n* < 2*g*
  for *n* clauses, so the chunks are single clauses (`ChunkSizes`), and the last
  pass tried each of them (`Tried`, `Minimal`).
- **`WeightMinimProofs`**: leaving out the line at the index of an increasing list
  removes that line and no other (`WithoutLines`). With it the loop implements
  `Greedy` (`Refinement`). What was needed when it was tried is still needed
  when other lines have been removed, if the crash is monotone (`GreedyInv`); so one
  pass of `Greedy` is enough (`OnePassIsEnough`), and this carries over to the output
  (`OnePassIsMinimal`). `WarningMeansReordered` is the reason why the final warning
  of the script cannot come for a file that it wrote itself.
- **`MinimAllProofs`**: the outcome of the current command on the current file is
  always known and preserves the result (`Known`); hence the final verification
  cannot fail (`FinalVerificationHolds`), and the command runs on a file made from
  the original (`MadeFromOriginal`). The names of intermediate files grow by a suffix
  at a time, so a minimizer never overwrites a file in use, and a file
  that is rejected is removed; what stays unused is what `minim_cnf.py` saved on its
  way and what a minimizer that died has left (`NoRejectedFile`, from `FilesInv`). The first minimizer, `OptMinim`, is in this
  module too: `CommandsPreserve`, `OptionsAreNeeded` and `OptionsStayInPlace`, for
  commands of any length and any counter. `KnownToPreserve` is what is known of the
  counter's answer on the current command; `Fits` what may differ between it and the
  parsed options; `Tried` that each name that was tried is one that is always kept, or
  is gone, or the result was lost without it although all other options that are
  left were given (`Settled`). Later removals preserve that; that the option is
  needed at the end follows if the counter is monotone. What a filter leaves of a
  command is proved from the ranks of the places it keeps (`Lists`, `Moves`).

`CleanupSafe`, `ScansBounded` and the type invariants of most modules are proved and
not given to TLC as well. The invariants of `TestFileProofs` were checked by TLC on
the instance of section 3 (294031 states) before they were proved. Attempts at a
proof corrected two statements: `ScanBound` was wrong for more than 3 |`Proc`| + 1
numbers when there are no files or scans, and `VerdictIsRight` needs formulas without
tautologies.

All safety properties that the passing runs check are proved. Loops are one action
per iteration and filters are written by rank, so no proof needs an
induction over data. Only model-checked are `Concludes`, `GeneratorEnds`, `RunEnds`,
`SignalTerminates`, `Terminates` and `TestEnds`: liveness under fairness is out of reach of
the proof system.

## 6. Where the code and what is said of it disagree

Checked by runs that are expected to fail:

- `oracle_unweighted`: "only unweighted" (`README.md`), but complex weights are
  drawn independently of `--unweighted` (`fuzz.py:947`).
- `oracle_rerun`: "ERROR: rerun failed?" (`fuzz.py:1140`) can never be printed, since
  a failed rerun has no count and is skipped first (`fuzz.py:1135`).
- `pipeline_timeout`: the "10 minute timeout" of `minim_all.py:187` starts when the
  minimizer has closed its output.

Met while modelling, in the models, and not given a run of their own:

- `--mode 1` runs mode 7 as well, `--mode 2` mode 6 (`fuzz.py:1016–1019`), although
  the help says "ONLY this ganak mode".
- `c s exact arb cpx` replaces a count that was read before without the error for
  two counts (`fuzz.py:706–711`, `717`); `CountIsStated` says so.
- A single pass of `minim_weights.py` or `minim_opts*.py` is not minimal if the
  crash is not monotone; `MinimalIfMonotone` and `NoOptionTooMany` say so.
- `minim_cnf.py` reads a file and writes it again without its empty clauses (line 59) and
  most comments, and with the special lines in another place (`differs`), and
  `minim_opts*.py` drop tokens like `-s 42` on parsing, before anything is run.
- `minim_all.py:8` promises weights and clauses minimized for counts as well; both
  scripts refuse a command that does not crash.
- A signal between `Popen` and the assignment of `current_proc` leaves the counter
  running (`fuzz.py:177`), and one that interrupts `waitpid` hangs the handler
  (`fuzz.py:57`).
- A complex test without weights gets the line `c t mc` (or `pmc`) although weight
  lines follow (`fuzz.py:314`); `LinesFit` excepts it.
- The help of `--nomessyweight` (`fuzz.py:110`), "weights are NOT fully given",
  describes what the default does (`fuzz.py:206–213`); the option gives them fully
  (214–218); the defaults in the usage text of
  `cnf-fuzz-brummayer.py` are not the ones it has.
- Brummayer's signal handler exits with status 0 (`cnf-fuzz-brummayer.py:89–95`), and what
  was printed is written: the test goes on with an empty file, or with a header
  and too few clauses (409–416). An empty file ends it at
  `get_nvars` if lines are to be appended; otherwise Arjun and the counters get
  it. With the other, `check_header` would blame Arjun for the missing clauses. An empty
  output of Arjun with status 0 is accepted if there are no no-touch
  variables (`check_header` finds 0 of 0 clauses).
- `solextend_fuzz.py`: in the first round a slow Arjun ends the program with a
  `NameError` (line 371, the global `solver` does not exist yet), in later ones the
  reconstruction stays in `out/` (435); a solver that is too slow is reported as
  UNSAT (444); what solextend says, SAT or UNSAT, is not looked at (442).
- A file without clauses makes `minim_cnf.py` divide by zero after its output is
  written; an approximate count of 0 does the same in `check_approx`.

## 7. Not modelled

- Formatting, colours and the parsing of numbers; command line parsing.
- The strings of the random options of ganak and arjun (only `--appmct` changes what
  a counter is), and those of `solextend_fuzz.py`.
- The values of weights: no check of `fuzz.py` looks at them again. XOR clauses
  in `solextend_fuzz.py`: the generators write none.
- `fuzz_session_ganak.sh`: a loop that opens windows of tmux. Its own state is
  tmux's; of what it starts, `OutDir` has the processes and their restarts. Two
  users who start it at once may both find no session (lines after 18); tmux
  refuses the second.
- `CMakeLists.txt` and the other build files; commands with two CNF files in
  `minim_all.py`.

## 8. Plan

Done, in this order: `OutDir` with `SlotOwner` (most of the concurrency),
`Oracle` (the purpose of the program), `DeltaDebug`, `WeightMinim` with `Greedy`,
`OptMinim`, `MinimAll`, `RunProc` and `CounterOutput` with `RunCounter`,
`Brummayer` and `Biere` with `TestFile`, `SolExtend`.

The proofs came after that, module by module: `OutDir`, `WeightMinim` with `Greedy`,
`MinimAll`, `RunCounter`, `Oracle`, `DeltaDebug`, `SolExtend`, `TestFile`.

`TestFile` and `OptMinim` came last: folds over sequences had to be replaced by
actions and ranks first.

What is left are two hazards without a property: a counter that crashes after
`maxtime - 1` seconds passes for a slow one, since the time is looked at before the
exit code (`fuzz.py:672`), and the division by zero of section 6 (`minim_cnf.py:251`),
after which nothing is written any more.
