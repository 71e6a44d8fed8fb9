------------------------------ MODULE RunProc -------------------------------
(***************************************************************************)
(* fuzz.py's run(), the SIGHUP and SIGTERM handler, and what the caller of *)
(* run() makes of the time it took: one process, the child it runs, and    *)
(* signals at any moment.  RunCounter makes a specification of it.         *)
(*                                                                         *)
(* Python runs the handler between any two steps of the main program, and  *)
(* from within the waitpid that Popen.wait and communicate are blocked in. *)
(* Popen makes every waitpid under a lock that is not reentrant: while one *)
(* is interrupted, poll knows nothing and another wait never returns.      *)
(***************************************************************************)
EXTENDS Naturals

CONSTANTS
    MaxTime,      \* options.maxtime
    MaxTimeDiff,  \* maxtimediff
    MaxElapsed,   \* bound: how long a run is followed
    MaxSignals    \* bound: how many signals arrive

ASSUME TimeAssumption ==
    /\ MaxTime \in Nat /\ MaxTimeDiff \in 1..MaxTime /\ MaxElapsed \in Nat
    /\ MaxSignals \in Nat

VARIABLES
    pc,            \* the main program and, above it, the handler
    interrupted,   \* where the handler was entered
    child,         \* the process run last: is it alive, and how did it end?
    current_proc,  \* is it set?
    elapsed,       \* time.time() - curr_time, 0 where it is not looked at
    timed_out,     \* does out start with "TIMEOUT"?
    result,        \* of the last run
    signals        \* how many have arrived

proc_vars == <<pc, interrupted, child, current_proc, elapsed, timed_out, result, signals>>

MainPlaces == {"idle", "started", "communicate", "reap", "timeout", "drain", "reap killed",
         "reaped", "classify"}

HandlerPlaces == {"handler", "handler kill", "handler wait"}

\* Popen is inside waitpid, with its lock, to fetch an exit status.
InWaitpid(place) == place \in {"reap", "reap killed"}

Dead == {"exited", "crashed", "killed"}

ProcInit ==
    /\ pc = "idle"
    /\ interrupted = "nowhere"
    /\ child = "none"
    /\ current_proc = FALSE
    /\ elapsed = 0
    /\ timed_out = FALSE
    /\ result = "none"
    /\ signals = 0

-----------------------------------------------------------------------------
(***************************************************************************)
(* The world: the child, the clock, the signals.                           *)
(***************************************************************************)

\* The child may end at any moment, or never.
ChildEnds ==
    /\ child = "running"
    /\ child' \in {"exited", "crashed"}
    /\ UNCHANGED <<pc, interrupted, current_proc, elapsed, timed_out, result, signals>>

\* SIGKILL takes effect some time after it was sent.
ChildDies ==
    /\ child = "dying"
    /\ child' = "killed"
    /\ UNCHANGED <<pc, interrupted, current_proc, elapsed, timed_out, result, signals>>

Tick ==
    /\ pc \in MainPlaces \ {"idle"}
    /\ elapsed < MaxElapsed
    /\ elapsed' = elapsed + 1
    /\ UNCHANGED <<pc, interrupted, child, current_proc, timed_out, result, signals>>

\* A signal enters the handler.  One that finds the handler in its own wait
\* interrupts a waitpid again.
Signal ==
    /\ signals < MaxSignals
    /\ pc \in MainPlaces \union {"handler wait"}
    /\ signals' = signals + 1
    /\ interrupted' = IF pc \in MainPlaces THEN pc ELSE "reap killed"
    /\ pc' = "handler"
    /\ UNCHANGED <<child, current_proc, elapsed, timed_out, result>>

-----------------------------------------------------------------------------
(***************************************************************************)
(* run() and its caller.                                                   *)
(***************************************************************************)

\* curr_time = time.time(); Popen.
Start ==
    /\ pc = "idle"
    /\ pc' = "started"
    /\ child' = "running"
    /\ elapsed' = 0
    /\ timed_out' = FALSE
    /\ result' = "none"
    /\ UNCHANGED <<interrupted, current_proc, signals>>

\* Mutant: current_proc is set after communicate only.
AssignLate ==
    /\ pc = "started"
    /\ pc' = "communicate"
    /\ UNCHANGED <<interrupted, child, current_proc, elapsed, timed_out, result, signals>>

Assign ==
    /\ pc = "started"
    /\ current_proc' = TRUE
    /\ pc' = "communicate"
    /\ UNCHANGED <<interrupted, child, elapsed, timed_out, result, signals>>

\* communicate has read everything there is and waits for the child, which closes
\* its output some time before it is dead.
OutputEnds ==
    /\ \/ pc = "communicate" /\ child \in Dead
       \/ pc = "drain" /\ child # "running"
    /\ pc' = IF pc = "communicate" THEN "reap" ELSE "reap killed"
    /\ UNCHANGED <<interrupted, child, current_proc, elapsed, timed_out, result, signals>>

Reap ==
    /\ InWaitpid(pc)
    /\ child \in Dead
    /\ pc' = "reaped"
    /\ UNCHANGED <<interrupted, child, current_proc, elapsed, timed_out, result, signals>>

TimeoutExpired ==
    /\ pc = "communicate"
    /\ elapsed >= MaxTime
    /\ pc' = "timeout"
    /\ UNCHANGED <<interrupted, child, current_proc, elapsed, timed_out, result, signals>>

\* Mutant: the child is not killed before its output is read to the end.
KillNot ==
    /\ pc = "timeout"
    /\ timed_out' = TRUE
    /\ pc' = "drain"
    /\ UNCHANGED <<interrupted, child, current_proc, elapsed, result, signals>>

\* A child that has ended in the meantime is not killed.
Kill ==
    /\ pc = "timeout"
    /\ child' = IF child = "running" THEN "dying" ELSE child
    /\ timed_out' = TRUE
    /\ pc' = "drain"
    /\ UNCHANGED <<interrupted, current_proc, elapsed, result, signals>>

Reset ==
    /\ pc = "reaped"
    /\ current_proc' = FALSE
    /\ pc' = "classify"
    /\ UNCHANGED <<interrupted, child, elapsed, timed_out, result, signals>>

\* Mutant: the time limit itself is not too slow.
TooSlowAbove == elapsed > MaxTime

TooSlow == elapsed > MaxTime - MaxTimeDiff

\* run_one_counter: too slow, crashed, or there is an output to be read.
Classify ==
    /\ pc = "classify"
    /\ result' = IF TooSlow THEN "too slow"
                 ELSE IF child # "exited" /\ ~timed_out THEN "crashed"
                 ELSE "output"
    /\ pc' = "idle"
    /\ elapsed' = 0
    /\ UNCHANGED <<interrupted, child, current_proc, timed_out, signals>>

-----------------------------------------------------------------------------
(***************************************************************************)
(* _cleanup_and_exit                                                       *)
(***************************************************************************)

\* current_proc is not None and current_proc.poll() is None
HandlerPolls ==
    /\ pc = "handler"
    /\ pc' = IF current_proc
                /\ (InWaitpid(interrupted) \/ child \in {"running", "dying"})
             THEN "handler kill" ELSE "terminated"
    /\ UNCHANGED <<interrupted, child, current_proc, elapsed, timed_out, result, signals>>

\* Mutant: the handler asks the child to end and waits.
HandlerKillsNot ==
    /\ pc = "handler kill"
    /\ pc' = "handler wait"
    /\ UNCHANGED <<interrupted, child, current_proc, elapsed, timed_out, result, signals>>

HandlerKills ==
    /\ pc = "handler kill"
    /\ child' = IF child = "running" THEN "dying" ELSE child
    /\ pc' = "handler wait"
    /\ UNCHANGED <<interrupted, current_proc, elapsed, timed_out, result, signals>>

\* sys.exit(0) after the wait has returned.
HandlerWaits ==
    /\ pc = "handler wait"
    /\ ~InWaitpid(interrupted)
    /\ child \in Dead
    /\ pc' = "terminated"
    /\ UNCHANGED <<interrupted, child, current_proc, elapsed, timed_out, result, signals>>

HandlerStuck == pc = "handler wait" /\ InWaitpid(interrupted) /\ UNCHANGED proc_vars

Terminated == pc = "terminated" /\ UNCHANGED proc_vars

\* What run() does between the fork and the answer.
Await == Assign \/ OutputEnds \/ Reap \/ TimeoutExpired \/ Kill \/ Reset

Handle == HandlerPolls \/ HandlerKills \/ HandlerWaits

World == ChildEnds \/ ChildDies \/ Tick \/ Signal

Rest == HandlerStuck \/ Terminated

=============================================================================
