----------------------------- MODULE RunCounter -----------------------------
(***************************************************************************)
(* fuzz.py's run_one_counter, again and again: run() starts the counter    *)
(* and waits for it (RunProc), and the output of one that ended in time is *)
(* read line by line (CounterOutput).  A signal may come at any moment of  *)
(* either.                                                                 *)
(***************************************************************************)
EXTENDS RunProc, CounterOutput

vars == <<proc_vars, output_vars>>

Init ==
    /\ ProcInit
    /\ lines = <<>> /\ next = 1
    /\ count = NoCount /\ unsat_found = FALSE
    /\ cpx \in BOOLEAN
    /\ ours \in BOOLEAN
    /\ returned = "nothing"

\* run_one_counter is called for the first time, or for the next run.
Call ==
    /\ returned # "running"
    /\ Start
    /\ lines' = <<>> /\ next' = 1
    /\ count' = NoCount /\ unsat_found' = FALSE
    /\ returned' = "running"
    /\ UNCHANGED <<cpx, ours>>

\* run() has answered: return True, None or False, None; or there is an output.
Answer ==
    /\ Classify
    /\ \/ result' = "too slow" /\ returned' = "no count" /\ UNCHANGED lines
       \/ result' = "crashed" /\ returned' = "failed" /\ UNCHANGED lines
       \/ result' = "output" /\ lines' \in Outputs /\ UNCHANGED returned
    /\ UNCHANGED <<cpx, ours, next, count, unsat_found>>

ReadOutput ==
    /\ pc = "idle"
    /\ result = "output"
    /\ ReadLine
    /\ pc' = IF returned' = "exit" THEN "terminated" ELSE pc
    /\ UNCHANGED <<interrupted, child, current_proc, elapsed, timed_out, result, signals>>

Beside(step) == step /\ UNCHANGED output_vars

Main == Call \/ Beside(Await) \/ Answer \/ ReadOutput

Next == Main \/ Beside(Handle) \/ Beside(World) \/ Beside(Rest)

\* Time passes, a child that was killed dies, and the process is scheduled.  That
\* a child ever ends by itself, or that a signal comes, is not assumed.
Fairness ==
    /\ WF_vars(Main) /\ WF_vars(Beside(Handle))
    /\ WF_vars(Beside(ChildDies)) /\ WF_vars(Beside(Tick))

Spec == Init /\ [][Next]_vars /\ Fairness

-----------------------------------------------------------------------------
(***************************************************************************)
(* Properties.                                                             *)
(***************************************************************************)

Of(kinds) == {j \in 1..Len(lines) : lines[j].kind \in kinds}

\* A count is only returned by a counter that came to its end by itself and in
\* time, and whose output has no assertion, leak or error anywhere, after the count
\* as well as before it.
CountIsEarned ==
    returned = "count" /\ pc = "idle" =>
        /\ child = "exited" /\ ~timed_out
        /\ Of(BadKinds \union {"memory out"}) = {}

\* A test fails because of the counter itself, never because of the time limit.
FailureIsOwn ==
    returned = "failed" /\ pc = "idle" =>
        /\ ~timed_out
        /\ child = "exited" => Of(BadKinds) # {} \/ (ours /\ Of(CountKinds \union {"unsat"}) = {})

\* The count is one the output states: 0 if there is an unsat line; else the last
\* count, where only exact complex counts can follow another one.
CountIsStated ==
    returned = "count" =>
        IF Of({"unsat"}) # {} THEN count = 0
        ELSE /\ \E j \in Of(CountKinds) :
                   /\ count = lines[j].val
                   /\ \A l \in Of(CountKinds) : l <= j
             /\ \A l \in Of(CountKinds \ {"arb cpx"}), j \in Of(CountKinds) : l <= j

\* A terminated fuzzer leaves no counter behind that runs on, unless the signal
\* came after Popen had started it and before it was assigned to current_proc.
NoOrphan ==
    pc = "terminated" => child \notin {"running", "dying"} \/ interrupted = "started"

\* A counter that never ends does not keep the fuzzer from its next one.
RunEnds ==
    (returned = "running") ~> (returned # "running" \/ pc \notin MainPlaces)

\* SIGHUP and SIGTERM terminate the fuzzer even if its counter hangs, unless a
\* signal interrupts a waitpid, that of the handler included.
SignalTerminates ==
    (pc = "handler" /\ ~InWaitpid(interrupted))
        ~> (pc = "terminated" \/ InWaitpid(interrupted))

=============================================================================
