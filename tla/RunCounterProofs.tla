-------------------------- MODULE RunCounterProofs --------------------------
(***************************************************************************)
(* Proofs about RunCounter, for every time limit, every number of signals  *)
(* and every output.                                                       *)
(*                                                                         *)
(* Two inductive invariants.  ProcInv says what is known of the child at   *)
(* every place of run() and of the handler; that a timed-out run is too    *)
(* slow (TooSlow is looser than the limit) is what keeps the output of a   *)
(* killed counter from being read.  OutInv says what the lines read so far *)
(* have made of count and unsat_found; it needs ProcInv to know that an    *)
(* output belongs to a counter that came to its end.                       *)
(***************************************************************************)
EXTENDS RunCounter, SequenceTheorems, TLAPS

-----------------------------------------------------------------------------
(***************************************************************************)
(* The invariants.                                                         *)
(***************************************************************************)

\* Where the main program is, or was when a signal came.
Place == IF pc \in MainPlaces THEN pc ELSE interrupted

ProcTypeOK ==
    /\ pc \in MainPlaces \union HandlerPlaces \union {"terminated"}
    /\ interrupted \in MainPlaces \union {"nowhere"}
    /\ pc \in HandlerPlaces => interrupted \in MainPlaces
    /\ child \in {"none", "running", "dying"} \union Dead
    /\ current_proc \in BOOLEAN /\ timed_out \in BOOLEAN
    /\ elapsed \in Nat
    /\ result \in {"none", "too slow", "crashed", "output"}
    /\ returned \in {"nothing", "running", "count", "no count", "failed", "exit"}

OutTypeOK ==
    /\ cpx \in BOOLEAN /\ ours \in BOOLEAN /\ unsat_found \in BOOLEAN
    /\ lines \in Outputs /\ next \in 1..Len(lines) + 1
    /\ count \in Values \union {NoCount}

\* current_proc is set from after Popen until the child has been waited for; only
\* then the handler kills.
CurrentIsSet ==
    /\ pc # "terminated" =>
          (current_proc <=> Place \in {"communicate", "reap", "timeout", "drain",
                                       "reap killed", "reaped"})
    /\ pc \in {"handler kill", "handler wait"} => current_proc

\* A child that was waited for is dead; the handler kills the others.
WaitedFor ==
    /\ pc \in MainPlaces \union {"handler"} /\ Place \in {"reaped", "classify", "idle"} =>
          child \in Dead \union {"none"}
    /\ pc = "terminated" => child \notin {"running", "dying"} \/ interrupted = "started"
    /\ pc = "idle" /\ child = "none" => returned = "nothing"
    /\ child = "none" => Place = "idle"
    /\ pc \in MainPlaces /\ child \in {"dying", "killed"} => timed_out

\* A run that was killed was long enough to be too slow.
KilledIsSlow ==
    /\ pc = "timeout" => elapsed >= MaxTime
    /\ pc \in MainPlaces \ {"idle"} /\ timed_out => elapsed >= MaxTime

\* What the caller of run() knows.
Answered ==
    /\ pc \in MainPlaces \ {"idle"} => returned = "running"
    /\ pc = "idle" /\ returned \in {"running", "count"} => result = "output"
    /\ pc = "idle" /\ returned = "failed" => result \in {"output", "crashed"}
    /\ pc = "idle" /\ returned \in {"running", "count", "failed"} =>
          ~timed_out /\ (child = "exited" <=> result = "output")

ProcInv == ProcTypeOK /\ CurrentIsSet /\ WaitedFor /\ KilledIsSlow /\ Answered

\* The lines read so far that are of certain kinds.
Seen(kinds) == {j \in 1..(next - 1) : lines[j].kind \in kinds}

\* Nothing is read before there is an output.
NotBegun ==
    pc \in MainPlaces \ {"idle"} =>
        lines = <<>> /\ next = 1 /\ count = NoCount /\ ~unsat_found

\* count is the last of the counts read, and only the exact complex ones follow others.
CountSoFar ==
    /\ count = NoCount => Seen(CountKinds) = {}
    /\ count # NoCount /\ ~unsat_found =>
          \E j \in Seen(CountKinds) :
              count = lines[j].val /\ \A l \in Seen(CountKinds) : l <= j
    /\ \A l \in Seen(CountKinds \ {"arb cpx"}), j \in Seen(CountKinds) : l <= j

\* What made the loop go on so far, and what it returned at its end.
OutInv ==
    /\ OutTypeOK
    /\ NotBegun
    /\ Seen(BadKinds \union {"memory out"}) = {}
    /\ unsat_found <=> Seen({"unsat"}) # {}
    /\ returned = "running" => CountSoFar
    /\ returned = "count" => next = Len(lines) + 1 /\ CountIsStated
    /\ returned = "failed" /\ pc = "idle" /\ result = "output" =>
          Of(BadKinds) # {} \/ (ours /\ Of(CountKinds \union {"unsat"}) = {})

IndInv == ProcInv /\ OutInv

-----------------------------------------------------------------------------
(***************************************************************************)
(* Outputs.                                                                *)
(***************************************************************************)

\* An output is a sequence of lines, each of a known kind.
LEMMA OutputIsSeq ==
  ASSUME NEW o \in Outputs
  PROVE  /\ o \in Seq(Line) /\ Len(o) \in Nat
         /\ \A j \in 1..Len(o) : o[j].kind \in Kinds /\ o[j].val \in Values
<1>1. PICK m \in 0..MaxLines : o \in [1..m -> Line]
  BY DEF Outputs
<1>2. m \in Nat
  BY OutputAssumption
<1>3. o \in Seq(Line)
  BY <1>1, <1>2, SeqDef
<1>4. Len(o) \in Nat /\ o \in [1..Len(o) -> Line]
  BY <1>3, LenProperties
<1>5. \A line \in Line : line.kind \in Kinds /\ line.val \in Values
  BY OutputAssumption DEF Line, Kinds
<1> QED
  BY <1>3, <1>4, <1>5

LEMMA EmptyIsOutput == <<>> \in Outputs /\ Len(<<>>) = 0 /\ 1 \in 1..Len(<<>>) + 1
<1>1. 0 \in 0..MaxLines /\ <<>> \in [1..0 -> Line]
  BY OutputAssumption
<1>2. Len(<<>>) = 0
  BY EmptySeq
<1> QED
  BY <1>1, <1>2 DEF Outputs

\* What a line says is a count or None.
LEMMA ParsedTyped ==
  ASSUME NEW line, line.val \in Values
  PROVE  Parsed(line) \in Values \union {NoCount}
BY OutputAssumption DEF Parsed

\* The line that is read is a line of the output.
LEMMA LineRead ==
  ASSUME OutTypeOK, NEW kinds, Reading(kinds)
  PROVE  /\ next \in 1..Len(lines) /\ next \in Nat /\ Len(lines) \in Nat
         /\ lines[next].kind \in kinds /\ lines[next].val \in Values
<1>1. Len(lines) \in Nat /\ \A j \in 1..Len(lines) : lines[j].val \in Values
  BY OutputIsSeq DEF OutTypeOK
<1>2. next \in 1..Len(lines) + 1 /\ next <= Len(lines) /\ lines[next].kind \in kinds
  BY DEF OutTypeOK, Reading
<1> QED
  BY <1>1, <1>2

-----------------------------------------------------------------------------
(***************************************************************************)
(* Every step keeps what is known of the child.                            *)
(***************************************************************************)

\* A step of the main program that leaves the output alone.
LEMMA AwaitKeepsProc ==
  ASSUME ProcInv, Beside(Await)
  PROVE  ProcInv'
<1> USE DEF ProcInv, ProcTypeOK, CurrentIsSet, WaitedFor, KilledIsSlow, Answered, Place,
            MainPlaces, HandlerPlaces, Dead, InWaitpid, Beside, output_vars
<1>1. CASE Assign
  BY <1>1 DEF Assign
<1>2. CASE OutputEnds
  <2>1. /\ pc \in {"communicate", "drain"} /\ pc' \in {"reap", "reap killed"}
        /\ pc = "communicate" => child \in Dead
        /\ interrupted' = interrupted /\ child' = child /\ current_proc' = current_proc
        /\ elapsed' = elapsed /\ timed_out' = timed_out /\ result' = result
        /\ returned' = returned
    BY <1>2 DEF OutputEnds
  <2>2. Place = pc /\ Place' = pc'
    BY <2>1
  <2> QED
    BY <2>1, <2>2
<1>3. CASE Reap
  BY <1>3 DEF Reap
<1>4. CASE TimeoutExpired
  BY <1>4 DEF TimeoutExpired
<1>5. CASE Kill
  BY <1>5 DEF Kill
<1>6. CASE Reset
  BY <1>6 DEF Reset
<1> QED
  BY <1>1, <1>2, <1>3, <1>4, <1>5, <1>6 DEF Await

\* A step of the handler.
LEMMA HandleKeepsProc ==
  ASSUME ProcInv, Beside(Handle)
  PROVE  ProcInv'
<1>1. /\ pc \in {"handler", "handler kill", "handler wait"} /\ pc \notin MainPlaces
      /\ pc' \in {"handler kill", "handler wait", "terminated"} /\ pc' \notin MainPlaces
      /\ interrupted' = interrupted /\ current_proc' = current_proc /\ elapsed' = elapsed
      /\ timed_out' = timed_out /\ result' = result /\ returned' = returned
      /\ child' \in {child, "dying"} /\ (child' = "dying" => pc' = "handler wait" \/ child = "dying")
  BY DEF Beside, output_vars, Handle, HandlerPolls, HandlerKills, HandlerWaits, MainPlaces
<1>2. Place = interrupted /\ Place' = Place
  BY <1>1 DEF Place
<1>3. ProcTypeOK'
  BY <1>1 DEF ProcInv, ProcTypeOK, HandlerPlaces
<1>4. CurrentIsSet'
  <2>1. pc' \in {"handler kill", "handler wait"} => current_proc
    BY DEF ProcInv, CurrentIsSet, Beside, Handle, HandlerPolls, HandlerKills, HandlerWaits
  <2> QED
    BY <1>1, <1>2, <2>1 DEF ProcInv, CurrentIsSet
<1>5. WaitedFor'
  <2>1. child' = "none" => child = "none"
    BY <1>1
  <2>2. ASSUME pc' = "terminated", interrupted # "started"
        PROVE  child' \notin {"running", "dying"}
    <3>1. CASE HandlerPolls
      <4>1. child' = child /\ ~(current_proc /\ (InWaitpid(interrupted) \/ child \in {"running", "dying"}))
        BY <2>2, <3>1 DEF HandlerPolls
      <4>2. CASE current_proc
        BY <4>1, <4>2
      <4>3. CASE ~current_proc
        <5>1. interrupted \in MainPlaces /\ interrupted # "started" /\ pc = "handler"
          BY <1>1, <2>2, <3>1 DEF ProcInv, ProcTypeOK, HandlerPlaces, HandlerPolls
        <5>2. Place \in {"idle", "classify"}
          BY <1>2, <4>3, <5>1 DEF ProcInv, CurrentIsSet, MainPlaces
        <5> QED
          BY <4>1, <5>1, <5>2 DEF ProcInv, WaitedFor, Dead
      <4> QED
        BY <4>2, <4>3
    <3>2. CASE HandlerWaits
      BY <3>2 DEF HandlerWaits, Dead
    <3> QED
      BY <2>2, <3>1, <3>2 DEF Beside, Handle, HandlerKills
  <2> QED
    BY <1>1, <1>2, <2>1, <2>2 DEF ProcInv, WaitedFor
<1>6. KilledIsSlow' /\ Answered'
  BY <1>1 DEF KilledIsSlow, Answered, MainPlaces
<1> QED
  BY <1>3, <1>4, <1>5, <1>6 DEF ProcInv

\* A signal keeps in mind where it came.
LEMMA SignalKeepsProc ==
  ASSUME ProcInv, Beside(Signal)
  PROVE  ProcInv'
<1>1. /\ pc' = "handler" /\ "handler" \notin MainPlaces
      /\ child' = child /\ current_proc' = current_proc /\ elapsed' = elapsed
      /\ timed_out' = timed_out /\ result' = result /\ returned' = returned
  BY DEF Beside, output_vars, Signal, MainPlaces
<1>2. Place' = interrupted'
  BY <1>1 DEF Place
<1>3. ProcTypeOK'
  BY <1>1 DEF ProcInv, ProcTypeOK, Beside, Signal, MainPlaces, HandlerPlaces
<1>4. CASE pc \in MainPlaces
  <2>1. Place = pc /\ Place' = Place
    BY <1>2, <1>4 DEF Place, Beside, Signal
  <2> QED
    BY <1>1, <1>3, <1>4, <2>1 DEF ProcInv, CurrentIsSet, WaitedFor, KilledIsSlow, Answered, MainPlaces
<1>5. CASE pc = "handler wait"
  <2>1. Place' = "reap killed"
    BY <1>2, <1>5 DEF Beside, Signal, MainPlaces
  <2> QED
    BY <1>1, <1>3, <1>5, <2>1 DEF ProcInv, CurrentIsSet, WaitedFor, KilledIsSlow, Answered, MainPlaces
<1> QED
  BY <1>4, <1>5 DEF Beside, Signal

LEMMA ProcStep ==
  ASSUME ProcInv, [Next]_vars
  PROVE  ProcInv'
<1>1. CASE Call
  BY <1>1 DEF Call, Start, ProcInv, ProcTypeOK, CurrentIsSet, WaitedFor, KilledIsSlow,
              Answered, Place, MainPlaces, HandlerPlaces, Dead
<1>2. CASE Answer
  <2>1. timed_out => TooSlow
    <3>1. elapsed \in Nat /\ MaxTime \in Nat /\ MaxTimeDiff \in 1..MaxTime
      BY TimeAssumption DEF ProcInv, ProcTypeOK
    <3>2. timed_out => elapsed >= MaxTime
      BY <1>2 DEF Answer, Classify, ProcInv, KilledIsSlow, MainPlaces
    <3> QED
      BY <3>1, <3>2 DEF TooSlow
  <2>2. child \in Dead
    BY <1>2 DEF Answer, Classify, ProcInv, WaitedFor, Place, MainPlaces, Dead
  <2>3. /\ pc = "classify" /\ pc' = "idle" /\ Place = pc /\ Place' = "idle"
        /\ interrupted' = interrupted /\ child' = child /\ current_proc' = current_proc
        /\ timed_out' = timed_out /\ elapsed' = 0
    BY <1>2 DEF Answer, Classify, Place, MainPlaces
  <2>4. /\ returned' \in {"no count", "failed", "running"}
        /\ result' \in {"too slow", "crashed", "output"}
        /\ returned' = "running" => result' = "output" /\ child = "exited" /\ ~timed_out
        /\ returned' = "failed" => result' = "crashed" /\ child # "exited" /\ ~timed_out
    <3>1. returned = "running"
      BY <2>3 DEF ProcInv, Answered, MainPlaces
    <3> QED
      BY <1>2, <2>1, <3>1 DEF Answer, Classify
  <2>5. ProcTypeOK'
    BY <2>3, <2>4 DEF ProcInv, ProcTypeOK, MainPlaces, HandlerPlaces
  <2>6. CurrentIsSet'
    BY <2>3 DEF ProcInv, CurrentIsSet
  <2>7. WaitedFor'
    BY <2>2, <2>3 DEF ProcInv, WaitedFor, Dead, MainPlaces
  <2>8. KilledIsSlow'
    BY <2>3 DEF KilledIsSlow
  <2>9. Answered'
    BY <2>3, <2>4 DEF Answered
  <2> QED
    BY <2>5, <2>6, <2>7, <2>8, <2>9 DEF ProcInv
<1>3. CASE ReadOutput
  <2>1. returned = "running" /\ returned' \in {"running", "count", "no count", "failed", "exit"}
    BY <1>3 DEF ReadOutput, ReadLine, ReadComment, ReadUnsat, ReadBad, ReadMemoryOut,
                ReadArbCpx, ReadCount, End, Reading, GoOn, Return
  <2>2. /\ pc = "idle" /\ pc' \in {"idle", "terminated"} /\ result = "output"
        /\ interrupted' = interrupted /\ child' = child /\ current_proc' = current_proc
        /\ timed_out' = timed_out /\ elapsed' = elapsed /\ result' = result
    BY <1>3 DEF ReadOutput
  <2>3. child = "exited" /\ ~timed_out
    BY <2>1, <2>2 DEF ProcInv, Answered
  <2>4. ProcTypeOK'
    BY <2>1, <2>2 DEF ProcInv, ProcTypeOK, MainPlaces, HandlerPlaces
  <2>5. CurrentIsSet'
    BY <2>2 DEF ProcInv, CurrentIsSet, Place, MainPlaces
  <2>6. WaitedFor' /\ KilledIsSlow' /\ Answered'
    BY <2>1, <2>2, <2>3 DEF WaitedFor, KilledIsSlow, Answered, Place, MainPlaces, Dead
  <2> QED
    BY <2>4, <2>5, <2>6 DEF ProcInv
<1>4. CASE Beside(ChildEnds) \/ Beside(ChildDies)
  <2>1. /\ pc' = pc /\ interrupted' = interrupted /\ elapsed' = elapsed
        /\ current_proc' = current_proc /\ timed_out' = timed_out /\ result' = result
        /\ returned' = returned
        /\ child \in {"running", "dying"} /\ child' \in Dead
        /\ child' = "killed" => child = "dying"
    BY <1>4 DEF Beside, output_vars, ChildEnds, ChildDies, Dead
  <2>2. pc # "idle" /\ Place' = Place
    BY <2>1 DEF ProcInv, WaitedFor, Place, MainPlaces, Dead
  <2>3. ProcTypeOK' /\ CurrentIsSet' /\ KilledIsSlow'
    BY <2>1, <2>2 DEF ProcInv, ProcTypeOK, CurrentIsSet, KilledIsSlow
  <2>4. WaitedFor' /\ Answered'
    BY <2>1, <2>2 DEF ProcInv, WaitedFor, Answered, Dead
  <2> QED
    BY <2>3, <2>4 DEF ProcInv
<1>5. CASE Beside(Tick)
  <2>1. elapsed' \in Nat /\ (elapsed >= MaxTime => elapsed' >= MaxTime)
    <3>1. elapsed \in Nat /\ MaxTime \in Nat /\ elapsed' = elapsed + 1
      BY <1>5, TimeAssumption DEF Beside, Tick, ProcInv, ProcTypeOK
    <3> QED
      BY <3>1
  <2>2. /\ pc' = pc /\ interrupted' = interrupted /\ child' = child
        /\ current_proc' = current_proc /\ timed_out' = timed_out /\ result' = result
        /\ returned' = returned
    BY <1>5 DEF Beside, output_vars, Tick
  <2>3. ProcTypeOK' /\ CurrentIsSet'
    BY <2>1, <2>2 DEF ProcInv, ProcTypeOK, CurrentIsSet, Place
  <2>4. WaitedFor' /\ Answered'
    BY <2>2 DEF ProcInv, WaitedFor, Answered, Place
  <2>5. KilledIsSlow'
    BY <2>1, <2>2 DEF ProcInv, KilledIsSlow
  <2> QED
    BY <2>3, <2>4, <2>5 DEF ProcInv
<1>6. ASSUME UNCHANGED vars PROVE ProcInv'
  <2>1. /\ pc' = pc /\ interrupted' = interrupted /\ child' = child /\ elapsed' = elapsed
        /\ current_proc' = current_proc /\ timed_out' = timed_out /\ result' = result
        /\ returned' = returned
    BY <1>6 DEF vars, proc_vars, output_vars
  <2>2. ProcTypeOK' /\ CurrentIsSet'
    BY <2>1 DEF ProcInv, ProcTypeOK, CurrentIsSet, Place
  <2>3. WaitedFor' /\ KilledIsSlow' /\ Answered'
    BY <2>1 DEF ProcInv, WaitedFor, KilledIsSlow, Answered, Place
  <2> QED
    BY <2>2, <2>3 DEF ProcInv
<1>7. CASE Beside(Rest)
  BY <1>6, <1>7 DEF Beside, output_vars, Rest, HandlerStuck, Terminated, vars
<1> QED
  BY <1>1, <1>2, <1>3, <1>4, <1>5, <1>6, <1>7, AwaitKeepsProc, HandleKeepsProc,
     SignalKeepsProc
     DEF Next, Main, Beside, World

-----------------------------------------------------------------------------
(***************************************************************************)
(* Every step keeps what the lines read so far have made of the answer.    *)
(***************************************************************************)

\* One more line is read.
LEMMA SeenGrows ==
  ASSUME OutTypeOK, next \in 1..Len(lines), next' = next + 1, lines' = lines, NEW kinds
  PROVE  Seen(kinds)' = Seen(kinds) \union (IF lines[next].kind \in kinds THEN {next} ELSE {})
<1>1. next \in Nat /\ next >= 1
  BY OutputIsSeq DEF OutTypeOK
<1>2. 1..(next' - 1) = 1..(next - 1) \union {next}
  BY <1>1
<1>3. Seen(kinds)' = {j \in 1..(next - 1) \union {next} : lines[j].kind \in kinds}
  BY <1>2 DEF Seen
<1> QED
  BY <1>3 DEF Seen

\* What has been read lies before the next line.
LEMMA SeenBefore ==
  ASSUME OutTypeOK, NEW kinds, NEW j \in Seen(kinds)
  PROVE  j <= next
<1>1. next \in Nat /\ j \in 1..(next - 1)
  BY OutputIsSeq DEF OutTypeOK, Seen
<1> QED
  BY <1>1

\* A line does not come after itself.
LEMMA NextIsNumber ==
  ASSUME OutTypeOK
  PROVE  next <= next
<1>1. next \in Nat
  BY OutputIsSeq DEF OutTypeOK
<1> QED
  BY <1>1

\* Steps of run() and of the handler leave the output alone.
LEMMA OutKept ==
  ASSUME OutInv, UNCHANGED output_vars, result' = result,
         pc' \in MainPlaces \ {"idle"} => pc \in MainPlaces \ {"idle"},
         pc' = "idle" => pc = "idle"
  PROVE  OutInv'
<1>1. /\ lines' = lines /\ next' = next /\ count' = count /\ unsat_found' = unsat_found
      /\ cpx' = cpx /\ ours' = ours /\ returned' = returned
  BY DEF output_vars
<1>2. /\ \A kinds : Seen(kinds)' = Seen(kinds)
      /\ \A kinds : Of(kinds)' = Of(kinds)
  BY <1>1 DEF Seen, Of
<1>3. OutTypeOK'
  BY <1>1 DEF OutInv, OutTypeOK
<1>4. NotBegun'
  BY <1>1 DEF OutInv, NotBegun
<1>5. CountSoFar' <=> CountSoFar
  BY <1>1, <1>2 DEF CountSoFar
<1>6. CountIsStated' <=> CountIsStated
  BY <1>1, <1>2 DEF CountIsStated
<1>7. (unsat_found <=> Seen({"unsat"}) # {})'
  BY <1>1, <1>2 DEF OutInv
<1> QED
  BY <1>1, <1>2, <1>3, <1>4, <1>5, <1>6, <1>7 DEF OutInv

\* Where nothing was read nothing was found.
LEMMA NothingSeen ==
  ASSUME next' = 1, NEW kinds
  PROVE  Seen(kinds)' = {}
BY DEF Seen

\* A run begins, or its output begins to be read.
LEMMA OutBegins ==
  ASSUME OutTypeOK', NotBegun', next' = 1, count' = NoCount, unsat_found' = FALSE,
         returned' \in {"running", "no count", "failed"},
         returned' = "failed" => result' # "output"
  PROVE  OutInv'
<1>1. \A kinds : Seen(kinds)' = {}
  BY NothingSeen
<1>2. CountSoFar'
  BY <1>1 DEF CountSoFar
<1> QED
  BY <1>1, <1>2 DEF OutInv

\* A line that lets the loop go on.
LEMMA LineGoesOn ==
  ASSUME OutInv, pc = "idle", pc' = "idle", UNCHANGED <<cpx, ours, lines>>,
         NEW kinds, Reading(kinds), kinds \intersect (BadKinds \union {"memory out"}) = {},
         GoOn, OutTypeOK',
         unsat_found' = (unsat_found \/ lines[next].kind = "unsat"),
         IF lines[next].kind \in CountKinds
         THEN /\ lines[next].kind # "arb cpx" => count = NoCount
              /\ count' # NoCount
              /\ ~unsat_found' => count' = lines[next].val
         ELSE count' = count
  PROVE  OutInv'
<1>1. /\ next \in 1..Len(lines) /\ next \in Nat /\ next' = next + 1
      /\ lines' = lines /\ lines[next].kind \in kinds /\ returned' = "running"
      /\ returned = "running"
  BY LineRead DEF OutInv, GoOn, Reading
<1>2. \A ks : Seen(ks)' = Seen(ks) \union (IF lines[next].kind \in ks THEN {next} ELSE {})
  BY <1>1, SeenGrows DEF OutInv
<1>3. \A ks : \A j \in Seen(ks) : j <= next
  BY SeenBefore DEF OutInv
<1>4. Seen(BadKinds \union {"memory out"})' = {}
  BY <1>1, <1>2 DEF OutInv
<1>5. (unsat_found <=> Seen({"unsat"}) # {})'
  BY <1>2 DEF OutInv
<1>6. CountSoFar'
  <2>0. CountSoFar /\ "arb cpx" \in CountKinds
    BY <1>1 DEF OutInv, CountKinds
  <2>1. CASE lines[next].kind \notin CountKinds
    <3>1. /\ Seen(CountKinds)' = Seen(CountKinds)
          /\ Seen(CountKinds \ {"arb cpx"})' = Seen(CountKinds \ {"arb cpx"})
      BY <1>2, <2>1
    <3>2. count' = count /\ (~unsat_found' => ~unsat_found)
      BY <2>1
    <3>3. \A j \in Seen(CountKinds) : lines'[j] = lines[j]
      BY <1>1
    <3> QED
      BY <1>1, <2>0, <3>1, <3>2 DEF CountSoFar
  <2>2. CASE lines[next].kind \in CountKinds
    <3>1. Seen(CountKinds)' = Seen(CountKinds) \union {next}
      BY <1>2, <2>2
    <3>2. \A l \in Seen(CountKinds)' : l <= next
      <4> SUFFICES ASSUME NEW l \in Seen(CountKinds) \union {next} PROVE l <= next
        BY <3>1
      <4> QED
        BY <1>3, NextIsNumber DEF OutInv
    <3>3. \A l \in Seen(CountKinds \ {"arb cpx"})', j \in Seen(CountKinds)' : l <= j
      <4>1. CASE lines[next].kind = "arb cpx"
        <5>1. Seen(CountKinds \ {"arb cpx"})' = Seen(CountKinds \ {"arb cpx"})
          BY <1>2, <4>1
        <5>2. ASSUME NEW l \in Seen(CountKinds \ {"arb cpx"}), NEW j \in Seen(CountKinds)
              PROVE  l <= j
          BY <2>0 DEF CountSoFar
        <5>3. ASSUME NEW l \in Seen(CountKinds \ {"arb cpx"}) PROVE l <= next
          BY <1>3
        <5> QED
          BY <3>1, <5>1, <5>2, <5>3
      <4>2. CASE lines[next].kind # "arb cpx"
        <5>1. Seen(CountKinds) = {} /\ Seen(CountKinds \ {"arb cpx"}) = {}
          BY <2>0, <2>2, <4>2 DEF CountSoFar, Seen
        <5>2. Seen(CountKinds)' = {next} /\ Seen(CountKinds \ {"arb cpx"})' \subseteq {next}
          BY <1>2, <3>1, <5>1
        <5>3. next <= next
          BY NextIsNumber DEF OutInv
        <5> QED
          BY <5>2, <5>3
      <4> QED
        BY <4>1, <4>2
    <3>4. ~unsat_found' => /\ next \in Seen(CountKinds)'
                           /\ count' = lines'[next].val
      BY <1>1, <2>2, <3>1
    <3>5. count' # NoCount
      BY <2>2
    <3> QED
      BY <3>2, <3>3, <3>4, <3>5 DEF CountSoFar
  <2> QED
    BY <2>1, <2>2
<1>7. NotBegun'
  BY DEF NotBegun
<1> QED
  BY <1>1, <1>4, <1>5, <1>6, <1>7 DEF OutInv

\* A line that ends the loop.
LEMMA LineReturns ==
  ASSUME OutInv, pc = "idle", pc' \in {"idle", "terminated"},
         UNCHANGED <<cpx, ours, lines, next, count, unsat_found>>,
         NEW kinds, Reading(kinds), returned' \in {"failed", "no count", "exit"},
         returned' = "failed" => kinds = BadKinds
  PROVE  OutInv'
<1>1. \A ks : Seen(ks)' = Seen(ks)
  BY DEF Seen
<1>2. next \in 1..Len(lines) /\ lines[next].kind \in kinds
  BY LineRead DEF OutInv
<1>3. returned' = "failed" => Of(BadKinds)' # {}
  BY <1>2 DEF Of
<1>4. OutTypeOK'
  BY DEF OutInv, OutTypeOK
<1>5. NotBegun'
  BY DEF NotBegun, MainPlaces
<1>6. (unsat_found <=> Seen({"unsat"}) # {})'
  BY <1>1 DEF OutInv
<1> QED
  BY <1>1, <1>3, <1>4, <1>5, <1>6 DEF OutInv

\* The end of the output: all its lines have been read.
LEMMA OutputEnded ==
  ASSUME OutInv, pc = "idle", pc' \in {"idle", "terminated"}, End
  PROVE  OutInv'
<1>1. /\ next = Len(lines) + 1 /\ Len(lines) \in Nat /\ returned = "running"
      /\ lines' = lines /\ next' = next /\ ours' = ours /\ cpx' = cpx
      /\ unsat_found' = unsat_found /\ unsat_found \in BOOLEAN
  <2>1. /\ Len(lines) \in Nat /\ next \in 1..Len(lines) + 1 /\ next > Len(lines)
    BY OutputIsSeq DEF OutInv, OutTypeOK, End
  <2>2. next = Len(lines) + 1
    BY <2>1
  <2> QED
    BY <2>1, <2>2 DEF OutInv, OutTypeOK, End
<1>2. \A ks : Seen(ks)' = Seen(ks) /\ Of(ks) = Seen(ks) /\ Of(ks)' = Seen(ks)
  BY <1>1 DEF Seen, Of
<1>3. CountSoFar /\ (unsat_found <=> Seen({"unsat"}) # {})
  BY <1>1 DEF OutInv
<1>4. OutTypeOK'
  BY <1>1, OutputAssumption DEF OutInv, OutTypeOK, End
<1>5. NotBegun'
  BY DEF NotBegun, MainPlaces
<1>6. ASSUME returned' = "count" PROVE CountIsStated'
  <2>1. CASE unsat_found
    BY <1>1, <1>2, <1>3, <2>1 DEF CountIsStated, End
  <2>2. CASE ~unsat_found
    <3>1. count' = count /\ count # NoCount /\ Of({"unsat"})' = {}
      BY <1>1, <1>2, <1>3, <1>6, <2>2 DEF End
    <3> QED
      BY <1>1, <1>2, <1>3, <2>2, <3>1 DEF CountIsStated, CountSoFar
  <2> QED
    BY <1>1, <2>1, <2>2
<1>7. ASSUME returned' = "failed" PROVE ours' /\ Of(CountKinds \union {"unsat"})' = {}
  <2>1. ours /\ count = NoCount /\ ~unsat_found
    BY <1>1, <1>7, OutputAssumption DEF End
  <2>2. Seen(CountKinds) = {} /\ Seen({"unsat"}) = {}
    BY <1>3, <2>1 DEF CountSoFar
  <2>3. Seen(CountKinds \union {"unsat"}) = {}
    BY <2>2 DEF Seen
  <2> QED
    BY <1>1, <1>2, <2>1, <2>3
<1>8. (unsat_found <=> Seen({"unsat"}) # {})'
  BY <1>1, <1>2, <1>3
<1>9. returned' \in {"count", "failed", "no count"}
  BY DEF End
<1> QED
  BY <1>1, <1>2, <1>4, <1>5, <1>6, <1>7, <1>8, <1>9 DEF OutInv

\* Each line, and the end of the output.
LEMMA ReadKeepsOut ==
  ASSUME OutInv, ReadOutput
  PROVE  OutInv'
<1>0. pc = "idle" /\ pc' \in {"idle", "terminated"} /\ OutTypeOK
  BY DEF ReadOutput, OutInv
<1>k. /\ "comment" \notin CountKinds /\ "unsat" \notin CountKinds
      /\ "arb cpx" \in CountKinds /\ "comment" # "unsat"
      /\ CountKinds \intersect (BadKinds \union {"memory out"}) = {}
      /\ {"comment", "unsat"} \intersect (BadKinds \union {"memory out"}) = {}
  BY DEF CountKinds, BadKinds
<1>v. ASSUME Reading(CountKinds)
      PROVE  /\ next \in 1..Len(lines) /\ lines[next].val \in Values
             /\ lines[next].val # NoCount
  BY <1>0, <1>v, LineRead, OutputAssumption
<1>g. ASSUME NEW kinds, Reading(kinds), GoOn, UNCHANGED <<cpx, ours, lines>>,
             unsat_found' \in BOOLEAN, count' \in Values \union {NoCount}
      PROVE  OutTypeOK' /\ pc' = "idle"
  <2>1. next' \in 1..Len(lines) + 1
    <3>1. next \in 1..Len(lines) /\ Len(lines) \in Nat /\ next' = next + 1
      BY <1>0, <1>g, LineRead DEF GoOn
    <3> QED
      BY <3>1
  <2>2. pc' = "idle"
    BY <1>g DEF ReadOutput, GoOn, Reading
  <2> QED
    BY <1>0, <1>g, <2>1, <2>2 DEF OutTypeOK
<1>1. CASE ReadComment
  <2>1. OutTypeOK' /\ pc' = "idle"
    BY <1>0, <1>1, <1>g DEF ReadComment, OutTypeOK
  <2>2. lines[next].kind = "comment" /\ unsat_found \in BOOLEAN
    BY <1>0, <1>1 DEF ReadComment, Reading, OutTypeOK
  <2>3. unsat_found' = (unsat_found \/ lines[next].kind = "unsat")
    BY <1>1, <2>2 DEF ReadComment
  <2> QED
    BY <1>0, <1>1, <1>k, <2>1, <2>2, <2>3, LineGoesOn DEF ReadComment
<1>2. CASE ReadUnsat
  <2>1. OutTypeOK' /\ pc' = "idle"
    BY <1>0, <1>2, <1>g DEF ReadUnsat, OutTypeOK
  <2>2. lines[next].kind = "unsat"
    BY <1>2 DEF ReadUnsat, Reading
  <2> QED
    BY <1>0, <1>2, <1>k, <2>1, <2>2, LineGoesOn DEF ReadUnsat
<1>3. CASE ReadBad
  BY <1>0, <1>3, LineReturns DEF ReadBad, Return
<1>4. CASE ReadMemoryOut
  BY <1>0, <1>4, LineReturns DEF ReadMemoryOut, Return
<1>5. CASE ReadArbCpx
  <2>1. lines[next].kind = "arb cpx" /\ Reading(CountKinds) /\ Reading({"arb cpx"})
    BY <1>5, <1>k DEF ReadArbCpx, Reading
  <2>2. count' = lines[next].val /\ count' \in Values /\ count' # NoCount
    BY <1>5, <1>v, <2>1 DEF ReadArbCpx
  <2>3. OutTypeOK' /\ pc' = "idle"
    BY <1>0, <1>5, <1>g, <2>1, <2>2 DEF ReadArbCpx, OutTypeOK
  <2>4. unsat_found' = (unsat_found \/ lines[next].kind = "unsat")
    BY <1>0, <1>5, <2>1 DEF ReadArbCpx, OutTypeOK
  <2> QED
    BY <1>0, <1>5, <1>k, <2>1, <2>2, <2>3, <2>4, LineGoesOn DEF ReadArbCpx
<1>6. CASE ReadCount
  <2>1. Reading(CountKinds) /\ Reading(CountKinds \ {"arb cpx"}) /\ lines[next].kind \in CountKinds
    BY <1>6 DEF ReadCount, Reading
  <2>2. CASE count # NoCount \/ Parsed(lines[next]) = NoCount
    <3>1. UNCHANGED <<cpx, ours, lines, next, count, unsat_found>> /\ returned' = "exit"
      BY <1>6, <2>2 DEF ReadCount, Return
    <3> QED
      BY <1>0, <2>1, <3>1, LineReturns
  <2>3. CASE count = NoCount /\ Parsed(lines[next]) # NoCount
    <3>1. count' = Parsed(lines[next]) /\ GoOn /\ UNCHANGED <<cpx, ours, lines, unsat_found>>
      BY <1>6, <2>3 DEF ReadCount
    <3>2. count' \in Values /\ count' # NoCount
      BY <1>v, <2>1, <2>3, <3>1, ParsedTyped
    <3>3. ~unsat_found => count' = lines[next].val
      BY <2>3, <3>1 DEF Parsed
    <3>4. OutTypeOK' /\ pc' = "idle"
      BY <1>0, <1>g, <2>1, <3>1, <3>2 DEF OutTypeOK
    <3>5. unsat_found' = (unsat_found \/ lines[next].kind = "unsat")
      BY <1>0, <1>k, <2>1, <3>1 DEF OutTypeOK
    <3> QED
      BY <1>0, <1>k, <2>1, <2>3, <3>1, <3>2, <3>3, <3>4, <3>5, LineGoesOn
  <2> QED
    BY <2>2, <2>3
<1>7. CASE End
  BY <1>0, <1>7, OutputEnded
<1> QED
  BY <1>1, <1>2, <1>3, <1>4, <1>5, <1>6, <1>7 DEF ReadOutput, ReadLine

LEMMA OutStep ==
  ASSUME ProcInv, OutInv, [Next]_vars
  PROVE  OutInv'
<1>1. CASE Call
  <2>1. /\ lines' = <<>> /\ next' = 1 /\ count' = NoCount /\ unsat_found' = FALSE
        /\ returned' = "running" /\ cpx' = cpx /\ ours' = ours
    BY <1>1 DEF Call
  <2>2. OutTypeOK'
    BY <2>1, EmptyIsOutput DEF OutInv, OutTypeOK
  <2>3. NotBegun'
    BY <2>1 DEF NotBegun
  <2> QED
    BY <2>1, <2>2, <2>3, OutBegins
<1>2. CASE Answer
  <2>1. pc = "classify" /\ pc' = "idle"
    BY <1>2 DEF Answer, Classify
  <2>2. returned = "running"
    BY <2>1 DEF ProcInv, Answered, MainPlaces
  <2>3. lines = <<>> /\ next = 1 /\ count = NoCount /\ ~unsat_found
    BY <2>1 DEF OutInv, NotBegun, MainPlaces
  <2>4. /\ next' = 1 /\ count' = NoCount /\ unsat_found' = FALSE /\ cpx' = cpx /\ ours' = ours
        /\ lines' \in Outputs /\ returned' \in {"running", "no count", "failed"}
        /\ returned' = "failed" => result' # "output"
    BY <1>2, <2>2, <2>3, EmptyIsOutput DEF Answer, OutInv, OutTypeOK
  <2>5. next' \in 1..Len(lines') + 1
    <3>1. Len(lines') \in Nat /\ next' = 1
      BY <2>4, OutputIsSeq
    <3> QED
      BY <3>1
  <2>6. OutTypeOK'
    BY <2>4, <2>5 DEF OutInv, OutTypeOK
  <2>7. NotBegun'
    BY <2>1 DEF NotBegun
  <2> QED
    BY <2>4, <2>6, <2>7, OutBegins
<1>3. CASE ReadOutput
  BY <1>3, ReadKeepsOut
<1>4. CASE Beside(Await)
  BY <1>4, OutKept DEF Beside, Await, Assign, OutputEnds, Reap, TimeoutExpired, Kill, Reset,
                       MainPlaces, InWaitpid
<1>5. CASE Beside(Handle)
  BY <1>5, OutKept DEF Beside, Handle, HandlerPolls, HandlerKills, HandlerWaits, MainPlaces
<1>6. CASE Beside(World)
  BY <1>6, OutKept DEF Beside, World, ChildEnds, ChildDies, Tick, Signal, MainPlaces
<1>7. CASE UNCHANGED vars
  BY <1>7, OutKept DEF vars, proc_vars
<1>8. CASE Beside(Rest)
  BY <1>7, <1>8 DEF Beside, Rest, HandlerStuck, Terminated, vars
<1> QED
  BY <1>1, <1>2, <1>3, <1>4, <1>5, <1>6, <1>7, <1>8 DEF Next, Main

-----------------------------------------------------------------------------
(***************************************************************************)
(* The theorems.                                                           *)
(***************************************************************************)

LEMMA Inductive == Spec => []IndInv
<1>1. Init => IndInv
  <2> SUFFICES ASSUME Init PROVE IndInv
    OBVIOUS
  <2>1. ProcInv
    BY DEF Init, ProcInit, ProcInv, ProcTypeOK, CurrentIsSet, WaitedFor, KilledIsSlow, Answered,
           Place, MainPlaces, HandlerPlaces, Dead
  <2>2. OutTypeOK
    BY EmptyIsOutput DEF Init, OutTypeOK
  <2>3. NotBegun
    BY DEF Init, ProcInit, NotBegun
  <2>4. \A kinds : Seen(kinds) = {}
    BY DEF Init, Seen
  <2> QED
    BY <2>1, <2>2, <2>3, <2>4 DEF Init, OutInv, IndInv
<1>2. IndInv /\ [Next]_vars => IndInv'
  BY ProcStep, OutStep DEF IndInv
<1> QED
  BY <1>1, <1>2, PTL DEF Spec

\* The state is always well formed.
THEOREM TypeCorrect == Spec => [](ProcTypeOK /\ OutTypeOK)
<1>1. IndInv => ProcTypeOK /\ OutTypeOK
  BY DEF IndInv, ProcInv, OutInv
<1> QED
  BY <1>1, Inductive, PTL

\* Whatever the time limits, a count never comes from a counter that was killed or
\* crashed, nor from an output with a failed assertion anywhere in it.
THEOREM CountsAreEarned == Spec => []CountIsEarned
<1>1. IndInv => CountIsEarned
  <2> SUFFICES ASSUME IndInv, returned = "count", pc = "idle"
               PROVE  child = "exited" /\ ~timed_out
                      /\ Of(BadKinds \union {"memory out"}) = {}
    BY DEF CountIsEarned
  <2>1. child = "exited" /\ ~timed_out
    BY DEF IndInv, ProcInv, Answered
  <2>2. Seen(BadKinds \union {"memory out"}) = {}
    BY DEF IndInv, OutInv
  <2>3. next - 1 = Len(lines)
    <3>1. next = Len(lines) + 1 /\ Len(lines) \in Nat
      BY OutputIsSeq DEF IndInv, OutInv, OutTypeOK
    <3> QED
      BY <3>1
  <2> QED
    BY <2>1, <2>2, <2>3 DEF Seen, Of
<1> QED
  BY <1>1, Inductive, PTL

\* Whatever the time limits, no test fails because its counter was killed for being
\* slow.
THEOREM FailuresAreOwn == Spec => []FailureIsOwn
<1>1. IndInv => FailureIsOwn
  <2> SUFFICES ASSUME IndInv, returned = "failed", pc = "idle"
               PROVE  /\ ~timed_out
                      /\ child = "exited" =>
                            Of(BadKinds) # {} \/ (ours /\ Of(CountKinds \union {"unsat"}) = {})
    BY DEF FailureIsOwn
  <2>1. ~timed_out /\ (child = "exited" => result = "output")
    BY DEF IndInv, ProcInv, Answered
  <2> QED
    BY <2>1 DEF IndInv, OutInv
<1> QED
  BY <1>1, Inductive, PTL

\* For every output, of any length, the count that is returned is one it states.
THEOREM CountsAreStated == Spec => []CountIsStated
<1>1. IndInv => CountIsStated
  BY DEF IndInv, OutInv, CountIsStated
<1> QED
  BY <1>1, Inductive, PTL

\* However many signals come and wherever they come, the fuzzer ends with its counter
\* dead, but for the one moment before current_proc is set.
THEOREM NoneLeftBehind == Spec => []NoOrphan
<1>1. IndInv => NoOrphan
  BY DEF IndInv, ProcInv, WaitedFor, NoOrphan
<1> QED
  BY <1>1, Inductive, PTL

=============================================================================
