-------------------------- MODULE BatchPipelineProofs --------------------------
(***************************************************************************)
(* Proofs about BatchPipeline for any number of demos, workers and any     *)
(* memory: a batch reported complete has parsed and analysed every demo; a *)
(* batch is reported cancelled only when the user cancelled it; the gate   *)
(* books what the running workers need; and nothing runs on after the      *)
(* verdict.                                                                *)
(***************************************************************************)
EXTENDS BatchPipeline, FiniteFacts, TLAPS

Held(j) == \E w \in Workers : at[w] \in {"gate", "lock", "run"} /\ job[w] = j

\* Some worker has failed and has not told the others yet, or they know.
Stopping == cancelled \/ \E w \in Workers : at[w] \in {"failed", "report"}

\* Every job taken from the queue is done, in a worker's hands, or the batch
\* is stopping.
Accounted(finished) ==
    \A j \in Jobs : j < next => j \in finished \/ Held(j) \/ Stopping

\* A worker leaves a phase that is not stopping only when the queue is empty.
DrainedInv ==
    \A w \in Workers : at[w] = "stopped" => cancelled \/ next > JobCount

ControlType ==
    /\ stage \in {"prepare", "parse", "analyze", "combine", "over"}
    /\ at \in [Workers -> Places] /\ job \in [Workers -> Jobs]
    /\ next \in Nat \ {0}
    /\ cancelled \in BOOLEAN /\ error \in BOOLEAN /\ asked \in BOOLEAN
    /\ parsed \subseteq Jobs /\ analyzed \subseteq Jobs

ParseInv == stage = "parse" => Accounted(parsed) /\ DrainedInv

AnalyzeInv ==
    stage = "analyze" => parsed = Jobs /\ Accounted(analyzed) /\ DrainedInv

\* The flag is set by the user or along with an error.
FlagInv ==
    /\ cancelled => asked \/ error
    /\ verdict = "cancelled" => asked
    /\ verdict # "none" => stage = "over"
    /\ stage = "prepare" => ~ error /\ \A w \in Workers : at[w] = "stopped"

IInv == ControlType /\ ParseInv /\ AnalyzeInv /\ FlagInv /\ CompleteMeansAll

LEMMA Sizes == JobCount \in Nat /\ JobCount >= 1 /\ Ceiling \in Nat /\ Ceiling >= 1
  BY BatchAssumption

LEMMA FirstJob == 1 \in Jobs
  BY Sizes DEF Jobs

LEMMA InitIInv == Init => IInv
<1> SUFFICES ASSUME Init PROVE IInv
  OBVIOUS
<1>1. at \in [Workers -> Places] /\ job \in [Workers -> Jobs]
  BY FirstJob DEF Init, Places
<1>2. ControlType
  <2>1. cancelled \in BOOLEAN /\ error \in BOOLEAN /\ asked \in BOOLEAN
    BY Zenon DEF Init
  <2>2. stage = "prepare" /\ next = 1 /\ parsed = {} /\ analyzed = {}
    BY DEF Init
  <2> QED BY <1>1, <2>1, <2>2 DEF ControlType
<1>3. ParseInv /\ AnalyzeInv /\ FlagInv /\ CompleteMeansAll
  BY DEF Init, ParseInv, AnalyzeInv, FlagInv, CompleteMeansAll
<1> QED BY <1>2, <1>3 DEF IInv

\* What the two phases have in common: a step of worker w that leaves the rest
\* alone keeps the jobs accounted for.
LEMMA WorkKeeps ==
    ASSUME NEW w \in Workers, IInv, Work(w)
    PROVE  IInv'
<1> USE DEF IInv, ControlType, ParseInv, AnalyzeInv, FlagInv, CompleteMeansAll,
            Accounted, Held, Stopping, DrainedInv, Places, Goes, worker, gate,
            memory, results
<1>1. CASE Look(w) BY <1>1 DEF Look
<1>2. CASE Claim(w)
  <2>1. at[w] = "claim" /\ next' = next + 1
    BY <1>2 DEF Claim
  <2>2. UNCHANGED <<stage, asked, verdict, cancelled, error, parsed, analyzed>>
    BY <1>2 DEF Claim
  <2>3. CASE next \in Jobs
    <3>1. at' = [at EXCEPT ![w] = "gate"] /\ job' = [job EXCEPT ![w] = next]
      BY <1>2, <2>3 DEF Claim
    <3> QED BY Sizes, <2>1, <2>2, <2>3, <3>1 DEF Jobs
  <2>4. CASE next \notin Jobs
    <3>1. at' = [at EXCEPT ![w] = "stopped"] /\ job' = job
      BY <1>2, <2>4 DEF Claim
    <3>2. next > JobCount
      BY Sizes, <2>4 DEF Jobs
    <3> QED BY Sizes, <2>1, <2>2, <3>1, <3>2 DEF Jobs
  <2> QED BY <2>3, <2>4
<1>3. CASE Measure(w) BY <1>3 DEF Measure
<1>4. CASE MeasureFails(w) BY <1>4 DEF MeasureFails
<1>5. CASE Admit(w)
  <2>1. at' = [at EXCEPT ![w] = "run"] /\ at[w] = "lock"
    BY <1>5 DEF Admit
  <2>2. /\ UNCHANGED <<stage, asked, verdict, job, next, cancelled, error, parsed, analyzed>>
    BY <1>5 DEF Admit
  <2> QED BY <2>1, <2>2
<1>6. CASE Refuse(w) BY <1>6 DEF Refuse
<1>7. CASE Done(w)
  <2>1. at' = [at EXCEPT ![w] = "top"] /\ at[w] = "run"
    BY <1>7 DEF Done
  <2>2. UNCHANGED <<stage, asked, verdict, job, next, cancelled, error>>
    BY <1>7 DEF Done, Release
  <2>3. CASE stage = "parse"
    <3>1. parsed' = parsed \cup {job[w]} /\ UNCHANGED analyzed
      BY <1>7, <2>3 DEF Done
    <3> QED BY <2>1, <2>2, <2>3, <3>1
  <2>4. CASE stage # "parse"
    <3>1. analyzed' = analyzed \cup {job[w]} /\ UNCHANGED parsed
      BY <1>7, <2>4 DEF Done
    <3> QED BY <2>1, <2>2, <2>4, <3>1
  <2> QED BY <2>3, <2>4
<1>8. CASE JobFails(w) BY <1>8 DEF JobFails, Release
<1>9. CASE SeeCancel(w) BY <1>9 DEF SeeCancel, Release
<1>10. CASE Diagnose(w) BY <1>10 DEF Diagnose
<1>11. CASE Report(w) BY <1>11 DEF Report
<1> QED BY <1>1, <1>2, <1>3, <1>4, <1>5, <1>6, <1>7, <1>8, <1>9, <1>10, <1>11 DEF Work

LEMMA AnalyzeKeeps ==
    ASSUME NEW w \in Workers, IInv, Analyze(w)
    PROVE  IInv'
  BY DEF Analyze, IInv, ControlType, ParseInv, AnalyzeInv, FlagInv, CompleteMeansAll,
         Accounted, Held, Stopping, DrainedInv, worker, gate, results

\* A fresh phase has taken no job and has no thread that has stopped.
LEMMA FreshPhase ==
    ASSUME Fresh
    PROVE  /\ at' \in [Workers -> Places] /\ next' = 1 /\ error' = FALSE
           /\ (\A j \in Jobs : ~ (j < next')) /\ DrainedInv'
<1>1. at' = [w \in Workers |-> "top"] /\ next' = 1 /\ error' = FALSE
  BY DEF Fresh
<1>2. at' \in [Workers -> Places] /\ DrainedInv'
  BY <1>1 DEF Places, DrainedInv
<1>3. \A j \in Jobs : ~ (j < next')
  BY <1>1, Sizes DEF Jobs
<1> QED BY <1>1, <1>2, <1>3

\* The end of the batch changes nothing but the verdict.
LEMMA EndKeeps ==
    ASSUME IInv, NEW result, Ends(result),
           result = "cancelled" => asked,
           result = "complete" => parsed = Jobs /\ analyzed = Jobs
    PROVE  IInv'
  BY DEF Ends, IInv, ControlType, ParseInv, AnalyzeInv, FlagInv, CompleteMeansAll,
         worker, results

LEMMA PrepareKeeps == IInv /\ Prepare => IInv'
<1> SUFFICES ASSUME IInv, Prepare PROVE IInv'
  OBVIOUS
<1>1. CASE Ends("failed")
  BY <1>1, EndKeeps DEF Prepare
<1>2. CASE Fresh /\ stage' = "parse"
           /\ UNCHANGED <<job, limit, usable, memory, cancelled, results, asked, verdict>>
  <2>1. /\ at' \in [Workers -> Places] /\ next' = 1 /\ error' = FALSE
        /\ (\A j \in Jobs : ~ (j < next')) /\ DrainedInv'
    BY <1>2, FreshPhase
  <2>2. Accounted(parsed)'
    BY <2>1 DEF Accounted
  <2>3. stage = "prepare" /\ stage' = "parse" /\ verdict' = verdict
    BY <1>2 DEF Prepare
  <2>4. ControlType'
    <3>1. UNCHANGED <<job, cancelled, asked, parsed, analyzed>> /\ next' \in Nat \ {0}
      BY <1>2, <2>1 DEF results
    <3>2. error' \in BOOLEAN
      BY <2>1, Zenon
    <3> QED BY <2>1, <2>3, <3>1, <3>2 DEF IInv, ControlType
  <2>5. FlagInv'
    <3>1. (cancelled' => asked') /\ verdict' # "cancelled" /\ verdict' = "none"
      BY <1>2, <2>3 DEF IInv, FlagInv
    <3> QED BY <2>3, <3>1 DEF FlagInv
  <2>6. ParseInv' /\ AnalyzeInv' /\ CompleteMeansAll'
    BY <2>1, <2>2, <2>3 DEF IInv, FlagInv, ParseInv, AnalyzeInv, CompleteMeansAll
  <2> QED BY <2>4, <2>5, <2>6 DEF IInv
<1> QED BY <1>1, <1>2 DEF Prepare

\* When every thread has stopped and nobody has set the flag, every job of the
\* phase is done: the queue is empty, no job is in a thread's hands.
LEMMA AllDone ==
    ASSUME ControlType, NEW STATE finished, finished \subseteq Jobs, Accounted(finished), DrainedInv,
           \A w \in Workers : at[w] = "stopped", ~ cancelled
    PROVE  finished = Jobs
<1>1. 1 \in Workers
  BY Sizes DEF Workers
<1>2. next > JobCount
  BY <1>1 DEF DrainedInv
<1>3. \A j \in Jobs : j < next
  BY <1>2, Sizes DEF Jobs, ControlType
<1>4. ~ Stopping /\ \A j : ~ Held(j)
  BY DEF Stopping, Held
<1> QED BY <1>3, <1>4 DEF Accounted

LEMMA EndPhase1Keeps == IInv /\ EndPhase1 => IInv'
<1> SUFFICES ASSUME IInv, EndPhase1 PROVE IInv'
  OBVIOUS
<1>1. stage = "parse" /\ Join(StartPhase2)
  BY DEF EndPhase1
<1>2. CASE error /\ Ends("failed")
  BY <1>2, EndKeeps
<1>3. CASE ~ error /\ cancelled /\ Ends("cancelled")
  <2>1. asked
    BY <1>3 DEF IInv, FlagInv
  <2> QED BY <1>3, <2>1, EndKeeps
<1>4. CASE /\ ~ error /\ ~ cancelled /\ stage' = "analyze" /\ Fresh
           /\ UNCHANGED <<job, limit, usable, memory, cancelled, results, asked, verdict>>
  <2>1. /\ at' \in [Workers -> Places] /\ next' = 1 /\ error' = FALSE
        /\ (\A j \in Jobs : ~ (j < next')) /\ DrainedInv'
    BY <1>4, FreshPhase
  <2>2. Accounted(analyzed)'
    BY <2>1 DEF Accounted
  <2>3. parsed = Jobs
    BY <1>1, <1>4, AllDone DEF IInv, ControlType, ParseInv, Join
  <2>4. UNCHANGED <<job, cancelled, asked, parsed, analyzed, verdict>> /\ stage' = "analyze"
    BY <1>4 DEF results
  <2>5. ControlType'
    <3>1. error' \in BOOLEAN
      BY <2>1, Zenon
    <3> QED BY <2>1, <2>4, <3>1 DEF IInv, ControlType
  <2>6. FlagInv'
    <3>1. ~ cancelled' /\ verdict' = "none"
      BY <1>1, <1>4, <2>4 DEF IInv, FlagInv
    <3> QED BY <2>4, <3>1 DEF FlagInv
  <2>7. ParseInv' /\ AnalyzeInv' /\ CompleteMeansAll'
    BY <1>1, <2>1, <2>3, <2>4, <2>2 DEF IInv, FlagInv, ParseInv, AnalyzeInv, CompleteMeansAll
  <2> QED BY <2>5, <2>6, <2>7 DEF IInv
<1>5. CASE Ends("failed")
  BY <1>5, EndKeeps
<1> QED BY <1>1, <1>2, <1>3, <1>4, <1>5 DEF Join, StartPhase2

LEMMA EndPhase2Keeps == IInv /\ EndPhase2 => IInv'
<1> SUFFICES ASSUME IInv, EndPhase2 PROVE IInv'
  OBVIOUS
<1>1. stage = "analyze" /\ \A w \in Workers : at[w] = "stopped"
  BY DEF EndPhase2, Join
<1>2. CASE error /\ Ends("failed")
  BY <1>2, EndKeeps
<1>3. CASE ~ error /\ cancelled /\ Ends("cancelled")
  <2>1. asked
    BY <1>3 DEF IInv, FlagInv
  <2> QED BY <1>3, <2>1, EndKeeps
<1>4. CASE /\ ~ error /\ ~ cancelled /\ stage' = "combine"
           /\ UNCHANGED <<worker, next, gate, memory, cancelled, error, results,
                          asked, verdict>>
  <2>1. parsed = Jobs /\ analyzed = Jobs
    BY <1>1, <1>4, AllDone DEF IInv, ControlType, AnalyzeInv
  <2> QED BY <1>1, <1>4, <2>1 DEF IInv, ControlType, ParseInv, AnalyzeInv, FlagInv,
                                CompleteMeansAll, worker, results
<1> QED BY <1>2, <1>3, <1>4 DEF EndPhase2, Join

LEMMA CombineKeeps == IInv /\ Combine => IInv'
  BY EndKeeps DEF Combine, IInv, CompleteMeansAll

LEMMA CancelKeeps == IInv /\ UserCancels => IInv'
  BY DEF UserCancels, IInv, ControlType, ParseInv, AnalyzeInv, FlagInv, CompleteMeansAll,
         Accounted, Held, Stopping, DrainedInv, worker, results

LEMMA StutterKeeps == IInv /\ UNCHANGED vars => IInv'
  BY DEF vars, IInv, ControlType, ParseInv, AnalyzeInv, FlagInv, CompleteMeansAll,
         Accounted, Held, Stopping, DrainedInv, worker, results

\* The jobs of the queue stay accounted for: done, in a thread's hands, or the
\* batch is stopping; and the flag is set by the user or along with an error.
THEOREM IInvHolds == Spec => []IInv
<1>1. IInv /\ [Next]_vars => IInv'
  BY WorkKeeps, AnalyzeKeeps, PrepareKeeps, EndPhase1Keeps, EndPhase2Keeps, CombineKeeps,
     CancelKeeps, StutterKeeps DEF Next
<1> QED BY InitIInv, <1>1, PTL DEF Spec

\* A batch reported complete has parsed and analysed every demo.
THEOREM CompleteIsAll == Spec => []CompleteMeansAll
<1>1. IInv => CompleteMeansAll
  BY DEF IInv
<1> QED BY IInvHolds, <1>1, PTL

\* A batch reported cancelled was cancelled by the user, never by an error.
THEOREM CancelledWasAsked == Spec => []CancelledMeansAsked
<1>1. IInv => CancelledMeansAsked
  BY DEF IInv, FlagInv, CancelledMeansAsked
<1> QED BY IInvHolds, <1>1, PTL

-----------------------------------------------------------------------------
(* The memory gate *)

Running == {w \in Workers : at[w] = "run"}
Stopped == {w \in Workers : at[w] = "stopped"}

\* What each worker's job needs, and what sets of workers need together.
Needs   == [w \in Workers |-> Need(job[w])]
Booking == [S \in SUBSET Workers |-> MapThenSumSet(LAMBDA w : Need(job[w]), S)]

LEMMA WorkersFinite == IsFiniteSet(Workers) /\ Cardinality(Workers) = Ceiling
  BY Sizes, FS_Interval DEF Workers

BookingSums == Sums(Booking, Needs, SUBSET Workers)

LEMMA BookingAdds == BookingSums
<1>1. PICK g : Sums(g, Needs, SUBSET Workers)
  BY WorkersFinite, SumsExist
<1>2. ASSUME NEW S \in SUBSET Workers PROVE Booking[S] = g[S]
  <2> DEFINE iter[s \in SUBSET S] ==
               IF s = {} THEN 0
               ELSE LET x == CHOOSE y \in s : TRUE IN Need(job[x]) + iter[s \ {x}]
  <2>1. Booking[S] = iter[S]
    BY DEF MapThenSumSet, MapThenFoldSet, Booking
  <2>2. iter = [s \in SUBSET S |->
                 IF s = {} THEN 0 ELSE Need(job[Pick(s)]) + iter[s \ {Pick(s)}]]
    <3> DEFINE f == [s \in SUBSET S |-> g[s]]
    <3>1. f = [s \in SUBSET S |->
                 IF s = {} THEN 0 ELSE Need(job[Pick(s)]) + f[s \ {Pick(s)}]]
      <4>1. ASSUME NEW s \in SUBSET S, s # {}
            PROVE  g[s] = Need(job[Pick(s)]) + f[s \ {Pick(s)}]
        <5>1. Pick(s) \in s
          BY <4>1, PickIn
        <5>2. g[s] = Needs[Pick(s)] + g[s \ {Pick(s)}]
          BY <1>1, <4>1 DEF Sums
        <5>3. Needs[Pick(s)] = Need(job[Pick(s)])
          BY <5>1 DEF Needs
        <5>4. f[s \ {Pick(s)}] = g[s \ {Pick(s)}]
          OBVIOUS
        <5> QED BY <5>2, <5>3, <5>4
      <4>2. g[{}] = 0
        BY <1>1 DEF Sums
      <4> QED BY <4>1, <4>2, Zenon
    <3> HIDE DEF f
    <3> QED BY <3>1 DEF Pick
  <2>3. Sums(iter, Needs, SUBSET S)
    <3> SUFFICES ASSUME NEW s \in SUBSET S
                 PROVE  iter[s] = IF s = {} THEN 0 ELSE Needs[Pick(s)] + iter[s \ {Pick(s)}]
      BY DEF Sums
    <3>1. s # {} => Needs[Pick(s)] = Need(job[Pick(s)])
      BY PickIn DEF Needs
    <3> HIDE DEF iter
    <3> QED BY <2>2, <3>1
  <2> HIDE DEF iter
  <2>4. \A s \in SUBSET S : g[s] = iter[s]
    <3>1. IsFiniteSet(Workers) /\ Same(g, iter, S)
      BY <1>1, <2>3, WorkersFinite, SumsUnique
    <3> QED BY <3>1 DEF Same
  <2> QED BY <2>1, <2>4
<1>3. ASSUME NEW s \in SUBSET Workers
      PROVE  Booking[s] = IF s = {} THEN 0 ELSE Needs[Pick(s)] + Booking[s \ {Pick(s)}]
  BY <1>1, <1>2 DEF Sums
<1> QED BY <1>3 DEF Sums, BookingSums

\* What a worker's step does to the sets of those that run and that stopped.
LEMMA Moved ==
    ASSUME at \in [Workers -> Places], NEW w \in Workers, NEW to, at' = [at EXCEPT ![w] = to]
    PROVE  /\ Running' = IF to = "run" THEN Running \cup {w} ELSE Running \ {w}
           /\ Stopped' = IF to = "stopped" THEN Stopped \cup {w} ELSE Stopped \ {w}
  BY DEF Running, Stopped

LEMMA Counted ==
    /\ Running \in SUBSET Workers /\ Stopped \in SUBSET Workers
    /\ IsFiniteSet(Running) /\ IsFiniteSet(Stopped)
    /\ Cardinality(Running) \in Nat /\ Cardinality(Stopped) \in Nat
    /\ Cardinality(Stopped) <= Ceiling
<1>1. Running \in SUBSET Workers /\ Stopped \in SUBSET Workers
  BY DEF Running, Stopped
<1> QED BY <1>1, WorkersFinite, FS_Subset, FS_CardinalityType

\* Everything that is out is accounted for by the workers that run, and the
\* queue's index runs past its end once for each worker that stops there.
GateInv ==
    /\ limit \in [Workers -> 1..Ceiling] /\ usable \in [Workers -> Nat]
    /\ available \in Readings /\ lowSamples \in 0..LowSamplesToStop
    /\ verdict \in {"none", "complete", "failed", "cancelled"}
    /\ active = Cardinality(Running) /\ booked = Booking[Running]
    /\ children \subseteq {job[w] : w \in Running}
    /\ next <= JobCount + 1 + Cardinality(Stopped)
    /\ stage \notin {"parse", "analyze"} => \A w \in Workers : at[w] = "stopped"

Full == IInv /\ GateInv

LEMMA BookingAddsNext == BookingSums'
  BY BookingAdds, PTL

LEMMA RunningNext == Running' \in SUBSET Workers
  BY DEF Running

LEMMA NeedsNat == ControlType => Needs \in [Workers -> Nat]
  BY BatchAssumption DEF ControlType, Needs, Need

LEMMA NothingRuns ==
    (\A w \in Workers : at[w] = "stopped")
    => Running = {} /\ Stopped = Workers /\ Cardinality(Stopped) = Ceiling
  BY WorkersFinite DEF Running, Stopped

LEMMA NothingBooked == Booking[{}] = 0 /\ Cardinality({}) = 0
<1>1. {} \in SUBSET Workers
  OBVIOUS
<1> QED BY <1>1, BookingAdds, FS_EmptySet DEF BookingSums, Sums

LEMMA InitGateInv == Init => GateInv
<1> SUFFICES ASSUME Init PROVE GateInv
  OBVIOUS
<1>1. Running = {} /\ children = {} /\ active = 0 /\ booked = 0
  BY NothingRuns DEF Init
<1>2. Cardinality(Stopped) \in Nat
  BY Counted
<1>3. limit \in [Workers -> 1..Ceiling] /\ usable \in [Workers -> Nat]
  BY Sizes DEF Init
<1> QED BY <1>1, <1>2, <1>3, NothingBooked, Sizes DEF Init, GateInv, LowSamplesToStop

\* What is booked stays what it is as long as the running jobs are the same.
LEMMA SameBooking ==
    ASSUME stage' = stage, \A x \in Running : job'[x] = job[x]
    PROVE  Booking'[Running] = Booking[Running]
<1>1. BookingSums /\ BookingSums'
  BY BookingAdds, BookingAddsNext
<1>2. Sums(Booking', Needs', SUBSET Running)
  <2>1. Running \in SUBSET Workers
    BY Counted
  <2> QED BY <1>1, <2>1 DEF BookingSums, Sums
<1>3. Agree(Needs, Needs', Running)
  BY DEF Agree, Needs, Need, Running
<1>4. /\ Sums(Booking, Needs, SUBSET Workers) /\ IsFiniteSet(Workers)
      /\ Running \in SUBSET Workers /\ Running \in SUBSET Running
  BY <1>1, Counted, WorkersFinite DEF BookingSums
<1> QED BY <1>2, <1>3, <1>4, SumsAgree

LEMMA NothingStarts ==
    ASSUME ControlType, GateInv, NEW w \in Workers, NEW from, NEW to, Goes(w, from, to),
           from # "run", to # "run", from # "stopped",
           \A x \in Workers \ {w} : job'[x] = job[x],
           UNCHANGED gate, UNCHANGED results
    PROVE  /\ active' = Cardinality(Running') /\ booked' = Booking'[Running']
           /\ children' \subseteq {job'[x] : x \in Running'}
           /\ stage' \notin {"parse", "analyze"} => \A x \in Workers : at'[x] = "stopped"
<1>1. /\ at[w] = from /\ at' = [at EXCEPT ![w] = to] /\ UNCHANGED <<stage, verdict>>
      /\ UNCHANGED <<active, booked, children>>
  BY DEF Goes, gate, results
<1>2. Running' = Running
  BY <1>1, Moved DEF ControlType, Running
<1>3. \A x \in Running : job'[x] = job[x]
  BY <1>1 DEF Running
<1>4. Booking'[Running'] = Booking[Running]
  BY <1>1, <1>2, <1>3, SameBooking
<1>5. stage' \in {"parse", "analyze"}
  BY <1>1 DEF GateInv
<1> QED BY <1>1, <1>2, <1>3, <1>4, <1>5 DEF GateInv

\* A place in a permit's life: the sum and the count move together.
LEMMA Starts ==
    ASSUME ControlType, GateInv, NEW w \in Workers, Admit(w)
    PROVE  /\ active' = Cardinality(Running') /\ booked' = Booking'[Running']
           /\ children' \subseteq {job'[x] : x \in Running'}
           /\ stage' \notin {"parse", "analyze"} => \A x \in Workers : at'[x] = "stopped"
<1>1. /\ at[w] = "lock" /\ at' = [at EXCEPT ![w] = "run"] /\ UNCHANGED <<stage, job>>
      /\ active' = active + 1 /\ booked' = booked + Need(job[w])
      /\ children' \subseteq children \cup {job[w]}
  BY DEF Admit, Goes
<1>2. Running' = Running \cup {w} /\ w \notin Running
  BY <1>1, Moved DEF ControlType, Running
<1>3. BookingSums' /\ Running' \in SUBSET Workers
  BY BookingAddsNext, RunningNext
<1>4. Needs' \in [Workers -> Nat] /\ Needs'[w] = Need(job[w]) /\ Need(job[w]) \in Nat
  BY <1>1, NeedsNat DEF Needs, Need
<1>5. Booking'[Running'] = Needs'[w] + Booking'[Running' \ {w}]
  BY <1>2, <1>3, <1>4, WorkersFinite, SumsRemove DEF BookingSums
<1>6. Running' \ {w} = Running
  BY <1>2
<1>7. Booking'[Running] = Booking[Running]
  BY <1>1, SameBooking
<1>8. booked' = Booking'[Running']
  <2>1. Booking[Running] \in Nat
    BY Counted, WorkersFinite, BookingAdds, NeedsNat, SumsNat DEF BookingSums
  <2>2. Booking'[Running'] = Need(job[w]) + Booking[Running]
    BY <1>4, <1>5, <1>6, <1>7
  <2>3. booked' = Booking[Running] + Need(job[w])
    BY <1>1 DEF GateInv
  <2> QED BY <1>4, <2>1, <2>2, <2>3
<1>9. active' = Cardinality(Running')
  BY <1>1, <1>2, Counted, FS_AddElement DEF GateInv
<1>10. stage' \in {"parse", "analyze"}
  BY <1>1 DEF GateInv
<1> QED BY <1>1, <1>2, <1>8, <1>9, <1>10 DEF GateInv

LEMMA Ended ==
    ASSUME ControlType, GateInv, NEW w \in Workers, NEW to, to # "run",
           Goes(w, "run", to), Release(w), children' = children \ {job[w]}
    PROVE  /\ active' = Cardinality(Running') /\ booked' = Booking'[Running']
           /\ children' \subseteq {job'[x] : x \in Running'}
           /\ stage' \notin {"parse", "analyze"} => \A x \in Workers : at'[x] = "stopped"
           /\ active > 0 /\ booked' \in Nat
<1>1. /\ at[w] = "run" /\ at' = [at EXCEPT ![w] = to] /\ UNCHANGED <<stage, job>>
      /\ active' = active - 1 /\ booked' = booked - Need(job[w])
  BY DEF Goes, Release
<1>2. Running' = Running \ {w} /\ w \in Running
  BY <1>1, Moved DEF ControlType, Running
<1>3. BookingSums /\ Running \in SUBSET Workers /\ Running' \in SUBSET Workers
  BY BookingAdds, Counted, RunningNext
<1>4. Needs \in [Workers -> Nat] /\ Needs[w] = Need(job[w]) /\ Need(job[w]) \in Nat
  BY <1>1, NeedsNat DEF Needs, Need
<1>5. Booking[Running] = Needs[w] + Booking[Running \ {w}]
  BY <1>2, <1>3, <1>4, WorkersFinite, SumsRemove DEF BookingSums
<1>6. Booking'[Running'] = Booking[Running']
  <2>1. Sums(Booking', Needs', SUBSET Workers) /\ Running' \in SUBSET Workers
    BY BookingAddsNext, RunningNext DEF BookingSums
  <2>2. Needs' = Needs
    BY <1>1 DEF Needs, Need
  <2>3. Sums(Booking, Needs, SUBSET Workers)
    BY <1>3 DEF BookingSums
  <2>4. Same(Booking', Booking, Workers)
    BY <2>1, <2>2, <2>3, WorkersFinite, SumsUnique
  <2> QED BY <2>1, <2>4 DEF Same
<1>7. Booking[Running'] \in Nat
  BY <1>3, <1>4, WorkersFinite, SumsNat DEF BookingSums
<1>8. booked' = Booking'[Running'] /\ booked' \in Nat
  BY <1>1, <1>2, <1>4, <1>5, <1>6, <1>7 DEF GateInv
<1>9. active' = Cardinality(Running') /\ active > 0
  <2>1. Cardinality(Running) # 0
    BY <1>2, Counted, FS_EmptySet
  <2>2. Cardinality(Running') = Cardinality(Running) - 1
    BY <1>2, Counted, FS_RemoveElement
  <2>3. active = Cardinality(Running) /\ active' = active - 1
    BY <1>1 DEF GateInv
  <2> QED BY <2>1, <2>2, <2>3, Counted
<1>10. stage' \in {"parse", "analyze"}
  BY <1>1 DEF GateInv
<1>11. children' \subseteq {job'[x] : x \in Running'}
  BY <1>1, <1>2 DEF GateInv
<1> QED BY <1>8, <1>9, <1>10, <1>11

LEMMA MinMax ==
    ASSUME NEW a \in Nat, NEW b \in Nat
    PROVE  /\ Min({a, b}) = (IF a <= b THEN a ELSE b) /\ Max({a, b}) = (IF a <= b THEN b ELSE a)
  BY DEF Min, Max

LEMMA Quotient ==
    /\ \A a \in Nat, b \in Nat \ {0} : a \div b \in Nat
    /\ \A a \in Nat : a \div 2 \in Nat /\ a \div 2 <= a /\ a \div 4 \in Nat /\ a \div 4 <= a
  OBVIOUS

LEMMA CheckpointTypes ==
    ASSUME GateInv, NEW ok, Checkpoint(ok)
    PROVE  available' \in Readings /\ lowSamples' \in 0..LowSamplesToStop
<1>1. CASE UNCHANGED memory
  BY <1>1 DEF memory, GateInv
<1>2. CASE /\ available' \in Readings
           /\ lowSamples' = IF available' < Critical
                            THEN Min({lowSamples + 1, LowSamplesToStop}) ELSE 0
  <2>1. lowSamples + 1 \in Nat /\ LowSamplesToStop \in Nat /\ lowSamples + 1 > 0
    BY DEF GateInv, LowSamplesToStop
  <2> QED BY <1>2, <2>1, MinMax
<1> QED BY <1>1, <1>2 DEF Checkpoint

\* The live limit lets one worker in at least and no more than there are.
LEMMA LimitTypes ==
    ASSUME available' \in Readings
    PROVE  /\ Usable \in Nat /\ MemoryLimit \in 1..Ceiling
           /\ Max({1, MemoryLimit \div 4}) \in 1..Ceiling
<1>1. available' \in Nat /\ Reserved \in Nat /\ available' \div 2 \in Nat
      /\ available' \div 2 <= available'
  BY BatchAssumption, Quotient
<1>2. Usable \in Nat
  BY <1>1, MinMax DEF Usable
<1> DEFINE each == IF stage = "parse" THEN ParseNeed ELSE AnalysisWorker
           jobs == Usable \div each
           most == Min({jobs, Ceiling})
<1>3. jobs \in Nat
  BY <1>2, BatchAssumption, Quotient
<1>4. MemoryLimit = Max({1, most})
  BY DEF MemoryLimit
<1> HIDE DEF jobs
<1>5. most \in 0..Ceiling
  BY <1>3, Sizes, MinMax
<1> HIDE DEF most
<1>6. MemoryLimit \in 1..Ceiling
  <2>1. most \in Nat /\ Max({1, most}) = IF 1 <= most THEN most ELSE 1
    BY <1>5, Sizes, MinMax
  <2> QED BY <1>4, <1>5, <2>1, Sizes
<1> DEFINE least == MemoryLimit \div 4
<1>7. least \in 0..Ceiling
  BY <1>6, Sizes, Quotient
<1> HIDE DEF least
<1>8. Max({1, least}) \in 1..Ceiling
  <2>1. least \in Nat /\ Max({1, least}) = IF 1 <= least THEN least ELSE 1
    BY <1>7, Sizes, MinMax
  <2> QED BY <1>7, <2>1, Sizes
<1> QED BY <1>2, <1>6, <1>8 DEF least

LEMMA WorkTypes ==
    ASSUME GateInv, NEW w \in Workers, Work(w) \/ Analyze(w)
    PROVE  /\ limit' \in [Workers -> 1..Ceiling] /\ usable' \in [Workers -> Nat]
           /\ available' \in Readings /\ lowSamples' \in 0..LowSamplesToStop
           /\ verdict' \in {"none", "complete", "failed", "cancelled"}
<1> USE DEF Goes, GateInv
<1>1. ASSUME UNCHANGED <<limit, usable>>, UNCHANGED verdict,
             UNCHANGED memory \/ \E ok \in BOOLEAN : Checkpoint(ok)
      PROVE  /\ limit' \in [Workers -> 1..Ceiling] /\ usable' \in [Workers -> Nat]
             /\ available' \in Readings /\ lowSamples' \in 0..LowSamplesToStop
             /\ verdict' \in {"none", "complete", "failed", "cancelled"}
  <2>1. available' \in Readings /\ lowSamples' \in 0..LowSamplesToStop
    BY <1>1, CheckpointTypes DEF memory
  <2> QED BY <1>1, <2>1
<1>2. CASE Measure(w)
  <2>1. Checkpoint(TRUE) /\ UNCHANGED verdict
    BY <1>2 DEF Measure
  <2>2. available' \in Readings /\ lowSamples' \in 0..LowSamplesToStop
    BY <2>1, CheckpointTypes
  <2>3. PICK n \in Max({1, MemoryLimit \div 4})..MemoryLimit : limit' = [limit EXCEPT ![w] = n]
    BY <1>2 DEF Measure
  <2>4. n \in 1..Ceiling /\ Usable \in Nat
    <3> DEFINE least == Max({1, MemoryLimit \div 4})
    <3>1. n \in least..MemoryLimit
      OBVIOUS
    <3>2. least \in 1..Ceiling /\ MemoryLimit \in 1..Ceiling /\ Usable \in Nat
      BY <2>2, LimitTypes
    <3> HIDE DEF least
    <3> QED BY <3>1, <3>2, Sizes
  <2>5. usable' = [usable EXCEPT ![w] = Usable]
    BY <1>2 DEF Measure
  <2> QED BY <2>1, <2>2, <2>3, <2>4, <2>5
<1>3. CASE Look(w) BY <1>1, <1>3 DEF Look
<1>4. CASE Claim(w) BY <1>1, <1>4 DEF Claim
<1>5. CASE MeasureFails(w) BY <1>1, <1>5 DEF MeasureFails
<1>6. CASE Admit(w) BY <1>1, <1>6 DEF Admit
<1>7. CASE Refuse(w) BY <1>1, <1>7 DEF Refuse
<1>8. CASE Done(w) BY <1>1, <1>8 DEF Done, Release
<1>9. CASE JobFails(w) BY <1>1, <1>9 DEF JobFails, Release
<1>10. CASE SeeCancel(w) BY <1>1, <1>10 DEF SeeCancel, Release
<1>11. CASE Diagnose(w) BY <1>1, <1>11 DEF Diagnose
<1>12. CASE Report(w) BY <1>1, <1>12 DEF Report
<1>13. CASE Analyze(w) BY <1>1, <1>13 DEF Analyze, worker
<1> QED BY <1>2, <1>3, <1>4, <1>5, <1>6, <1>7, <1>8, <1>9, <1>10, <1>11, <1>12, <1>13 DEF Work

\* A worker takes the index past the end of the queue once, and stops.
LEMMA QueueBound ==
    ASSUME ControlType, GateInv, NEW w \in Workers, Work(w)
    PROVE  next' <= JobCount + 1 + Cardinality(Stopped')
<1>1. IsFiniteSet(Stopped) /\ Cardinality(Stopped) \in Nat /\ next \in Nat
      /\ next <= JobCount + 1 + Cardinality(Stopped)
  BY Counted DEF ControlType, GateInv
<1>2. ASSUME NEW to, at' = [at EXCEPT ![w] = to], at[w] # "stopped"
      PROVE  /\ Cardinality(Stopped') = IF to = "stopped" THEN Cardinality(Stopped) + 1
                                        ELSE Cardinality(Stopped)
  <2>1. w \notin Stopped
    BY <1>2 DEF Stopped
  <2>2. Stopped' = IF to = "stopped" THEN Stopped \cup {w} ELSE Stopped
    <3>1. Stopped' = IF to = "stopped" THEN Stopped \cup {w} ELSE Stopped \ {w}
      BY <1>2, Moved DEF ControlType
    <3>2. Stopped \ {w} = Stopped
      BY <2>1
    <3> QED BY <3>1, <3>2
  <2> QED BY <1>1, <2>1, <2>2, FS_AddElement
<1>3. CASE Claim(w)
  <2>1. at[w] = "claim" /\ next' = next + 1
    BY <1>3 DEF Claim, Goes
  <2>2. CASE next \in Jobs
    <3>1. Cardinality(Stopped') = Cardinality(Stopped)
      <4>1. PICK to \in {"gate"} : at' = [at EXCEPT ![w] = to]
        BY <1>3, <2>2 DEF Claim, Goes
      <4> QED BY <1>2, <2>1, <4>1
    <3> QED BY <1>1, <2>1, <2>2, <3>1, Sizes DEF Jobs
  <2>3. CASE next \notin Jobs
    <3>1. Cardinality(Stopped') = Cardinality(Stopped) + 1
      BY <1>2, <1>3, <2>3 DEF Claim, Goes
    <3> QED BY <1>1, <2>1, <3>1, Sizes
  <2> QED BY <2>2, <2>3
<1>4. CASE ~ Claim(w)
  <2>1. PICK to : at' = [at EXCEPT ![w] = to] /\ at[w] # "stopped" /\ next' = next
    BY <1>4 DEF Work, Look, Measure, MeasureFails, Admit, Refuse, Done, JobFails, SeeCancel,
                Diagnose, Report, Release, Goes
  <2>2. Cardinality(Stopped') >= Cardinality(Stopped)
    <3>1. /\ Cardinality(Stopped') = IF to = "stopped" THEN Cardinality(Stopped) + 1
                                      ELSE Cardinality(Stopped)
      BY <1>2, <2>1
    <3> QED BY <1>1, <3>1
  <2>3. Cardinality(Stopped') \in Nat
    <3>1. Stopped' \in SUBSET Workers
      BY DEF Stopped
    <3> QED BY <3>1, WorkersFinite, FS_Subset, FS_CardinalityType
  <2> QED BY <1>1, <2>1, <2>2, <2>3, Sizes
<1> QED BY <1>3, <1>4

LEMMA WorkKeepsGate ==
    ASSUME IInv, GateInv, NEW w \in Workers, Work(w)
    PROVE  GateInv'
<1>1. ControlType
  BY DEF IInv
<1>2. /\ active' = Cardinality(Running') /\ booked' = Booking'[Running']
      /\ children' \subseteq {job'[x] : x \in Running'}
      /\ stage' \notin {"parse", "analyze"} => \A x \in Workers : at'[x] = "stopped"
  <2>1. CASE Look(w)
    BY <1>1, <2>1, NothingStarts DEF Look
  <2>2. CASE Claim(w)
    <3>1. \A x \in Workers \ {w} : job'[x] = job[x]
      BY <1>1, <2>2 DEF Claim, ControlType
    <3>2. PICK to \in {"gate", "stopped"} : Goes(w, "claim", to)
      BY <2>2 DEF Claim
    <3>3. UNCHANGED gate /\ UNCHANGED results
      BY <2>2 DEF Claim
    <3> QED BY <1>1, <3>1, <3>2, <3>3, NothingStarts
  <2>3. CASE Measure(w)
    BY <1>1, <2>3, NothingStarts DEF Measure
  <2>4. CASE MeasureFails(w)
    BY <1>1, <2>4, NothingStarts DEF MeasureFails
  <2>5. CASE Admit(w)
    BY <1>1, <2>5, Starts
  <2>6. CASE Refuse(w)
    BY <1>1, <2>6, NothingStarts DEF Refuse
  <2>7. CASE Done(w)
    BY <1>1, <2>7, Ended DEF Done
  <2>8. CASE JobFails(w)
    BY <1>1, <2>8, Ended DEF JobFails
  <2>9. CASE SeeCancel(w)
    BY <1>1, <2>9, Ended DEF SeeCancel
  <2>10. CASE Diagnose(w)
    <3>1. PICK to \in {"report", "stopped"} : Goes(w, "failed", to)
      BY <2>10 DEF Diagnose
    <3> QED BY <1>1, <2>10, <3>1, NothingStarts DEF Diagnose
  <2>11. CASE Report(w)
    BY <1>1, <2>11, NothingStarts DEF Report
  <2> QED BY <2>1, <2>2, <2>3, <2>4, <2>5, <2>6, <2>7, <2>8, <2>9, <2>10, <2>11 DEF Work
<1>3. next' <= JobCount + 1 + Cardinality(Stopped')
  BY <1>1, QueueBound
<1>4. /\ limit' \in [Workers -> 1..Ceiling] /\ usable' \in [Workers -> Nat]
      /\ available' \in Readings /\ lowSamples' \in 0..LowSamplesToStop
      /\ verdict' \in {"none", "complete", "failed", "cancelled"}
  BY WorkTypes
<1> QED BY <1>2, <1>3, <1>4 DEF GateInv

\* A step of a worker that changes none of what the gate counts.
LEMMA SameGate ==
    ASSUME GateInv, UNCHANGED <<stage, at, job, active, booked, children, next>>,
           /\ limit' \in [Workers -> 1..Ceiling] /\ usable' \in [Workers -> Nat]
           /\ available' \in Readings /\ lowSamples' \in 0..LowSamplesToStop
           /\ verdict' \in {"none", "complete", "failed", "cancelled"}
    PROVE  GateInv'
<1>1. Running' = Running /\ Stopped' = Stopped
  BY DEF Running, Stopped
<1>2. Booking'[Running] = Booking[Running]
  BY SameBooking
<1> QED BY <1>1, <1>2 DEF GateInv

LEMMA AnalyzeKeepsGate ==
    ASSUME GateInv, NEW w \in Workers, Analyze(w)
    PROVE  GateInv'
<1>1. UNCHANGED <<stage, at, job, active, booked, children, next>>
  BY DEF Analyze, worker, gate, results
<1> QED BY <1>1, WorkTypes, SameGate

\* The phases change when no worker runs: nothing is booked then.
LEMMA PhaseKeepsGate ==
    ASSUME IInv, GateInv, \A w \in Workers : at[w] = "stopped",
           \/ /\ Fresh /\ stage' \in {"parse", "analyze"}
              /\ UNCHANGED <<job, limit, usable, memory, results, verdict>>
           \/ /\ UNCHANGED <<worker, next, gate, memory, results>>
              /\ verdict' \in {"none", "complete", "failed", "cancelled"}
    PROVE  GateInv'
<1>1. Running = {} /\ children = {} /\ active = 0 /\ booked = 0
  BY NothingRuns, NothingBooked DEF GateInv
<1>2. /\ limit' \in [Workers -> 1..Ceiling] /\ usable' \in [Workers -> Nat]
      /\ available' \in Readings /\ lowSamples' \in 0..LowSamplesToStop
      /\ verdict' \in {"none", "complete", "failed", "cancelled"}
  BY DEF GateInv, worker, memory
<1>3. Booking'[{}] = 0
  <2>1. {} \in SUBSET Workers
    OBVIOUS
  <2> QED BY <2>1, BookingAddsNext DEF BookingSums, Sums
<1>4. CASE Fresh /\ stage' \in {"parse", "analyze"} /\ UNCHANGED results
  <2>1. Running' = {} /\ Stopped' = {} /\ children' = {}
    BY <1>1, <1>4 DEF Fresh, Running, Stopped, results
  <2>2. active' = 0 /\ booked' = 0 /\ next' = 1
    BY <1>4 DEF Fresh
  <2> QED BY <1>2, <1>3, <1>4, <2>1, <2>2, NothingBooked, Sizes DEF GateInv
<1>5. CASE UNCHANGED <<worker, next, gate, memory, results>>
  <2>1. UNCHANGED <<at, job, next, active, booked, children>>
    BY <1>5 DEF worker, gate, results
  <2>2. Running' = {} /\ Stopped' = Stopped
    BY <1>1, <2>1 DEF Running, Stopped
  <2> QED BY <1>1, <1>2, <1>3, <2>1, <2>2, NothingBooked DEF GateInv
<1> QED BY <1>4, <1>5

LEMMA EndKeepsGate ==
    ASSUME IInv, GateInv, \A w \in Workers : at[w] = "stopped",
           NEW result \in {"complete", "failed", "cancelled"}, Ends(result)
    PROVE  GateInv'
  BY PhaseKeepsGate DEF Ends

LEMMA BatchKeepsGate ==
    ASSUME IInv, GateInv, Prepare \/ EndPhase1 \/ EndPhase2 \/ Combine \/ UserCancels
    PROVE  GateInv'
<1>1. CASE Prepare
  <2>1. \A w \in Workers : at[w] = "stopped"
    BY <1>1 DEF Prepare, GateInv
  <2> QED BY <1>1, <2>1, EndKeepsGate, PhaseKeepsGate DEF Prepare
<1>2. CASE EndPhase1
  BY <1>2, EndKeepsGate, PhaseKeepsGate DEF EndPhase1, Join, StartPhase2
<1>3. CASE EndPhase2
  <2>1. verdict \in {"none", "complete", "failed", "cancelled"}
    BY DEF GateInv
  <2> QED BY <1>3, <2>1, EndKeepsGate, PhaseKeepsGate DEF EndPhase2, Join
<1>4. CASE Combine
  <2>1. \A w \in Workers : at[w] = "stopped"
    BY <1>4 DEF Combine, GateInv
  <2> QED BY <1>4, <2>1, EndKeepsGate DEF Combine
<1>5. CASE UserCancels
  <2>1. UNCHANGED <<stage, at, job, active, booked, children, next>>
    BY <1>5 DEF UserCancels, worker, gate, results
  <2>2. UNCHANGED <<limit, usable, available, lowSamples, verdict>>
    BY <1>5 DEF UserCancels, worker, memory
  <2> QED BY <2>1, <2>2, SameGate DEF GateInv
<1> QED BY <1>1, <1>2, <1>3, <1>4, <1>5

LEMMA StutterKeepsGate == GateInv /\ UNCHANGED vars => GateInv'
<1> SUFFICES ASSUME GateInv, UNCHANGED vars PROVE GateInv'
  OBVIOUS
<1>1. /\ UNCHANGED <<stage, at, job, active, booked, children, next>>
      /\ UNCHANGED <<limit, usable, available, lowSamples, verdict>>
  BY DEF vars, worker, gate, memory, results
<1> QED BY <1>1, SameGate DEF GateInv

\* What is out is what the running workers hold, in every reachable state.
THEOREM GateInvHolds == Spec => []Full
<1>1. Full /\ [Next]_vars => Full'
  <2> SUFFICES ASSUME IInv, GateInv, [Next]_vars PROVE IInv' /\ GateInv'
    BY DEF Full
  <2>1. GateInv'
    BY WorkKeepsGate, AnalyzeKeepsGate, BatchKeepsGate, StutterKeepsGate DEF Next
  <2>2. IInv'
    BY WorkKeeps, AnalyzeKeeps, PrepareKeeps, EndPhase1Keeps, EndPhase2Keeps, CombineKeeps,
       CancelKeeps, StutterKeeps DEF Next
  <2> QED BY <2>1, <2>2
<1>2. Init => Full
  BY InitIInv, InitGateInv DEF Full
<1> QED BY <1>1, <1>2, PTL DEF Spec

\* Every state of the batch is well typed; among other things no permit and no
\* reservation is ever returned twice (the counters are unsigned), and the
\* queue's index stays within a worker's step of its end.
THEOREM TypeInvariant == Spec => []TypeOK
<1>1. Full => TypeOK
  <2> SUFFICES ASSUME Full PROVE TypeOK
    OBVIOUS
  <2>1. Cardinality(Running) \in Nat /\ Cardinality(Stopped) \in Nat
        /\ Cardinality(Stopped) <= Ceiling
    BY Counted
  <2>2. Booking[Running] \in Nat
    BY Counted, WorkersFinite, BookingAdds, NeedsNat, SumsNat DEF BookingSums, Full, IInv
  <2>3. next \in 1..(JobCount + Ceiling + 1)
    BY <2>1, Sizes DEF Full, IInv, ControlType, GateInv
  <2>4. children \subseteq Jobs
    BY DEF Full, IInv, ControlType, GateInv, Running
  <2> QED BY <2>1, <2>2, <2>3, <2>4 DEF TypeOK, Full, IInv, ControlType, GateInv
<1> QED BY <1>1, GateInvHolds, PTL

\* The permits out and the memory they reserve are those of the workers that
\* run a job, whichever way each of them ends (Drop for WorkerPermit).
THEOREM GateNeverLeaks == Spec => []GateAccounts
<1>1. Full => GateAccounts
  <2> SUFFICES ASSUME Full PROVE GateAccounts
    OBVIOUS
  <2>1. Running \in SUBSET Workers
    BY Counted
  <2>2. Booking[Running] = MapThenSumSet(LAMBDA w : Need(job[w]), Running)
    BY <2>1, Zenon DEF Booking
  <2>3. active = Cardinality(Running) /\ booked = Booking[Running]
    BY DEF Full, GateInv
  <2> QED BY <2>2, <2>3, Zenon DEF GateAccounts, Running
<1> QED BY <1>1, GateInvHolds, PTL

\* When the batch is over, no parser process runs on behind it and no permit is
\* out (run_command, run_batch).
THEOREM NothingRunsOn == Spec => []NothingOutlives
<1>1. Full => NothingOutlives
  <2> SUFFICES ASSUME Full, verdict # "none" PROVE children = {} /\ active = 0
    BY DEF NothingOutlives
  <2>1. stage = "over"
    BY DEF Full, IInv, FlagInv
  <2>2. Running = {}
    BY <2>1, NothingRuns DEF Full, GateInv
  <2> QED BY <2>2, NothingBooked DEF Full, GateInv
<1> QED BY <1>1, GateInvHolds, PTL
=============================================================================
