----------------------------- MODULE BatchPipeline -----------------------------
(***************************************************************************)
(* Parsing and analysing a batch of demos: run_batch (app/src/batch.rs)    *)
(* runs two phases of worker threads over a shared queue of jobs; each     *)
(* worker is admitted by the memory gate (AdaptiveWorkerGate) and the live *)
(* governor (RuntimeGovernor) of app/src/scheduler.rs, and all of them     *)
(* watch the cancellation flag of BatchController.                         *)
(***************************************************************************)
EXTENDS Naturals, FiniteSetsExt

CONSTANTS
    JobCount,       \* the demos, numbered as largest_first orders them
    Ceiling,        \* threads of a phase and ceiling of its gate
    ParseNeed,      \* estimated_parse_worker_bytes
    AnalysisNeed,   \* analysis_job_memory_bytes of each job
    AnalysisWorker, \* estimated_analysis_worker_bytes
    Reserved,       \* reserved_memory_bytes
    Critical,       \* critical_memory_bytes
    Readings        \* what the system may report as available memory

Jobs    == 1..JobCount
Workers == 1..Ceiling

ASSUME BatchAssumption ==
    /\ JobCount \in Nat \ {0} /\ Ceiling \in Nat \ {0}
    /\ ParseNeed \in Nat \ {0} /\ AnalysisWorker \in Nat \ {0}
    /\ AnalysisNeed \in [Jobs -> Nat \ {0}]
    /\ Reserved \in Nat /\ Critical \in Nat
    /\ Readings \subseteq Nat

VARIABLES
    stage,     \* where run_batch is
    at, job,   \* each worker: its place in the loop, the job it claimed
    limit, usable, \* each worker: what it last read of the gate's limits
    next,      \* the shared queue's next index
    active, booked, \* GateState: permits out, memory reserved by them
    available, lowSamples, \* the governor's last reading, low ones in a row
    cancelled, \* the flag of BatchController
    error,     \* parse_error or analysis_error is set
    children,  \* jobs whose export_all process runs
    parsed, analyzed,
    asked,     \* the user pressed Cancel
    verdict    \* the final ProgressEvent

worker  == <<at, job, limit, usable>>
gate    == <<active, booked>>
memory  == <<available, lowSamples>>
results == <<children, parsed, analyzed>>
vars    == <<stage, worker, next, gate, memory, cancelled, error, results, asked, verdict>>

Places == {"top", "claim", "gate", "lock", "run", "failed", "report", "stopped"}

\* The threads of a phase start with a queue and a gate of their own.
Fresh ==
    /\ at' = [w \in Workers |-> "top"]
    /\ next' = 1
    /\ active' = 0 /\ booked' = 0
    /\ error' = FALSE

Init ==
    /\ stage = "prepare"
    /\ at = [w \in Workers |-> "stopped"] /\ job = [w \in Workers |-> 1]
    /\ limit = [w \in Workers |-> 1] /\ usable = [w \in Workers |-> 0]
    /\ next = 1
    /\ active = 0 /\ booked = 0
    /\ available \in Readings /\ lowSamples = 0
    /\ cancelled = FALSE /\ error = FALSE
    /\ children = {} /\ parsed = {} /\ analyzed = {}
    /\ asked = FALSE /\ verdict = "none"

Need(j) == IF stage = "parse" THEN ParseNeed ELSE AnalysisNeed[j]

-----------------------------------------------------------------------------
(* A worker's loop *)

Goes(w, from, to) ==
    /\ at[w] = from /\ at' = [at EXCEPT ![w] = to]
    /\ UNCHANGED <<stage, asked, verdict>>

\* Look at the flag; then take the next index.  Another worker, or the user,
\* may set the flag in between.
Look(w) ==
    /\ Goes(w, "top", IF cancelled THEN "stopped" ELSE "claim")
    /\ UNCHANGED <<job, limit, usable, next, gate, memory, cancelled, error, results>>

\* Mutant of Claim: the end of the queue is not looked for.
MutantClaim(w) ==
    /\ Goes(w, "claim", "gate")
    /\ job' = [job EXCEPT ![w] = next]
    /\ next' = next + 1
    /\ UNCHANGED <<limit, usable, gate, memory, cancelled, error, results>>

\* parse_next.fetch_add, analysis_next.fetch_add
Claim(w) ==
    /\ Goes(w, "claim", IF next \in Jobs THEN "gate" ELSE "stopped")
    /\ job' = IF next \in Jobs THEN [job EXCEPT ![w] = next] ELSE job
    /\ next' = next + 1
    /\ UNCHANGED <<limit, usable, gate, memory, cancelled, error, results>>

\* Three low samples in a row stop the batch; more of them change nothing.
LowSamplesToStop == 3

\* checkpoint: the governor samples the system when a sample is due and no
\* other thread is taking it.  The thread that takes the third low sample, or a
\* later one, gets the error.
Checkpoint(ok) ==
    \/ ok /\ UNCHANGED memory
    \/ /\ available' \in Readings
       /\ lowSamples' = IF available' < Critical
                        THEN Min({lowSamples + 1, LowSamplesToStop}) ELSE 0
       /\ ok <=> lowSamples' < LowSamplesToStop

Usable == available' - Min({Reserved, available' \div 2})

MemoryLimit ==
    LET each   == IF stage = "parse" THEN ParseNeed ELSE AnalysisWorker
        jobs   == Usable \div each
    IN Max({1, Min({jobs, Ceiling})})

\* acquire_for, before the lock: the flag, checkpoint, live_limit.  CPU load
\* scales the memory limit down to a quarter at most.
Measure(w) ==
    /\ ~ cancelled
    /\ Checkpoint(TRUE)
    /\ Goes(w, "gate", "lock")
    /\ \E n \in Max({1, MemoryLimit \div 4})..MemoryLimit :
          limit' = [limit EXCEPT ![w] = n]
    /\ usable' = [usable EXCEPT ![w] = Usable]
    /\ UNCHANGED <<job, next, gate, cancelled, error, results>>

MeasureFails(w) ==
    /\ IF cancelled THEN UNCHANGED memory ELSE Checkpoint(FALSE)
    /\ Goes(w, "gate", "failed")
    /\ UNCHANGED <<job, limit, usable, next, gate, cancelled, error, results>>

\* Mutant of Fits: nobody is let in beyond the usable memory.
MutantFits(w) == booked + Need(job[w]) <= usable[w]

\* A job that is larger than the usable memory runs alone.
Fits(w) == booked + Need(job[w]) <= usable[w] \/ active = 0

\* acquire_for, under the lock: a permit and its reservation, or sleep and
\* measure again.
Admit(w) ==
    /\ active < limit[w] /\ Fits(w)
    /\ Goes(w, "lock", "run")
    /\ active' = active + 1 /\ booked' = booked + Need(job[w])
    /\ children' = IF stage = "parse" THEN children \cup {job[w]} ELSE children
    /\ UNCHANGED <<job, limit, usable, next, memory, cancelled, error, parsed, analyzed>>

Refuse(w) ==
    /\ ~ (active < limit[w] /\ Fits(w))
    /\ Goes(w, "lock", "gate")
    /\ UNCHANGED <<job, limit, usable, next, gate, memory, cancelled, error, results>>

\* Mutant of Release: the reservation stays.
MutantRelease(w) ==
    /\ active' = active - 1 /\ booked' = booked
    /\ UNCHANGED <<job, limit, usable, next, cancelled, error>>

\* Drop for WorkerPermit
Release(w) ==
    /\ active' = active - 1 /\ booked' = booked - Need(job[w])
    /\ UNCHANGED <<job, limit, usable, next, cancelled, error>>

\* The parser process or the analysis succeeds.
Done(w) ==
    /\ Goes(w, "run", "top") /\ Release(w)
    /\ children' = children \ {job[w]}
    /\ IF stage = "parse"
       THEN parsed' = parsed \cup {job[w]} /\ UNCHANGED analyzed
       ELSE analyzed' = analyzed \cup {job[w]} /\ UNCHANGED parsed
    /\ UNCHANGED memory

\* The analyzer consults the governor while it works.
Analyze(w) ==
    /\ stage = "analyze" /\ at[w] = "run"
    /\ Checkpoint(TRUE)
    /\ UNCHANGED <<stage, worker, next, gate, cancelled, error, results, asked, verdict>>

\* The job fails: the process cannot be started or returns an error, the
\* governor stops the analysis, or the analyzer panics and catch_unwind makes
\* an error of it.
JobFails(w) ==
    /\ Goes(w, "run", "failed") /\ Release(w)
    /\ IF stage = "analyze" THEN UNCHANGED memory \/ Checkpoint(FALSE)
       ELSE UNCHANGED memory
    /\ children' = children \ {job[w]}
    /\ UNCHANGED <<parsed, analyzed>>

\* Mutant of SeeCancel: the parser process is left to itself.
MutantSeeCancel(w) ==
    /\ cancelled
    /\ Goes(w, "run", "failed") /\ Release(w)
    /\ UNCHANGED <<memory, results>>

\* run_command kills its child; the analyzer returns "cancelled".
SeeCancel(w) ==
    /\ cancelled
    /\ Goes(w, "run", "failed") /\ Release(w)
    /\ children' = children \ {job[w]}
    /\ UNCHANGED <<memory, parsed, analyzed>>

\* The error path of the loop: an error of this worker's own, unless the batch
\* is being cancelled anyway.
Diagnose(w) ==
    /\ Goes(w, "failed", IF cancelled THEN "stopped" ELSE "report")
    /\ UNCHANGED <<job, limit, usable, next, gate, memory, cancelled, error, results>>

\* Mutant of Report: the other workers are stopped, the error is not kept.
MutantReport(w) ==
    /\ Goes(w, "report", "stopped")
    /\ cancelled' = TRUE
    /\ UNCHANGED <<job, limit, usable, next, gate, memory, error, results>>

\* Another mutant of Report: the error is kept, the others are not stopped and
\* the flag says nothing.
MutantReportSilently(w) ==
    /\ Goes(w, "report", "stopped")
    /\ UNCHANGED <<job, limit, usable, next, gate, memory, cancelled, error, results>>

\* Keep the error, then stop the other workers.
Report(w) ==
    /\ Goes(w, "report", "stopped")
    /\ error' = TRUE /\ cancelled' = TRUE
    /\ UNCHANGED <<job, limit, usable, next, gate, memory, results>>

Work(w) ==
    \/ Look(w) \/ Claim(w) \/ Measure(w) \/ MeasureFails(w) \/ Admit(w) \/ Refuse(w)
    \/ Done(w) \/ JobFails(w) \/ SeeCancel(w) \/ Diagnose(w) \/ Report(w)

-----------------------------------------------------------------------------
(* run_batch around the workers *)

Ends(result) ==
    /\ verdict' = result /\ stage' = "over"
    /\ UNCHANGED <<worker, next, gate, memory, cancelled, error, results, asked>>

\* Everything before phase 1; a failing call there ends the batch.
Prepare ==
    /\ stage = "prepare"
    /\ \/ Ends("failed")
       \/ /\ stage' = "parse" /\ Fresh
          /\ UNCHANGED <<job, limit, usable, memory, cancelled, results, asked, verdict>>

\* The threads of the phase are joined: an error first, then the flag.
Join(after) ==
    /\ \A w \in Workers : at[w] = "stopped"
    /\ \/ error /\ Ends("failed")
       \/ ~ error /\ cancelled /\ Ends("cancelled")
       \/ ~ error /\ ~ cancelled /\ after

\* The plan for phase 2, its thread pool (which may fail to build) and its gate.
StartPhase2 ==
    \/ Ends("failed")
    \/ /\ stage' = "analyze" /\ Fresh
       /\ UNCHANGED <<job, limit, usable, memory, cancelled, results, asked, verdict>>

EndPhase1 == stage = "parse" /\ Join(StartPhase2)

EndPhase2 ==
    /\ stage = "analyze"
    /\ Join(/\ stage' = "combine"
            /\ UNCHANGED <<worker, next, gate, memory, cancelled, error, results,
                           asked, verdict>>)

\* combine_candidates and the summaries; the flag is not looked at again.
Combine ==
    /\ stage = "combine"
    /\ \E result \in {"complete", "failed"} : Ends(result)

\* on_cancel_batch
UserCancels ==
    /\ verdict = "none" /\ ~ asked
    /\ asked' = TRUE /\ cancelled' = TRUE
    /\ UNCHANGED <<stage, worker, next, gate, memory, error, results, verdict>>

Next ==
    \/ \E w \in Workers : Work(w) \/ Analyze(w)
    \/ Prepare \/ EndPhase1 \/ EndPhase2 \/ Combine \/ UserCancels

Spec == Init /\ [][Next]_vars

\* Every thread runs on, and a parser process or an analysis ends some day.
Fairness ==
    /\ \A w \in Workers : WF_vars(Work(w))
    /\ WF_vars(Prepare) /\ WF_vars(EndPhase1) /\ WF_vars(EndPhase2) /\ WF_vars(Combine)

FairSpec == Spec /\ Fairness

-----------------------------------------------------------------------------
(* Properties *)

TypeOK ==
    /\ stage \in {"prepare", "parse", "analyze", "combine", "over"}
    /\ at \in [Workers -> Places] /\ job \in [Workers -> Jobs]
    /\ limit \in [Workers -> 1..Ceiling] /\ usable \in [Workers -> Nat]
    /\ next \in 1..(JobCount + Ceiling + 1)
    /\ active \in Nat /\ booked \in Nat
    /\ available \in Readings /\ lowSamples \in 0..LowSamplesToStop
    /\ cancelled \in BOOLEAN /\ error \in BOOLEAN /\ asked \in BOOLEAN
    /\ children \subseteq Jobs /\ parsed \subseteq Jobs /\ analyzed \subseteq Jobs
    /\ verdict \in {"none", "complete", "failed", "cancelled"}

\* The permits out and the memory they reserve are those of the workers that
\* run a job, whichever way each of them ends: nothing leaks that would hold
\* later jobs back.
GateAccounts ==
    LET running == {w \in Workers : at[w] = "run"}
    IN /\ active = Cardinality(running)
       /\ booked = MapThenSumSet(LAMBDA w : Need(job[w]), running)

\* A batch that is reported complete has parsed and analysed every demo: no
\* race of a claimed index, an error and the flag loses a job in silence.
CompleteMeansAll ==
    stage = "combine" \/ verdict = "complete" => parsed = Jobs /\ analyzed = Jobs

\* An error is never shown to the user as a cancellation of theirs.
CancelledMeansAsked == verdict = "cancelled" => asked

\* When the batch is over, no parser process runs on behind it.
NothingOutlives ==
    verdict # "none" => children = {} /\ active = 0

\* Every batch ends, however little memory there is: a job too large for the
\* gate is not refused for ever.
BatchEnds == <>(verdict # "none")

=============================================================================
