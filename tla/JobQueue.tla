------------------------------ MODULE JobQueue ------------------------------
(***************************************************************************)
(* What the code relies on of a BullMQ job, seen through one jobId.  The   *)
(* queues of the repository set neither `attempts` nor `concurrency', so a *)
(* job whose processor throws is finished for good and each queue has one  *)
(* worker that runs one job at a time.  A job whose process died while it  *)
(* was active is handed out again by the stalled check, MaxStalls times.   *)
(* A finished job stays in Redis for its retention time and keeps its      *)
(* jobId, and adding a job under a jobId that exists changes nothing.      *)
(***************************************************************************)
EXTENDS Naturals

CONSTANT MaxStalls      \* BullMQ's maxStalledCount (1 unless a worker sets it)

ASSUME MaxStallsAssumption == MaxStalls \in Nat

JobStates == {"absent", "waiting", "active", "finished"}

Job == [state : JobStates, stalls : 0 .. MaxStalls]

NoJob == [state |-> "absent", stalls |-> 0]

Live(job) == job.state \in {"waiting", "active"}

(* Mutation: finished jobs are removed at once (removeOnComplete: true).   *)
JobAddedAfterRemoval(job) ==
    IF job.state \in {"absent", "finished"} THEN [job EXCEPT !.state = "waiting"]
    ELSE job

(* queue.add(name, data, {jobId}): a no-op while the jobId is known.       *)
JobAdded(job) ==
    IF job.state = "absent" THEN [job EXCEPT !.state = "waiting"] ELSE job

JobTaken(job) == [job EXCEPT !.state = "active"]

(* The processor returned or threw: with attempts = 1 both are final.      *)
JobFinished(job) == [job EXCEPT !.state = "finished"]

(* Mutation: the limit on stalls is off by one.                            *)
JobAfterCrashOffByOne(job) ==
    IF job.state # "active" THEN job
    ELSE IF job.stalls <= MaxStalls
         THEN [state |-> "waiting", stalls |-> job.stalls + 1]
         ELSE JobFinished(job)

(* The process died: an active job waits again unless it stalled too often.*)
JobAfterCrash(job) ==
    IF job.state # "active" THEN job
    ELSE IF job.stalls < MaxStalls
         THEN [state |-> "waiting", stalls |-> job.stalls + 1]
         ELSE JobFinished(job)

(* Runs of the processor the job has had or still may start with.          *)
JobRuns(job) == job.stalls + 1
=============================================================================
