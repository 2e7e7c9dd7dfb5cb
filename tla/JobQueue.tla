------------------------------ MODULE JobQueue ------------------------------
(***************************************************************************)
(* The BullMQ queues of src/src/jobs/queues.ts, as the services use them:  *)
(* a job has an id, an id that is known (whatever became of the job) makes *)
(* the queue ignore another add, a failed job is tried again up to the     *)
(* number of attempts, and a job that a worker holds cannot be removed.    *)
(* at is the next statement of the processor that holds the job.           *)
(***************************************************************************)
EXTENDS Integers

CONSTANTS JobIds,
          Attempts   \* defaultJobOptions.attempts

ASSUME JobAssumption == Attempts \in Nat \ {0}

VARIABLE jobs        \* jobs[j]: state, failed attempts, statement

NoJob == [state |-> "none", tries |-> 0, at |-> "start"]
NewJob == [state |-> "waiting", tries |-> 0, at |-> "start"]

JobLabels == {"start", "save", "award", "notify", "channel", "send", "archive", "remind", "end"}
JobType == [state : {"none", "waiting", "active", "completed", "failed"},
            tries : 0 .. Attempts, at : JobLabels]

\* The queue after add(j), and after job.remove().
Added(j) == IF jobs[j] = NoJob THEN [jobs EXCEPT ![j] = NewJob] ELSE jobs
Removed(j) == IF jobs[j].state = "active" THEN jobs ELSE [jobs EXCEPT ![j] = NoJob]

\* A worker takes j and goes to a statement of its processor; goes on; ends.
Held(j, label) == jobs[j].state = "active" /\ jobs[j].at = label
Taken(j, label) == [jobs EXCEPT ![j] = [state |-> "active", tries |-> @.tries, at |-> label]]
Finished(j) == [jobs EXCEPT ![j] = [state |-> "completed", tries |-> @.tries, at |-> "start"]]

\* The processor throws, or its worker dies: j is tried again from its start.
JobFails(j) ==
    /\ jobs[j].state = "active"
    /\ jobs' = [jobs EXCEPT ![j] =
           [state |-> IF @.tries + 1 < Attempts THEN "waiting" ELSE "failed",
            tries |-> @.tries + 1, at |-> "start"]]
=============================================================================
