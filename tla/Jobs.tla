---------------------------------- MODULE Jobs ----------------------------------
(***************************************************************************)
(* packages/jobs: delayed work, over one of two backends.  "memory" is     *)
(* FakeJobScheduler, whose processDue calls are the workers.  "aws" is     *)
(* EventBridgeJobScheduler with the JobQueue construct of packages/cdk: a  *)
(* schedule sends a message to a queue, and consumers run its payload.     *)
(* What a handler does belongs to the application: see Campaign.           *)
(***************************************************************************)
EXTENDS Naturals, FiniteSets, FiniteSetsExt

CONSTANTS
    MaxJobs,            \* per backend, the bound of the jobs scheduled
    Workers,            \* concurrent processDue calls, or queue consumers
    MaxAttempts,        \* options.maxAttempts, and maxReceiveCount
    None                \* no job, no message

Backends == {"memory", "aws"}
Ids == UNION {1 .. MaxJobs[b] : b \in Backends}

ASSUME JobsAssumption ==
    MaxJobs \in [Backends -> Nat] /\ MaxAttempts \in Nat \ {0}

Job == [status : {"scheduled", "running", "succeeded", "failed", "cancelled"}, attempts : Nat]
Message == [receives : 0 .. MaxAttempts, visible : BOOLEAN]

ASSUME NoneAssumption == None \notin Nat \cup Job \cup Message

VARIABLES
    backend,            \* which scheduler this deployment has
    seq,                \* the last id given out
    jobs,               \* the map of jobs this process keeps
    schedules, queue,   \* aws: one-time schedules, messages
    due, running,       \* per worker: what processDue has still to run, its job
    runs                \* history, per id: handler starts

jvars == <<backend, seq, jobs, schedules, queue, due, running, runs>>

JobsTypeOK ==
    /\ backend \in Backends /\ seq \in 0 .. MaxJobs[backend]
    /\ jobs \in [Ids -> Job \cup {None}]
    /\ schedules \subseteq Ids
    /\ queue \in [Ids -> Message \cup {None}]
    /\ due \in [Workers -> SUBSET Ids]
    /\ running \in [Workers -> Ids \cup {None}]
    /\ runs \in [Ids -> Nat]

JobsInit ==
    /\ backend \in Backends /\ seq = 0
    /\ jobs = [j \in Ids |-> None]
    /\ schedules = {}
    /\ queue = [j \in Ids |-> None]
    /\ due = [w \in Workers |-> {}]
    /\ running = [w \in Workers |-> None]
    /\ runs = [j \in Ids |-> 0]

Known(j) == jobs[j] # None
Status(j) == IF Known(j) THEN jobs[j].status ELSE "unknown"
UnderWay(j) == \E w \in Workers : running[w] = j
NextId == seq' = seq + 1 /\ seq' <= MaxJobs[backend]
New == [status |-> "scheduled", attempts |-> 0]

-------------------------------------------------------------------------------
(* FakeJobScheduler. *)

Schedule ==
    /\ backend = "memory" /\ NextId
    /\ jobs' = [jobs EXCEPT ![seq'] = New]
    /\ UNCHANGED <<backend, schedules, queue, due, running, runs>>

Cancel(j) ==
    /\ backend = "memory" /\ Status(j) \in {"scheduled", "running", "failed"}
    /\ jobs' = [jobs EXCEPT ![j].status = "cancelled"]
    /\ UNCHANGED <<backend, seq, schedules, queue, due, running, runs>>

\* The loop of processDue goes to the next job of its list, in the order of the
\* ids, whatever has become of it.  now is the map of jobs before that.
NextDue(w, now, list) ==
    IF list = {}
    THEN /\ jobs' = now
         /\ running' = [running EXCEPT ![w] = None]
         /\ due' = [due EXCEPT ![w] = {}]
         /\ UNCHANGED runs
    ELSE LET j == Min(list) IN
         /\ jobs' = [now EXCEPT ![j] = [status |-> "running", attempts |-> @.attempts + 1]]
         /\ running' = [running EXCEPT ![w] = j]
         /\ due' = [due EXCEPT ![w] = list \ {j}]
         /\ runs' = [runs EXCEPT ![j] = @ + 1]

Scheduled == {j \in Ids : Status(j) = "scheduled"}

\* processDue collects, once, what is scheduled and due (a job that has run is),
\* and starts the first of them.
ProcessDue(w) ==
    /\ backend = "memory" /\ running[w] = None
    /\ \E list \in (SUBSET Scheduled) \ {{}} :
           /\ \A j \in Scheduled : runs[j] > 0 => j \in list
           /\ NextDue(w, jobs, list)
    /\ UNCHANGED <<backend, seq, schedules, queue>>

\* Tried again until its attempts, counted by every run of it, are used up.
AfterFailure(j) == IF jobs[j].attempts >= MaxAttempts THEN "failed" ELSE "scheduled"

EndDue(w, ok) ==
    LET j == running[w] IN
    /\ backend = "memory" /\ j # None
    /\ NextDue(w, [jobs EXCEPT ![j].status = IF ok THEN "succeeded" ELSE AfterFailure(j)], due[w])
    /\ UNCHANGED <<backend, seq, schedules, queue>>

-------------------------------------------------------------------------------
(* EventBridgeJobScheduler, its schedules and the queue. *)

\* createSchedule fails or its answer is lost: known to nobody, it may exist.
ScheduleAt ==
    /\ backend = "aws" /\ NextId
    /\ \/ schedules' = schedules \cup {seq'} /\ jobs' = [jobs EXCEPT ![seq'] = New]
       \/ schedules' \in {schedules, schedules \cup {seq'}} /\ UNCHANGED jobs
    /\ UNCHANGED <<backend, queue, due, running, runs>>

\* Mutant of CancelAt: an error of deleteSchedule is ignored.
CancelAtAnyway(j) ==
    /\ backend = "aws" /\ Known(j)
    /\ schedules' \in {schedules, schedules \ {j}}
    /\ jobs' = [jobs EXCEPT ![j].status = "cancelled"]
    /\ UNCHANGED <<backend, seq, queue, due, running, runs>>

\* cancel finds only what this process scheduled; the status follows the answer
\* of deleteSchedule.
CancelAt(j) ==
    /\ backend = "aws" /\ Known(j)
    /\ \/ schedules' = schedules \ {j} /\ jobs' = [jobs EXCEPT ![j].status = "cancelled"]
       \/ schedules' \in {schedules, schedules \ {j}} /\ UNCHANGED jobs
    /\ UNCHANGED <<backend, seq, queue, due, running, runs>>

\* The process that schedules restarts: its map is empty again.
Restart ==
    /\ backend = "aws" /\ \E j \in Ids : Known(j)
    /\ jobs' = [j \in Ids |-> None]
    /\ UNCHANGED <<backend, seq, schedules, queue, due, running, runs>>

\* AWS invokes the target at runAt: a message.
Fire(j) ==
    /\ j \in schedules
    /\ schedules' = schedules \ {j}
    /\ queue' = [queue EXCEPT ![j] = [receives |-> 0, visible |-> TRUE]]
    /\ UNCHANGED <<backend, seq, jobs, due, running, runs>>

\* Mutant of Receive: a message is received whatever its receive count.
ReceiveAlways(w, j) ==
    /\ backend = "aws" /\ running[w] = None
    /\ queue[j] # None /\ queue[j].visible
    /\ queue' = [queue EXCEPT ![j] = [receives |-> @.receives + 1, visible |-> FALSE]]
    /\ running' = [running EXCEPT ![w] = j]
    /\ runs' = [runs EXCEPT ![j] = @ + 1]
    /\ UNCHANGED <<backend, seq, jobs, schedules, due>>

Receive(w, j) ==
    /\ backend = "aws" /\ running[w] = None
    /\ queue[j] # None /\ queue[j].visible /\ queue[j].receives < MaxAttempts
    /\ queue' = [queue EXCEPT ![j] = [receives |-> @.receives + 1, visible |-> FALSE]]
    /\ running' = [running EXCEPT ![w] = j]
    /\ runs' = [runs EXCEPT ![j] = @ + 1]
    /\ UNCHANGED <<backend, seq, jobs, schedules, due>>

\* The consumer deletes the message it has run, or lets it come back.
EndMessage(w, ok) ==
    /\ backend = "aws" /\ running[w] # None
    /\ queue' = IF ok THEN [queue EXCEPT ![running[w]] = None] ELSE queue
    /\ running' = [running EXCEPT ![w] = None]
    /\ UNCHANGED <<backend, seq, jobs, schedules, due, runs>>

\* The visibility timeout ends, whether or not a handler still runs.
Reappear(j) ==
    /\ queue[j] # None /\ ~queue[j].visible
    /\ queue' = [queue EXCEPT ![j].visible = TRUE]
    /\ UNCHANGED <<backend, seq, jobs, schedules, due, running, runs>>

\* Mutant of Bury: one receive more than there can be.
BuryTooLate(j) ==
    /\ queue[j] # None /\ queue[j].visible /\ queue[j].receives > MaxAttempts
    /\ queue' = [queue EXCEPT ![j] = None]
    /\ UNCHANGED <<backend, seq, jobs, schedules, due, running, runs>>

\* Received too often: moved to the dead-letter queue.
Bury(j) ==
    /\ queue[j] # None /\ queue[j].visible /\ queue[j].receives = MaxAttempts
    /\ queue' = [queue EXCEPT ![j] = None]
    /\ UNCHANGED <<backend, seq, jobs, schedules, due, running, runs>>

-------------------------------------------------------------------------------
\* What the application asks; what AWS does; what a worker does.
Asked == Schedule \/ ScheduleAt \/ \E j \in Ids : Cancel(j) \/ CancelAt(j)
Service(j) == Fire(j) \/ Reappear(j) \/ Bury(j)
Starts(w) == ProcessDue(w) \/ \E j \in Ids : Receive(w, j)
Ends(w, ok) == EndDue(w, ok) \/ EndMessage(w, ok)

\* Work the schedulers still owe.
Outstanding(j) ==
    \/ backend = "memory" /\ Status(j) \in {"scheduled", "running"}
    \/ j \in schedules \/ queue[j] # None

InHand(j) == UnderWay(j) \/ queue[j] # None \/ \E w \in Workers : j \in due[w]
================================================================================
