-------------------------------- MODULE Campaign --------------------------------
(***************************************************************************)
(* Campaign beats: jobs whose handler publishes a set of posts.  The       *)
(* handler is the application's (external): it waits for publishAll and    *)
(* fails, to be tried again, when that rejects or a result is retryable.   *)
(***************************************************************************)
EXTENDS Jobs, SocialPublishing

CONSTANTS
    Payloads            \* per job, the sets of posts it may carry

ASSUME PayloadsAssumption == Payloads \in [Ids -> SUBSET SUBSET Post]

VARIABLES
    payload,            \* per job, the posts it carries
    batch,              \* per worker, the run its handler waits for
    posted,             \* history, per job: how often each post took effect
    failures, overlaps  \* history, per job: runs that failed; runs started while
                        \* another was under way, or when none was due

cvars == <<payload, batch, posted, failures, overlaps>>
campaignVars == <<jvars, svars, cvars>>

Carried == {f \in [Ids -> UNION {Payloads[j] : j \in Ids}] : \A j \in Ids : f[j] \in Payloads[j]}

CampaignTypeOK ==
    /\ JobsTypeOK
    /\ flights \subseteq FlightType(Ids \X Nat)
    /\ payload \in Carried
    /\ batch \in [Workers -> Nat]
    /\ posted \in [Ids -> [Post -> Nat]]
    /\ failures \in [Ids -> Nat] /\ overlaps \in [Ids -> Nat]

CampaignInit ==
    /\ JobsInit
    /\ flights = {}
    /\ payload \in Carried
    /\ batch = [w \in Workers |-> 0]
    /\ posted = [j \in Ids |-> [p \in Post |-> 0]]
    /\ failures = [j \in Ids |-> 0] /\ overlaps = [j \in Ids |-> 0]

\* The handler a worker has just started, if any, calls publishAll; what counts
\* as an overlap is judged in the state before.
Launched(w) ==
    LET j == running'[w] IN
    /\ batch' = [batch EXCEPT ![w] = IF j = None THEN 0 ELSE runs'[j]]
    /\ overlaps' = IF j = None THEN overlaps ELSE [overlaps EXCEPT ![j] =
           IF UnderWay(j) \/ (backend = "memory" /\ jobs[j].status # "scheduled") THEN @ + 1 ELSE @]

Flights(w) == LET j == running'[w] IN IF j = None THEN {} ELSE Launch(<<j, runs'[j]>>, payload[j])

BeginRun(w) ==
    /\ Starts(w)
    /\ Launched(w)
    /\ flights' = flights \cup Flights(w)
    /\ UNCHANGED <<payload, posted, failures>>

\* Whether the handler of a flight's batch still waits for it.
Waited(f) == ~Rejected(payload[f.batch[1]])

Publish(f) ==
    /\ \/ Container(f, Waited(f)) /\ UNCHANGED posted
       \/ \E n \in 0 .. 2 :
              /\ Send(f, n, Waited(f))
              /\ posted' = [posted EXCEPT ![f.batch[1]][f.post] = @ + n]
    /\ UNCHANGED <<jvars, payload, batch, failures, overlaps>>

\* publishAll settles and the handler ends.
FinishRun(w) ==
    LET j == running[w]
        b == <<j, batch[w]>>
    IN  /\ j # None
        /\ Rejected(payload[j]) \/ Settled(b)
        /\ LET ok == ~Rejected(payload[j]) /\ \A f \in Mine(b) : f.at # "retryable"
           IN  /\ Ends(w, ok)
               /\ failures' = [failures EXCEPT ![j] = IF ok THEN @ ELSE @ + 1]
        /\ Launched(w)
        /\ flights' = Forget(b) \cup Flights(w)
        /\ UNCHANGED <<payload, posted>>

CampaignNext ==
    \/ \E w \in Workers : BeginRun(w) \/ FinishRun(w)
    \/ \E f \in flights : Publish(f)
    \/ (Asked \/ Restart \/ \E j \in Ids : Service(j)) /\ UNCHANGED <<svars, cvars>>

(***************************************************************************)
(* Workers and AWS keep going; ky's timeouts end every request.  Nothing   *)
(* obliges the application to schedule or cancel.                          *)
(***************************************************************************)
Fairness ==
    /\ \A w \in Workers : WF_campaignVars(BeginRun(w)) /\ WF_campaignVars(FinishRun(w))
    /\ WF_campaignVars(\E f \in flights : Publish(f))
    /\ \A j \in Ids : WF_campaignVars(Service(j) /\ UNCHANGED <<svars, cvars>>)

CampaignSpec == CampaignInit /\ [][CampaignNext]_campaignVars /\ Fairness
-------------------------------------------------------------------------------
(* Posts are repeated only for a reason: a post takes effect at most once  *)
(* for the job, and once more for each run of it that failed and each run  *)
(* started while another was under way or when none was due (processDue    *)
(* and the consumer of a reappeared message do that).                      *)
PostsExplained ==
    \A j \in Ids, p \in Post : posted[j][p] <= 1 + failures[j] + overlaps[j]

(* Whatever fails, a job is given up at last: no schedule, message or      *)
(* scheduled job is left for ever (maxAttempts, maxReceiveCount).          *)
Settles == \A j \in Ids : <>[]~Outstanding(j)

(* A cancel that finds the job in nobody's hands holds: no message of it   *)
(* is sent and no handler is started for it again (cancel).                *)
CancelHolds ==
    [][\A j \in Ids :
          Status(j) = "cancelled" /\ ~InHand(j) => ~InHand(j)']_campaignVars
================================================================================
