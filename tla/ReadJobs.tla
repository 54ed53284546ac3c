------------------------------ MODULE ReadJobs ------------------------------
(* The durable read jobs of one enrolled receiver                          *)
(* (receiver-read-job-service.ts), the connector processes that lease and  *)
(* complete them (receiver-connector/src/worker.ts) and the MCP tool calls *)
(* that wait for them (receiver-mcp-server.ts, receiver-bounded-poll.ts).  *)
(*                                                                         *)
(* Every handler of the service is one immediate transaction, hence one    *)
(* step. What interleaves is the rest: several connector processes may     *)
(* share the identity of one state directory, a process may crash while it *)
(* holds a lease, the answer to a lease or to a completion may be lost, a  *)
(* completion the process gave up on may reach the server after its retry, *)
(* and time passes between any two steps.                                  *)
(*                                                                         *)
(* Time is the server's clock. The columns that follow from others are not *)
(* kept: deadline_at is created + Deadline, lease_expires_at is leasedAt + *)
(* Lease, leased_connector_id is the one connector of the receiver exactly *)
(* while the row is LEASED. leasedAt is the updated_at of a leased row;    *)
(* that it survives completion makes it the time last_health_at records.   *)
EXTENDS Naturals, FiniteSets

CONSTANTS
    Job,        \* ids of read jobs
    HealthJob,  \* those of capability health:v1; the others are business_state:v1
    Worker,     \* connector processes that hold the receiver's identity
    Lease,      \* RECEIVER_READ_JOB_LEASE_MS
    Deadline,   \* RECEIVER_READ_JOB_DEADLINE_MS
    Wait,       \* RECEIVER_MCP_WAIT_MAX_MS
    Attempts,   \* maxAttempts of the connector's retry policy
    MaxNow,     \* bound on the clock
    None        \* no job

ASSUME ReadJobsAssumption ==
    /\ HealthJob \subseteq Job /\ None \notin Job
    /\ {Lease, Deadline, Wait, Attempts} \subseteq Nat \ {0}
    /\ MaxNow \in Nat

VARIABLES
    now,       \* the server's clock
    receiver,  \* receiver_connections: state, last_health_status, last_health_at
    rows,      \* receiver_read_jobs
    reader,    \* the MCP tool call that created each job
    worker,    \* the connector processes
    wire       \* completion requests ever sent; each may reach the server again

vars == <<now, receiver, rows, reader, worker, wire>>

Time == 0..MaxNow
JobState == {"NONE", "QUEUED", "LEASED", "SUCCEEDED", "FAILED", "EXPIRED"}
Terminal == {"SUCCEEDED", "FAILED", "EXPIRED"}

(* What an observation of j can report; "error" is a failed observation,   *)
(* reported with its error code instead of a result.                       *)
Outcome(j) == {"error"} \union (IF j \in HealthJob THEN {"HEALTHY", "UNHEALTHY"}
                                                  ELSE {"reading"})

(* A recorded result names the lease it was observed under: observations   *)
(* of different leases differ in their observedAt.                         *)
NoResult == [value |-> "none", gen |-> 0]
Result(j) == [value : Outcome(j), gen : Nat]
Absent == [state |-> "NONE", gen |-> 0, created |-> 0, leasedAt |-> 0, result |-> NoResult]
Queued == [Absent EXCEPT !.state = "QUEUED", !.created = now]

Off == [pc |-> "idle", job |-> None, gen |-> 0, value |-> "none", tries |-> 0]

TypeOK ==
    /\ now \in Time
    /\ receiver \in [state  : {"WAITING_FOR_RECEIVER", "VERIFYING", "READY", "UNHEALTHY"},
                     health : {"none", "HEALTHY", "UNHEALTHY"}, at : Time]
    /\ \A j \in Job :
        /\ rows[j].state \in JobState /\ rows[j].gen \in Nat
        /\ rows[j].created \in 0..now /\ rows[j].leasedAt \in 0..now
        /\ rows[j].state = "QUEUED" => rows[j].gen = 0
        /\ rows[j].state \in {"LEASED", "SUCCEEDED", "FAILED"} =>
            rows[j].gen > 0 /\ rows[j].created <= rows[j].leasedAt
        /\ rows[j].result \in Result(j) \union {NoResult}
        /\ (rows[j].result = NoResult) = (rows[j].state \notin {"SUCCEEDED", "FAILED"})
        /\ (rows[j].state = "FAILED") = (rows[j].result.value = "error")
    /\ reader \in [Job -> {"none", "waiting"}]
    /\ \A w \in Worker :
        /\ worker[w].pc \in {"idle", "dispatch", "send", "await", "stopped"}
        /\ worker[w].tries \in 0..Attempts
        /\ worker[w].pc # "idle" => worker[w].job \in Job /\ worker[w].gen > 0
    /\ \A m \in wire : m.by \in Worker /\ m.gen > 0 /\ m.value \in Outcome(m.job)

Init ==
    /\ now = 0
    /\ receiver = [state |-> "WAITING_FOR_RECEIVER", health |-> "none", at |-> 0]
    /\ rows = [j \in Job |-> Absent]
    /\ reader = [j \in Job |-> "none"]
    /\ worker = [w \in Worker |-> Off]
    /\ wire = {}

Tick == /\ now < MaxNow
        /\ now' = now + 1
        /\ UNCHANGED <<receiver, rows, reader, worker, wire>>

-----------------------------------------------------------------------------
(* Jobs are created by the enrollment of the connector, in its transaction, *)
(* and by the MCP tool calls. A call reads the receiver's state first and   *)
(* refuses business state unless READY, health unless enrolled. MaxNow      *)
(* leaves every job the time to reach its deadline.                         *)

Creatable(j) == rows[j].state = "NONE" /\ now + Deadline <= MaxNow

Enroll(j) ==
    /\ receiver.state = "WAITING_FOR_RECEIVER" /\ j \in HealthJob /\ Creatable(j)
    /\ receiver' = [receiver EXCEPT !.state = "VERIFYING"]
    /\ rows' = [rows EXCEPT ![j] = Queued]
    /\ UNCHANGED <<now, reader, worker, wire>>

Ask(j) ==
    /\ Creatable(j)
    /\ receiver.state # "WAITING_FOR_RECEIVER"
    /\ j \notin HealthJob => receiver.state = "READY"
    /\ rows' = [rows EXCEPT ![j] = Queued]
    /\ reader' = [reader EXCEPT ![j] = "waiting"]
    /\ UNCHANGED <<now, receiver, worker, wire>>

(* boundedPoll reads the row before it reads the clock, so an answer that   *)
(* is there at the deadline is still read. getById expires nothing.         *)
PollFinds(j) ==
    /\ reader[j] = "waiting" /\ rows[j].state \in Terminal
    /\ reader' = [reader EXCEPT ![j] = "none"]
    /\ UNCHANGED <<now, receiver, rows, worker, wire>>

PollTimesOut_Waits(j) ==
    /\ reader[j] = "waiting" /\ rows[j].state = "QUEUED" /\ now >= rows[j].created + Wait
    /\ reader' = [reader EXCEPT ![j] = "none"]
    /\ UNCHANGED <<now, receiver, rows, worker, wire>>

PollTimesOut(j) ==
    /\ reader[j] = "waiting" /\ rows[j].state \notin Terminal /\ now >= rows[j].created + Wait
    /\ reader' = [reader EXCEPT ![j] = "none"]
    /\ UNCHANGED <<now, receiver, rows, worker, wire>>

-----------------------------------------------------------------------------
(* Leasing. leaseNext first expires every job at its deadline, then takes   *)
(* the oldest job that is queued, or leased beyond its lease, and that the  *)
(* receiver's state allows. Of jobs created at one time the smaller id goes *)
(* first; ids are random, so either may.                                    *)

Open(j) == rows[j].state \in {"QUEUED", "LEASED"}
Overdue(j) == rows[j].created + Deadline <= now
LeaseOver(j) == rows[j].leasedAt + Lease <= now
Expired(row) == [row EXCEPT !.state = "EXPIRED"]

Leasable ==
    {j \in Job : /\ Open(j) /\ ~Overdue(j)
                 /\ rows[j].state = "LEASED" => LeaseOver(j)
                 /\ j \in HealthJob \/ receiver.state = "READY"}

Oldest(S) == {j \in S : \A k \in S : rows[j].created <= rows[k].created}

Leased(row) == [row EXCEPT !.state = "LEASED", !.gen = @ + 1, !.leasedAt = now]

Handed(j) == [Off EXCEPT !.pc = "dispatch", !.job = j, !.gen = Leased(rows[j]).gen]

Swept_Never == rows
Swept_AnyState == [j \in Job |-> IF rows[j].state # "NONE" /\ Overdue(j) THEN Expired(rows[j]) ELSE rows[j]]
Swept == [j \in Job |-> IF Open(j) /\ Overdue(j) THEN Expired(rows[j]) ELSE rows[j]]

(* What one poll of the lease route does to the rows: h is the job handed   *)
(* out, None if there is none. The connector authenticated before it.       *)
Polled(h) ==
    /\ receiver.state # "WAITING_FOR_RECEIVER"
    /\ \/ h = None /\ Leasable = {} /\ rows' = Swept
       \/ h \in Oldest(Leasable) /\ rows' = [Swept EXCEPT ![h] = Leased(rows[h])]
    /\ UNCHANGED <<now, receiver, reader, wire>>

LeaseNext(w) ==
    /\ worker[w].pc = "idle"
    /\ \E h \in Job \union {None} :
        /\ Polled(h)
        /\ worker' = IF h = None THEN worker ELSE [worker EXCEPT ![w] = Handed(h)]

(* The answer of a poll is lost, or the process that asked gave up on it,  *)
(* moved on or died; the lease is taken all the same.                       *)
LeaseLost == \E h \in Job : Polled(h) /\ UNCHANGED worker

-----------------------------------------------------------------------------
(* The connector process: dispatch the job, then report the outcome, up to  *)
(* Attempts times with the same payload while the answer does not come.     *)
(* The copies of a report are alike, so the model keeps one and lets it     *)
(* reach the server any number of times, at any later time or never.        *)

Dispatch(w) ==
    /\ worker[w].pc = "dispatch"
    /\ \E v \in Outcome(worker[w].job) :
        worker' = [worker EXCEPT ![w].pc = "send", ![w].value = v]
    /\ UNCHANGED <<now, receiver, rows, reader, wire>>

Report(w) == [job |-> worker[w].job, gen |-> worker[w].gen, value |-> worker[w].value,
              by |-> w]

Send(w) ==
    /\ worker[w].pc = "send"
    /\ worker' = [worker EXCEPT ![w].pc = "await", ![w].tries = @ + 1]
    /\ wire' = wire \union {Report(w)}
    /\ UNCHANGED <<now, receiver, rows, reader>>

(* An answer ends the job for the process; a refusal other than a fence     *)
(* ends the process (completeJob, failJob, run).                            *)
Finish(w, answer) ==
    [worker EXCEPT ![w] = IF answer = "rejected" THEN [@ EXCEPT !.pc = "stopped"] ELSE Off]

(* withTransportRetry: a retryable error, the server's or the network's. *)
NoAnswer(w) ==
    /\ worker[w].pc = "await"
    /\ worker' = IF worker[w].tries < Attempts THEN [worker EXCEPT ![w].pc = "send"]
                                               ELSE [worker EXCEPT ![w] = Off]
    /\ UNCHANGED <<now, receiver, rows, reader, wire>>

(* A process may stop anywhere; its state directory lets the next one run. *)
Crash(w) ==
    /\ worker[w].pc # "idle"
    /\ worker' = [worker EXCEPT ![w] = Off]
    /\ UNCHANGED <<now, receiver, rows, reader, wire>>

-----------------------------------------------------------------------------
(* complete and fail *)

Settled(m) == [rows[m.job] EXCEPT !.state = IF m.value = "error" THEN "FAILED" ELSE "SUCCEEDED",
                                  !.result = [value |-> m.value, gen |-> m.gen]]

ExactReplay(m) ==
    /\ rows[m.job].state \in {"SUCCEEDED", "FAILED"}
    /\ rows[m.job].gen = m.gen /\ rows[m.job].result.value = m.value

Completable_AnyGeneration(m) ==
    /\ rows[m.job].state = "LEASED" /\ ~Overdue(m.job) /\ ~LeaseOver(m.job)

Completable_LeaseOver(m) ==
    /\ rows[m.job].state = "LEASED" /\ ~Overdue(m.job)
    /\ rows[m.job].gen = m.gen

Completable(m) ==
    /\ rows[m.job].state = "LEASED" /\ ~Overdue(m.job)
    /\ rows[m.job].gen = m.gen /\ ~LeaseOver(m.job)

(* An answer reaches the process that waits for it, or is lost. *)
Answer(m, answer) ==
    \/ /\ worker[m.by].pc = "await" /\ Report(m.by) = m
       /\ worker' = Finish(m.by, answer)
    \/ UNCHANGED worker

(* The order of health results is that of the leases they were observed    *)
(* under: a result of an older, or equally old, lease changes nothing.     *)
HealthAfter_LastWins(m) ==
    IF m.job \in HealthJob /\ m.value # "error"
    THEN [state  |-> IF m.value = "HEALTHY" THEN "READY" ELSE "UNHEALTHY",
          health |-> m.value, at |-> rows[m.job].leasedAt]
    ELSE receiver

HealthAfter(m) ==
    IF /\ m.job \in HealthJob /\ m.value # "error"
       /\ receiver.health = "none" \/ rows[m.job].leasedAt > receiver.at
    THEN [state  |-> IF m.value = "HEALTHY" THEN "READY" ELSE "UNHEALTHY",
          health |-> m.value, at |-> rows[m.job].leasedAt]
    ELSE receiver

CompleteRecords(m) ==
    /\ m \in wire /\ Completable(m)
    /\ rows' = [rows EXCEPT ![m.job] = Settled(m)]
    /\ receiver' = HealthAfter(m)
    /\ Answer(m, "recorded")
    /\ UNCHANGED <<now, reader, wire>>

CompleteReplays(m) ==
    /\ m \in wire /\ ExactReplay(m)
    /\ Answer(m, "recorded")
    /\ UNCHANGED <<now, receiver, rows, reader, wire>>

(* JOB_ALREADY_COMPLETED: the connector takes it for a refusal it cannot   *)
(* survive, and stops.                                                      *)
CompleteRejected(m) ==
    /\ m \in wire /\ rows[m.job].state \in {"SUCCEEDED", "FAILED"} /\ ~ExactReplay(m)
    /\ Answer(m, "rejected")
    /\ UNCHANGED <<now, receiver, rows, reader, wire>>

(* JOB_EXPIRED, DEADLINE_EXPIRED, STALE_LEASE, LEASE_EXPIRED: only the one *)
(* at the deadline changes the row.                                         *)
CompleteFenced(m) ==
    /\ m \in wire /\ rows[m.job].state \in {"LEASED", "EXPIRED"} /\ ~Completable(m)
    /\ rows' = IF Open(m.job) /\ Overdue(m.job)
               THEN [rows EXCEPT ![m.job] = Expired(@)] ELSE rows
    /\ Answer(m, "fenced")
    /\ UNCHANGED <<now, receiver, reader, wire>>

-----------------------------------------------------------------------------
Poll(j) == PollFinds(j) \/ PollTimesOut(j)

Next ==
    \/ Tick \/ LeaseLost
    \/ \E j \in Job : Enroll(j) \/ Ask(j) \/ Poll(j)
    \/ \E w \in Worker : LeaseNext(w) \/ Dispatch(w) \/ Send(w) \/ NoAnswer(w) \/ Crash(w)
    \/ \E m \in wire : \/ CompleteRecords(m) \/ CompleteReplays(m)
                       \/ CompleteRejected(m) \/ CompleteFenced(m)

Spec == Init /\ [][Next]_vars

(* Time passes and every tool call's poll loop runs. *)
FairSpec == Spec /\ WF_vars(Tick) /\ \A j \in Job : WF_vars(Poll(j))

(* A connector process keeps running: its loop asks for jobs, dispatches   *)
(* and reports, and its requests end by an answer or by their timeout.     *)
(* Every answer to a lease request may be lost.                             *)
Requests(w) == worker[w].pc = "idle" /\ (LeaseNext(w) \/ LeaseLost)

Runs(w) == /\ WF_vars(Requests(w)) /\ WF_vars(Dispatch(w))
           /\ WF_vars(Send(w)) /\ WF_vars(NoAnswer(w))

-----------------------------------------------------------------------------
(* A recorded outcome was observed under the last lease of its job: a      *)
(* process that lost its lease never has its observation recorded, however *)
(* its request is delayed or retried (complete, fail: generation fence).   *)
RecordedUnderLastLease ==
    \A j \in Job : rows[j].state \in {"SUCCEEDED", "FAILED"} => rows[j].result.gen = rows[j].gen

(* The receiver's health is that of the completed health job leased last,  *)
(* in whatever order the completions arrive, and READY means HEALTHY.      *)
HealthIsNewest ==
    LET done == {j \in HealthJob : rows[j].state = "SUCCEEDED"}
    IN /\ (receiver.health = "none") = (done = {})
       /\ done # {} =>
            /\ \E j \in done : receiver.at = rows[j].leasedAt
                               /\ receiver.health = rows[j].result.value
            /\ \A j \in done : rows[j].leasedAt <= receiver.at
       /\ (receiver.state = "READY") = (receiver.health = "HEALTHY")

(* An outcome is final: a late, repeated or competing completion changes   *)
(* neither the state, the result nor the generation of an ended job, and   *)
(* no outcome is recorded after the lease or the deadline. The answer to a *)
(* report stands as well: one that was recorded is recorded at every later *)
(* retry, and one that was refused is not recorded by a copy of it that    *)
(* arrives later (isExactSucceededReplay, the fences).                     *)
OutcomeIsFinal ==
    /\ [][\A j \in Job :
           /\ rows[j].state \in Terminal => rows'[j] = rows[j]
           /\ rows[j].state = "LEASED" /\ rows'[j].state \in {"SUCCEEDED", "FAILED"} =>
               ~Overdue(j) /\ ~LeaseOver(j)]_vars
    /\ [][\A m \in wire :
           /\ ExactReplay(m) => ExactReplay(m)'
           /\ ~ExactReplay(m) /\ ~Completable(m) => ~ExactReplay(m)' /\ ~Completable(m)']_vars

(* Every tool call returns, whatever becomes of its job, even if no        *)
(* connector ever asks for it (boundedPoll).                                *)
ReaderReturns == \A j \in Job : reader[j] = "waiting" ~> reader[j] = "none"

(* While the connector processes run, no job stays open: it is completed   *)
(* or expires, whatever is lost on the way (the sweep of leaseNext).        *)
JobsEnd ==
    (\A w \in Worker : Runs(w)) => \A j \in Job :
        Open(j) ~> (rows[j].state \in Terminal \/ \A w \in Worker : worker[w].pc = "stopped")
=============================================================================
