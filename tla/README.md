# A TLA+ model of Redrive

Redrive recovers failed GitHub webhook deliveries. It proves, from what the
provider and the receiver each say, that a delivery failed after it had taken
effect; has an agent find a repair in a sandbox; deploys the repair when an
operator approves it; asks GitHub to redeliver once when an operator approves
that; and writes a receipt when the receiver shows the delivery applied exactly
once. This directory holds the TLA+ modules that model it, the TLC
configurations that check them and the proofs that TLAPS checks.

All paths below are relative to the repository. `database.ts` is
`src/server/infrastructure/database.ts`.

## Inventory

The server is a Next.js process over SQLite (`better-sqlite3`, synchronous,
`transaction(..., "immediate")`). A request is an async function: between two
awaits it runs alone in its process, and every `database.transaction` is
atomic against other processes. What is hard is therefore what happens *at* the
awaits: other requests, other processes, lost answers, crashes.

| Component | State it keeps | Operations | What makes it correct |
|---|---|---|---|
| Redrive service, `server/recovery/redrive-service.ts` | `redrive_permits`, `redrive_dispatches`, `recovery_receipts` | `approve`, `execute` | one permit and one redelivery per incident; a permit is spent on what it was approved for; a lost answer is never asked again; a receipt is proven |
| Deployment service, `server/recovery/recovery-deployment-service.ts` | `deploy_permits`, `recovery_deployments`, and outside the git checkout and the container | `approvePermit`, `deploy` | one `git apply` per attempt; an interrupted deployment is never taken up; VERIFIED is earned |
| Sandbox recovery, `server/recovery/recovery-sandbox-service.ts`, `recovery-attempt-repository.ts` | `recovery_attempts` | `startOrResumeSandboxRecovery` | one recovery session and one turn per incident; a verified repair is never replaced |
| Recovery turn, `collectLiveTurnLifecycle`, `collectRecoveryTurn`, `domain/recovery-result.ts` | none (reads a stream) | one collection per turn | what is accepted is what the sandbox answered to the one read of it, and the agent's last word |
| TrueForge session binding, `server/trueforge/*` | `trueforge_session_bindings` | `ensure`, `ensureCoordinatorForIncident`, `reconcile` | one session per incident; a creation nobody answered is not tried again, a late answer still binds; the recorded spec version is the session's |
| Incident investigation, `server/incidents/incident-investigation-*.ts` | `incident_investigations` | `investigate` | the turn a row waits for is its token's; the receiver is asked after the evidence is stored; what is completed stays so; a retry follows only a terminal failure |
| Provider and receiver investigators, `provider-investigation-service.ts`, `receiver-investigation-service.ts` | none of their own | run a turn, collect its events | evidence is the answer to the one question of that turn, asked by the agent that was to ask it; one corrective turn at most |
| Provider evidence, receiver observations, workflow events | `provider_evidence`, `receiver_observations`, `incident_workflow_events` | idempotent append, reconcile | append-only; the snapshot and its event stand or fall together; a conflict is recorded and refused |
| Receiver read jobs, `server/receiver/receiver-read-job-service.ts` | `receiver_read_jobs`, the health columns of `receiver_connections` | `create`, `lease`, `leaseNext`, `complete`, `fail` | a job is answered once, by the holder of its lease, in time |
| Receiver connection, `server/receiver/receiver-connection-service.ts` | `receiver_connections` with its enrollment columns | `issue`, `reissue`, `enroll`, `authenticate` | a token enrolls one identity, for good; a lost answer can be replayed by its owner |
| Bounded poll and final observation, `receiver-bounded-poll.ts`, `receiver-final-observation.ts` | none | `boundedPoll`, `readBusinessState` | ends |
| Connector, `receiver-connector/src/*` | identity file | `initialize`, `run`, `runOnce` | an identity is on disk before it is offered; reports what it leased, under its lease |
| GitHub App, `server/github/github-app-service.ts`, `github-installation-service.ts`, the callback routes | manifest and installation attempts, apps, installations, repositories | manifest and installation flows | a conversion code is spent once; a registered App has its key; a key that was kept is registered; only an installation GitHub confirms is bound |
| GitHub delivery and REST clients, `github-delivery-service.ts`, `github-rest.ts`, `github-mcp*.ts` | none | list, get, redeliver | external effects, modelled where they are called |
| Secret store, `server/infrastructure/secret-store.ts` | one private key file per manifest attempt | put, verify and recover, read | a published key is whole, durable and never replaced |
| Incidents, `incident-service.ts` | `incidents` | create | one incident per delivery |
| Operator authentication, routes, UI, agents' prompts, scripts | cookies, React state | – | not modelled |

Components interact through the database (the redrive service reads what the
deployment service recorded, which reads what the sandbox recovery verified),
through awaited calls to GitHub and TrueForge, and through the job table that
the connector polls.

## What is modelled

| Module | Models | Composed with |
|---|---|---|
| `PermitGate` | abstract: what an approval of a consequential act promises | – |
| `Redrive` | the redrive service, GitHub's redeliveries, the receiver | implements `PermitGate` |
| `Deployment` | the deployment service, the checkout, the container | implements `PermitGate` |
| `RecoveryAttempt` | the sandbox recovery of an incident and its TrueForge session | – |
| `ReadJobs` | the read jobs of a receiver, its health, the connector processes, the MCP tool calls that wait | – |
| `Enrollment` | the enrollment tokens, the connector's identity file and start | its `Enroll` is the one `ReadJobs` starts from |
| `Investigation` | the investigation of an incident: its row, the two stages and their TrueForge turns | – |
| `SecretStore` | the private key files of the GitHub Apps | – |
| `GithubManifest` | manifest attempts, the callback, the conversion and its checkpoint | extends `SecretStore`: its requests are the ones that put and reconcile keys |
| `GithubApp` | installation attempts and visits | extends `GithubManifest`: an installation needs the App and its key |
| `SessionBinding` | the TrueForge session of an incident | – |
| `TurnEvents` | what the three collectors read out of the events of a turn, as predicates over lists | – |
| `Evidence` | the provider's snapshot, the receiver's observations, the workflow events, the repair that rests on them | extends `TurnEvents`: its turns end in what the collectors make of a list |
| `MC*` | the instances TLC checks | |
| `RedriveProofs`, `DeploymentProofs`, `RecoveryAttemptProofs`, `EnrollmentProofs`, `ObservationProofs` (of `ReadJobs` and `Evidence`), `InvestigationProofs`, `GithubAppProofs`, `SessionBindingProofs` | theorems | |

### PermitGate

`phase[k]` of a key is unapproved, approved, claimed, succeeded or failed;
`acts[k]` counts its effects. `Grant`, `Claim` (only one key of a group),
`Act` (once) and `Settle`. It says what both consequential services promise:
the effect happens at most once per group (incident, recovery attempt), after a
claim, and what is settled stays so.

### Redrive

`cand` is the fingerprint `loadCandidate` finds for an incident, `permit` and
`dispatch` are the two rows, `receipt` the third. A call of `approve` or
`execute` is a record in `req` with a program counter that names the await it
is in: `approveRead`/`executeRead` (receiver read), `approveCommit`/
`executeCommit` (about to run the transaction), `post` and its three answers,
`poll`, `observed`, `finalRead`, `finalCommit`. An await is two steps, so what a
request read may be stale when it acts on it. `posts`, `queued` and `attempts`
are GitHub's side: requests sent, redeliveries accepted but not made, and
redeliveries made, each with the dispatches it came after. `ForeignRedelivery`
is a redelivery asked for on github.com; `CandidateDrifts` and `ReceiverDrifts`
are changes behind the service's back; `Crash` forgets a request.

### Deployment

`artifact` is what `readCurrentCandidate` finds; `permit` and `row` are the two
tables. A `deploy` call is a record in `req`; where the code commits twice
without an await (PREPARED, then APPLYING) these are two actions. The host is
`checkout` (HEAD, the patches applied, edited by hand or not) and `running` (the
patches in the running container). A crash leaves `git apply` or `docker
compose` running without a parent (`orphan...`).

### RecoveryAttempt

`row` is the one row of the incident. A call is a record in `call` whose
program counter names the await (`create`, `lookup`, `update`, `turn`,
`turnDone`) or the answer it resumes with. Sessions are named by the creation
token of the reservation they were created for; `made`, `gone`, `spec` and
`turns` are TrueForge's side. The stale fence may strike at any time, since a
creation may take any time. The version of the agent specification is `old` or
`current`, for an attempt that an earlier release left READY.

### ReadJobs

`rows[j]` is a row of `receiver_read_jobs` of one receiver: state, lease
generation, creation time, time of the last lease and result. Columns that
follow from these are not kept (the head of the module says which). `receiver`
is what `receiver_connections` holds of health. Each handler is one immediate
transaction and so one action; `Polled` is one call of `leaseNext`, sweep
included, by a process that gets the answer (`LeaseNext`) or by a request whose
answer nobody receives (`LeaseLost`). A connector process is a record in
`worker` whose program counter follows `runOnce`; what it reports stays in
`wire` for good, since a request it gave up on may still arrive. `now` is the
server's clock: leases, deadlines and waits are intervals of it, compared as the
code compares them, so the boundary cases are there.

### Enrollment

`row[r]` is the enrollment part of `receiver_connections`; `health` counts the
health jobs that enrollments created. The identity file is modelled as its
processes read it (`seen`) and as a power loss would leave it (`durable`);
every step of `identity.ts` that the file system orders is an action. So is the
state directory (`home`: absent, there but with an entry no one forced, or on
disk): a start looks whether it is there, makes it, forces the parents of what it
made (`Look`, `Make`, `ForceParents`), and removes it again if that fails
(`PrepareFails`). A process that finds it there forces nothing, and a power loss
takes an unforced one with all it holds; `gone` remembers the identities lost so.
`dir` says which processes share a state directory and never changes. A process
reads its token when it starts, so a change of the environment (`Configure`)
reaches it at its next start.

### Investigation

`row` is the incident's row of `incident_investigations`; its state column is a
stage and a phase. `evidence` and `observed` are what the stages store, by the
turn it was read in. A call of `investigate` is a record in `call`: the stage it
works in, that stage's operation token, the turn it deals with, and a program
counter that names the await: the list of turns (`lookup`), the events of the
row's turn (`peek`), the coordinator session (`session`), a replay, the answer to
a creation request (`post`), its stream (`posted`, `running`), the events of the
turn (`events`), its own promise (`captured`, `observed`), and after an error the
events of a turn that may run still (`asking`). An await here is one step, so
that an answer is as old as the code after it lets it be. The statements of
the repository are operators over the row (`Attributable`, `Failed`, `Holds`).
TrueForge's side is `turns`, each with the token written into its input, and
`late`, the creation requests nobody waits for that may still arrive. What the
collectors make of a turn's events is how the turn ends (`Ending`).

### SecretStore, GithubManifest, GithubApp

`final` and `temp` are the names a key file has, `disk` the names a power loss
would leave; every operation of `secret-store.ts` that the file system orders is
a step of a request in `req` (`WriteTemporary`, `Publish`, `UnlinkTemporary`,
`Confirm`, `CleanUp`, and for the reconciliation `Inspect` to `ReadDurably`), and
each may fail, as long as `MaxFault` lasts. A key stands for the file that
holds it, whose bytes are complete and on disk before its first name. The store
makes its directory but never forces the parent: unless it is `anchored`, a power
loss may take the directory (`LoseDirectory`). The clean-up of a failed put looks
at no claim, as in the code, so it may withdraw what another request has found
since (`WithdrawsLate`); `gone` remembers the attempts that lost a stored key in
one of these two ways.

`attempt` is `github_manifest_attempts`, with the registration: a status, the
checkpoint (which key's identity and digest were written), and of time only
whether the attempt is live and its claim fresh. `ClaimPending` is the claim
and the request to GitHub, `Exchanged` the answer and the checkpoint,
`Complete` the registration. `converted` counts what GitHub was asked.

`install` is `github_installation_attempts`, `visit` the requests that wait for
GitHub under a claim, `installed` is `github_installations`; `AppOf` is what
GitHub knows. A claim is known by its visit, the claim times being different.

### SessionBinding

`row` is the incident's row of `trueforge_session_bindings`; a token is the number
of a reservation and names the session its creation makes. `wire` holds the
creation requests that TrueForge has neither done nor refused, and keeps them
when their caller dies or gives up, so that a session may appear when nobody
waits for it. A call's program counter names the await (`create`, `lookup`,
`update`) or the point between two reads of the row (`reserve`, `stale`,
`ensured`). Age is a fact of the row (`fresh`).

### TurnEvents and Evidence

`TurnEvents` is pure: a list of a turn's persisted events, and for each collector
the conjunction of what it checks (`ProviderTurn`, `ReceiverTurn`,
`RecoveryTurn`), in the order of the code's loops. What a turn is to be is said
separately, of the turn as a whole (`Attributed`, `Authoritative`): one agent,
one question, one answer. The lists are all that differ from a proper one in
one event: missing, added, repeated, replaced, swapped, or under the id of
another. TLC evaluates the collectors on every one of them and `Evidence` uses
the outcomes (`ProviderTurns`, `ReceiverTurns`, `RecoveryTurns`), each with the
mark whether it is what it is said to be (`sound`).

`Evidence` has `turns` in the order they were started, the three tables, and
`attempt`, the recovery's row. A call is in `start` (about to ask for a turn),
`live` (in the stream), `collect`, and for the provider in `capture`, the
transaction that stores the snapshot with its event. Instead of starting a turn a
call may read one that has ended again (`Replay`), its owner having died or reading
it too; an event that is there already has to be the same (`Recordable`), and an
observation of the turn is not appended twice. The calls of the three
kinds run side by side; a session has one turn at a time, the coordinator's and
the recovery's are two sessions.

## Runs

| Run | Instance | Shows |
|---|---|---|
| `redrive` | 1 incident, 2 fingerprints, 2 requests, 2 polls, 2 mutations, 1 drift, 1 foreign redelivery, fair | one redelivery, a proven receipt, what a permit is spent on, that every call returns, and that the service implements the gate |
| `redrive_ambiguous` | no foreign redelivery | the first finding below |
| `deployment` | 2 attempts, 3 fingerprints, 2 requests, 1 drift, 1 edit, 1 health poll | one apply, what a permit is spent on, that VERIFIED means that the container runs the patch when nobody edited the checkout and no other patch was deployed, and that the service implements the gate |
| `deployment_identity` | no drift, no edits | the second finding |
| `recovery_attempt` | 3 calls, 2 tokens | one session, one turn, and that how an attempt ended stands |
| `read_jobs` | 2 health jobs, 1 business job, 1 process, lease 2, deadline 3, wait 1, 1 retry, 3 ticks, fair | what is recorded, when and for good, the order of health results, that tool calls return and that jobs end |
| `investigation` | 2 calls, 3 tokens, 3 turns, 1 crash | whose turn the row waits for, and that completion is for good |
| `investigation_retry` | 2 calls, 2 tokens, 2 turns | the third finding |
| `enrollment` | 1 receiver, 2 directories of which one is provisioned, 2 processes that share one or not, 2 identities, 2 tokens, 2 reconfigurations, 2 crashes, failures or power losses, fair | what is enrolled is durable, but for a directory nobody forced, and for good, and that an accepted enrollment becomes known |
| `github_app` | 1 App with 1 installation, 2 requests, 2 visits, 2 keys, 1 fault, 1 crash or power loss, fair | all safety and liveness of the App, its key and its installation |
| `session_binding` | 1 incident, 3 calls, 2 reservations, 1 crash, fair | one session, bound for good, at the recorded version, and that no reservation stays |
| `evidence` | 2 calls, 3 turns, two answers that normalise and one that does not, any number of crashes and of second readings of a turn | what the snapshot, the observations and the repair rest on, the agreement of snapshot and events, the one correction |

The bounds. The rows of one incident (attempt) interact with no other incident's,
except through the checkout, so one incident with two fingerprints is enough for
the redrive service, and two attempts, one of them with two fingerprints, for the
deployment service. Two requests are enough for every pair of steps to race; the
recovery has three calls because a creator, the call that fences it and one that
reuses the session are three roles. One drift and one foreign redelivery place
each of them at every point of a behaviour. For the jobs, a lease shorter than the
deadline allows a second lease of a job, which is what fencing is about, and a
lease, a deadline and a report can fall on one tick; two health jobs are enough
for their order, and one business job for what depends on it. One process can hold
what it leased before and what it leased again, because its old requests stay on
the wire. What two processes that share one identity do to each other is only
that: to the server a report is of a job and a generation, whoever sends it. For
the enrollment, two directories and identities are enough to mix up any two of
them; one receiver is, because receivers meet only in `OneReceiver`, which is
proved for any number. Two failures strike at every two steps, which is what it
takes one process to lose its directory: a death before the parents are forced,
and a power loss. The constraint `Fewer` gives the first process the directory
that is not provisioned (a provisioned one that both share is like one that one of
them has made and forced) and gives tokens to directories somebody uses. For the
investigation, two calls are an owner and whoever fences, reconciles, replays or
overtakes it, again and again, since a call that returned may start anew; three
turns are a first one, a corrective or late or repeated one, and the receiver's.

For the App, one attempt and one installation attempt are enough, since neither
shares anything with others of its kind; two requests (visits) are a first
claimant and the one that takes over. The second key is there for a second
conversion, which `OneConversion` says never happens. One fault strikes at any
file, database or GitHub operation, one crash or power loss at any step, before or
after it. For the session, three calls are a creator, the reader that finds its
reservation stale and one that verifies and updates; the second reservation
follows a refusal. For the evidence, two calls race for anything, and three turns
are a provider's, its correction and another's, or a provider's, a receiver's and
the recovery's, the shortest way to a repair; an answer that differs from the
first is there for the conflict, one that does not normalise for the refusal. A
list with one deviation is every single thing an agent can do wrong; two
deviations that make up for each other, such as a call replaced together with its
answer, are not covered. The proofs below have no such bounds.

Fairness. `redrive` assumes weak fairness of each request's own steps,
which is Node's event loop resuming a settled promise, and of the answers it
waits for, which are bounded by HTTP timeouts or failures. Requests may still
crash. `read_jobs` assumes that time passes and that the poll loop of a
tool call runs; `JobsEnd` has in its statement what else it needs, that the
connector process keeps asking, dispatching and reporting, where every answer
may be lost. `enrollment` assumes that a connector that is down is started again
(by whoever operates it: the repository has no supervisor for it), that a
started one proceeds, and, strongly, that of the answers to a request repeated
for ever one arrives. `github_app` assumes that a request
and a visit go on (each step is a file operation, a transaction, or an answer
bounded by the client's timeout), that claims and attempts grow old, and that the
operator opens the callback again, which is what `claimManifestAttempt` is
written for; how often a step fails is bounded by `MaxFault`. `session_binding`
assumes that calls go on, that rows grow old and that the incident is opened
again. `evidence` has no liveness: a turn's stream may last as long as TrueForge
keeps it open. `deploy` has no liveness property: the git and docker commands
are started without a timeout. The sandbox recovery has none either: the
turn's stream may last as long as TrueForge keeps it open.

`CHECK_DEADLOCK FALSE` is set because the systems do stop: all permits spent,
all rows terminal, nobody calls.

## Findings

* `redrive-service.ts:1318`: when the polls end, a row that is DISPATCHED
  (GitHub accepted the request) becomes FAILED, although GitHub may still make
  the redelivery; README.md:709 has an ambiguous result become OUTCOME UNKNOWN.
  Run `redrive_ambiguous`.
* `recovery-deployment-service.ts:1534`: verification looks at health and at a
  mutation count; docs/INVARIANTS.md:140-143 has the deployed candidate's
  identity verified. Two incidents that share the checkout can verify one
  patch with the other one in the image too. Run `deployment_identity`.
* `incident-investigation-service.ts:313`: an error of a stage becomes
  RETRYABLE_FAILURE unless the row is RUNNING with a turn that has not ended.
  While the row is CREATING nothing is looked up, although the turn was asked
  for; `incident-investigation-repository.ts:172-174` says that a retry is
  allowed only after a terminal failure and that an ambiguous creation never
  takes this path. A stream that breaks before `turn.created` is enough. Run
  `investigation_retry`. The same property fails on longer ways: the absence that
  `markReconciledAbsent` records (line 366) is not tied to a token and is taken
  for proof while the request may still arrive, and a late failure of the
  provider stage does not look at a turn of the receiver stage. Two further
  observations of the model, which no run states: `markProviderCaptured` (line
  381) gives the receiver token it finds to a second caller, which may then ask
  for a second receiver turn under it; and `reserve` completes a row whose
  receiver turn is not the observed one, after which reads throw until that turn
  is observed (`CompletesUnread`).

Observations of the models that no run states as a disagreement:

* `redrive-service.ts:1107`: any redelivery of the delivery after the dispatch
  row counts as the permit's own, nothing ties it to the POST. A redelivery
  that somebody asked for by hand in the meantime can carry the receipt of a
  permit whose POST never arrived. `ReceiptProven` says what a receipt does prove.
* `secret-store.ts:530-578`: if the directory cannot be forced to disk after the
  publication, `put` deletes the object it published, which may be the only
  copy of the key. The attempt then needs a new App. The tests have it so
  (`secret-store.test.ts:658`).
* The same clean-up (`secret-store.ts:540-567`) looks at no claim. A put runs
  without yielding in its process; but if it outlasts its claim, five minutes or the
  expiry of the attempt, a request of another process may take the claim over, find
  the key and register it, and then the put fails and deletes it: an App without its
  key. `RegisteredKeyIsDurable` states this as one of two exceptions.
* `secret-store.ts:158`: the store makes its directory and forces only the directory
  itself, never its parent. A power loss may then take the directory with every key
  in it, registered ones included; this is the other exception.
* `identity.ts:208-226`: `prepareStateDirectory` forces the parents of the state
  directory only in the call that found it missing. If that process dies between
  `mkdir` (211) and the loop (213-215), or another process finds the directory in
  between, nobody has forced, or later forces, its entry before an identity is
  enrolled from it, and a power loss takes the identity of a receiver that accepts
  no other. `EnrolledIsDurable` states the exception, and that one failure alone
  and one process alone do not meet it; the tests (`identity-config.test.ts:128`,
  `:168`) have the loop fail, not be skipped.
* `incident-investigation-service.ts:103-113`: a turn read again by another request
  is its first, so a corrective turn whose reader died may be corrected once more:
  `CorrectedOnce` is about a request, not about an incident.
* `app-manifest/callback/route.ts`: when only the completion failed, the operator
  may be told that the key was not retained, although it was, and the next
  callback registers it (`KeptKeyRegisters`).
* The collectors compare a response with its call by thread and id, not by
  order; they do not want the sandbox of a recovery to have been created before
  its calls; the provider's does not want event ids to be unique, so a repeated id
  rolls the snapshot back at `incident_workflow_events` (`CaptureNot`).
* The newest observation is the one appended last, so that of an older turn
  counts as newest if it is appended later. The recovery reads its evidence once,
  before it awaits its session and its turn: `EvidenceAttributed` therefore says
  that the contradiction was observed, not that the last observation still has it.

## Proofs

`RedriveProofs` proves `TypeOK`, `AtMostOnePermit`, `AtMostOneRedelivery`,
`PostIsFenced` and `SpentOnApprovedState` for every set of incidents,
fingerprints and requests and every bound. None of the safety properties is
inductive by itself. The inductive invariant `Inv` adds: a permit is CONSUMED
exactly when it has a dispatch row (`Spent`); a request that is sending has the
row DISPATCHING or, once answered, further (`Fenced`); requests past the
consuming transaction of one permit are one (`Exclusive`); a POST counted
belongs to a row that was written, and none is counted before the request's own
POST (`SentOnce`, `Unsent`); a redelivery is on record only in the states after
it was observed (`RecordedLate`). From these, at most one POST per permit
follows, and with one permit per incident at most one per incident.

The module also proves `Irrevocable`, and that the service implements the
gate: the initial states map to initial states, and every step maps to the one
gate step it stands for (`StepKinds` sorts the actions) or to a stutter.
`ReceiptProven` needs more than the order of the steps: a request carries its
evidence from the poll to the final commit while other requests work on the same
row. `Proven` says what it may rely on meanwhile: the redelivery it carries is the
one of the row and was made after the dispatch (`Carries`, `RowProven`), a
redelivery recorded for a row is never exchanged, and COMPLETE and the receipt
are written together (`ReceiptOfRow`).

`DeploymentProofs` proves of the gate, for every set of keys, that a group has at
most one effect (`OneEffect`); the gate has no run of its own, the runs and the
two refinements show which services implement it. Of the deployment service it
proves `TypeOK`, `SpentWithRow`, `OneDeployer`, `AtMostOneApply`, `VerifiedRuns`,
`SpentOnApprovedArtifact` and the refinement `ImplementsGate`. The centre is
`OneDeployer`: what is past the consumption of a permit, a request or a command
that a dead process left behind, is one for its attempt. With it the row and the
number of applies follow from the point that one has reached (`RequestOK`), and an
attempt has one row (`RowOK`). For `VerifiedRuns` the host is part of the
invariant: nothing is in the checkout or the container that was not applied
(`HostOK`), the image that is about to replace the container has the patch, and
where only one patch was ever applied the container runs that one from the
replacement on.

`RecoveryAttemptProofs` proves `TypeOK`, `AtMostOneSession`, `AtMostOneTurn`,
`VerifiedByTurn`, `TurnIsFenced` and `Settled`. The invariant: a call that is
creating a session owns the reservation in the row, so there is one, and no
session before it is answered (`Owns`); a call in a session works in the one the
row names (`Works`); what it knows of the specification stays true (`Knows`);
the calls past READY are one, and no turn was started before its own (`Turns`).

`EnrollmentProofs` proves `TypeOK`, `EnrolledIsDurable`,
`AcknowledgedIsEnrolled`, `OneReceiver` and `EnrolledForGood`. The invariant: the
file on disk is an earlier version of the one that is read, of the same identity
(`Agree`); a process that offers an identity has it in its file and on disk
(`Holds`), and only one process creates a file (`Lone`); what is on the wire and
what is enrolled is held by a directory or was lost with one (`Sent`,
`EnrolledKept`); what a process
or a file knows to be enrolled is (`ProcessKnows`, `FileKnows`). `StepSafe` says
what a step has to keep for all of these to stay, and each action is shown to
keep it; a power loss does because a file that was offered was on disk before.
That the loss of a directory takes two failures or two processes is an invariant
of its own (`HomeInv`): as long as nothing failed and a directory has one process,
its entry is unforced only while that process prepares it (`Staged`), when it holds
no file yet (`Empty`), so the first failure cannot take an identity (`Excused`).

`ObservationProofs` holds the theorems of two modules that share no variable. Of
`ReadJobs` it proves `TypeOK`, `RecordedUnderLastLease`, `HealthIsNewest` and
`OutcomeIsFinal`, for any number of jobs and processes and any lease, deadline
and wait. No process and no report on the wire, however old, has a generation
that its job has not reached (`Granted`, in `WorkerOK` and `ReportOK`), and a
row's generation only grows. So a report that is refused stays refused, being
of a past lease or past its time, and one that was recorded is recognised again.
`RowStep` says what any step may do to a row, and the properties of rows
are proved from it once. `HealthOK` says whose health the receiver shows and that
no completed job was leased later; that time does not run back and that two
leases of one instant are told apart by nothing is why it is `<=`.

Of `Evidence` it proves `EvidenceTypeOK`, `EvidenceAttributed`, `Provenance` and
`CorrectedOnce`, for any requests, deliveries, business states, artifacts and
number of turns. `TakenIsAttributed` comes first and is about `TurnEvents` alone:
of any list of events, not only the lists TLC evaluates, what a collector takes is
the one answer to the one question of the turn (for a recovery: the artifact that
was asked for once and is the last word). It needs of the events what the
collectors check of them and nothing else. `EvidenceInv` carries this to what is
stored. A call works on a turn of its kind (`CallOK`), which it may share with
others; a turn that anything was taken from has ended, and an ended turn does not
change, so a stored answer stays what its turn says (`RowsOK`). Who read a turn
does not matter: an event that says more than a failure names a turn from which an
answer was taken (`EventOK`), and a corrected turn is one from which none was.
That keeps a corrected first turn from being used, and one transaction for
snapshot and event keeps a rolled back or repeated capture from telling two
stories. A recovery that is past its first check still has its contradiction
behind it (`Contradicted`): the snapshot is not replaced, and observations are
only added.

`InvestigationProofs` proves `TypeOK` (with the CHECK constraint of the table),
`RunningIsAttributed`, `StagesInOrder` and `CompletedForGood`. What makes the
first inductive is that an operation token is drawn before it is anywhere
(`Drawn`) and carried by one stage only (`OneStage`), in the row, at the calls, on
the turns and on late requests alike: a list of turns is searched by the marker
alone, so the turn that carries it is of the right stage only because of that.
A call deals with a turn of its own stage and token and has the evidence behind
it when it works for the receiver (`CallsOK`, `LateOK`), and a row that a retry
starts from has a provider token (`ProviderFirst`), without which the CHECK
constraint would refuse the receiver's reservation. `StepSafe` reduces a step of
a call to the row and the call it leaves; `NewTurnSafe` is about turns that
appear.

`GithubAppProofs` proves `TypeOK`, `OneConversion`, `RegisteredKeyIsDurable`,
`InstallationProven` and `CompletedForGood`, of the three modules together. The
hard one is the key: the request that stored it may withdraw it again when a later
step of its put fails, and a request that recovers the attempt may have found it
meanwhile. While the last claim of the attempt is the storing request's own, no
other request works on the attempt (`Alone`, in `RequestOK`), so the attempt is
not COMPLETED either, and a withdrawal harms nobody; once the claim was taken
over, a withdrawal is a recorded loss (`gone`), and so is that of an unanchored
directory. Otherwise a COMPLETED attempt, and one a request has found stored, has
its key in the file, on disk and in the checkpoint (`Held`), and every step is
shown to leave that alone (`StoreSafe`). The installation rests on a completed
attempt only through its App, so its invariant (`InstallOK`) is separate.

`SessionBindingProofs` proves `TypeOK`, `OneSession`, `VersionIsApplied` and
`AnsweredIsBound`. `OneSession` by itself is not inductive: a second creation
request may be on its way long before it makes a session. The invariant
therefore counts both: what TrueForge has made for an incident and what it may
still make are one session, and none while there is no row, so that a
reservation only begins where nothing is left of an earlier one (`IncidentOK`);
a call that creates owns the token of the reservation in the row (`CallOK`) and
is the only one of its incident (`Alone`), so its answer always finds the row it
binds; a session that a call has updated, and the bound one of a row with the
current version, has the current spec. A refused request leaves the wire together
with its row; an unanswered one keeps both. `StepSafe` reduces a step to the
incident and the call it touches, `RowSafe` and `MoveSafe` to the row or the
call.

The proofs assume only the `ASSUME`s of the modules: `None` is no fingerprint
(token, identity, stage, session name), `IncidentOf` is a function, the bounds are
numbers.

Only model-checked: liveness (`RequestReturns`, `ReaderReturns`, `JobsEnd`,
`EnrolledIsAcknowledged`, `KeptKeyRegisters`, `ClaimsSettle`, `CreationSettles`),
which is out of the prover's reach.

Proved and not run: `TypeOK` of `Redrive`, `RecoveryAttempt`, `Enrollment` and
`Investigation`,
`AtMostOnePermit`, `PostIsFenced`, `Irrevocable`, `VerifiedByTurn`, `TurnIsFenced`,
`StagesInOrder`, `AcknowledgedIsEnrolled`, `OneReceiver`, `SpentWithRow` and
`OneDeployer`. They were model-checked
before they were proved; the runs state what a user of the component sees, most
of which rests on them.

## Abstractions

* SHA-256 is injective: a fingerprint stands for the candidate it is computed
  from.
* Clocks: a redelivery is after a dispatch in the order it happened, and a
  reservation may be stale at any time.
* A secret is part of the identity it belongs to. Both sides of the connector
  protocol are of one version.
* The token's 15 minutes are an event that may happen at any time.
* What agents write is a valid or an invalid artifact or answer. In `Investigation`
  and `RecoveryAttempt` what a collector makes of a turn's events is how the turn
  ended; `Evidence` takes it from the events, and has the sessions' own life,
  which those modules and `SessionBinding` model, as a session that gets lost.
* A message carries at most one tool call. Tools are known by what the
  classification makes of a call, arguments by what the parser finds in them.
* Nobody but Redrive writes to the secret directory, so that ownership, mode and
  symlink checks pass. Checkpoints of a manifest attempt that are partial,
  contradict its status or do not parse are not rows this program writes; the
  branches that refuse them are left out.
* A put fails at a file operation, at most `MaxFault` times; the removal of a
  temporary file that fails is one of these.
* A state directory is one place: the parents made with it are forced with it, and
  a death in the middle of a recursive `mkdir` is a death after it. The power loss
  that brings a removed empty directory back is left out.
* Which ended turn of its kind a second reading is of is not followed in
  `Evidence`, where it may be any; `Investigation` has the row that names it.
  Events that name no turn, of a request that failed before it had one, are left
  out.
* The observation of a turn that has one already is a replay; with
  a different content it would be a conflict, which cannot happen since the
  persisted events of a turn do not change.
* REVOKED permits and PREPARED dispatches have states in the schema that no
  code writes; they are left out.

## Plan

A composition of recovery, deployment and redrive over the shared database, and
the order of an incident's stages across them as its invariant.

## Not modelled

Not modelled are the UI and its view model (a projection of durable state),
routes (parsing and status codes), prompts, operator authentication (a signed
cookie), scripts, and the REST and JSON clients beyond the outcomes their callers
tell apart. The creation of an incident and of an application connection are
single inserts that a unique index guards. Migrations are not modelled, nor is
the selection of a repository and its webhook, which only reads.
