# DSX Control Plane: a TLA+ verification project

DSX provisions Odoo tenants on nodes that it does not reach: a Cloudflare Worker
(`deploy/cloudflare/src`) keeps all state in a D1 database, and on each node an agent
(`services/node_agent/dsx_node_agent`) polls it over HTTP, executes one operation at a time
and reports the result. This project models the protocols between the two, checks them with
TLC and proves the most important promises with TLAPS.

## 1. The system

| part | state | operations |
|---|---|---|
| Provisioning (`provisioning.ts`, `provisioningRetry.ts`, `trials.ts`, `nodeOperations.ts`) | `tenants`, `provisioning_jobs`, `provisioning_operation_leases` | create tenant, job or trial; retry; expire, claim, report |
| Backups (`backups.ts`, `backupOperations.ts`, `backupUploadOperations.ts`) | `backup_jobs`, artifacts, two lease tables, the object store | create; expire, claim, report for dump and upload; replays |
| Cleanup (`cleanup.ts`, `cleanupOperations.ts`, `trialCleanupAdmin.ts`, `trialCleanupOperations.ts`, `trialExpiration.ts`) | `cleanup_jobs`, `cleanup_operation_leases`, `tenants` | request; expire a trial; queue its cleanup; retry; expire, claim, report by two handlers |
| Restores (`restores.ts`, `restoreOperations.ts`) | `restore_jobs`, leases, `tenants`, a trigger that writes `provisioning_jobs` | create; expire, claim, report, replay |
| Trial conversion (`trialConversion.ts`, `trialConversionReconcile.ts`, `productionPlacement.ts`) | `trial_conversion_requests`, production tenants and their jobs | create, approve, place, reconcile |
| Nodes (`index.ts`, `nodeMetadata.ts`) | `nodes`, enrollment tokens, the identity on each host | make tokens, enroll, heartbeat, edit, revoke; choose a node |
| Agent (`main.py` and the engines) | one active operation in memory; databases, dumps, files on disk | poll, start, execute, report; build, dump, upload, purge, drop, restore |
| Views (`alerts.ts`, `healthHistory.ts`, `apps/web`, `apps/api`) | none of the protocols' | read |

Parts interact in three ways. The agent calls the Worker: one poll goes through the families
of operations in the order restore, upload, dump, trial cleanup, cleanup, provisioning
(`app.ts:60-85`), and a report is routed by the job's id. The families share rows of
`tenants`: a provisioning job makes a tenant ready or failed, a cleanup suspends and
decommissions it, a restore takes a pending one, a conversion makes a new one for it. The cron (`app.ts:115`) expires trials and
reconciles conversions.

What is hard here:

* **Interleaving.** A handler is suspended at each `await env.DB...`. A statement and a
  `DB.batch` are atomic; a handler is not. Some UPDATEs repeat the guard that was read
  before (`AND state = ...`), others name the id only.
* **Leases.** A claimed job is held by a lease with a token and an expiry time. It is expired by
  a later poll *of the same node*.
* **Failure.** A handler can stop between two calls, an answer can be lost, an agent can
  restart and forget its operation, a node can be revoked or cut off for a whole lease.
* **Retries.** Admin retries, the agent's repeated reports, uploads that are retried by
  polling, cleanups after a drop that nobody heard of.

What each part must guarantee: *provisioning* – a tenant never seems ready unless its
database was built, a job moves along `TRANSITIONS`, the tenant's status follows its job, one
open job per tenant, a tenant is not provisioning for ever; *backups* – the only copy is kept
until a verified one is in the store, the version on record is in the store, a prepared
backup is verified in the end; *cleanup* – only a drop decommissions a tenant, the database
of a ready tenant is there, the cleanup of an expired trial comes to an end; *restores* – validated means
that database and files are in place, a restore shares its tenant with no provisioning job,
a restored tenant can be cleaned up, a restore ends; *conversion* – one conversion of a
trial, one production tenant per conversion, ready only after its job was reported ready, and
the job's outcome arrives; *nodes* – a token enrolls one node, work goes to active nodes with an agent and
within their ceilings.
`PROJECT.json` lists the hazards at their lines and the properties that would catch them.

## 2. Modules

| module | models | notes |
|---|---|---|
| `EdgeRuntime` | Worker invocations, lease rows, the agent's main loop | extended by every family with leases |
| `Provisioning` | tenants, provisioning jobs, trials, retries, the node API | |
| `TenantProvisioning` | abstract specification: the life of one tenant's provisioning | `Provisioning` implements it |
| `Backup` | dumps, uploads, copies on the node, object versions | |
| `Decommission` | cleanups of test tenants, expiration and cleanup of trials, retries, provisioning a failed tenant again | |
| `TenantCleanup` | abstract specification: the end of a tenant, its cleanup and its databases | `Decommission` implements it |
| `Restore` | restores: admin API, node API, the agent's executor, the helper's engine stage by stage | with a provisioning job that competes for the tenant |
| `TenantRestore` | abstract specification: a restore, its tenant and the provisioning jobs that compete for it | `Restore` implements it |
| `Conversion` | conversions of trials, production tenants and their jobs, the two reconcilers | without leases |
| `Fleet` | enrollment, credentials, heartbeats, ceilings, revocation, placement of jobs, trials and retries | without leases |
| `ProvisioningProofs`, `ProvisioningHolderProofs`, `ProvisioningSerialProofs`, `BackupProofs`, `DecommissionProofs`, `RestoreProofs`, `ConversionProofs`, `FleetProofs` | theorems and their proofs | |
| `MCProvisioning`, `MCDecommission`, `MCFleet` | the symmetry sets for TLC | |

**Invocations.** A member of `Workers` is a slot for one invocation in flight. `worker[w].pc`
names the database call that comes next, its other fields are the local variables that the
code has read (`job`, `token`, the requested state in `want`, the list of expired leases in
`work`). So one action is one database call with what the code computes around it; with one
worker, invocations do not overlap (and the agent's requests are still separate), with two
they interleave at every call. Authentication is merged with the read after it:
revocation is the only write either could miss. A request whose effects are in one statement
is one action (`CreateTenant`, `TrialExpires`).

**Answers.** `Deliver`, `Accept` and `Reject` hand the answer to the agent that still waits
for it. An agent that starts an operation drops it on any error (`_start_one_operation`); one
with a result keeps it until the result is accepted (`_advance_active_operation`). The
executor runs beside the loop: its result may come at any moment between two requests.

**Leases.** The expiry time is a Boolean. A lease nobody tends lapses in due course; one
whose holder is alive lapses as a *fault* (the node was cut off for a lease period).

**Faults** (`MaxFaults` together): an aborted handler, a lost answer, a restarted agent, a
revoked node, a lapse under a live holder; in `Restore` also a failed download, a helper that
is too slow for the agent, crashes, or fails to drop a database.

**Provisioning.** A job is a pair of a tenant and an idempotency key. Placement is any active
node. `built` is a history variable: the jobs for which an executor has returned ready.

**Backup.** Dump and upload are two operations of the same job with lease tables of their
own; a poll asks the upload family first. `copies` is what is on the node's disk, the object
store holds versions named by the token of the upload that wrote them. The two report
handlers accept different sets of results (`Understood`), which matters when one family's
result reaches the other's handler.

**Decommission.** A tenant has at most one cleanup row, by `UNIQUE (tenant_id)`, so jobs are
indexed by tenants. Tenants start when they are ready. A poll runs the handler of trials,
then the one of test tenants, whose expiry and claim take cleanups of any kind. The second
provisioning of a failed tenant is three steps (`Reprovision`, `Reprovisioned`,
`ReprovisionFails`): its protocol is the subject of `Provisioning`. `databases` holds each
database's marker (which provisioning job built it), because the engine refuses to drop a
database with another marker; `dropped` is a history variable. `ahead` orders the expired
trials for the batch of the cron.

**Restore.** The name of the target database is computed from the target tenant and is
`UNIQUE`, so a tenant is the target of one restore for ever and names it. The executor's call
of the helper is a request on a socket: it waits in `calls` while the helper serves another
one, and stays there when the agent has stopped waiting, so that a second attempt meets what
the first one left, or is still doing. `helper` goes through the stages of the engine, `disk`
is what is on the node: the database with its marker, the staging directory, the files. A
provisioning job that takes the same tenant (`TakeRead` to `BuildCommit`) is reduced to its
writes of the tenant's row.

**Conversion.** Conversions are named by their `request_key`, production tenants by their
slug, both `UNIQUE`. `jobs[s]` is the job that the conversion of slug `s` waits for; `direct` holds
the slugs that have another one besides, which `createProvisioningJob` made with a key of its own. Leases
are left out: a report or an expiry may come whenever the job is in flight (which is more than the
leases allow). Both are two steps as in the code: the check of the job's state (`ReportRead`,
`ExpireRead`), and the batch (`ReportCommit` names the job's id only, `ExpireCommit` repeats the guard
for the job but not for the tenant). `built` is a history variable: the slugs whose job was
reported ready. A reconciler's `work` is the list it walks through: one job after a report or a renewal,
`Listed` for the cron. The helper of this version of the agent refuses production, so today
every production job fails; the control plane handles both outcomes, and so does the model.

**Fleet.** Which nodes suit a request by role, pool, memory and disk is an input of the
request (a set of nodes), since operators and heartbeats may set these to anything; activity,
the age of the heartbeat, the ceiling and the comparison of loads are the code's. `delivered`
holds the nodes whose credential has reached a host: an answer that is lost leaves a node row that
nobody has the credential of. A host may enroll again at any time, which replaces its identity file
(`state.py`); an agent that runs keeps the identity it has loaded (`main.py:161`), so any
delivered credential may still send heartbeats. `overlapped` is a history variable.

Abstracted everywhere: names, payloads, checksums, error codes, the event and audit tables
(written in the same batches, read by nobody here), times. The `database_name` column of
`Decommission` is represented by the marker of the database it names. The inner read of an
expiry loop (`SELECT ... WHERE id = ?`) is merged with the batch after it: what it reads is only
logged. The cron's list of due trials is read afresh for each trial, since its UPDATE repeats
the condition. An agent's restart kills its executor; an external command that
survives the restart is not modelled, except the helper's work in `Restore`.

**The abstract specifications** know no invocations, leases, tokens or agents. `TenantProvisioning`,
`TenantCleanup` and `TenantRestore` say how the rows that an operator sees may move, several of them
in one step, and what must be true elsewhere when they do: a cleanup is cleaned only where there is no database,
a drop never meets a ready tenant, a restore ends only after it was seen running. The refinement mappings are
the columns themselves (`statuses`, `cleanups`, `restores`, ...), and for `TenantCleanup` the disks (`places`).

## 3. Runs

Each run's bounds are in its `.cfg`. `MaxTokens` bounds the leases ever inserted,
`MaxAttempt` the claims of a job (for restores it is the schema's `CHECK`), `MaxBuilds` the
provisioning jobs of a tenant, `MaxExtras` the retries and direct jobs of production tenants and the invocations that stop half-way,
`MaxEdits` the ceilings set, nodes revoked and tokens expired.

| run | question | instance |
|---|---|---|
| `serial` | Without overlap, do provisioning jobs move along `TRANSITIONS`, with a lease in flight and the tenant in step; is the abstract specification implemented; do jobs end? | 2 tenants on a node, 1 fault, fairness |
| `concurrent` | What survives two interleaved invocations? | 2 jobs of a tenant, 2 workers, 1 fault |
| `second_job` | *violated*: has a tenant one open job? | 2 keys |
| `orphan` | *violated*: does provisioning resolve if a claim is aborted? | 1 fault |
| `wedge` | *violated*: does a job in flight end whatever becomes of its agent? | 1 fault |
| `backup` | Leases, states, versions and copies under overlap; are prepared backups verified, and lost answers made good? | 1 backup, 2 workers, 3 faults, fairness |
| `decommission_concurrent` | What survives two interleaved invocations? | 1 tenant, 2 nodes, 2 workers, 2 faults |
| `decommission_recovery` | Tenant, cleanup and database in step through failures, retries and provisioning again; is `TenantCleanup` implemented; does the first cleanup of an expired trial come to an end? | a tenant of any kind, 2 nodes, 3 builds, 2 faults, fairness |
| `decommission_lost` | *violated*: can a failed cleanup still succeed? | 1 fault |
| `restore` | What does "validated" mean; whom does a tenant belong to; can it be cleaned up; does a restore end? | 1 restore, 2 workers, 2 attempts, 2 faults, fairness |
| `conversion` | Do conversions, production tenants and jobs stay in step, and does the outcome arrive? | 2 requests for a trial, 2 slugs, 2 workers, 1 of: retry, direct job, stopped invocation; fairness |
| `fleet` | Does a token enroll one node, and where does work go? | 2 hosts, tokens, nodes, tenants, jobs, workers; 1 edit |

*Why the bounds suffice.* The races in this code need one stale handler and one that overtakes
it, hence two workers. A token for the first claim and one for the claim after a retry or
an expiry let every stale token meet a new lease; faults are shared by all kinds, so
each run explores every combination up to its number. Two tenants on a node, or two nodes for
a tenant, are the smallest instances in which families of jobs compete and tenants move.
In `restore`, two attempts and two faults let a second attempt meet the residue of a crashed helper, or
the first attempt's helper still at work, and a claim lose to a later one; four tokens are what two attempts and two
lost claims take; a restore stays on one node for ever (`RestoreProofs` proves it), so a second node would be
idle. In `decommission_recovery` the second node is where a tenant is provisioned again while the first
node's agent still has its cleanup in hand, and the third build is one after a second failed cleanup; several tenants on a node, and several restores, are in the proofs. In `conversion`, two requests give a failed conversion its successor, and two slugs the second
approval. In `fleet`, ceilings of one make two tenants compete for a place.
A liveness run gives every possible claim a token, or restricts retries to what is left
(`RetryBudget`), so that the bound never stops what must happen.

*What the overlap costs.* Backups keep all of their safety properties under overlap, because their
UPDATEs repeat the guards; so do the conversion's own rows, and enrollment (but a late report may move the
production job of a conversion that is ready already: see below). Others do not:
`InFlightHasLease`, `TenantFollowsJob` and `JobStepsLegal` of `Provisioning`
and the rows of `decommission_recovery` are checked without overlap
(one worker); `SerialTables` and `SerialTargets` are implications, `[]Serial => []P`,
checked in runs with two workers. In `JobStepsLegal`'s case a report that was checked before the lease
expired can move a job from `retrying` or `failed` to `ready`; in `SerialTargets`'s, two approvals make two
production tenants of which one belongs to nobody, and a report that was checked during an earlier attempt
takes a job out of `ready` whose conversion stays `ready` (`OutcomeStands`): all that `ConversionFollowsJob` says
under overlap is that such a job was once reported ready. `CalmPlacement` is about placements that nothing overtakes, `RecordedIsSettled`
of backups and `RestoreResolvesIfPolled` about behaviours without overlap. What survives every overlap is in
`concurrent`, `decommission_concurrent` and the invariants of the other runs. The runs named
*violated* are the findings of `PROJECT.json`; each names the line of the code and the
sentence it disagrees with.

*Fairness.* A handler that has been started goes on (`WF` of `WorkerStep`): the Worker's runtime
runs it to its end unless it is aborted, which is a fault. An agent loops with a timer, so it
polls and reports again and again (`SF` of `AgentRequest`, strong because the slot it needs may
be taken in between). Executors have timeouts, so they return (`SF`); the helper serves its
socket and its stages have timeouts (`SF` of `HelperStep`). An expiry time passes
(`WF` of the lapse of an untended lease). The cron (`0 * * * *` in `wrangler.jsonc`) is triggered for ever: it reaches each
trial of its batch (`SF` of `QueueRead`) and reconciles conversions (`SF` of `Cron`). Admins owe nothing, faults are never fair.
`InFlightResolvesIfPolled`, `PreparedIsVerified`, `ExpiredIsCleaned` and `RestoreResolvesIfPolled` have the premise that the agent becomes free again
and again: `wedge` shows that the code does not guarantee it.

Each property has a mutant in `PROJECT.json`, defined beside what it mutates
(`Retryable_Running`, `LeaseAfter_KeptOnFailure`, ...): the plausible slip that the property catches.

## 4. Theorems

They say `Spec => []P`, `Spec => [][A]_vars` or `Spec => Abstract!Spec`, for every value of the constants under
`RuntimeAssumption`, `BoundsAssumption` and their like, which say that bounds are numbers, that
`None` is none of the values it stands beside and, in `Fleet`, that there are finitely many tenants to count. Where a property
is one of invocations that do not overlap, the hypothesis is `Serial` as the module defines it: a constant formula (there are no two slots) in
`Provisioning` and `Decommission`, and `[]Serial` over behaviours (no two slots are in use) in `Restore`
and `Conversion`. Behaviours of the runs with one worker satisfy it.
TLC evaluates the assumptions in the runs.
Every module's type invariant is proved (`TypeCorrect`); the runs `concurrent`, `backup` and `restore` check it as well.

* `ProvisioningProofs` – `TypeCorrect`; `LeaseSafety` (a lease only on an open job), inductive as it stands
  once the types are known; `BuiltSafety` (`ReadyMeansBuilt`), strengthened to `BuiltInv`: whoever
  says "ready" – the agent's result, the report's handler, the tables – says it of a job in `built`.
* `ProvisioningHolderProofs` – `HolderSafety` (`HolderOfLeaseRuns`), with any overlap of requests, from
  `HolderInv`: tokens are drawn once; an agent waits only for the handler of its own request
  (`Waits`); whoever acts for a token knows what it may rely on (`LocalOk`, `AgentOk`). The proof splits a step
  in what it does to the tables – no step takes a job out of "running" and leaves its lease
  (`TablesKept`) – and in what it does to handlers and agents (`AnswerStep`, `MoveStep`).
* `ProvisioningSerialProofs` – with the hypothesis `Serial` (no two slots), `SerialLeases` and `SerialSteps`
  from `SerialInv`: what a handler has read still holds when it writes (`Fresh`), because nobody
  else writes meanwhile. The hypothesis is necessary: see *What the overlap costs*. With the
  further hypothesis `OneKey` (a tenant has one job; `OneOpenJob` shows why), `SerialTenants`
  (`TenantFollowsJob`) and `SerialRefinement`: `Provisioning` implements `TenantProvisioning`. Their invariant
  `FollowInv` ties the tenant's status to its job's state and the handler's token to the lease; with `HolderInv` it
  follows that a job is running when its end is reported, so each step is a move the abstract
  specification makes (`Promised`) or none.
* `BackupProofs` – `TypeCorrect`, `StatesInOrder`, `LeasesFollowStates`, `InFlightLeased`,
  `VerifiedStored`, `PreparedKept`, without such a hypothesis. The invariants `LeaseInv` and `CopyInv`
  say who may hold a token and that a copy outlives every handler that could still need it.
* `DecommissionProofs` – with any overlap `TypeCorrect`, `LeaseSafety`, and `CleanedSafety` (`CleanedMeansDropped`) from
  `CleanedInv`, along the way of a result "cleaned" from the engine to the tables. Under `Serial`,
  `TenantsFollow` (`TenantFollowsCleanup`), `ReadyKeepsDatabase` (`ReadyHasDatabase`), `NothingLeft` (`DecommissionedIsGone`),
  `CleanupSteps` (`CleanupStepsLegal`) and `CleanupRefines` (`Decommission` implements `TenantCleanup`), all from `CleanupInv`. None of the
  three invariants is inductive: an agent that was cut off may drop a database at any time later, and a report is written on
  no condition. What saves them is that whoever has a cleanup in hand is on its node (`OnNode`), that
  nobody there has a ready tenant's in hand (`TenantInv`; it holds because the agent that builds the tenant again has put everything down),
  that a result "cleaned" is carried only while the node has no database of the tenant (`InHand`), and that what a handler has
  read, up to the tenant's node, is still so when it writes (`Fresh`).
* `RestoreProofs` – with any overlap `TypeCorrect`, `LeasesStayOpen`, and `ValidatedInPlace` (`ValidatedMeansRestored`)
  from `DoneInv`: a restore's node never changes, and only that node's agent and helper work on it
  (`AgentsOk`, `CallsOk`, `HelpersOk`); whoever says "validated" has seen the database and the files in place
  (`WorkersOk`); the helper changes a target only while its files are not there (`HelpersOk`), so nothing
  that was seen in place goes away; an answer the agent awaits is about the restore it runs (`Awaits`, `Hears`), so no
  late answer to a call for one restore is reported for another. Without overlap, `TablesAgree` (`SerialTables`) from `TablesInv`: `RowOk` ties the
  tenant's row to its restore and to a competing job, and what a handler has read is `StillSo`; tokens are drawn once (`Drawn`), and whoever has the token of a standing lease, agent or
  handler, has a restore in flight (`Holds`). `RestoreRefines` needs more: the code accepts
  "failed" and "validated" from any restore in flight, so that a restore ends only after "running" because of the agent,
  not of the guard. `RunsInv` follows that from the agent to the tables: who has the token of a standing lease
  and is past its first report has a running restore (`AgentRuns`, `WorkerRuns`).
* `ConversionProofs` – `TypeCorrect`, `OneConversion`, `FollowsJob`, from an invariant that adds to both properties
  what the handlers remember: a placement's target is the conversion's and does not change
  (`PlacesTarget`), and so is a reconciler's (`ReconcilesTarget`), a "ready" that it carries is of a job in `built`,
  and a report is only ever of a job that was placed (`ReportsPlaced`), so that its unguarded commit cannot disturb a
  conversion that waits. Nothing is said of the job after that, since a late report may overwrite it.
  `StepsLegal` follows step by step. None of these needs the absence of overlap; `TargetsFollow` (`SerialTargets`) does, from `TargetsInv`:
  a production tenant is there exactly when a job is, and belongs to the conversion whose target it is (`HasTenant`),
  the job of a ready conversion stays ready (`OutcomeStands`), because what an approval, a report, an expiry or a retry has read
  is still so when it writes (`Reads`).
* `FleetProofs` – `TypeCorrect`; `EnrollsOnce`, strengthened by who holds a consumed token: one
  enrollment or one node, never two; `WorkOnAgents`, along the way of a placement from a heartbeat, which
  needs a delivered credential, to the tables; `PlacesCalmly`, from the
  invariant that without an overtaking request what the placement has read still stands,
  with the cardinality of the tenants of a node for the ceiling.

The invariants were checked by TLC before they were proved: `CleanupInv` with two tenants on a node and
with one tenant on two (309,284 and 139,174 states), `TablesInv` with two restores on a node and one on two
(207,298 and 61,608; the first also for `ImplementsTenantRestore`, which no run repeats), `TargetsInv` on the instance of `conversion` (293,266). The hypothesis that invocations do not overlap
cannot be dropped: *What the overlap costs* names what breaks.

All safety invariants and action properties of the runs that pass are theorems. Only model-checked are the liveness properties (`PlacedResolves`, `InFlightResolvesIfPolled`, `PreparedIsVerified`,
`ExpiredIsCleaned`, `RestoreResolvesIfPolled`, `OutcomeCarried`, and `RecordedIsSettled` of `Backup` and `Restore`): they rest on fairness, hence on
`ENABLED`, which the prover does not handle.

## 5. Not modelled

* **The order of families in one poll.** Each family's claim is modelled, the chain of `app.ts:60-85`
  is not (but for upload before dump, and trials before test tenants). Two hazards of `PROJECT.json`
  are about it: a cleanup that answers 409 and an upload that fails at once keep the node's
  provisioning jobs waiting. No document promises anything about this order.
* **Invalid artifacts at the claim of a restore** (`claimRestore`'s failure when the backup's
  artifacts do not check): a verified backup is final (`BackupStepsLegal`, `VerifiedIsStored`) and keeps its
  artifacts, so that the branch is not reached.
* **Names and payloads**: the cut of database names at 63 characters, template manifests,
  checksums, paths and commands.
* **A second cleanup of a trial.** A trial whose cleanup failed and that was provisioned again keeps its
  old cleanup row; when it expires again it is only marked `cleanup_pending` (`trialExpiration.ts:62-69`), the row stays
  `failed`, and no cleanup is ever queued. `docs/ROADMAP.md:119` and `:126` promise otherwise. The model does what the code
  does (`MarkPending`); `ExpiredIsCleaned` is therefore about a first cleanup only, with two more exceptions it
  states: the node is revoked, or a claim was cut off between its lease and its dispatch (`Orphaned`, the cleanups' case of `orphan`).
* **A full batch of the cron, and cleanups that no retry accepts**: both are in the model of
  `Decommission`, neither has a property. `ExpiredIsCleaned` is checked with one tenant, so the order of the batch and its
  limit decide nothing there. The hazards name them.
* **Alerts, health history, inventory, metrics, the web console, the API's health endpoint,
  deployment files**: they keep no state that a protocol depends on.
