---------------------------- MODULE Provisioning ----------------------------
(***************************************************************************)
(* The life of a provisioning job: the admin API that creates and retries  *)
(* it (provisioning.ts, trials.ts, provisioningRetry.ts), the node API that*)
(* leases it to an agent and takes the agent's reports (nodeOperations.ts),*)
(* and the agent's main loop (node_agent/main.py).                         *)
(*                                                                         *)
(* Invocations, leases and the agent's loop are those of EdgeRuntime.  A   *)
(* job is identified by its (tenant, idempotency key) pair, which the table*)
(* declares UNIQUE.                                                        *)
(***************************************************************************)
EXTENDS EdgeRuntime

CONSTANTS
  Tenants,      \* tenant slugs (UNIQUE)
  Keys,         \* idempotency keys of provisioning requests
  MaxAttempt    \* CHECK (attempt <= 100) of provisioning_jobs

ASSUME BoundsAssumption == MaxAttempt \in Nat
ASSUME NoneAssumption ==
  /\ None \notin Tenants \X Keys
  /\ None \notin {"ready", "failed"}

Jobs == Tenants \X Keys
TenantOf(j) == j[1]

Kinds == {"test", "trial", "production"}
JobStates ==
  {"queued", "placed", "dispatched", "running", "ready", "failed", "retrying"}
Results == {"ready", "failed"}

VARIABLES
  jobs,     \* provisioning_jobs: state ("absent": no row), node, attempt
  tenants,  \* tenants: status ("absent": no row), kind, node, trial state
  built     \* history: jobs whose executor has returned "ready"

vars == <<jobs, tenants, leases, nodes, tokens, worker, agents, built, faults>>
tables == <<jobs, tenants, leases, nodes, tokens>>

-----------------------------------------------------------------------------
(* Rows and local variables *)

(* TRANSITIONS of provisioning.ts: the states a state may be followed by. *)
Transitions == [s \in JobStates |->
  CASE s = "queued"     -> {"placed", "failed"}
    [] s = "placed"     -> {"dispatched", "failed"}
    [] s = "dispatched" -> {"running", "failed"}
    [] s = "running"    -> {"ready", "failed"}
    [] s = "ready"      -> {}
    [] s = "failed"     -> {"retrying"}
    [] s = "retrying"   -> {"dispatched", "failed"}]

CanTransition(from, to) == from \in JobStates /\ to \in Transitions[from]

NoJob    == [state |-> "absent", node |-> None, attempt |-> 0]
NoTenant == [status |-> "absent", kind |-> "test", node |-> None, trial |-> "none"]
InFlight(j)  == jobs[j].state \in {"dispatched", "running"}
Claimable(j) == jobs[j].state \in {"placed", "retrying"}

(* Mutant of WithOutcome: the status of a trial is left alone. *)
WithOutcome_TrialStatusKept(row, outcome) ==
  IF row.kind = "trial" THEN row ELSE [row EXCEPT !.status = outcome]

(* A tenant row after a provisioning outcome: the status, and for a trial  *)
(* the trial state that the CASE of the UPDATE derives from it.            *)
WithOutcome(row, outcome) ==
  [row EXCEPT !.status = outcome,
              !.trial  = IF row.kind # "trial" THEN row.trial
                         ELSE IF outcome = "ready" THEN "active" ELSE "failed"]

-----------------------------------------------------------------------------
Init ==
  /\ jobs = [j \in Jobs |-> NoJob]
  /\ tenants = [t \in Tenants |-> NoTenant]
  /\ leases = [j \in Jobs |-> NoLease]
  /\ nodes = [n \in Nodes |-> "active"]
  /\ tokens = 0
  /\ worker = [w \in Workers |-> Idle]
  /\ agents = [n \in Nodes |-> IdleAgent]
  /\ built = {}
  /\ faults = 0

-----------------------------------------------------------------------------
(* The admin API *)

(* createTenant: one INSERT, refused for a slug that exists. *)
CreateTenant(t, kind) ==
  /\ tenants[t].status = "absent"
  /\ tenants' = [tenants EXCEPT ![t] = [NoTenant EXCEPT !.status = "pending", !.kind = kind]]
  /\ UNCHANGED <<jobs, leases, nodes, tokens, worker, agents, built, faults>>

(* createProvisioningJob up to its batch: no row for the key, a tenant     *)
(* that is pending or failed, and a placement on an active node.           *)
CreateJobRead(w, j, n) ==
  /\ jobs[j].state = "absent"
  /\ tenants[TenantOf(j)].status \in {"pending", "failed"}
  /\ Active(n)
  /\ Begin(w, Handler("create", None, j, 0, n))
  /\ UNCHANGED <<tables, agents, built, faults>>

(* Mutant of TakenUp: the status is left as it was. *)
TakenUp_NodeOnly(row, n) == [row EXCEPT !.node = n]

(* A tenant that a job, new or retried, works for again. *)
TakenUp(row, n) == [row EXCEPT !.status = "provisioning", !.node = n]

PlacedOn(n) == [state |-> "placed", node |-> n, attempt |-> 0]

(* Its batch: the INSERT aborts it when another request has inserted the   *)
(* key meanwhile; the tenant's UPDATE has no condition on its status.      *)
CreateJobCommit(w) ==
  LET j == worker[w].job
      n == worker[w].want
      t == TenantOf(j)
  IN
  /\ At(w, "create")
  /\ Finish(w)
  /\ IF jobs[j].state = "absent"
     THEN /\ jobs' = [jobs EXCEPT ![j] = PlacedOn(n)]
          /\ tenants' = [tenants EXCEPT ![t] = TakenUp(@, n)]
     ELSE UNCHANGED <<jobs, tenants>>
  /\ UNCHANGED <<leases, nodes, tokens, agents, built, faults>>

(* createTrial: placement, then one batch that inserts tenant and job. *)
CreateTrialRead(w, j, n) ==
  /\ tenants[TenantOf(j)].status = "absent"
  /\ Active(n)
  /\ Begin(w, Handler("trial", None, j, 0, n))
  /\ UNCHANGED <<tables, agents, built, faults>>

CreateTrialCommit(w) ==
  LET j == worker[w].job
      n == worker[w].want
      t == TenantOf(j)
  IN
  /\ At(w, "trial")
  /\ Finish(w)
  /\ IF tenants[t].status = "absent"
     THEN /\ jobs' = [jobs EXCEPT ![j] = PlacedOn(n)]
          /\ tenants' = [tenants EXCEPT ![t] =
               [status |-> "provisioning", kind |-> "trial", node |-> n,
                trial |-> "provisioning"]]
     ELSE UNCHANGED <<jobs, tenants>>
  /\ UNCHANGED <<leases, nodes, tokens, agents, built, faults>>

(* Mutants: a running job may be retried, or goes back to "placed". *)
Retryable_Running(state) == state \in {"failed", "running"}
Retried_Placed(row) == [row EXCEPT !.state = "placed"]

(* retryMode: only a failed job enters a retry. *)
Retryable(state) == state = "failed"
Retried(row) == [row EXCEPT !.state = "retrying"]

(* The retry route: reads a failed job whose node is active ... *)
RetryRead(w, j) ==
  /\ Retryable(jobs[j].state)
  /\ jobs[j].node \in Nodes
  /\ Active(jobs[j].node)
  /\ Begin(w, Handler("retry", None, j, 0, None))
  /\ UNCHANGED <<tables, agents, built, faults>>

(* ... and commits: only the job's UPDATE asks whether it is still failed. *)
RetryCommit(w) ==
  LET j == worker[w].job
      t == TenantOf(j)
  IN
  /\ At(w, "retry")
  /\ Finish(w)
  /\ leases' = [leases EXCEPT ![j] = NoLease]
  /\ jobs' = IF jobs[j].state = "failed"
             THEN [jobs EXCEPT ![j] = Retried(@)] ELSE jobs
  /\ tenants' = [tenants EXCEPT ![t] = TakenUp(@, jobs[j].node)]
  /\ UNCHANGED <<nodes, tokens, agents, built, faults>>

-----------------------------------------------------------------------------
(* The node API: a claim *)

(* Mutant of Expired: a job that was dispatched and never started is missed. *)
Expired_RunningOnly(n) == {j \in Jobs : /\ jobs[j].node = n
                                        /\ Leased(j) /\ ~leases[j].live
                                        /\ jobs[j].state = "running"}

Expired(n) == {j \in Jobs : /\ jobs[j].node = n
                            /\ Leased(j) /\ ~leases[j].live
                            /\ InFlight(j)}

(* An agent with no operation polls; the claim authenticates it and        *)
(* markExpiredLeases selects the expired leases of its node.               *)
Poll(w, n) ==
  /\ Request(w, n, [Handler("expire", n, None, 0, None) EXCEPT !.work = Expired(n)])
  /\ UNCHANGED <<jobs, tenants, built>>

(* One round of markExpiredLeases: the job's UPDATE is guarded by the      *)
(* state, the tenant's UPDATE and the lease's DELETE are not.              *)
ExpireLease(w, j) ==
  LET t == TenantOf(j) IN
  /\ At(w, "expire")
  /\ j \in worker[w].work
  /\ worker' = [worker EXCEPT ![w].work = @ \ {j}]
  /\ jobs' = IF InFlight(j) THEN [jobs EXCEPT ![j].state = "failed"] ELSE jobs
  /\ tenants' = [tenants EXCEPT ![t] = WithOutcome(@, "failed")]
  /\ leases' = [leases EXCEPT ![j] = NoLease]
  /\ UNCHANGED <<nodes, tokens, agents, built, faults>>

Unleased(n) == {j \in Jobs : jobs[j].node = n /\ Claimable(j) /\ ~Leased(j)}

(* INSERT OR IGNORE of a lease on a claimable job.  The statement takes    *)
(* the oldest created_at, a time read by the creating request before its   *)
(* batch, so that it need not follow the order of the commits.             *)
TakeLease(w, j) ==
  /\ At(w, "expire")
  /\ worker[w].work = {}
  /\ j \in Unleased(worker[w].node)
  /\ Lease(w, j, "source")
  /\ UNCHANGED <<jobs, tenants, built>>

(* No claimable job: the response is { operation: null }. *)
TakeNothing(w) ==
  /\ At(w, "expire")
  /\ worker[w].work = {}
  /\ Unleased(worker[w].node) = {}
  /\ Deliver(w, IdleAgent)
  /\ Finish(w)
  /\ UNCHANGED <<tables, built, faults>>

(* The SELECT of the job after its lease was inserted. *)
ReadSource(w) ==
  LET s == jobs[worker[w].job].state IN
  /\ At(w, "source")
  /\ worker' = [worker EXCEPT ![w] =
                   [@ EXCEPT !.seen = s,
                      !.pc = IF CanTransition(s, "dispatched") THEN "dispatch" ELSE "withdraw"]]
  /\ UNCHANGED <<tables, agents, built, faults>>

(* The job cannot be dispatched any more: its lease is deleted, 409. *)
Withdraw(w) ==
  /\ At(w, "withdraw")
  /\ leases' = [leases EXCEPT ![worker[w].job] = NoLease]
  /\ Deliver(w, IdleAgent)
  /\ Finish(w)
  /\ UNCHANGED <<jobs, tenants, nodes, tokens, built, faults>>

Dispatched(row) == [state |-> "dispatched", node |-> row.node, attempt |-> row.attempt + 1]

(* Mutant of Exhausted: off by one. *)
Exhausted_OffByOne(row) == row.attempt > MaxAttempt

(* The CHECK on attempt refuses the increment. *)
Exhausted(row) == row.attempt >= MaxAttempt

(* The dispatch batch.  The UPDATE is guarded by the state read before, and*)
(* aborts the batch when the CHECK on attempt fails; the response goes out *)
(* whether or not the UPDATE found its row.                                *)
Dispatch(w) ==
  LET j == worker[w].job
      hit == jobs[j].state = worker[w].seen
  IN
  /\ At(w, "dispatch")
  /\ Finish(w)
  /\ IF hit /\ Exhausted(jobs[j])
     THEN /\ Deliver(w, IdleAgent)
          /\ UNCHANGED jobs
     ELSE /\ jobs' = IF hit THEN [jobs EXCEPT ![j] = Dispatched(@)] ELSE jobs
          /\ Deliver(w, Claimant(j, worker[w].token))
  /\ UNCHANGED <<tenants, leases, nodes, tokens, built, faults>>

-----------------------------------------------------------------------------
(* The node API: a report *)

(* The agent reports on its operation. *)
SendReport(w, n) == Report(w, n, "lease") /\ UNCHANGED <<jobs, tenants, built>>

(* reportOperationResult: the lease must exist with this token, unexpired. *)
CheckLease(w) ==
  LET l == leases[worker[w].job] IN
  /\ At(w, "lease")
  /\ IF l.token = worker[w].token /\ l.live
     THEN Goto(w, "state") /\ UNCHANGED agents
     ELSE Reject(w)
  /\ UNCHANGED <<tables, built, faults>>

(* The state of the job is read, and the transition checked against it. *)
CheckState(w) ==
  LET s == jobs[worker[w].job].state
      renewal == s = "running" /\ worker[w].want = "running"
  IN
  /\ At(w, "state")
  /\ IF renewal \/ CanTransition(s, worker[w].want)
     THEN /\ worker' = [worker EXCEPT ![w].pc = IF renewal THEN "renew" ELSE "commit"]
          /\ UNCHANGED agents
     ELSE Reject(w)
  /\ UNCHANGED <<tables, built, faults>>

(* The lease of a running job is extended; no row, no effect. *)
RenewLease(w) ==
  /\ At(w, "renew")
  /\ leases' = [leases EXCEPT ![worker[w].job] = Renewed(@)]
  /\ Accept(w)
  /\ UNCHANGED <<jobs, tenants, nodes, tokens, built, faults>>

(* Mutant of LeaseAfter: only success releases the lease. *)
LeaseAfter_KeptOnFailure(l, s) == IF s = "ready" THEN NoLease ELSE Renewed(l)

LeaseAfter(l, s) == IF s = "running" THEN Renewed(l) ELSE NoLease

(* The batch of a report: it writes what was decided from the earlier      *)
(* reads, on no condition at all.                                          *)
CommitReport(w) ==
  LET j == worker[w].job
      t == TenantOf(j)
      s == worker[w].want
  IN
  /\ At(w, "commit")
  /\ jobs' = [jobs EXCEPT ![j].state = s]
  /\ leases' = [leases EXCEPT ![j] = LeaseAfter(@, s)]
  /\ tenants' = IF s = "running" THEN tenants
                ELSE [tenants EXCEPT ![t] = WithOutcome(@, s)]
  /\ Accept(w)
  /\ UNCHANGED <<nodes, tokens, built, faults>>

-----------------------------------------------------------------------------
(* The agent's executor, and the environment *)

ExecutorReturns(n, r) ==
  /\ Return(n, r)
  /\ built' = IF r = "ready" THEN built \cup {agents[n].job} ELSE built
  /\ UNCHANGED <<jobs, tenants, faults>>

LeaseLapses(j) == Lapse(j) /\ UNCHANGED <<jobs, tenants, built>>

WorkerFails(w) == Abort(w) /\ UNCHANGED <<jobs, tenants, built>>

ReplyLost(n) == LoseReply(n) /\ UNCHANGED <<jobs, tenants, built>>

AgentRestarts(n) == Restart(n) /\ UNCHANGED <<jobs, tenants, built>>

RevokeNode(n) == Revoke(n) /\ UNCHANGED <<jobs, tenants, built>>

-----------------------------------------------------------------------------
AdminRequest ==
  \/ \E t \in Tenants, kind \in Kinds : CreateTenant(t, kind)
  \/ \E w \in Workers, j \in Jobs, n \in Nodes :
       CreateJobRead(w, j, n) \/ CreateTrialRead(w, j, n)
  \/ \E w \in Workers, j \in Jobs : RetryRead(w, j)
  \/ \E n \in Nodes : RevokeNode(n)

AdminCommit(w) == CreateJobCommit(w) \/ CreateTrialCommit(w) \/ RetryCommit(w)

ClaimStep(w) ==
  \/ \E j \in Jobs : ExpireLease(w, j) \/ TakeLease(w, j)
  \/ TakeNothing(w) \/ ReadSource(w) \/ Withdraw(w) \/ Dispatch(w)

ReportStep(w) == CheckLease(w) \/ CheckState(w) \/ RenewLease(w) \/ CommitReport(w)

WorkerStep(w) == AdminCommit(w) \/ ClaimStep(w) \/ ReportStep(w)

AgentRequest(n) == \E w \in Workers : Poll(w, n) \/ SendReport(w, n)

AgentFault(n) == ReplyLost(n) \/ AgentRestarts(n)

Next ==
  \/ AdminRequest
  \/ \E w \in Workers : WorkerStep(w) \/ WorkerFails(w)
  \/ \E n \in Nodes : AgentRequest(n) \/ AgentFault(n)
  \/ \E n \in Nodes, r \in Results : ExecutorReturns(n, r)
  \/ \E j \in Jobs : LeaseLapses(j)

Spec == Init /\ [][Next]_vars

(* Fairness.  The platform runs every invocation to its end unless it      *)
(* fails, and starts every request an agent makes (a slot of Workers is    *)
(* only a bound, hence SF); the agent's loop never stops polling or        *)
(* reporting; the executor is bounded by provisioner_timeout_seconds and   *)
(* its result stays there until the loop looks at it, which it does between*)
(* two requests (SF); time passes.  Nothing is assumed of the admin.       *)
Fairness ==
  /\ \A w \in Workers : WF_vars(WorkerStep(w))
  /\ \A n \in Nodes : SF_vars(AgentRequest(n))
  /\ \A n \in Nodes : SF_vars(\E r \in Results : ExecutorReturns(n, r))
  /\ \A j \in Jobs : WF_vars(LeaseLapses(j) /\ UNCHANGED faults)

FairSpec == Spec /\ Fairness

-----------------------------------------------------------------------------
(* Type invariant *)

AtNode == {"expire", "source", "withdraw", "dispatch", "lease", "state", "renew", "commit"}
AtJob  == {"create", "trial", "retry", "source", "withdraw", "dispatch",
           "lease", "state", "renew", "commit"}
PCs == {"idle"} \cup AtNode \cup AtJob

JobRow == [state : JobStates \cup {"absent"}, node : Nodes \cup {None},
           attempt : 0..MaxAttempt]
TenantRow == [status : {"absent", "pending", "provisioning", "ready", "failed"},
              kind : Kinds, node : Nodes \cup {None},
              trial : {"none", "provisioning", "active", "failed"}]
LeaseRow == [token : 0..MaxTokens, live : BOOLEAN]

(* The local variables a handler has assigned when it gets to a call. *)
Assigned(l) ==
  /\ l.pc \in AtNode => l.node \in Nodes
  /\ l.pc \in AtJob => l.job \in Jobs
  /\ l.pc \in {"create", "trial"} => l.want \in Nodes
  /\ l.pc \in {"lease", "state", "renew", "commit"} => l.want \in Results \cup {"running"}
Local == {l \in [pc : PCs, node : Nodes \cup {None}, job : Jobs \cup {None},
                 token : 0..MaxTokens, want : Nodes \cup Results \cup {"running", None},
                 seen : JobStates \cup {"absent"}, work : SUBSET Jobs] : Assigned(l)}
Agent == {a \in [phase : {"idle", "starting", "working"}, job : Jobs \cup {None},
                 token : 0..MaxTokens, result : Results \cup {None},
                 wait : Workers \cup {None}] : a.phase # "idle" => a.job \in Jobs}

TypeOK ==
  /\ jobs \in [Jobs -> JobRow]
  /\ tenants \in [Tenants -> TenantRow]
  /\ leases \in [Jobs -> LeaseRow]
  /\ nodes \in [Nodes -> {"active", "revoked"}]
  /\ tokens \in 0..MaxTokens
  /\ worker \in [Workers -> Local]
  /\ agents \in [Nodes -> Agent]
  /\ built \in SUBSET Jobs
  /\ faults \in 0..MaxFaults

-----------------------------------------------------------------------------
(* Safety, whatever the number of invocations in flight *)

Open(j) == jobs[j].state \in {"placed", "dispatched", "running", "retrying"}

(* A lease row exists only on an open job: whatever ends a job removes its *)
(* lease in the same batch, so that no agent can go on reporting, with a   *)
(* valid lease, on a job that is ready or failed.                          *)
LeaseOnOpenJob == \A j \in Jobs : Leased(j) => Open(j)

(* A job is ready, and a tenant is shown as ready, only when the executor  *)
(* of some agent has really returned "ready" for it: no stale report, late *)
(* expiry or concurrent retry ever invents a database.                     *)
ReadyMeansBuilt ==
  /\ \A j \in Jobs : jobs[j].state = "ready" => j \in built
  /\ \A t \in Tenants : tenants[t].status = "ready" => \E k \in Keys : <<t, k>> \in built

(* While the lease an agent was given still stands, the job it works on is *)
(* running, not failed or retried behind its back; so a result it reports  *)
(* in time is never refused.                                               *)
HolderOfLeaseRuns ==
  \A n \in Nodes :
    /\ agents[n].phase = "working"
    /\ leases[agents[n].job].token = agents[n].token
    => jobs[agents[n].job].state = "running"

LiveLeaseIsRow == \A j \in Jobs : leases[j].live => Leased(j)

JobsHaveTenants ==
  \A j \in Jobs : tenants[TenantOf(j)].status = "absent" => jobs[j].state = "absent"

ReportPCs == {"lease", "state", "renew", "commit"}
ClaimPCs == {"expire", "source", "withdraw", "dispatch"}

(* Strengthening of ReadyMeansBuilt: a result "ready", in an agent or in   *)
(* the handler of its report, is one the executor returned.                *)
BuiltInv ==
  /\ ReadyMeansBuilt
  /\ \A n \in Nodes : agents[n].result = "ready" => agents[n].job \in built
  /\ \A w \in Workers : worker[w].pc \in ReportPCs /\ worker[w].want = "ready"
                          => worker[w].job \in built

(* Safety of invocations that do not overlap *)

LegalStep(from, to) == IF from = "absent" THEN to = "placed" ELSE CanTransition(from, to)

(* A job in flight has a lease, without which neither the agent's report   *)
(* nor the expiry of the lease could ever move it on.                      *)
InFlightHasLease == \A j \in Jobs : InFlight(j) => Leased(j)

(* Strengthening of InFlightHasLease when no two invocations overlap: what *)
(* a handler has read still holds when it acts on it.                      *)
Serial == \A v, w \in Workers : v = w

Fresh(l) ==
  LET s == jobs[l.job].state IN
  /\ l.pc = "retry" => s = "failed"
  /\ l.pc = "expire" => \A j \in l.work : InFlight(j)
  /\ l.pc \in {"source", "dispatch"} => Claimable(l.job) /\ Leased(l.job)
  /\ l.pc = "dispatch" => l.seen = s
  /\ l.pc = "withdraw" => ~InFlight(l.job)
  /\ l.pc \in {"state", "renew", "commit"} => Leased(l.job)
  /\ l.pc = "renew" => s = "running"
  /\ l.pc = "commit" => CanTransition(s, l.want)

SerialInv ==
  /\ InFlightHasLease
  /\ JobsHaveTenants
  /\ \A w \in Workers : Fresh(worker[w])

(* Every change of a job's state is one that TRANSITIONS allows. *)
JobStepsLegal ==
  [][\A j \in Jobs :
       jobs'[j].state # jobs[j].state => LegalStep(jobs[j].state, jobs'[j].state)]_vars

(* The tenant tells what became of its jobs: it is provisioning while one  *)
(* is open, and ready or failed only when one is.                          *)
TenantFollowsJob ==
  \A t \in Tenants :
    LET Some(S) == \E k \in Keys : jobs[<<t, k>>].state \in S IN
    /\ tenants[t].status = "provisioning" =>
         Some({"placed", "dispatched", "running", "retrying"})
    /\ tenants[t].status = "ready" => Some({"ready"})
    /\ tenants[t].status = "failed" => Some({"failed"})

(* What a reader of the tables sees: the states and the statuses. *)
states   == [j \in Jobs |-> jobs[j].state]
statuses == [t \in Tenants |-> tenants[t].status]

Abstract == INSTANCE TenantProvisioning WITH state <- states, status <- statuses

(* Invocations that do not overlap implement the abstract specification.   *)
ImplementsTenantProvisioning == Abstract!Spec

(* A tenant never has two open jobs, which would build the one database    *)
(* its id and slug name twice.                                             *)
OneOpenJob ==
  \A i, j \in Jobs : Open(i) /\ Open(j) /\ TenantOf(i) = TenantOf(j) => i = j

-----------------------------------------------------------------------------
(* Liveness *)

(* As long as nothing goes wrong, a placed job is dispatched and ends ready*)
(* or failed, whoever else is waiting for the node.                        *)
PlacedResolves ==
  [](faults = 0) =>
    \A j \in Jobs : jobs[j].state = "placed" ~> jobs[j].state \in {"ready", "failed"}

Ended(j) == jobs[j].state \in {"ready", "failed"} \/ jobs[j].node \notin ActiveNodes

(* A job in flight ends on its own, unless its node is revoked: whatever   *)
(* becomes of the agent, the lease expires and the job is failed.          *)
InFlightResolves == \A j \in Jobs : InFlight(j) ~> Ended(j)

(* The same, on a node whose agent always becomes free to poll again.      *)
InFlightResolvesIfPolled ==
  (\A n \in Nodes : []<>(agents[n] = IdleAgent)) => InFlightResolves

(* A tenant does not stay "provisioning" for ever on an active node.       *)
ProvisioningResolves ==
  \A t \in Tenants :
    tenants[t].status = "provisioning" ~>
      tenants[t].status # "provisioning" \/ tenants[t].node \notin ActiveNodes
=============================================================================
