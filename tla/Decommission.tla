---------------------------- MODULE Decommission -----------------------------
(***************************************************************************)
(* The end of a tenant: the admin API that asks for the cleanup of a test  *)
(* tenant and retries a failed one (cleanup.ts, trialCleanupAdmin.ts), the *)
(* cron that suspends trials whose time is up and queues their cleanup     *)
(* (trialExpiration.ts), the node API that leases a cleanup to an agent    *)
(* (trialCleanupOperations.ts, then cleanupOperations.ts), and the engine  *)
(* that drops the database (node_agent/provisioner_service.py).            *)
(*                                                                         *)
(* A tenant has at most one cleanup job (UNIQUE), named by the tenant.     *)
(* Tenants begin here when they are first ready.  A failed one may be      *)
(* provisioned again; that job is three steps here and is the subject of   *)
(* Provisioning.  A database's marker names the provisioning job that      *)
(* built it: the tenant's first, second, ...                               *)
(***************************************************************************)
EXTENDS EdgeRuntime

CONSTANTS
  Tenants,
  BatchSize,    \* TRIAL_EXPIRATION_BATCH_SIZE
  MaxBuilds     \* bound: provisioning jobs of a tenant

ASSUME DecommissionAssumption ==
  /\ BatchSize \in Nat /\ MaxBuilds \in Nat \ {0}
  /\ None \notin Tenants
  /\ None \notin {"running", "cleaned", "failed", "trial", "test"}

Kinds == {"test", "trial"}
Results == {"cleaned", "failed"}
Homes == Tenants \X Nodes

VARIABLES
  jobs,       \* cleanup_jobs: state ("absent": no row), node, build (provisioning_job_id)
  tenants,    \* tenants: status, kind, trial state, node, build (the last ready job)
  ahead,      \* the trials that had expired, and waited for the cron, before each
  databases,  \* the marker of the tenant's database on each node (0: no database)
  dropped     \* history: tenants whose database a cleanup has dropped

vars == <<jobs, tenants, leases, nodes, tokens, worker, agents, ahead, databases,
          dropped, faults>>
tables == <<jobs, tenants, leases, nodes, tokens>>
disks == <<databases, dropped>>

State(t) == jobs[t].state
Trial(t) == tenants[t].kind = "trial"
InFlight(t) == State(t) \in {"dispatched", "running"}

NoJob == [state |-> "absent", node |-> None, build |-> 0]

(* A ready tenant.  A second provisioning job that finds the database of   *)
(* the first is ready without building, so that the marker may be older    *)
(* than the last ready job.                                                *)
ReadyTenant(kind, n, b) ==
  [status |-> "ready", kind |-> kind, node |-> n, build |-> b,
   trial |-> IF kind = "trial" THEN "active" ELSE "none"]
ReadyTenants == {ReadyTenant(kind, n, b) : kind \in Kinds, n \in Nodes, b \in 1..MaxBuilds}

Init ==
  /\ jobs = [t \in Tenants |-> NoJob]
  /\ tenants \in [Tenants -> ReadyTenants]
  /\ databases = [h \in Homes |-> IF tenants[h[1]].node = h[2] THEN 1 ELSE 0]
  /\ leases = [t \in Tenants |-> NoLease]
  /\ nodes = [n \in Nodes |-> "active"]
  /\ tokens = 0
  /\ worker = [w \in Workers |-> Idle]
  /\ agents = [n \in Nodes |-> IdleAgent]
  /\ ahead = [t \in Tenants |-> {}]
  /\ dropped = {}
  /\ faults = 0

-----------------------------------------------------------------------------
(* The cron, and the admin API *)

(* A request of one statement, or of one step here, needs a free slot. *)
SlotFree == \E w \in Workers : worker[w] = Idle

Awaiting(t) == tenants[t].status = "suspended" /\ tenants[t].trial = "expired"

(* markTrialExpired, of a trial whose three days have passed.  The trial   *)
(* is now the last of those that wait for their cleanup to be queued.      *)
TrialExpires(t) ==
  /\ SlotFree
  /\ Trial(t)
  /\ tenants[t].status = "ready"
  /\ tenants[t].trial = "active"
  /\ tenants' = [tenants EXCEPT ![t] = [@ EXCEPT !.status = "suspended", !.trial = "expired"]]
  /\ ahead' = [u \in Tenants |->
       IF u = t THEN {v \in Tenants : Awaiting(v)} ELSE ahead[u] \ {t}]
  /\ UNCHANGED <<jobs, leases, nodes, tokens, worker, agents, disks, faults>>

(* The SELECT of the trials that wait: the oldest BatchSize of them. *)
InBatch(t) ==
  /\ Awaiting(t)
  /\ Cardinality({u \in ahead[t] : Awaiting(u)}) < BatchSize

(* queueExpiredTrialCleanup up to its write: a trial that has a cleanup job*)
(* is only marked; one that has none gets it, if its node is active.       *)
QueueRead(w, t) ==
  /\ InBatch(t)
  /\ \/ State(t) # "absent" /\ Begin(w, Handler("pend", None, t, 0, None))
     \/ /\ State(t) = "absent"
        /\ tenants[t].node \in ActiveNodes
        /\ Begin(w, Handler("insert", None, t, 0, tenants[t].node))
  /\ UNCHANGED <<tables, agents, ahead, disks, faults>>

Pending(row) == IF row.trial = "expired" THEN [row EXCEPT !.trial = "cleanup_pending"] ELSE row

MarkPending(w) ==
  LET t == worker[w].job IN
  /\ At(w, "pend")
  /\ tenants' = [tenants EXCEPT ![t] = Pending(@)]
  /\ Finish(w)
  /\ UNCHANGED <<jobs, leases, nodes, tokens, agents, ahead, disks, faults>>

(* requestCleanup up to its batch: a ready test tenant on an active node,  *)
(* without a cleanup job.                                                  *)
RequestRead(w, t) ==
  /\ State(t) = "absent"
  /\ ~Trial(t)
  /\ tenants[t].status = "ready"
  /\ tenants[t].node \in ActiveNodes
  /\ Begin(w, Handler("insert", None, t, 0, tenants[t].node))
  /\ UNCHANGED <<tables, agents, ahead, disks, faults>>

(* Mutant of Suspended: a test tenant stays ready. *)
Suspended_Trial(row) == Pending(row)

(* The tenant's UPDATE in the batch that inserts the job. *)
Suspended(row) ==
  IF row.kind = "trial" THEN Pending(row)
  ELSE IF row.status = "ready" THEN [row EXCEPT !.status = "suspended"] ELSE row

(* That batch, of the cron and of the admin: the INSERT aborts it when     *)
(* there is a job meanwhile.  (While there is none, a tenant's last ready  *)
(* job is the one that was read.)                                          *)
InsertJob(w) ==
  LET t == worker[w].job IN
  /\ At(w, "insert")
  /\ Finish(w)
  /\ IF State(t) = "absent"
     THEN /\ jobs' = [jobs EXCEPT ![t] =
               [state |-> "queued", node |-> worker[w].want, build |-> tenants[t].build]]
          /\ tenants' = [tenants EXCEPT ![t] = Suspended(@)]
     ELSE UNCHANGED <<jobs, tenants>>
  /\ UNCHANGED <<leases, nodes, tokens, agents, ahead, disks, faults>>

(* Mutants of Retryable: the tenant is not looked at, or not its node. *)
Retryable_AnyTenant(t) == State(t) = "failed"
Retryable_AnyNode(t) ==
  State(t) = "failed" /\ tenants[t].status = "failed" /\ (Trial(t) => tenants[t].trial = "failed")

(* cleanupRetryEligibility and trialCleanupRetryEligibility. *)
Retryable(t) ==
  /\ State(t) = "failed"
  /\ tenants[t].status = "failed"
  /\ tenants[t].node = jobs[t].node
  /\ Trial(t) => tenants[t].trial = "failed"

(* Bound: a retry leaves tokens for the cleanups that are still unclaimed. *)
RetryBudget ==
  tokens + Cardinality({t \in Tenants : State(t) \in {"absent", "queued"} /\ ~Leased(t)}) < MaxTokens

RetryRead(w, t) ==
  /\ RetryBudget
  /\ Retryable(t)
  /\ jobs[t].node \in ActiveNodes
  /\ Begin(w, Handler("retry", None, t, 0, None))
  /\ UNCHANGED <<tables, agents, ahead, disks, faults>>

Requeued(row) == IF row.state = "failed" THEN [row EXCEPT !.state = "queued"] ELSE row

(* The tenant's UPDATE in the retry's batch. *)
Resuspended(row) ==
  IF row.status # "failed" THEN row
  ELSE IF row.kind = "test" THEN [row EXCEPT !.status = "suspended"]
  ELSE IF row.trial = "failed"
  THEN [row EXCEPT !.status = "suspended", !.trial = "cleanup_pending"] ELSE row

(* The retry's batch: the lease goes, whatever the job is by now. *)
RetryCommit(w) ==
  LET t == worker[w].job IN
  /\ At(w, "retry")
  /\ Finish(w)
  /\ leases' = [leases EXCEPT ![t] = NoLease]
  /\ jobs' = [jobs EXCEPT ![t] = Requeued(@)]
  /\ tenants' = [tenants EXCEPT ![t] = Resuspended(@)]
  /\ UNCHANGED <<nodes, tokens, agents, ahead, disks, faults>>

-----------------------------------------------------------------------------
(* A failed tenant provisioned again *)

(* createProvisioningJob takes any failed tenant, also one whose cleanup   *)
(* has failed, to any active node.                                         *)
Reprovision(t, n) ==
  /\ SlotFree
  /\ tenants[t].status = "failed"
  /\ tenants[t].build < MaxBuilds
  /\ Active(n)
  /\ tenants' = [tenants EXCEPT ![t] = [@ EXCEPT !.status = "provisioning", !.node = n]]
  /\ UNCHANGED <<jobs, leases, nodes, tokens, worker, agents, ahead, disks, faults>>

(* The marker after ProvisioningEngine.provision: a database that is there *)
(* keeps its own.                                                          *)
Marked(t, n) == IF databases[<<t, n>>] = 0 THEN tenants[t].build + 1 ELSE databases[<<t, n>>]

(* The job ends: the node's agent, busy with nothing else, has built the   *)
(* database or found it there ...                                          *)
Reprovisioned(t) ==
  LET n == tenants[t].node IN
  /\ SlotFree
  /\ tenants[t].status = "provisioning"
  /\ n \in ActiveNodes
  /\ agents[n] = IdleAgent
  /\ tenants' = [tenants EXCEPT ![t] = ReadyTenant(@.kind, n, @.build + 1)]
  /\ databases' = [databases EXCEPT ![<<t, n>>] = Marked(t, n)]
  /\ UNCHANGED <<jobs, leases, nodes, tokens, worker, agents, ahead, dropped, faults>>

Failing(row) ==
  [row EXCEPT !.status = "failed", !.trial = IF row.kind = "trial" THEN "failed" ELSE @]

(* ... or it fails, and leaves a database when only its report was lost.   *)
ReprovisionFails(t) ==
  LET n == tenants[t].node IN
  /\ SlotFree
  /\ tenants[t].status = "provisioning"
  /\ tenants' = [tenants EXCEPT ![t] = Failing(@)]
  /\ \/ UNCHANGED databases
     \/ /\ agents[n] = IdleAgent
        /\ databases' = [databases EXCEPT ![<<t, n>>] = Marked(t, n)]
  /\ UNCHANGED <<jobs, leases, nodes, tokens, worker, agents, ahead, dropped, faults>>

-----------------------------------------------------------------------------
(* The claim: the handler of trials, then the one of test tenants.  A      *)
(* worker's `want' is the handler whose turn it is.                        *)

(* Mutant of Expired: a cleanup that was only dispatched never expires. *)
Expired_RunningOnly(handler, n) ==
  {t \in Tenants : /\ jobs[t].node = n
                   /\ Leased(t) /\ ~leases[t].live
                   /\ State(t) = "running"
                   /\ handler = "trial" => Trial(t)}

(* The expired leases that a handler selects: the second takes any kind. *)
Expired(handler, n) ==
  {t \in Tenants : /\ jobs[t].node = n
                   /\ Leased(t) /\ ~leases[t].live
                   /\ InFlight(t)
                   /\ handler = "trial" => Trial(t)}

Poll(w, n) ==
  /\ Request(w, n, [Handler("expire", n, None, 0, "trial") EXCEPT !.work = Expired("trial", n)])
  /\ UNCHANGED <<jobs, tenants, ahead, disks>>

NextHandler(w) ==
  /\ At(w, "next")
  /\ worker' = [worker EXCEPT ![w] =
       [@ EXCEPT !.pc = "expire", !.want = "test", !.work = Expired("test", worker[w].node)]]
  /\ UNCHANGED <<tables, agents, ahead, disks, faults>>

(* Mutant of FailedIfInFlight: an expired cleanup goes back to the queue. *)
FailedIfInFlight_Queued(row) ==
  IF row.state \in {"dispatched", "running"} THEN [row EXCEPT !.state = "queued"] ELSE row

FailedIfInFlight(row) ==
  IF row.state \in {"dispatched", "running"} THEN [row EXCEPT !.state = "failed"] ELSE row

(* The batch for one expired lease: only the job's UPDATE looks at the     *)
(* state, and only the handler of trials writes the trial state.           *)
ExpireLease(w, t) ==
  /\ At(w, "expire")
  /\ t \in worker[w].work
  /\ worker' = [worker EXCEPT ![w].work = @ \ {t}]
  /\ leases' = [leases EXCEPT ![t] = NoLease]
  /\ jobs' = [jobs EXCEPT ![t] = FailedIfInFlight(@)]
  /\ tenants' = IF worker[w].want = "trial" THEN [tenants EXCEPT ![t] = Failing(@)]
                ELSE [tenants EXCEPT ![t].status = "failed"]
  /\ UNCHANGED <<nodes, tokens, agents, ahead, disks, faults>>

(* The jobs a handler inserts a lease for: the second takes any kind. *)
Unleased(handler, n) ==
  {t \in Tenants : /\ jobs[t].node = n /\ State(t) = "queued" /\ ~Leased(t)
                   /\ handler = "trial" => Trial(t) /\ tenants[t].trial = "cleanup_pending"}

TakeLease(w, t) ==
  /\ At(w, "expire")
  /\ worker[w].work = {}
  /\ t \in Unleased(worker[w].want, worker[w].node)
  /\ Lease(w, t, "source")
  /\ UNCHANGED <<jobs, tenants, ahead, disks>>

(* No cleanup: the second handler leaves the request to the handler of     *)
(* provisioning jobs, which has none here.                                 *)
TakeNothing(w) ==
  /\ At(w, "expire")
  /\ worker[w].work = {}
  /\ Unleased(worker[w].want, worker[w].node) = {}
  /\ IF worker[w].want = "trial"
     THEN Goto(w, "next") /\ UNCHANGED agents
     ELSE Deliver(w, IdleAgent) /\ Finish(w)
  /\ UNCHANGED <<tables, ahead, disks, faults>>

(* The SELECT after the lease was inserted; the second handler serves test *)
(* tenants only.                                                           *)
Served(handler, t) ==
  /\ State(t) = "queued"
  /\ tenants[t].kind = handler
  /\ handler = "trial" => tenants[t].trial = "cleanup_pending"

ReadSource(w) ==
  /\ At(w, "source")
  /\ Goto(w, IF Served(worker[w].want, worker[w].job) THEN "dispatch" ELSE "withdraw")
  /\ UNCHANGED <<tables, agents, ahead, disks, faults>>

(* Not served: the lease is deleted, 409. *)
Withdraw(w) ==
  /\ At(w, "withdraw")
  /\ leases' = [leases EXCEPT ![worker[w].job] = NoLease]
  /\ Deliver(w, IdleAgent)
  /\ Finish(w)
  /\ UNCHANGED <<jobs, tenants, nodes, tokens, ahead, disks, faults>>

Dispatched(row) == IF row.state = "queued" THEN [row EXCEPT !.state = "dispatched"] ELSE row

Dispatch(w) ==
  LET t == worker[w].job IN
  /\ At(w, "dispatch")
  /\ jobs' = [jobs EXCEPT ![t] = Dispatched(@)]
  /\ Deliver(w, Claimant(t, worker[w].token))
  /\ Finish(w)
  /\ UNCHANGED <<tenants, leases, nodes, tokens, ahead, disks, faults>>

-----------------------------------------------------------------------------
(* The report.  The two handlers differ in what they write to the tenant.  *)

SendReport(w, n) == Report(w, n, "lease") /\ UNCHANGED <<jobs, tenants, ahead, disks>>

CheckLease(w) ==
  LET l == leases[worker[w].job] IN
  /\ At(w, "lease")
  /\ IF l.token = worker[w].token /\ l.live
     THEN Goto(w, "state") /\ UNCHANGED agents
     ELSE Reject(w)
  /\ UNCHANGED <<tables, ahead, disks, faults>>

Precursors == [running |-> {"dispatched"}, cleaned |-> {"running"}, failed |-> {"running"}]

CheckState(w) ==
  LET s == State(worker[w].job)
      want == worker[w].want
      renewal == s = "running" /\ want = "running"
  IN
  /\ At(w, "state")
  /\ IF renewal \/ s \in Precursors[want]
     THEN Goto(w, IF renewal THEN "renew" ELSE "commit") /\ UNCHANGED agents
     ELSE Reject(w)
  /\ UNCHANGED <<tables, ahead, disks, faults>>

RenewLease(w) ==
  /\ At(w, "renew")
  /\ leases' = [leases EXCEPT ![worker[w].job] = Renewed(@)]
  /\ Accept(w)
  /\ UNCHANGED <<jobs, tenants, nodes, tokens, ahead, disks, faults>>

(* Mutant of LeaseAfter: a failed cleanup keeps its lease. *)
LeaseAfter_KeptOnFailure(l, want) == IF want = "cleaned" THEN NoLease ELSE Renewed(l)

LeaseAfter(l, want) == IF want = "running" THEN Renewed(l) ELSE NoLease

(* Mutant of Outcome: the tenant is decommissioned whatever the result. *)
Outcome_Decommissioned(row, want) ==
  [row EXCEPT !.status = "decommissioned", !.node = None,
              !.trial = IF row.kind = "trial" THEN "cleaned" ELSE @]

Outcome(row, want) ==
  IF want = "running" THEN row
  ELSE IF want = "failed" THEN Failing(row)
  ELSE [row EXCEPT !.status = "decommissioned", !.node = None,
                   !.trial = IF row.kind = "trial" THEN "cleaned" ELSE @]

(* The batch of a report: it writes what was decided from the earlier      *)
(* reads, on no condition at all.                                          *)
CommitReport(w) ==
  LET t == worker[w].job
      want == worker[w].want
  IN
  /\ At(w, "commit")
  /\ jobs' = [jobs EXCEPT ![t].state = want]
  /\ leases' = [leases EXCEPT ![t] = LeaseAfter(@, want)]
  /\ tenants' = [tenants EXCEPT ![t] = Outcome(@, want)]
  /\ Accept(w)
  /\ UNCHANGED <<nodes, tokens, ahead, disks, faults>>

-----------------------------------------------------------------------------
(* The node *)

(* CleanupEngine.cleanup: only the database whose marker is the job's      *)
(* provisioning job is dropped.  It fails without doing anything, or after *)
(* the drop when the files cannot be removed.                              *)
ExecutorReturns(n, r) ==
  LET t == agents[n].job
      own == databases[<<t, n>>] = jobs[t].build
  IN
  /\ agents[n].phase = "working"
  /\ Return(n, r)
  /\ \E drop \in BOOLEAN :
       /\ r = "cleaned" => drop
       /\ drop => own
       /\ databases' = IF drop THEN [databases EXCEPT ![<<t, n>>] = 0] ELSE databases
       /\ dropped' = IF drop THEN dropped \cup {t} ELSE dropped
  /\ UNCHANGED <<jobs, tenants, ahead, faults>>

LeaseLapses(t) == Lapse(t) /\ UNCHANGED <<jobs, tenants, ahead, disks>>

WorkerFails(w) == Abort(w) /\ UNCHANGED <<jobs, tenants, ahead, disks>>

ReplyLost(n) == LoseReply(n) /\ UNCHANGED <<jobs, tenants, ahead, disks>>

AgentRestarts(n) == Restart(n) /\ UNCHANGED <<jobs, tenants, ahead, disks>>

RevokeNode(n) == Revoke(n) /\ UNCHANGED <<jobs, tenants, ahead, disks>>

-----------------------------------------------------------------------------
Cron ==
  \/ \E t \in Tenants : TrialExpires(t)
  \/ \E w \in Workers, t \in Tenants : QueueRead(w, t)

AdminRequest ==
  \/ \E w \in Workers, t \in Tenants : RequestRead(w, t) \/ RetryRead(w, t)
  \/ \E t \in Tenants, n \in Nodes : Reprovision(t, n)
  \/ \E n \in Nodes : RevokeNode(n)

WriteStep(w) == InsertJob(w) \/ MarkPending(w) \/ RetryCommit(w)

ClaimStep(w) ==
  \/ \E t \in Tenants : ExpireLease(w, t) \/ TakeLease(w, t)
  \/ NextHandler(w) \/ TakeNothing(w) \/ ReadSource(w) \/ Withdraw(w) \/ Dispatch(w)

ReportStep(w) == CheckLease(w) \/ CheckState(w) \/ RenewLease(w) \/ CommitReport(w)

WorkerStep(w) == WriteStep(w) \/ ClaimStep(w) \/ ReportStep(w)

AgentRequest(n) == \E w \in Workers : Poll(w, n) \/ SendReport(w, n)

AgentFault(n) == ReplyLost(n) \/ AgentRestarts(n)

Next ==
  \/ Cron \/ AdminRequest
  \/ \E t \in Tenants : Reprovisioned(t) \/ ReprovisionFails(t)
  \/ \E w \in Workers : WorkerStep(w) \/ WorkerFails(w)
  \/ \E n \in Nodes : AgentRequest(n) \/ AgentFault(n)
  \/ \E n \in Nodes, r \in Results : ExecutorReturns(n, r)
  \/ \E t \in Tenants : LeaseLapses(t)

Spec == Init /\ [][Next]_vars

(* Fairness, as in Provisioning; and the cron runs again and again, each   *)
(* time over its whole batch.  When a trial expires is left open.          *)
Fairness ==
  /\ \A w \in Workers : WF_vars(WorkerStep(w))
  /\ \A n \in Nodes : SF_vars(AgentRequest(n))
  /\ \A n \in Nodes : SF_vars(\E r \in Results : ExecutorReturns(n, r))
  /\ \A t \in Tenants : WF_vars(LeaseLapses(t) /\ UNCHANGED faults)
  /\ \A t \in Tenants : SF_vars(\E w \in Workers : QueueRead(w, t))

FairSpec == Spec /\ Fairness

-----------------------------------------------------------------------------
(* Type invariant *)

CleanupStates == {"absent", "queued", "dispatched", "running", "cleaned", "failed"}
JobRow == [state : CleanupStates, node : Nodes \cup {None}, build : 0..MaxBuilds]
TenantRow ==
  {r \in [status : {"ready", "suspended", "failed", "provisioning", "decommissioned"},
          kind : Kinds, node : Nodes \cup {None}, build : 1..MaxBuilds,
          trial : {"none", "active", "expired", "cleanup_pending", "failed", "cleaned"}] :
     r.status = "provisioning" => r.build < MaxBuilds}
LeaseRow == [token : 0..MaxTokens, live : BOOLEAN]

WritePCs == {"insert", "pend", "retry"}
ClaimPCs == {"expire", "next", "source", "withdraw", "dispatch"}
ReportPCs == {"lease", "state", "renew", "commit"}
PCs == {"idle"} \cup WritePCs \cup ClaimPCs \cup ReportPCs

Assigned(l) ==
  /\ l.pc \in ClaimPCs \cup ReportPCs => l.node \in Nodes
  /\ l.pc \in WritePCs \cup ReportPCs \cup {"source", "withdraw", "dispatch"} => l.job \in Tenants
  /\ l.pc = "insert" => l.want \in Nodes
  /\ l.pc \in {"expire", "next", "source"} => l.want \in Kinds
  /\ l.pc \in ReportPCs => l.want \in Results \cup {"running"}
Local == {l \in [pc : PCs, node : Nodes \cup {None}, job : Tenants \cup {None},
                 token : 0..MaxTokens, want : Nodes \cup Results \cup Kinds \cup {"running", None},
                 seen : {"absent"}, work : SUBSET Tenants] : Assigned(l)}
Agent == {a \in [phase : {"idle", "starting", "working"}, job : Tenants \cup {None},
                 token : 0..MaxTokens, result : Results \cup {None},
                 wait : Workers \cup {None}] : a.phase # "idle" => a.job \in Tenants}

TypeOK ==
  /\ jobs \in [Tenants -> JobRow]
  /\ tenants \in [Tenants -> TenantRow]
  /\ leases \in [Tenants -> LeaseRow]
  /\ nodes \in [Nodes -> {"active", "revoked"}]
  /\ tokens \in 0..MaxTokens
  /\ worker \in [Workers -> Local]
  /\ agents \in [Nodes -> Agent]
  /\ ahead \in [Tenants -> SUBSET Tenants]
  /\ databases \in [Homes -> 0..MaxBuilds]
  /\ dropped \in SUBSET Tenants
  /\ faults \in 0..MaxFaults

-----------------------------------------------------------------------------
(* Safety, whatever the number of invocations in flight *)

(* A lease row exists only on an open cleanup: no agent goes on reporting, *)
(* with a valid lease, on a cleanup that is over.                          *)
LeaseOnOpenJob ==
  \A t \in Tenants : Leased(t) => State(t) \in {"queued", "dispatched", "running"}

(* A tenant is shown as decommissioned, and its cleanup as cleaned, only   *)
(* when an agent has really dropped the database that the job names: no    *)
(* stale report, late expiry or retry ever invents a drop.                 *)
CleanedMeansDropped ==
  \A t \in Tenants :
    State(t) = "cleaned" \/ tenants[t].status = "decommissioned" => t \in dropped

(* Strengthening of CleanedMeansDropped: a result "cleaned", in an agent   *)
(* or in the handler of its report, is one the engine returned.            *)
CleanedInv ==
  /\ CleanedMeansDropped
  /\ \A n \in Nodes : agents[n].result = "cleaned" => agents[n].job \in dropped
  /\ \A w \in Workers : worker[w].pc \in ReportPCs /\ worker[w].want = "cleaned"
                          => worker[w].job \in dropped

(* Safety of invocations that do not overlap *)

(* The tenant tells what becomes of its cleanup: suspended (a trial with   *)
(* its cleanup pending) while it is open, decommissioned when it is        *)
(* cleaned, and failed only after it has failed.                           *)
TenantFollowsCleanup ==
  \A t \in Tenants :
    /\ State(t) \in {"queued", "dispatched", "running"} =>
         /\ tenants[t].status = "suspended"
         /\ Trial(t) => tenants[t].trial = "cleanup_pending"
    /\ State(t) = "cleaned" <=> tenants[t].status = "decommissioned"
    /\ tenants[t].status = "failed" => State(t) = "failed"

(* The database of a ready tenant is on the tenant's node: no cleanup, late*)
(* or retried, drops the database of a tenant that was provisioned again.  *)
ReadyHasDatabase ==
  \A t \in Tenants :
    tenants[t].status = "ready" => databases[<<t, tenants[t].node>>] # 0

(* Nothing is left of a decommissioned tenant on the node of its cleanup.  *)
DecommissionedIsGone ==
  \A t \in Tenants :
    tenants[t].status = "decommissioned" => databases[<<t, jobs[t].node>>] = 0

(* Strengthening of these three when no two invocations overlap.  Who has  *)
(* a cleanup in hand, a handler or an agent, works where the cleanup is,   *)
(* and who calls it cleaned finds no database there; nobody has a ready    *)
(* tenant's in hand; what a handler has read still holds when it writes.   *)
Serial == \A v, w \in Workers : v = w

OnNode(t, n) == State(t) # "absent" /\ jobs[t].node = n
Gone(t, n) == databases[<<t, n>>] = 0

Fresh(l) ==
  LET t == l.job IN
  /\ l.pc = "insert" =>
       /\ State(t) = "absent"
       /\ Awaiting(t) \/ (tenants[t].status = "ready" /\ ~Trial(t))
       /\ tenants[t].node = l.want
  /\ l.pc = "pend" => State(t) # "absent" /\ Awaiting(t)
  /\ l.pc = "retry" => Retryable(t)
  /\ l.pc = "expire" => \A u \in l.work : InFlight(u)
  /\ l.pc = "dispatch" => State(t) = "queued"
  /\ l.pc = "commit" => State(t) \in Precursors[l.want]
  /\ l.pc \in {"source", "withdraw", "dispatch"} \cup ReportPCs => OnNode(t, l.node)
  /\ l.pc \in ReportPCs /\ l.want = "cleaned" => Gone(t, l.node)

InHand(a, n) ==
  a.job \in Tenants => OnNode(a.job, n) /\ (a.result = "cleaned" => Gone(a.job, n))

TenantInv(t) ==
  /\ State(t) # "absent" => jobs[t].node \in Nodes
  /\ tenants[t].status = "provisioning" => State(t) = "failed"
  /\ tenants[t].status = "ready" =>
       tenants[t].node \in Nodes /\ agents[tenants[t].node].job # t

CleanupInv ==
  /\ TenantFollowsCleanup /\ ReadyHasDatabase /\ DecommissionedIsGone
  /\ \A t \in Tenants : TenantInv(t)
  /\ \A n \in Nodes : InHand(agents[n], n)
  /\ \A w \in Workers : Fresh(worker[w])

(* What an operator sees of all this. *)
statuses == [t \in Tenants |-> tenants[t].status]
hosts == [t \in Tenants |-> tenants[t].node]
cleanups == [t \in Tenants |-> State(t)]
sites == [t \in Tenants |-> jobs[t].node]
places == {h \in Homes : databases[h] # 0}

Promise == INSTANCE TenantCleanup WITH Nothing <- None, status <- statuses, host <- hosts,
             cleanup <- cleanups, site <- sites, data <- places

(* Without overlap all of this implements TenantCleanup: nothing is called *)
(* cleaned that is still there, nothing ready is dropped, and a cleanup is *)
(* asked for, and asked for again, only where the tenant is.               *)
ImplementsTenantCleanup == Promise!Spec

(* A cleanup moves along queued, dispatched, running, cleaned, or fails in *)
(* flight and is queued again; and a decommissioned tenant stays so.       *)
Successors == [absent     |-> {"queued"},
               queued     |-> {"dispatched"},
               dispatched |-> {"running", "failed"},
               running    |-> {"cleaned", "failed"},
               cleaned    |-> {},
               failed     |-> {"queued"}]

CleanupStepsLegal ==
  [][\A t \in Tenants :
       /\ jobs'[t].state # State(t) => jobs'[t].state \in Successors[State(t)]
       /\ tenants[t].status = "decommissioned" => tenants'[t].status = "decommissioned"]_vars

(* A cleanup that has failed can still succeed when it is retried: there   *)
(* is a database to drop.                                                  *)
RetryCanSucceed ==
  \A t \in Tenants : Retryable(t) => databases[<<t, jobs[t].node>>] # 0

-----------------------------------------------------------------------------
(* Liveness *)

OnActive(t) == tenants[t].node \in ActiveNodes

(* The claim's handler stopped between its INSERT of the lease and the     *)
(* dispatch: no later poll claims this cleanup or finds its lease expired. *)
Orphaned(t) == State(t) = "queued" /\ Leased(t) /\ \A w \in Workers : worker[w].job # t

(* A trial that expires for the first time has its cleanup asked for and   *)
(* carried to an end, unless its node is revoked or a claim is cut off, on *)
(* nodes whose agents always become free to poll again.  (Of a trial that  *)
(* was provisioned again after a cleanup that failed nothing of the kind   *)
(* holds: it is marked by MarkPending, its old cleanup stays failed, and   *)
(* no other is ever queued.)                                               *)
ExpiredIsCleaned ==
  (\A n \in Nodes : []<>(agents[n] = IdleAgent)) =>
    \A t \in Tenants :
      Awaiting(t) /\ State(t) = "absent" ~>
        State(t) \in {"cleaned", "failed"} \/ ~OnActive(t) \/ Orphaned(t)
=============================================================================
