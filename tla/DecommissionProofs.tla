-------------------------- MODULE DecommissionProofs --------------------------
(* Proofs about Decommission, for all values of its constants. *)
EXTENDS Decommission, TLAPS

(* What the agent does with an answer leaves it a well-formed agent. *)
LEMMA AgentTypes ==
  /\ IdleAgent \in Agent
  /\ \A a \in Agent : AfterAccept(a) \in Agent /\ AfterReject(a) \in Agent
<1>. USE DecommissionAssumption, RuntimeAssumption
<1>1. IdleAgent \in Agent
  BY DEF IdleAgent, Agent
<1>2. ASSUME NEW a \in Agent PROVE AfterAccept(a) \in Agent
  BY <1>1 DEF AfterAccept, Agent
<1>3. ASSUME NEW a \in Agent PROVE AfterReject(a) \in Agent
  BY <1>1 DEF AfterReject, Agent
<1>. QED  BY <1>1, <1>2, <1>3

(* The local variables that a request begins with, and those of no request.*)
LEMMA LocalTypes ==
  /\ Idle \in Local
  /\ \A t \in Tenants :
       /\ Handler("pend", None, t, 0, None) \in Local
       /\ Handler("retry", None, t, 0, None) \in Local
       /\ \A n \in Nodes : Handler("insert", None, t, 0, n) \in Local
  /\ \A n \in Nodes, S \in SUBSET Tenants :
       [Handler("expire", n, None, 0, "trial") EXCEPT !.work = S] \in Local
  /\ \A t \in Tenants, n \in Nodes, k \in 0..MaxTokens, r \in Results \cup {"running"} :
       Handler("lease", n, t, k, r) \in Local
BY DecommissionAssumption, RuntimeAssumption
   DEF Idle, Handler, Local, Assigned, PCs, WritePCs, ClaimPCs, ReportPCs, Kinds

(* What the handlers write to a tenant keeps it a well-formed tenant. *)
LEMMA TenantTypes ==
  ASSUME NEW row \in TenantRow
  PROVE  /\ Pending(row) \in TenantRow
         /\ Suspended(row) \in TenantRow
         /\ Resuspended(row) \in TenantRow
         /\ Failing(row) \in TenantRow
         /\ \A r \in Results \cup {"running"} : Outcome(row, r) \in TenantRow
         /\ [row EXCEPT !.status = "suspended", !.trial = "expired"] \in TenantRow
         /\ \A n \in Nodes : row.build < MaxBuilds =>
           [row EXCEPT !.status = "provisioning", !.node = n] \in TenantRow
         /\ [row EXCEPT !.status = "failed"] \in TenantRow
<1>1. Pending(row) \in TenantRow
  BY DEF Pending, TenantRow
<1>2. Suspended(row) \in TenantRow
  BY <1>1 DEF Suspended, TenantRow
<1>3. Resuspended(row) \in TenantRow
  BY DEF Resuspended, TenantRow
<1>4. Failing(row) \in TenantRow
  BY DEF Failing, TenantRow
<1>5. \A r \in Results \cup {"running"} : Outcome(row, r) \in TenantRow
  <2>1. [row EXCEPT !.status = "decommissioned", !.node = None, !.trial = "cleaned"] \in TenantRow
    BY DEF TenantRow
  <2>2. [row EXCEPT !.status = "decommissioned", !.node = None, !.trial = row.trial] \in TenantRow
    BY DEF TenantRow
  <2>. QED  BY <1>4, <2>1, <2>2 DEF Outcome
<1>6. /\ [row EXCEPT !.status = "suspended", !.trial = "expired"] \in TenantRow
      /\ \A n \in Nodes : row.build < MaxBuilds =>
           [row EXCEPT !.status = "provisioning", !.node = n] \in TenantRow
      /\ [row EXCEPT !.status = "failed"] \in TenantRow
  BY DEF TenantRow
<1>. QED  BY <1>1, <1>2, <1>3, <1>4, <1>5, <1>6

LEMMA ReadyTypes ==
  ASSUME NEW kind \in Kinds, NEW n \in Nodes, NEW b \in 1..MaxBuilds
  PROVE  ReadyTenant(kind, n, b) \in TenantRow
BY DEF ReadyTenant, TenantRow

(* What the handlers write to a cleanup, and to its lease. *)
LEMMA JobTypes ==
  ASSUME NEW row \in JobRow
  PROVE  /\ Requeued(row) \in JobRow
         /\ FailedIfInFlight(row) \in JobRow
         /\ Dispatched(row) \in JobRow
         /\ \A r \in Results \cup {"running"} : [row EXCEPT !.state = r] \in JobRow
BY DEF Requeued, FailedIfInFlight, Dispatched, JobRow, CleanupStates, Results

LEMMA LeaseTypes ==
  /\ NoLease \in LeaseRow
  /\ \A l \in LeaseRow : Renewed(l) \in LeaseRow
<1>1. NoLease \in LeaseRow
  BY RuntimeAssumption DEF NoLease, LeaseRow
<1>2. \A l \in LeaseRow : Renewed(l) \in LeaseRow
  BY DEF Renewed, LeaseRow
<1>. QED  BY <1>1, <1>2

LEMMA InitType == Init => TypeOK
<1>. SUFFICES ASSUME Init PROVE TypeOK
  OBVIOUS
<1>. USE DecommissionAssumption, RuntimeAssumption
<1>1. jobs \in [Tenants -> JobRow]
  BY DEF Init, NoJob, JobRow, CleanupStates
<1>2. tenants \in [Tenants -> TenantRow]
  BY ReadyTypes DEF Init, ReadyTenants
<1>3. leases \in [Tenants -> LeaseRow]
  BY LeaseTypes DEF Init
<1>4. databases \in [Homes -> 0..MaxBuilds]
  BY DEF Init
<1>5. worker \in [Workers -> Local] /\ agents \in [Nodes -> Agent]
  BY LocalTypes, AgentTypes DEF Init
<1>. QED  BY <1>1, <1>2, <1>3, <1>4, <1>5 DEF Init, TypeOK

(* Handing a well-formed record to the waiting agent, ending a handler and *)
(* moving it on keep all well formed.                                      *)
LEMMA DeliverTypes ==
  ASSUME TypeOK, NEW w \in Workers
  PROVE  /\ \A a \in Agent : Deliver(w, a) => agents' \in [Nodes -> Agent]
         /\ DeliverEach(w, AfterReject) => agents' \in [Nodes -> Agent]
         /\ DeliverEach(w, AfterAccept) => agents' \in [Nodes -> Agent]
         /\ Finish(w) => worker' \in [Workers -> Local]
         /\ \A l \in Local : worker' = [worker EXCEPT ![w] = l] => worker' \in [Workers -> Local]
BY AgentTypes, LocalTypes DEF TypeOK, Deliver, DeliverEach, Finish

(* The cron's requests, the admin's and their writes. *)
LEMMA RequestType ==
  ASSUME TypeOK, Cron \/ AdminRequest
  PROVE  TypeOK'
<1>. USE DecommissionAssumption, RuntimeAssumption
<1>1. ASSUME NEW t \in Tenants, TrialExpires(t)
      PROVE  TypeOK'
  <2>1. tenants[t] \in TenantRow
    BY DEF TypeOK
  <2>2. tenants' \in [Tenants -> TenantRow]
    BY <1>1, <2>1, TenantTypes DEF TrialExpires, TypeOK
  <2>3. ahead' \in [Tenants -> SUBSET Tenants]
    BY <1>1 DEF TrialExpires, TypeOK
  <2>. QED  BY <1>1, <2>2, <2>3 DEF TrialExpires, disks, TypeOK
<1>2. ASSUME NEW w \in Workers, NEW t \in Tenants,
             QueueRead(w, t) \/ RequestRead(w, t) \/ RetryRead(w, t)
      PROVE  TypeOK'
  BY <1>2, LocalTypes DEF ActiveNodes, QueueRead, RequestRead, RetryRead, Begin, tables, disks, TypeOK
<1>3. ASSUME NEW t \in Tenants, NEW n \in Nodes, Reprovision(t, n)
      PROVE  TypeOK'
  <2>1. tenants[t] \in TenantRow
    BY DEF TypeOK
  <2>2. tenants' \in [Tenants -> TenantRow]
    BY <1>3, <2>1, TenantTypes DEF Reprovision, TypeOK
  <2>. QED  BY <1>3, <2>2 DEF Reprovision, disks, TypeOK
<1>4. ASSUME NEW n \in Nodes, RevokeNode(n)
      PROVE  TypeOK'
  BY <1>4 DEF RevokeNode, Revoke, Fault, disks, TypeOK
<1>. QED  BY <1>1, <1>2, <1>3, <1>4 DEF Cron, AdminRequest

(* A failed tenant's next provisioning job ends. *)
LEMMA ReprovisionType ==
  ASSUME TypeOK, NEW t \in Tenants, Reprovisioned(t) \/ ReprovisionFails(t)
  PROVE  TypeOK'
<1>. USE DecommissionAssumption, RuntimeAssumption
<1>. DEFINE n == tenants[t].node
<1>0. tenants[t] \in TenantRow
  BY DEF TypeOK
<1>1. CASE Reprovisioned(t)
  <2>1. n \in Nodes /\ tenants[t].kind \in Kinds
    BY <1>0, <1>1 DEF Reprovisioned, ActiveNodes, TenantRow
  <2>2. /\ tenants[t].build + 1 \in 1..MaxBuilds
        /\ ReadyTenant(tenants[t].kind, n, tenants[t].build + 1) \in TenantRow
    <3>1. tenants[t].build + 1 \in 1..MaxBuilds
      BY <1>0, <1>1 DEF Reprovisioned, TenantRow
    <3>. QED  BY <2>1, <3>1, ReadyTypes
  <2>3. <<t, n>> \in Homes /\ Marked(t, n) \in 0..MaxBuilds
    BY <2>1, <2>2 DEF Homes, Marked, TypeOK
  <2>4. tenants' \in [Tenants -> TenantRow] /\ databases' \in [Homes -> 0..MaxBuilds]
    BY <1>1, <2>2, <2>3 DEF Reprovisioned, TypeOK
  <2>. QED  BY <1>1, <2>4 DEF Reprovisioned, TypeOK
<1>2. CASE ReprovisionFails(t)
  <2>1. tenants' \in [Tenants -> TenantRow]
    BY <1>0, <1>2, TenantTypes DEF ReprovisionFails, TypeOK
  <2>2. tenants[t].build + 1 \in 1..MaxBuilds
    BY <1>0, <1>2 DEF ReprovisionFails, TenantRow
  <2>3. <<t, n>> \in Homes => Marked(t, n) \in 0..MaxBuilds
    BY <2>2 DEF Marked, TypeOK
  <2>4. databases' \in [Homes -> 0..MaxBuilds]
    BY <1>2, <2>3 DEF ReprovisionFails, TypeOK
  <2>. QED  BY <1>2, <2>1, <2>4 DEF ReprovisionFails, TypeOK
<1>. QED  BY <1>1, <1>2

(* The writes of the cron and of the admin. *)
LEMMA WriteType ==
  ASSUME TypeOK, NEW w \in Workers, WriteStep(w)
  PROVE  TypeOK'
<1>. USE DecommissionAssumption, RuntimeAssumption
<1>. DEFINE t == worker[w].job
<1>0. worker[w] \in Local
  BY DEF TypeOK
<1>1. t \in Tenants
  BY <1>0 DEF WriteStep, InsertJob, MarkPending, RetryCommit, At, Local, Assigned, WritePCs
<1>2. tenants[t] \in TenantRow /\ jobs[t] \in JobRow
  BY <1>1 DEF TypeOK
<1>3. worker' \in [Workers -> Local]
  BY DeliverTypes DEF WriteStep, InsertJob, MarkPending, RetryCommit
<1>4. CASE InsertJob(w)
  <2>1. worker[w].want \in Nodes
    BY <1>0, <1>4 DEF InsertJob, At, Local, Assigned
  <2>2. [state |-> "queued", node |-> worker[w].want, build |-> tenants[t].build] \in JobRow
    BY <1>2, <2>1 DEF JobRow, TenantRow, CleanupStates
  <2>3. jobs' \in [Tenants -> JobRow]
    BY <1>1, <1>4, <2>2 DEF InsertJob, TypeOK
  <2>4. tenants' \in [Tenants -> TenantRow]
    <3>1. tenants' = [tenants EXCEPT ![t] = Suspended(@)] \/ tenants' = tenants
      BY <1>4 DEF InsertJob
    <3>2. Suspended(tenants[t]) \in TenantRow
      BY <1>2, TenantTypes
    <3>. QED  BY <1>1, <3>1, <3>2 DEF TypeOK
  <2>. QED  BY <1>3, <1>4, <2>3, <2>4 DEF InsertJob, disks, TypeOK
<1>5. CASE MarkPending(w)
  <2>1. tenants' \in [Tenants -> TenantRow]
    BY <1>1, <1>2, <1>5, TenantTypes DEF MarkPending, TypeOK
  <2>. QED  BY <1>3, <1>5, <2>1 DEF MarkPending, disks, TypeOK
<1>6. CASE RetryCommit(w)
  <2>1. jobs' \in [Tenants -> JobRow] /\ tenants' \in [Tenants -> TenantRow]
    BY <1>1, <1>2, <1>6, TenantTypes, JobTypes DEF RetryCommit, TypeOK
  <2>2. leases' \in [Tenants -> LeaseRow]
    BY <1>6, LeaseTypes DEF RetryCommit, TypeOK
  <2>. QED  BY <1>3, <1>6, <2>1, <2>2 DEF RetryCommit, disks, TypeOK
<1>. QED  BY <1>4, <1>5, <1>6 DEF WriteStep

(* Every step of a claim. *)
LEMMA ClaimType ==
  ASSUME TypeOK, NEW w \in Workers, ClaimStep(w)
  PROVE  TypeOK'
<1>. USE DecommissionAssumption, RuntimeAssumption
<1>. DEFINE t == worker[w].job
<1>a. worker[w] \in Local
  BY DEF TypeOK
<1>1. ASSUME NEW u \in Tenants, ExpireLease(w, u)
      PROVE  TypeOK'
  <2>1. [worker[w] EXCEPT !.work = @ \ {u}] \in Local
    BY <1>a DEF Local, Assigned
  <2>2. worker' \in [Workers -> Local]
    BY <1>1, <2>1 DEF ExpireLease, TypeOK
  <2>3. tenants[u] \in TenantRow /\ jobs[u] \in JobRow
    BY DEF TypeOK
  <2>4. jobs' \in [Tenants -> JobRow] /\ tenants' \in [Tenants -> TenantRow]
    BY <1>1, <2>3, TenantTypes, JobTypes DEF ExpireLease, TypeOK
  <2>5. leases' \in [Tenants -> LeaseRow]
    BY <1>1, LeaseTypes DEF ExpireLease, TypeOK
  <2>. QED  BY <1>1, <2>2, <2>4, <2>5 DEF ExpireLease, disks, TypeOK
<1>2. ASSUME NEW u \in Tenants, TakeLease(w, u)
      PROVE  TypeOK'
  <2>1. tokens + 1 \in 0..MaxTokens
    BY <1>2 DEF TakeLease, Lease, TypeOK
  <2>2. NewLease(tokens + 1) \in LeaseRow
    BY <2>1 DEF NewLease, LeaseRow
  <2>3. [worker[w] EXCEPT !.pc = "source", !.job = u, !.token = tokens + 1] \in Local
    BY <1>a, <1>2, <2>1 DEF TakeLease, At, Local, Assigned, PCs, WritePCs, ClaimPCs, ReportPCs
  <2>4. worker' \in [Workers -> Local]
    BY <1>2, <2>3 DEF TakeLease, Lease, TypeOK
  <2>. QED  BY <1>2, <2>1, <2>2, <2>4 DEF TakeLease, Lease, disks, TypeOK
<1>3. CASE NextHandler(w)
  <2>1. Expired("test", worker[w].node) \in SUBSET Tenants
    BY DEF Expired
  <2>2. \A S \in SUBSET Tenants : [worker[w] EXCEPT !.pc = "expire", !.want = "test", !.work = S] \in Local
    BY <1>a, <1>3 DEF NextHandler, At, Local, Assigned, PCs, WritePCs, ClaimPCs, ReportPCs, Kinds
  <2>3. worker' \in [Workers -> Local]
    BY <1>3, <2>1, <2>2 DEF NextHandler, TypeOK
  <2>. QED  BY <1>3, <2>3 DEF NextHandler, tables, disks, TypeOK
<1>4. CASE TakeNothing(w)
  <2>1. At(w, "expire") => [worker[w] EXCEPT !.pc = "next"] \in Local
    BY <1>a DEF At, Local, Assigned, PCs, WritePCs, ClaimPCs, ReportPCs
  <2>. QED  BY <1>4, <2>1, DeliverTypes, AgentTypes DEF TakeNothing, Goto, tables, disks, TypeOK
<1>5. CASE ReadSource(w)
  <2>1. \A pc \in {"dispatch", "withdraw"} : [worker[w] EXCEPT !.pc = pc] \in Local
    BY <1>a, <1>5 DEF ReadSource, At, Local, Assigned, PCs, WritePCs, ClaimPCs, ReportPCs
  <2>. QED  BY <1>5, <2>1, DeliverTypes DEF ReadSource, Goto, tables, disks, TypeOK
<1>6. CASE Withdraw(w)
  BY <1>6, LeaseTypes, DeliverTypes, AgentTypes DEF Withdraw, disks, TypeOK
<1>7. CASE Dispatch(w)
  <2>1. t \in Tenants /\ worker[w].token \in 0..MaxTokens
    BY <1>7, <1>a DEF Dispatch, At, Local, Assigned
  <2>2. jobs' \in [Tenants -> JobRow]
    BY <1>7, <2>1, JobTypes DEF Dispatch, TypeOK
  <2>3. Claimant(t, worker[w].token) \in Agent
    BY <2>1 DEF Claimant, Agent
  <2>. QED  BY <1>7, <2>2, <2>3, DeliverTypes DEF Dispatch, disks, TypeOK
<1>. QED  BY <1>1, <1>2, <1>3, <1>4, <1>5, <1>6, <1>7 DEF ClaimStep

(* Every step of a report. *)
LEMMA ReportType ==
  ASSUME TypeOK, NEW w \in Workers, ReportStep(w)
  PROVE  TypeOK'
<1>. USE DecommissionAssumption, RuntimeAssumption
<1>. DEFINE t == worker[w].job
            r == worker[w].want
<1>a. worker[w] \in Local
  BY DEF TypeOK
<1>b. t \in Tenants /\ r \in Results \cup {"running"}
  BY <1>a DEF ReportStep, CheckLease, CheckState, RenewLease, CommitReport, At, Local,
              Assigned, ReportPCs
<1>c. \A pc \in ReportPCs : [worker[w] EXCEPT !.pc = pc] \in Local
  BY <1>a, <1>b DEF ReportStep, CheckLease, CheckState, RenewLease, CommitReport, At, Local,
              Assigned, PCs, WritePCs, ClaimPCs, ReportPCs
<1>1. CASE CheckLease(w)
  BY <1>1, <1>c, DeliverTypes DEF CheckLease, Goto, Reject, ReportPCs, tables, disks, TypeOK
<1>2. CASE CheckState(w)
  <2>1. \/ Goto(w, "renew") /\ UNCHANGED agents
        \/ Goto(w, "commit") /\ UNCHANGED agents
        \/ Reject(w)
    BY <1>2 DEF CheckState
  <2>2. worker' \in [Workers -> Local] /\ agents' \in [Nodes -> Agent]
    BY <1>c, <2>1, DeliverTypes DEF Goto, Reject, ReportPCs, TypeOK
  <2>. QED  BY <1>2, <2>2 DEF CheckState, tables, disks, TypeOK
<1>3. CASE RenewLease(w)
  <2>1. leases' \in [Tenants -> LeaseRow]
    BY <1>3, <1>b, LeaseTypes DEF RenewLease, TypeOK
  <2>. QED  BY <1>3, <2>1, DeliverTypes DEF RenewLease, Accept, disks, TypeOK
<1>4. CASE CommitReport(w)
  <2>1. tenants[t] \in TenantRow /\ jobs[t] \in JobRow /\ leases[t] \in LeaseRow
    BY <1>b DEF TypeOK
  <2>2. jobs' \in [Tenants -> JobRow]
    BY <1>4, <1>b, <2>1, JobTypes DEF CommitReport, TypeOK
  <2>3. tenants' \in [Tenants -> TenantRow]
    BY <1>4, <1>b, <2>1, TenantTypes DEF CommitReport, TypeOK
  <2>4. LeaseAfter(leases[t], r) \in LeaseRow
    BY <2>1, LeaseTypes DEF LeaseAfter
  <2>5. leases' \in [Tenants -> LeaseRow]
    BY <1>4, <1>b, <2>4 DEF CommitReport, TypeOK
  <2>. QED  BY <1>4, <2>2, <2>3, <2>5, DeliverTypes DEF CommitReport, Accept, disks, TypeOK
<1>. QED  BY <1>1, <1>2, <1>3, <1>4 DEF ReportStep

(* The agents' steps and those of the environment. *)
LEMMA AgentType ==
  ASSUME TypeOK, NEW n \in Nodes,
         AgentRequest(n) \/ AgentFault(n) \/ \E r \in Results : ExecutorReturns(n, r)
  PROVE  TypeOK'
<1>. USE DecommissionAssumption, RuntimeAssumption
<1>a. agents[n] \in Agent
  BY DEF TypeOK
<1>b. \A w \in Workers : [agents[n] EXCEPT !.wait = w] \in Agent
  BY <1>a DEF Agent
<1>1. ASSUME NEW w \in Workers, Poll(w, n)
      PROVE  TypeOK'
  <2>1. Expired("trial", n) \in SUBSET Tenants
    BY DEF Expired
  <2>. QED  BY <1>1, <1>b, <2>1, LocalTypes DEF Poll, Request, Begin, disks, TypeOK
<1>2. ASSUME NEW w \in Workers, SendReport(w, n)
      PROVE  TypeOK'
  <2>1. /\ agents[n].job \in Tenants
        /\ agents[n].token \in 0..MaxTokens
        /\ Reported(agents[n]) \in Results \cup {"running"}
    BY <1>a, <1>2 DEF SendReport, Report, Reported, Agent
  <2>2. Handler("lease", n, agents[n].job, agents[n].token, Reported(agents[n])) \in Local
    BY <2>1, LocalTypes
  <2>. QED  BY <1>2, <1>b, <2>2 DEF SendReport, Report, Begin, disks, TypeOK
<1>3. CASE AgentFault(n)
  BY <1>3, <1>a, AgentTypes DEF AgentFault, ReplyLost, LoseReply, AgentRestarts, Restart, Fault, disks, TypeOK
<1>4. ASSUME NEW r \in Results, ExecutorReturns(n, r)
      PROVE  TypeOK'
  <2>1. [agents[n] EXCEPT !.result = r] \in Agent /\ agents[n].job \in Tenants
    BY <1>a, <1>4 DEF ExecutorReturns, Return, Agent
  <2>2. databases' \in [Homes -> 0..MaxBuilds] /\ dropped' \in SUBSET Tenants
    <3>1. /\ \/ databases' = databases
             \/ databases' = [databases EXCEPT ![<<agents[n].job, n>>] = 0]
          /\ dropped' = dropped \/ dropped' = dropped \cup {agents[n].job}
      BY <1>4 DEF ExecutorReturns
    <3>. QED  BY <2>1, <3>1 DEF TypeOK
  <2>. QED  BY <1>4, <2>1, <2>2 DEF ExecutorReturns, Return, TypeOK
<1>. QED  BY <1>1, <1>2, <1>3, <1>4 DEF AgentRequest

LEMMA EnvironmentType ==
  ASSUME TypeOK,
         (\E t \in Tenants : LeaseLapses(t)) \/ (\E w \in Workers : WorkerFails(w))
  PROVE  TypeOK'
<1>. USE DecommissionAssumption, RuntimeAssumption
<1>1. ASSUME NEW t \in Tenants, LeaseLapses(t)
      PROVE  TypeOK'
  <2>1. [leases[t] EXCEPT !.live = FALSE] \in LeaseRow
    BY DEF TypeOK, LeaseRow
  <2>. QED  BY <1>1, <2>1 DEF LeaseLapses, Lapse, Fault, disks, TypeOK
<1>2. ASSUME NEW w \in Workers, WorkerFails(w)
      PROVE  TypeOK'
  BY <1>2, DeliverTypes DEF WorkerFails, Abort, Fault, disks, TypeOK
<1>. QED  BY <1>1, <1>2

LEMMA StepType == TypeOK /\ [Next]_vars => TypeOK'
<1>. SUFFICES ASSUME TypeOK, [Next]_vars PROVE TypeOK'
  OBVIOUS
<1>1. CASE UNCHANGED vars
  BY <1>1 DEF vars, TypeOK
<1>2. CASE Next
  BY <1>2, RequestType, ReprovisionType, WriteType, ClaimType, ReportType, AgentType,
     EnvironmentType DEF Next, WorkerStep
<1>. QED  BY <1>1, <1>2

(* Every table, handler and agent keeps its type: in particular no handler *)
(* of cleanupOperations.ts, trialCleanupOperations.ts or cleanup.ts reaches*)
(* a write with a local variable it needs unassigned.                      *)
THEOREM TypeCorrect == Spec => []TypeOK
BY InitType, StepType, PTL DEF Spec

-----------------------------------------------------------------------------
(* Leases and the cleanups they are on *)

LEMMA WorkerJob ==
  ASSUME TypeOK, NEW w \in Workers,
         worker[w].pc \in WritePCs \cup ReportPCs \cup {"source", "withdraw", "dispatch"}
  PROVE  worker[w].job \in Tenants
BY DEF TypeOK, Local, Assigned

(* Each action keeps the lease, moves the cleanup to an open state, or     *)
(* deletes the lease together with the change of the cleanup.              *)
LEMMA LeaseStep == TypeOK /\ LeaseOnOpenJob /\ [Next]_vars => LeaseOnOpenJob'
<1>. SUFFICES ASSUME TypeOK, LeaseOnOpenJob, [Next]_vars,
                     NEW u \in Tenants, Leased(u)'
              PROVE  State(u)' \in {"queued", "dispatched", "running"}
  BY DEF LeaseOnOpenJob
<1>. USE DEF Leased, State
<1>a. Leased(u) => State(u) \in {"queued", "dispatched", "running"}
  BY DEF LeaseOnOpenJob
<1>b. jobs \in [Tenants -> JobRow] /\ leases \in [Tenants -> LeaseRow]
  BY DEF TypeOK
<1>c. \A row \in JobRow :
        /\ row.state \in {"queued", "dispatched", "running"} =>
             /\ Requeued(row).state \in {"queued", "dispatched", "running"}
             /\ Dispatched(row).state \in {"queued", "dispatched", "running"}
  BY DEF Requeued, Dispatched, JobRow
<1>1. ASSUME jobs' = jobs, leases' = leases
      PROVE  State(u)' \in {"queued", "dispatched", "running"}
  BY <1>1, <1>a
<1>2. ASSUME NEW w \in Workers, WriteStep(w)
      PROVE  State(u)' \in {"queued", "dispatched", "running"}
  <2>0. worker[w].job \in Tenants
    BY <1>2, WorkerJob DEF WriteStep, InsertJob, MarkPending, RetryCommit, At, WritePCs
  <2>1. CASE InsertJob(w)
    BY <2>0, <2>1, <1>a, <1>b DEF InsertJob
  <2>2. CASE MarkPending(w)
    BY <2>2, <1>1 DEF MarkPending
  <2>3. CASE RetryCommit(w)
    BY <2>0, <2>3, <1>a, <1>b DEF RetryCommit, NoLease
  <2>. QED  BY <1>2, <2>1, <2>2, <2>3 DEF WriteStep
<1>3. ASSUME NEW w \in Workers, ClaimStep(w)
      PROVE  State(u)' \in {"queued", "dispatched", "running"}
  <2>1. ASSUME NEW t \in Tenants, ExpireLease(w, t)
        PROVE  State(u)' \in {"queued", "dispatched", "running"}
    BY <2>1, <1>a, <1>b DEF ExpireLease, NoLease
  <2>2. ASSUME NEW t \in Tenants, TakeLease(w, t)
        PROVE  State(u)' \in {"queued", "dispatched", "running"}
    BY <2>2, <1>a, <1>b DEF TakeLease, Lease, NewLease, Unleased
  <2>3. CASE Withdraw(w)
    <3>1. worker[w].job \in Tenants
      BY <2>3, WorkerJob DEF Withdraw, At
    <3>. QED  BY <2>3, <3>1, <1>a, <1>b DEF Withdraw, NoLease
  <2>4. CASE Dispatch(w)
    <3>1. worker[w].job \in Tenants
      BY <2>4, WorkerJob DEF Dispatch, At
    <3>. QED  BY <2>4, <3>1, <1>a, <1>b, <1>c DEF Dispatch
  <2>5. CASE NextHandler(w) \/ TakeNothing(w) \/ ReadSource(w)
    BY <2>5, <1>1 DEF NextHandler, TakeNothing, ReadSource, tables
  <2>. QED  BY <1>3, <2>1, <2>2, <2>3, <2>4, <2>5 DEF ClaimStep
<1>4. ASSUME NEW w \in Workers, ReportStep(w)
      PROVE  State(u)' \in {"queued", "dispatched", "running"}
  <2>0. worker[w].job \in Tenants
    BY <1>4, WorkerJob DEF ReportStep, CheckLease, CheckState, RenewLease, CommitReport, At, ReportPCs
  <2>1. CASE CheckLease(w) \/ CheckState(w)
    BY <2>1, <1>1 DEF CheckLease, CheckState, tables
  <2>2. CASE RenewLease(w)
    BY <2>0, <2>2, <1>a, <1>b DEF RenewLease, Renewed
  <2>3. CASE CommitReport(w)
    <3>1. CASE worker[w].want = "running"
      BY <2>0, <2>3, <3>1, <1>a, <1>b DEF CommitReport, JobRow
    <3>2. CASE worker[w].want # "running"
      BY <2>0, <2>3, <3>2, <1>a, <1>b DEF CommitReport, LeaseAfter, NoLease
    <3>. QED  BY <3>1, <3>2
  <2>. QED  BY <1>4, <2>1, <2>2, <2>3 DEF ReportStep
<1>5. ASSUME NEW t \in Tenants, LeaseLapses(t)
      PROVE  State(u)' \in {"queued", "dispatched", "running"}
  BY <1>5, <1>a, <1>b DEF LeaseLapses, Lapse, LeaseRow
<1>6. CASE \/ Cron \/ AdminRequest
           \/ \E t \in Tenants : Reprovisioned(t) \/ ReprovisionFails(t)
           \/ \E w \in Workers : WorkerFails(w)
           \/ \E n \in Nodes : AgentRequest(n) \/ AgentFault(n)
           \/ \E n \in Nodes, r \in Results : ExecutorReturns(n, r)
           \/ UNCHANGED vars
  BY <1>6, <1>1 DEF Cron, TrialExpires, QueueRead, AdminRequest, RequestRead, RetryRead,
     Reprovision, RevokeNode, Revoke, Reprovisioned, ReprovisionFails, WorkerFails, Abort,
     AgentRequest, Poll, Request, SendReport, Report, AgentFault, ReplyLost, LoseReply,
     AgentRestarts, Restart, ExecutorReturns, Return, tables, vars
<1>. QED  BY <1>2, <1>3, <1>4, <1>5, <1>6 DEF Next, WorkerStep

(* A lease row exists only on an open cleanup, whatever requests overlap:  *)
(* the guards that the UPDATEs of cleanupOperations.ts do without are not  *)
(* needed for it.                                                          *)
THEOREM LeaseSafety == Spec => []LeaseOnOpenJob
<1>1. Init => LeaseOnOpenJob
  BY DEF Init, LeaseOnOpenJob, Leased, NoLease
<1>. QED  BY <1>1, LeaseStep, TypeCorrect, PTL DEF Spec

-----------------------------------------------------------------------------
(* What is cleaned was dropped *)

(* An answer leaves an agent its result and job, or none at all. *)
LEMMA AnswerKeepsResult ==
  ASSUME NEW a \in Agent
  PROVE  /\ AfterAccept(a).result = "cleaned" => a.result = "cleaned" /\ AfterAccept(a).job = a.job
         /\ AfterReject(a).result = "cleaned" => a.result = "cleaned" /\ AfterReject(a).job = a.job
BY DecommissionAssumption DEF AfterAccept, AfterReject, IdleAgent, Agent

(* Nothing but a report decommissions a tenant ... *)
LEMMA TenantWrites ==
  ASSUME NEW row \in TenantRow
  PROVE  /\ Pending(row).status = row.status
         /\ Suspended(row).status = "decommissioned" => row.status = "decommissioned"
         /\ Resuspended(row).status = "decommissioned" => row.status = "decommissioned"
         /\ Failing(row).status = "failed"
         /\ \A r \in {"running", "failed"} :
              Outcome(row, r).status = "decommissioned" => row.status = "decommissioned"
<1>1. Pending(row).status = row.status
  BY DEF Pending, TenantRow
<1>2. Suspended(row).status = "decommissioned" => row.status = "decommissioned"
  BY <1>1 DEF Suspended, TenantRow
<1>3. Resuspended(row).status = "decommissioned" => row.status = "decommissioned"
  <2>1. LET m == [row EXCEPT !.status = "suspended", !.trial = "cleanup_pending"]
        IN  m.status = "suspended"
    BY DEF TenantRow
  <2>2. [row EXCEPT !.status = "suspended"].status = "suspended"
    BY DEF TenantRow
  <2>. QED  BY <2>1, <2>2 DEF Resuspended
<1>4. Failing(row).status = "failed"
  BY DEF Failing, TenantRow
<1>5. \A r \in {"running", "failed"} :
        Outcome(row, r).status = "decommissioned" => row.status = "decommissioned"
  BY <1>4 DEF Outcome
<1>. QED  BY <1>1, <1>2, <1>3, <1>4, <1>5

(* ... or takes a cleanup for cleaned. *)
LEMMA JobWrites ==
  ASSUME NEW row \in JobRow
  PROVE  /\ Requeued(row).state = "cleaned" => row.state = "cleaned"
         /\ FailedIfInFlight(row).state = "cleaned" => row.state = "cleaned"
         /\ Dispatched(row).state = "cleaned" => row.state = "cleaned"
BY DEF Requeued, FailedIfInFlight, Dispatched, JobRow

(* `dropped' only grows, and who says "cleaned" carries the tenant along:  *)
(* from the engine to the agent's result, to the report, to the tables.    *)
LEMMA CleanedStep == TypeOK /\ CleanedInv /\ [Next]_vars => CleanedInv'
<1>. SUFFICES ASSUME TypeOK, CleanedInv, [Next]_vars PROVE CleanedInv'
  OBVIOUS
<1>. DEFINE AgentsDropped == \A n \in Nodes : agents[n].result = "cleaned" => agents[n].job \in dropped
            Honest(l) == l.pc \in ReportPCs /\ l.want = "cleaned" => l.job \in dropped
            WorkersHonest == \A w \in Workers : Honest(worker[w])
            NoneNew ==
              /\ \A t \in Tenants : jobs'[t].state = "cleaned" => jobs[t].state = "cleaned"
              /\ \A t \in Tenants : tenants'[t].status = "decommissioned" =>
                                      tenants[t].status = "decommissioned"
<1>b. /\ jobs \in [Tenants -> JobRow]
      /\ tenants \in [Tenants -> TenantRow]
      /\ worker \in [Workers -> Local]
      /\ agents \in [Nodes -> Agent]
  BY DEF TypeOK
<1>c. CleanedMeansDropped /\ AgentsDropped /\ WorkersHonest
  BY DEF CleanedInv
<1>d. Honest(Idle)'
  BY DEF Idle, Handler, ReportPCs
<1>e. IdleAgent.result # "cleaned"
  BY DecommissionAssumption DEF IdleAgent
<1>1. ASSUME NoneNew, UNCHANGED dropped PROVE CleanedMeansDropped'
  BY <1>1, <1>c DEF CleanedMeansDropped, State
<1>2. ASSUME UNCHANGED <<worker, dropped>> PROVE WorkersHonest'
  BY <1>2, <1>c
<1>3. ASSUME UNCHANGED <<agents, dropped>> PROVE AgentsDropped'
  BY <1>3, <1>c
<1>4. ASSUME NEW w \in Workers, Finish(w), UNCHANGED dropped PROVE WorkersHonest'
  BY <1>4, <1>b, <1>c, <1>d DEF Finish
<1>5. ASSUME NEW w \in Workers, UNCHANGED dropped,
             \/ DeliverEach(w, AfterAccept) \/ DeliverEach(w, AfterReject)
             \/ \E a \in Agent : a.result # "cleaned" /\ Deliver(w, a)
      PROVE  AgentsDropped'
  BY <1>5, <1>b, <1>c, AnswerKeepsResult DEF DeliverEach, Deliver
<1>6. ASSUME NEW w \in Workers, NEW l, worker' = [worker EXCEPT ![w] = l], Honest(l),
             UNCHANGED dropped
      PROVE  WorkersHonest'
  BY <1>6, <1>b, <1>c
<1>7. ASSUME UNCHANGED <<jobs, tenants>> PROVE NoneNew
  BY <1>7
<1>8. CASE Cron \/ AdminRequest
  <2>1. ASSUME NEW t \in Tenants, TrialExpires(t)
        PROVE  CleanedInv'
    <3>1. LET m == [tenants[t] EXCEPT !.status = "suspended", !.trial = "expired"]
          IN  m.status = "suspended"
      BY <1>b DEF TenantRow
    <3>2. NoneNew
      BY <2>1, <3>1, <1>b DEF TrialExpires
    <3>. QED  BY <2>1, <1>1, <1>2, <1>3, <3>2 DEF TrialExpires, disks, CleanedInv
  <2>2. ASSUME NEW w \in Workers, NEW t \in Tenants,
               QueueRead(w, t) \/ RequestRead(w, t) \/ RetryRead(w, t)
        PROVE  CleanedInv'
    <3>1. \A pc \in WritePCs : \A n : Honest(Handler(pc, None, t, 0, n))
      BY DEF Handler, WritePCs, ReportPCs
    <3>2. WorkersHonest'
      BY <2>2, <1>6, <3>1 DEF QueueRead, RequestRead, RetryRead, Begin, disks, WritePCs
    <3>. QED  BY <2>2, <1>1, <1>3, <1>7, <3>2 DEF QueueRead, RequestRead, RetryRead, tables, disks, CleanedInv
  <2>3. ASSUME NEW t \in Tenants, NEW n \in Nodes, Reprovision(t, n)
        PROVE  CleanedInv'
    <3>1. LET m == [tenants[t] EXCEPT !.status = "provisioning", !.node = n]
          IN  m.status = "provisioning"
      BY <1>b DEF TenantRow
    <3>2. NoneNew
      BY <2>3, <3>1, <1>b DEF Reprovision
    <3>. QED  BY <2>3, <1>1, <1>2, <1>3, <3>2 DEF Reprovision, disks, CleanedInv
  <2>4. ASSUME NEW n \in Nodes, RevokeNode(n)
        PROVE  CleanedInv'
    BY <2>4, <1>1, <1>2, <1>3, <1>7 DEF RevokeNode, Revoke, disks, CleanedInv
  <2>. QED  BY <1>8, <2>1, <2>2, <2>3, <2>4 DEF Cron, AdminRequest
<1>9. ASSUME NEW t \in Tenants, Reprovisioned(t) \/ ReprovisionFails(t)
      PROVE  CleanedInv'
  <2>1. \A kind, n, b : ReadyTenant(kind, n, b).status = "ready"
    BY DEF ReadyTenant
  <2>2. Failing(tenants[t]).status = "failed"
    BY <1>b, TenantWrites
  <2>3. NoneNew
    BY <1>9, <1>b, <2>1, <2>2 DEF Reprovisioned, ReprovisionFails
  <2>. QED  BY <1>9, <1>1, <1>2, <1>3, <2>3 DEF Reprovisioned, ReprovisionFails, CleanedInv
<1>10. ASSUME NEW w \in Workers, WriteStep(w)
       PROVE  CleanedInv'
  <2>1. worker[w].job \in Tenants
    BY <1>10, WorkerJob DEF WriteStep, InsertJob, MarkPending, RetryCommit, At, WritePCs
  <2>2. NoneNew
    <3>0. jobs[worker[w].job] \in JobRow /\ tenants[worker[w].job] \in TenantRow
      BY <1>b, <2>1
    <3>1. CASE InsertJob(w)
      BY <1>b, <2>1, <3>0, <3>1, TenantWrites DEF InsertJob
    <3>2. CASE MarkPending(w)
      BY <1>b, <2>1, <3>0, <3>2, TenantWrites DEF MarkPending
    <3>3. CASE RetryCommit(w)
      BY <1>b, <2>1, <3>0, <3>3, TenantWrites, JobWrites DEF RetryCommit
    <3>. QED  BY <1>10, <3>1, <3>2, <3>3 DEF WriteStep
  <2>3. Finish(w) /\ UNCHANGED <<agents, dropped>>
    BY <1>10 DEF WriteStep, InsertJob, MarkPending, RetryCommit, disks
  <2>. QED  BY <1>1, <1>3, <1>4, <2>2, <2>3 DEF CleanedInv
<1>11. ASSUME NEW w \in Workers, ClaimStep(w)
       PROVE  CleanedInv'
  <2>1. ASSUME NEW t \in Tenants, ExpireLease(w, t)
        PROVE  CleanedInv'
    <3>1. NoneNew
      BY <2>1, <1>b, TenantWrites, JobWrites DEF ExpireLease, TenantRow
    <3>2. Honest([worker[w] EXCEPT !.work = @ \ {t}])
      BY <2>1, <1>b DEF ExpireLease, At, Local, ReportPCs
    <3>3. WorkersHonest'
      BY <2>1, <1>6, <3>2 DEF ExpireLease, disks
    <3>. QED  BY <2>1, <1>1, <1>3, <3>1, <3>3 DEF ExpireLease, disks, CleanedInv
  <2>2. ASSUME NEW t \in Tenants, TakeLease(w, t)
        PROVE  CleanedInv'
    <3>1. Honest([worker[w] EXCEPT !.pc = "source", !.job = t, !.token = tokens + 1])
      BY <1>b DEF Local, ReportPCs
    <3>2. WorkersHonest'
      BY <2>2, <1>6, <3>1 DEF TakeLease, Lease, disks
    <3>. QED  BY <2>2, <1>1, <1>3, <1>7, <3>2 DEF TakeLease, Lease, disks, CleanedInv
  <2>3. CASE NextHandler(w)
    <3>1. \A S : LET m == [worker[w] EXCEPT !.pc = "expire", !.want = "test", !.work = S]
                 IN  m.pc = "expire"
      BY <1>b DEF Local
    <3>2. \A S : Honest([worker[w] EXCEPT !.pc = "expire", !.want = "test", !.work = S])
      BY <3>1 DEF ReportPCs
    <3>3. WorkersHonest'
      BY <2>3, <1>6, <3>2 DEF NextHandler, disks
    <3>. QED  BY <2>3, <1>1, <1>3, <1>7, <3>3 DEF NextHandler, tables, disks, CleanedInv
  <2>4. CASE TakeNothing(w)
    <3>1. Honest([worker[w] EXCEPT !.pc = "next"])
      BY <1>b DEF Local, ReportPCs
    <3>2. WorkersHonest' /\ AgentsDropped'
      BY <2>4, <1>3, <1>4, <1>5, <1>6, <1>e, <3>1, AgentTypes DEF TakeNothing, Goto, disks
    <3>. QED  BY <2>4, <1>1, <1>7, <3>2 DEF TakeNothing, tables, disks, CleanedInv
  <2>5. CASE ReadSource(w)
    <3>1. \A pc \in {"dispatch", "withdraw"} : Honest([worker[w] EXCEPT !.pc = pc])
      BY <1>b DEF Local, ReportPCs
    <3>2. WorkersHonest'
      BY <2>5, <1>6, <3>1 DEF ReadSource, Goto, disks
    <3>. QED  BY <2>5, <1>1, <1>3, <1>7, <3>2 DEF ReadSource, tables, disks, CleanedInv
  <2>6. CASE Withdraw(w)
    BY <2>6, <1>1, <1>4, <1>5, <1>7, <1>e, AgentTypes DEF Withdraw, disks, CleanedInv
  <2>7. CASE Dispatch(w)
    <3>0. worker[w].job \in Tenants /\ worker[w].token \in 0..MaxTokens
      BY <2>7, <1>b DEF Dispatch, At, Local, Assigned
    <3>1. LET a == Claimant(worker[w].job, worker[w].token)
          IN  a \in Agent /\ a.result # "cleaned"
      BY <3>0, DecommissionAssumption DEF Claimant, Agent
    <3>2. AgentsDropped'
      BY <2>7, <1>5, <3>1 DEF Dispatch, disks
    <3>3. NoneNew
      BY <2>7, <1>b, <3>0, JobWrites DEF Dispatch
    <3>. QED  BY <2>7, <1>1, <1>4, <3>2, <3>3 DEF Dispatch, disks, CleanedInv
  <2>. QED  BY <1>11, <2>1, <2>2, <2>3, <2>4, <2>5, <2>6, <2>7 DEF ClaimStep
<1>12. ASSUME NEW w \in Workers, ReportStep(w)
       PROVE  CleanedInv'
  <2>1. CASE CheckLease(w) \/ CheckState(w)
    <3>1. \A pc : Honest([worker[w] EXCEPT !.pc = pc])
      BY <2>1, <1>b, <1>c DEF CheckLease, CheckState, At, Local, ReportPCs
    <3>2. \/ UNCHANGED agents /\ \E pc : worker' = [worker EXCEPT ![w] = [worker[w] EXCEPT !.pc = pc]]
          \/ Reject(w)
      BY <2>1 DEF CheckLease, CheckState, Goto
    <3>3. UNCHANGED <<jobs, tenants, dropped>>
      BY <2>1 DEF CheckLease, CheckState, tables, disks
    <3>4. WorkersHonest' /\ AgentsDropped'
      BY <1>3, <1>4, <1>5, <1>6, <3>1, <3>2, <3>3 DEF Reject
    <3>. QED  BY <1>1, <1>7, <3>3, <3>4 DEF CleanedInv
  <2>2. CASE RenewLease(w)
    BY <2>2, <1>1, <1>4, <1>5, <1>7 DEF RenewLease, Accept, disks, CleanedInv
  <2>3. CASE CommitReport(w)
    <3>. DEFINE t == worker[w].job
                r == worker[w].want
    <3>1. t \in Tenants /\ r \in {"running", "failed", "cleaned"}
      BY <2>3, <1>b DEF CommitReport, At, Local, Assigned, ReportPCs, Results
    <3>2. r = "cleaned" => t \in dropped
      BY <2>3, <1>c DEF CommitReport, At, ReportPCs
    <3>3. r # "cleaned" => (Outcome(tenants[t], r).status = "decommissioned"
                              => tenants[t].status = "decommissioned")
      BY <1>b, <3>1, TenantWrites
    <3>4. \A u \in Tenants : jobs'[u].state = "cleaned" => u \in dropped
      BY <2>3, <1>b, <1>c, <3>1, <3>2 DEF CommitReport, CleanedMeansDropped, State, JobRow
    <3>5. \A u \in Tenants : tenants'[u].status = "decommissioned" => u \in dropped
      BY <2>3, <1>b, <1>c, <3>1, <3>2, <3>3 DEF CommitReport, CleanedMeansDropped
    <3>6. CleanedMeansDropped'
      BY <2>3, <3>4, <3>5 DEF CommitReport, disks, CleanedMeansDropped, State
    <3>. QED  BY <2>3, <1>4, <1>5, <3>6 DEF CommitReport, Accept, disks, CleanedInv
  <2>. QED  BY <1>12, <2>1, <2>2, <2>3 DEF ReportStep
<1>13. ASSUME NEW n \in Nodes, NEW w \in Workers, Poll(w, n)
       PROVE  CleanedInv'
  <2>1. Honest([Handler("expire", n, None, 0, "trial") EXCEPT !.work = Expired("trial", n)])
    BY DEF Handler, ReportPCs
  <2>2. WorkersHonest'
    BY <1>13, <1>6, <2>1 DEF Poll, Request, Begin, disks
  <2>3. AgentsDropped'
    BY <1>13, <1>b, <1>c DEF Poll, Request, Agent, disks
  <2>. QED  BY <1>13, <1>1, <1>7, <2>2, <2>3 DEF Poll, disks, CleanedInv
<1>14. ASSUME NEW n \in Nodes, NEW w \in Workers, SendReport(w, n)
       PROVE  CleanedInv'
  <2>. DEFINE a == agents[n]
  <2>1. Honest(Handler("lease", n, a.job, a.token, Reported(a)))
    BY <1>c DEF Handler, Reported
  <2>2. WorkersHonest'
    BY <1>14, <1>6, <2>1 DEF SendReport, Report, Begin, disks
  <2>3. AgentsDropped'
    BY <1>14, <1>b, <1>c DEF SendReport, Report, Agent, disks
  <2>. QED  BY <1>14, <1>1, <1>7, <2>2, <2>3 DEF SendReport, disks, CleanedInv
<1>15. ASSUME NEW n \in Nodes, AgentFault(n)
       PROVE  CleanedInv'
  <2>1. AgentsDropped'
    BY <1>15, <1>b, <1>c, <1>e, AnswerKeepsResult DEF AgentFault, ReplyLost, LoseReply, AgentRestarts, Restart, disks
  <2>. QED  BY <1>15, <1>1, <1>2, <1>7, <2>1 DEF AgentFault, ReplyLost, LoseReply, AgentRestarts, Restart, disks, CleanedInv
<1>16. ASSUME NEW n \in Nodes, NEW r \in Results, ExecutorReturns(n, r)
       PROVE  CleanedInv'
  <2>1. dropped \subseteq dropped' /\ (r = "cleaned" => agents[n].job \in dropped')
    BY <1>16 DEF ExecutorReturns
  <2>2. CleanedMeansDropped' /\ WorkersHonest'
    BY <1>16, <1>c, <2>1 DEF ExecutorReturns, Return, CleanedMeansDropped, State
  <2>3. AgentsDropped'
    BY <1>16, <1>b, <1>c, <2>1 DEF ExecutorReturns, Return, Agent
  <2>. QED  BY <2>2, <2>3 DEF CleanedInv
<1>17. ASSUME (\E w \in Workers : WorkerFails(w)) \/ (\E t \in Tenants : LeaseLapses(t))
              \/ UNCHANGED vars
       PROVE  CleanedInv'
  BY <1>17, <1>1, <1>2, <1>3, <1>4, <1>5, <1>7 DEF WorkerFails, Abort, LeaseLapses, Lapse, disks, vars, CleanedInv
<1>. QED  BY <1>8, <1>9, <1>10, <1>11, <1>12, <1>13, <1>14, <1>15, <1>16, <1>17
          DEF Next, WorkerStep, AgentRequest

(* A cleanup is recorded as cleaned, and a tenant as decommissioned, only  *)
(* if an engine has dropped the tenant's database: with any number of      *)
(* overlapping requests, stale reports and retries included.               *)
THEOREM CleanedSafety == Spec => []CleanedMeansDropped
<1>1. Init => CleanedInv
  BY DecommissionAssumption DEF Init, CleanedInv, CleanedMeansDropped, State, NoJob,
     ReadyTenants, ReadyTenant, IdleAgent, Idle, Handler, ReportPCs
<1>2. CleanedInv => CleanedMeansDropped
  BY DEF CleanedInv
<1>. QED  BY <1>1, <1>2, CleanedStep, TypeCorrect, PTL DEF Spec
-----------------------------------------------------------------------------
(* When no two invocations overlap *)

(* CleanupInv by tenants: what the two rows of a tenant say of each other, *)
(* and what they say of its database and of the agents.                    *)
Rows(t) ==
  /\ State(t) \in {"queued", "dispatched", "running"} =>
       /\ tenants[t].status = "suspended"
       /\ Trial(t) => tenants[t].trial = "cleanup_pending"
  /\ State(t) = "cleaned" <=> tenants[t].status = "decommissioned"
  /\ tenants[t].status = "failed" => State(t) = "failed"
  /\ tenants[t].status = "provisioning" => State(t) = "failed"
  /\ tenants[t].status = "ready" => tenants[t].node \in Nodes
  /\ State(t) # "absent" => jobs[t].node \in Nodes

Data(t) ==
  /\ tenants[t].status = "ready" =>
       ~Gone(t, tenants[t].node) /\ agents[tenants[t].node].job # t
  /\ tenants[t].status = "decommissioned" => Gone(t, jobs[t].node)

LEMMA ByTenants ==
  /\ CleanupInv <=> /\ \A t \in Tenants : Rows(t) /\ Data(t)
                    /\ \A n \in Nodes : InHand(agents[n], n)
                    /\ \A w \in Workers : Fresh(worker[w])
  /\ CleanupInv' <=> /\ \A t \in Tenants : Rows(t)' /\ Data(t)'
                     /\ \A n \in Nodes : InHand(agents[n], n)'
                     /\ \A w \in Workers : Fresh(worker[w])'
BY DEF CleanupInv, TenantFollowsCleanup, ReadyHasDatabase, DecommissionedIsGone, TenantInv,
       Rows, Data, Gone

(* An agent goes on with what it has in hand, or drops it. *)
Keeps ==
  \A n \in Nodes :
    \/ agents'[n].job = None
    \/ /\ agents'[n].job = agents[n].job
       /\ agents'[n].result = "cleaned" => agents[n].result = "cleaned"

LEMMA AgentsKeep ==
  /\ UNCHANGED agents => Keeps
  /\ TypeOK => \A w \in Workers :
       /\ DeliverEach(w, AfterAccept) => Keeps
       /\ DeliverEach(w, AfterReject) => Keeps
       /\ Deliver(w, IdleAgent) => Keeps
<1>1. UNCHANGED agents => Keeps
  BY DEF Keeps
<1>2. ASSUME TypeOK, NEW w \in Workers
      PROVE  /\ DeliverEach(w, AfterAccept) => Keeps
             /\ DeliverEach(w, AfterReject) => Keeps
             /\ Deliver(w, IdleAgent) => Keeps
  <2>1. agents \in [Nodes -> Agent]
    BY <1>2 DEF TypeOK
  <2>2. ASSUME NEW a \in Agent
        PROVE  /\ \/ AfterAccept(a) = IdleAgent
                  \/ AfterAccept(a).job = a.job /\ AfterAccept(a).result = a.result
               /\ \/ AfterReject(a) = IdleAgent
                  \/ AfterReject(a).job = a.job /\ AfterReject(a).result = a.result
    BY DEF AfterAccept, AfterReject, Agent
  <2>3. IdleAgent.job = None
    BY DEF IdleAgent
  <2>. QED  BY <2>1, <2>2, <2>3 DEF DeliverEach, Deliver, Keeps
<1>. QED  BY <1>1, <1>2

(* What the one invocation in flight leaves behind is no invocation. *)
LEMMA AllIdle ==
  ASSUME Serial, TypeOK
  PROVE  /\ \A w \in Workers : Finish(w) => \A v \in Workers : Fresh(worker[v])'
         /\ SlotFree /\ UNCHANGED worker => \A v \in Workers : Fresh(worker[v])'
<1>1. \A v \in Workers : worker'[v] = Idle => Fresh(worker[v])'
  BY DEF Fresh, Idle, Handler, ReportPCs
<1>2. worker \in [Workers -> Local]
  BY DEF TypeOK
<1>. QED  BY <1>1, <1>2 DEF Serial, Finish, SlotFree

(* A step that concerns one tenant. *)
LEMMA OneTenant ==
  ASSUME TypeOK, CleanupInv, Keeps, NEW t \in Tenants,
         \A u \in Tenants \ {t} : jobs'[u] = jobs[u] /\ tenants'[u] = tenants[u],
         \A u \in Tenants \ {t}, n \in Nodes : databases'[<<u, n>>] = databases[<<u, n>>],
         \A n \in Nodes : agents[n].job = t =>
           /\ OnNode(t, n) => OnNode(t, n)'
           /\ databases'[<<t, n>>] = databases[<<t, n>>],
         Rows(t)', Data(t)',
         \A w \in Workers : Fresh(worker[w])'
  PROVE  CleanupInv'
<1>1. ASSUME NEW u \in Tenants \ {t} PROVE Rows(u)' /\ Data(u)'
  <2>1. Rows(u) /\ Data(u)
    BY ByTenants
  <2>2. Rows(u)'
    BY <2>1 DEF Rows, State, Trial
  <2>3. Data(u)'
    <3>1. ASSUME tenants'[u].status = "ready"
          PROVE  /\ tenants[u].node \in Nodes /\ tenants'[u].node = tenants[u].node
                 /\ ~Gone(u, tenants[u].node) /\ agents[tenants[u].node].job # u
      BY <2>1, <3>1 DEF Rows, Data
    <3>2. ASSUME tenants'[u].status = "decommissioned"
          PROVE  /\ jobs[u].node \in Nodes /\ jobs'[u].node = jobs[u].node
                 /\ Gone(u, jobs[u].node)
      BY <2>1, <3>2 DEF Rows, Data
    <3>. QED  BY <3>1, <3>2, DecommissionAssumption DEF Data, Gone, Keeps
  <2>. QED  BY <2>2, <2>3
<1>2. ASSUME NEW n \in Nodes PROVE InHand(agents[n], n)'
  <2>. SUFFICES ASSUME agents'[n].job \in Tenants
                PROVE  /\ OnNode(agents[n].job, n)'
                       /\ agents'[n].result = "cleaned" => Gone(agents[n].job, n)'
    BY DEF InHand
  <2>1. /\ agents'[n].job = agents[n].job
        /\ agents'[n].result = "cleaned" => agents[n].result = "cleaned"
    BY DecommissionAssumption DEF Keeps
  <2>2. OnNode(agents[n].job, n) /\ (agents'[n].result = "cleaned" => Gone(agents[n].job, n))
    BY <2>1, ByTenants DEF InHand
  <2>. QED  BY <2>1, <2>2 DEF OnNode, Gone, State
<1>. QED  BY <1>1, <1>2, ByTenants

(* A step that writes neither the tables nor a disk. *)
LEMMA NoWrite ==
  ASSUME TypeOK, CleanupInv, Keeps, UNCHANGED <<jobs, tenants, databases>>,
         \A w \in Workers : Fresh(worker[w])'
  PROVE  CleanupInv'
<1>1. ASSUME NEW t \in Tenants PROVE Rows(t)' /\ Data(t)'
  <2>1. Rows(t) /\ Data(t)
    BY ByTenants
  <2>. QED  BY <2>1, DecommissionAssumption DEF Rows, Data, State, Trial, Gone, Keeps
<1>2. ASSUME NEW n \in Nodes PROVE InHand(agents[n], n)'
  <2>1. InHand(agents[n], n)
    BY ByTenants
  <2>. QED  BY <2>1, DecommissionAssumption DEF InHand, OnNode, State, Gone, Keeps
<1>. QED  BY <1>1, <1>2, ByTenants

(* A handler that begins or goes on, when what it has read holds. *)
LEMMA GoesOn ==
  ASSUME Serial, TypeOK, CleanupInv, Keeps, UNCHANGED <<jobs, tenants, databases>>,
         NEW w \in Workers, NEW l, worker' = [worker EXCEPT ![w] = l], Fresh(l)
  PROVE  CleanupInv'
<1>1. \A v \in Workers : worker'[v] = l
  BY DEF Serial, TypeOK
<1>2. Fresh(l)'
  BY DEF Fresh, State, Awaiting, Trial, Retryable, InFlight, OnNode, Gone
<1>. QED  BY <1>1, <1>2, NoWrite

LEMMA Ends ==
  ASSUME Serial, TypeOK, CleanupInv, Keeps, UNCHANGED <<jobs, tenants, databases>>,
         NEW w \in Workers, Finish(w)
  PROVE  CleanupInv'
BY AllIdle, NoWrite

(* Requests of the cron and of the admin read the tables; two of them are  *)
(* one statement.                                                          *)
LEMMA CleanupRequest ==
  ASSUME Serial, TypeOK, CleanupInv, Cron \/ AdminRequest
  PROVE  CleanupInv'
<1>b. tenants \in [Tenants -> TenantRow] /\ \A t \in Tenants : Rows(t) /\ Data(t)
  BY ByTenants DEF TypeOK
<1>1. ASSUME NEW t \in Tenants, TrialExpires(t)
      PROVE  CleanupInv'
  <2>1. tenants'[t].status = "suspended" /\ tenants'[t].kind = tenants[t].kind
    BY <1>1, <1>b DEF TrialExpires, TenantRow
  <2>2. Rows(t)' /\ Data(t)'
    BY <1>1, <1>b, <2>1 DEF TrialExpires, Rows, Data, State
  <2>3. Keeps /\ \A w \in Workers : Fresh(worker[w])'
    BY <1>1, AgentsKeep, AllIdle DEF TrialExpires
  <2>. QED  BY <1>1, <2>2, <2>3, OneTenant DEF TrialExpires, disks, OnNode, State
<1>2. ASSUME NEW w \in Workers, NEW t \in Tenants,
             QueueRead(w, t) \/ RequestRead(w, t) \/ RetryRead(w, t)
      PROVE  CleanupInv'
  <2>1. \A pc, n : LET l == Handler(pc, None, t, 0, n)
                   IN  l.pc = pc /\ l.job = t /\ l.want = n
    BY DEF Handler
  <2>2. CASE QueueRead(w, t)
    <3>1. \/ /\ State(t) # "absent" /\ Awaiting(t)
             /\ worker' = [worker EXCEPT ![w] = Handler("pend", None, t, 0, None)]
          \/ /\ State(t) = "absent" /\ Awaiting(t)
             /\ worker' = [worker EXCEPT ![w] = Handler("insert", None, t, 0, tenants[t].node)]
      BY <2>2 DEF QueueRead, InBatch, Begin
    <3>2. /\ State(t) # "absent" /\ Awaiting(t) => Fresh(Handler("pend", None, t, 0, None))
          /\ State(t) = "absent" /\ Awaiting(t) =>
               Fresh(Handler("insert", None, t, 0, tenants[t].node))
      BY <2>1 DEF Fresh, ReportPCs
    <3>. QED  BY <2>2, <3>1, <3>2, AgentsKeep, GoesOn DEF QueueRead, tables, disks
  <2>3. CASE RequestRead(w, t)
    <3>1. Fresh(Handler("insert", None, t, 0, tenants[t].node))
      BY <2>1, <2>3 DEF RequestRead, Fresh, ReportPCs
    <3>. QED  BY <2>3, <3>1, AgentsKeep, GoesOn DEF RequestRead, Begin, tables, disks
  <2>4. CASE RetryRead(w, t)
    <3>1. Fresh(Handler("retry", None, t, 0, None))
      BY <2>1, <2>4 DEF RetryRead, Fresh, ReportPCs
    <3>. QED  BY <2>4, <3>1, AgentsKeep, GoesOn DEF RetryRead, Begin, tables, disks
  <2>. QED  BY <1>2, <2>2, <2>3, <2>4
<1>3. ASSUME NEW t \in Tenants, NEW n \in Nodes, Reprovision(t, n)
      PROVE  CleanupInv'
  <2>1. tenants'[t].status = "provisioning"
    BY <1>3, <1>b DEF Reprovision, TenantRow
  <2>2. Rows(t)' /\ Data(t)'
    BY <1>3, <1>b, <2>1 DEF Reprovision, Rows, Data, State
  <2>3. Keeps /\ \A w \in Workers : Fresh(worker[w])'
    BY <1>3, AgentsKeep, AllIdle DEF Reprovision
  <2>. QED  BY <1>3, <2>2, <2>3, OneTenant DEF Reprovision, disks, OnNode, State
<1>4. ASSUME NEW n \in Nodes, RevokeNode(n)
      PROVE  CleanupInv'
  <2>1. Keeps /\ \A w \in Workers : Fresh(worker[w])'
    BY <1>4, AgentsKeep, ByTenants DEF RevokeNode, Revoke, disks, Fresh, State, Awaiting, Trial,
       Retryable, InFlight, OnNode, Gone
  <2>. QED  BY <1>4, <2>1, NoWrite DEF RevokeNode, Revoke, disks
<1>. QED  BY <1>1, <1>2, <1>3, <1>4 DEF Cron, AdminRequest

(* A failed tenant that is provisioned again becomes ready when its node's *)
(* agent has nothing in hand, and so not this tenant's cleanup.            *)
LEMMA CleanupReprovision ==
  ASSUME Serial, TypeOK, CleanupInv, NEW t \in Tenants,
         Reprovisioned(t) \/ ReprovisionFails(t)
  PROVE  CleanupInv'
<1>. DEFINE n == tenants[t].node
<1>b. /\ tenants \in [Tenants -> TenantRow]
      /\ databases \in [Homes -> 0..MaxBuilds]
      /\ Rows(t) /\ Data(t)
  BY ByTenants DEF TypeOK
<1>1. State(t) = "failed" /\ jobs' = jobs
  BY <1>b DEF Reprovisioned, ReprovisionFails, Rows
<1>2. Keeps /\ \A w \in Workers : Fresh(worker[w])'
  BY AgentsKeep, AllIdle DEF Reprovisioned, ReprovisionFails
<1>3. \A u \in Tenants \ {t} : tenants'[u] = tenants[u]
  BY <1>b DEF Reprovisioned, ReprovisionFails
<1>4. \A u \in Tenants, m \in Nodes :
        databases'[<<u, m>>] = databases[<<u, m>>] \/ (u = t /\ m = n /\ agents[n] = IdleAgent)
  BY <1>b DEF Reprovisioned, ReprovisionFails, Homes
<1>5. IdleAgent.job = None
  BY DEF IdleAgent
<1>6. CASE Reprovisioned(t)
  <2>1. n \in Nodes
    BY <1>6 DEF Reprovisioned, ActiveNodes
  <2>2. databases'[<<t, n>>] # 0
    BY <1>6, <1>b, <2>1 DEF Reprovisioned, Marked, Homes, TenantRow
  <2>3. tenants'[t].status = "ready" /\ tenants'[t].node = n
    BY <1>6, <1>b DEF Reprovisioned, ReadyTenant
  <2>4. Rows(t)' /\ Data(t)'
    BY <1>1, <1>5, <1>6, <1>b, <2>1, <2>2, <2>3, DecommissionAssumption
       DEF Reprovisioned, Rows, Data, State, Gone
  <2>. QED  BY <1>1, <1>2, <1>3, <1>4, <1>5, <2>4, OneTenant, DecommissionAssumption DEF OnNode, State
<1>7. CASE ReprovisionFails(t)
  <2>1. tenants'[t].status = "failed"
    BY <1>7, <1>b, TenantWrites DEF ReprovisionFails
  <2>2. Rows(t)' /\ Data(t)'
    BY <1>1, <1>b, <2>1 DEF Rows, Data, State
  <2>. QED  BY <1>1, <1>2, <1>3, <1>4, <1>5, <2>2, OneTenant, DecommissionAssumption DEF OnNode, State
<1>. QED  BY <1>6, <1>7

(* The writes of the cron and of the admin meet the rows they have read. *)
LEMMA CleanupWrite ==
  ASSUME Serial, TypeOK, CleanupInv, NEW w \in Workers, WriteStep(w)
  PROVE  CleanupInv'
<1>a. worker[w] \in Local /\ Fresh(worker[w])
  BY ByTenants DEF TypeOK
<1>0. PICK t \in Tenants : t = worker[w].job
  BY WorkerJob DEF WriteStep, InsertJob, MarkPending, RetryCommit, At, WritePCs
<1>b. /\ jobs \in [Tenants -> JobRow] /\ tenants \in [Tenants -> TenantRow]
      /\ jobs[t] \in JobRow /\ tenants[t] \in TenantRow
      /\ Rows(t) /\ Data(t)
  BY <1>0, ByTenants DEF TypeOK
<1>1. /\ Keeps /\ \A v \in Workers : Fresh(worker[v])'
      /\ UNCHANGED databases
  BY AgentsKeep, AllIdle DEF WriteStep, InsertJob, MarkPending, RetryCommit, disks
<1>2. \A u \in Tenants \ {t} : jobs'[u] = jobs[u] /\ tenants'[u] = tenants[u]
  BY <1>0, <1>b DEF WriteStep, InsertJob, MarkPending, RetryCommit
<1>3. ASSUME Rows(t)', tenants'[t].status = "suspended",
             State(t) # "absent" => jobs'[t].node = jobs[t].node /\ State(t)' # "absent"
      PROVE  CleanupInv'
  <2>1. Data(t)'
    BY <1>3 DEF Data
  <2>2. \A n : OnNode(t, n) => OnNode(t, n)'
    BY <1>3 DEF OnNode
  <2>. QED  BY <1>0, <1>1, <1>2, <1>3, <2>1, <2>2, OneTenant
<1>4. CASE InsertJob(w)
  <2>1. /\ State(t) = "absent"
        /\ Awaiting(t) \/ (tenants[t].status = "ready" /\ ~Trial(t))
    BY <1>4, <1>0, <1>a DEF InsertJob, At, Fresh
  <2>2. worker[w].want \in Nodes
    BY <1>4, <1>0, <1>a DEF InsertJob, At, Local, Assigned
  <2>3. tenants'[t] = Suspended(tenants[t])
    BY <1>4, <1>0, <1>b, <2>1 DEF InsertJob
  <2>4. jobs'[t] = [state |-> "queued", node |-> worker[w].want, build |-> tenants[t].build]
    BY <1>4, <1>0, <1>b, <2>1 DEF InsertJob
  <2>5. /\ Suspended(tenants[t]).status = "suspended"
        /\ Suspended(tenants[t]).kind = tenants[t].kind
        /\ Trial(t) => Suspended(tenants[t]).trial = "cleanup_pending"
    BY <1>b, <2>1 DEF Suspended, Pending, Awaiting, Trial, TenantRow
  <2>6. Rows(t)'
    BY <2>2, <2>3, <2>4, <2>5 DEF Rows, State, Trial
  <2>. QED  BY <1>3, <2>1, <2>3, <2>5, <2>6
<1>5. CASE MarkPending(w)
  <2>1. State(t) # "absent" /\ Awaiting(t)
    BY <1>5, <1>0, <1>a DEF MarkPending, At, Fresh
  <2>2. tenants'[t] = Pending(tenants[t]) /\ jobs' = jobs
    BY <1>5, <1>0, <1>b DEF MarkPending
  <2>3. /\ Pending(tenants[t]).status = "suspended"
        /\ Pending(tenants[t]).kind = tenants[t].kind
        /\ Pending(tenants[t]).trial = "cleanup_pending"
    BY <1>b, <2>1 DEF Pending, Awaiting, TenantRow
  <2>4. Rows(t)'
    BY <1>b, <2>1, <2>2, <2>3 DEF Rows, State, Trial, Awaiting
  <2>. QED  BY <1>3, <2>2, <2>3, <2>4 DEF State
<1>6. CASE RetryCommit(w)
  <2>1. Retryable(t)
    BY <1>6, <1>0, <1>a DEF RetryCommit, At, Fresh
  <2>2. tenants'[t] = Resuspended(tenants[t]) /\ jobs'[t] = Requeued(jobs[t])
    BY <1>6, <1>0, <1>b DEF RetryCommit
  <2>3. Requeued(jobs[t]).state = "queued" /\ Requeued(jobs[t]).node = jobs[t].node
    BY <1>b, <2>1 DEF Retryable, State, Requeued, JobRow
  <2>4. /\ Resuspended(tenants[t]).status = "suspended"
        /\ Resuspended(tenants[t]).kind = tenants[t].kind
        /\ Trial(t) => Resuspended(tenants[t]).trial = "cleanup_pending"
    <3>1. CASE tenants[t].kind = "test"
      BY <1>b, <2>1, <3>1 DEF Retryable, Resuspended, Trial, TenantRow
    <3>2. CASE tenants[t].kind = "trial"
      BY <1>b, <2>1, <3>2 DEF Retryable, Resuspended, Trial, TenantRow
    <3>. QED  BY <1>b, <3>1, <3>2 DEF TenantRow, Kinds
  <2>5. Rows(t)'
    BY <1>b, <2>1, <2>2, <2>3, <2>4 DEF Rows, State, Trial, Retryable
  <2>. QED  BY <1>3, <2>2, <2>3, <2>4, <2>5 DEF State
<1>. QED  BY <1>4, <1>5, <1>6 DEF WriteStep

(* A claim: what it expires is in flight, and its tenant suspended; what it*)
(* dispatches is still queued.                                             *)
LEMMA CleanupClaim ==
  ASSUME Serial, TypeOK, CleanupInv, NEW w \in Workers, ClaimStep(w)
  PROVE  CleanupInv'
<1>. DEFINE t == worker[w].job
            l == worker[w]
<1>a. l \in Local /\ Fresh(l)
  BY ByTenants DEF TypeOK
<1>b. /\ jobs \in [Tenants -> JobRow] /\ tenants \in [Tenants -> TenantRow]
      /\ worker \in [Workers -> Local] /\ agents \in [Nodes -> Agent]
      /\ \A u \in Tenants : Rows(u) /\ Data(u)
  BY ByTenants DEF TypeOK
<1>1. ASSUME NEW u \in Tenants, ExpireLease(w, u)
      PROVE  CleanupInv'
  <2>0. InFlight(u) /\ l.pc = "expire" /\ jobs[u] \in JobRow /\ tenants[u] \in TenantRow
    BY <1>1, <1>a, <1>b DEF ExpireLease, At, Fresh
  <2>1. jobs'[u] = FailedIfInFlight(jobs[u])
    BY <1>1, <1>b DEF ExpireLease
  <2>2. jobs'[u].state = "failed" /\ jobs'[u].node = jobs[u].node
    BY <2>0, <2>1 DEF FailedIfInFlight, InFlight, State, JobRow
  <2>3. tenants'[u].status = "failed"
    BY <1>1, <1>b, <2>0, TenantWrites DEF ExpireLease, TenantRow
  <2>4. Rows(u)' /\ Data(u)'
    BY <1>b, <2>0, <2>2, <2>3 DEF Rows, Data, State, InFlight
  <2>5. \A v \in Workers : Fresh(worker[v])'
    <3>1. \A v \in Workers : worker'[v] = [l EXCEPT !.work = @ \ {u}]
      BY <1>1, <1>b DEF ExpireLease, Serial
    <3>2. \A v \in Workers : worker'[v].pc = "expire" /\ worker'[v].work = l.work \ {u}
      BY <1>a, <2>0, <3>1 DEF Local
    <3>3. \A k \in l.work \ {u} : InFlight(k)'
      BY <1>1, <1>a, <1>b, <2>0 DEF ExpireLease, Fresh, InFlight, State, Local
    <3>. QED  BY <3>2, <3>3 DEF Fresh, ReportPCs
  <2>6. Keeps
    BY <1>1, AgentsKeep DEF ExpireLease
  <2>7. \A k \in Tenants \ {u} : jobs'[k] = jobs[k] /\ tenants'[k] = tenants[k]
    BY <1>1, <1>b DEF ExpireLease
  <2>. QED  BY <1>1, <2>0, <2>2, <2>4, <2>5, <2>6, <2>7, OneTenant DEF ExpireLease, disks, OnNode, State
<1>2. ASSUME NEW u \in Tenants, TakeLease(w, u)
      PROVE  CleanupInv'
  <2>. DEFINE m == [l EXCEPT !.pc = "source", !.job = u, !.token = tokens + 1]
  <2>1. m.pc = "source" /\ m.job = u /\ m.node = l.node
    BY <1>a DEF Local
  <2>2. OnNode(u, l.node)
    BY <1>2 DEF TakeLease, Unleased, OnNode
  <2>3. Fresh(m)
    BY <2>1, <2>2 DEF Fresh, ReportPCs
  <2>. QED  BY <1>2, <2>3, AgentsKeep, GoesOn DEF TakeLease, Lease, disks
<1>3. CASE NextHandler(w)
  <2>. DEFINE m == [l EXCEPT !.pc = "expire", !.want = "test", !.work = Expired("test", l.node)]
  <2>1. m.pc = "expire" /\ m.work = Expired("test", l.node)
    BY <1>a DEF Local
  <2>2. Fresh(m)
    BY <2>1 DEF Fresh, Expired, ReportPCs
  <2>. QED  BY <1>3, <2>2, AgentsKeep, GoesOn DEF NextHandler, tables, disks
<1>4. CASE TakeNothing(w)
  <2>1. Keeps
    BY <1>4, AgentsKeep DEF TakeNothing
  <2>2. CASE l.want = "trial"
    <3>1. [l EXCEPT !.pc = "next"].pc = "next"
      BY <1>a DEF Local
    <3>2. Fresh([l EXCEPT !.pc = "next"])
      BY <3>1 DEF Fresh, ReportPCs
    <3>. QED  BY <1>4, <2>1, <2>2, <3>2, GoesOn DEF TakeNothing, Goto, tables, disks
  <2>3. CASE l.want # "trial"
    BY <1>4, <2>1, <2>3, Ends DEF TakeNothing, tables, disks
  <2>. QED  BY <2>2, <2>3
<1>5. CASE ReadSource(w)
  <2>. DEFINE m == [l EXCEPT !.pc = IF Served(l.want, t) THEN "dispatch" ELSE "withdraw"]
  <2>1. /\ m.job = t /\ m.node = l.node
        /\ m.pc = IF Served(l.want, t) THEN "dispatch" ELSE "withdraw"
    BY <1>a DEF Local
  <2>2. OnNode(t, l.node)
    BY <1>5, <1>a DEF ReadSource, At, Fresh
  <2>3. Fresh(m)
    BY <2>1, <2>2 DEF Fresh, Served, ReportPCs
  <2>. QED  BY <1>5, <2>3, AgentsKeep, GoesOn DEF ReadSource, Goto, tables, disks
<1>6. CASE Withdraw(w)
  BY <1>6, AgentsKeep, Ends DEF Withdraw, disks
<1>7. CASE Dispatch(w)
  <2>t. PICK u \in Tenants, m \in Nodes : u = l.job /\ m = l.node
    BY <1>7, <1>a DEF Dispatch, At, Local, Assigned, ClaimPCs
  <2>0. jobs[u] \in JobRow /\ State(u) = "queued" /\ OnNode(u, m)
    BY <1>7, <1>a, <1>b, <2>t DEF Dispatch, At, Fresh
  <2>1. jobs'[u].state = "dispatched" /\ jobs'[u].node = jobs[u].node
    BY <1>7, <1>b, <2>t, <2>0 DEF Dispatch, Dispatched, State, JobRow
  <2>2. \A v \in Tenants \ {u} : jobs'[v] = jobs[v]
    BY <1>7, <1>b, <2>t DEF Dispatch
  <2>3. UNCHANGED <<tenants, databases>>
    BY <1>7 DEF Dispatch, disks
  <2>4. \A n \in Nodes : \/ agents'[n] = agents[n]
                         \/ /\ n = m
                            /\ agents'[n].job = u /\ agents'[n].result # "cleaned"
    BY <1>7, <1>b, <2>t, DecommissionAssumption DEF Dispatch, Deliver, AwaitedBy, Claimant
  <2>5. ASSUME NEW v \in Tenants PROVE Rows(v)' /\ Data(v)'
    <3>1. Rows(v)'
      <4>1. Rows(v)
        BY <1>b
      <4>2. CASE v = u
        BY <2>0, <2>1, <2>3, <4>1, <4>2 DEF Rows, State, Trial
      <4>3. CASE v # u
        BY <2>2, <2>3, <4>1, <4>3 DEF Rows, State, Trial
      <4>. QED  BY <4>2, <4>3
    <3>2. tenants[u].status = "suspended"
      BY <1>b, <2>0 DEF Rows
    <3>3. CASE v = u
      BY <2>3, <3>1, <3>2, <3>3 DEF Data
    <3>4. CASE v # u
      <4>1. tenants[v].status = "ready" => tenants[v].node \in Nodes
        BY <1>b DEF Rows
      <4>. QED  BY <1>b, <2>2, <2>3, <2>4, <3>1, <3>4, <4>1 DEF Data, Gone
    <3>. QED  BY <3>1, <3>3, <3>4
  <2>6. ASSUME NEW n \in Nodes PROVE InHand(agents[n], n)'
    <3>1. InHand(agents[n], n)
      BY ByTenants
    <3>2. \A v \in Tenants : OnNode(v, n) => OnNode(v, n)'
      BY <2>0, <2>1, <2>2 DEF OnNode, State
    <3>3. OnNode(u, m)'
      BY <2>0, <2>1 DEF OnNode, State
    <3>. QED  BY <2>3, <2>4, <3>1, <3>2, <3>3 DEF InHand, Gone
  <2>7. \A v \in Workers : Fresh(worker[v])'
    BY <1>7, AllIdle DEF Dispatch
  <2>. QED  BY <2>5, <2>6, <2>7, ByTenants
<1>. QED  BY <1>1, <1>2, <1>3, <1>4, <1>5, <1>6, <1>7 DEF ClaimStep

(* A report writes to a cleanup in flight, whose tenant is suspended; one  *)
(* of "cleaned" comes when the node has no database of the tenant.         *)
LEMMA CleanupReport ==
  ASSUME Serial, TypeOK, CleanupInv, NEW w \in Workers, ReportStep(w)
  PROVE  CleanupInv'
<1>. DEFINE l == worker[w]
<1>a. l \in Local /\ Fresh(l)
  BY ByTenants DEF TypeOK
<1>1. CASE CheckLease(w)
  <2>1. l.pc = "lease"
    BY <1>1 DEF CheckLease, At
  <2>2. CASE Reject(w)
    BY <1>1, <2>2, AgentsKeep, Ends DEF CheckLease, Reject, tables, disks
  <2>3. CASE Goto(w, "state") /\ UNCHANGED agents
    <3>. DEFINE m == [l EXCEPT !.pc = "state"]
    <3>1. m.pc = "state" /\ m.job = l.job /\ m.node = l.node /\ m.want = l.want
      BY <1>a DEF Local
    <3>2. Fresh(m)
      BY <1>a, <2>1, <3>1 DEF Fresh, ReportPCs
    <3>. QED  BY <1>1, <2>3, <3>2, AgentsKeep, GoesOn DEF CheckLease, Goto, tables, disks
  <2>. QED  BY <1>1, <2>2, <2>3 DEF CheckLease
<1>2. CASE CheckState(w)
  <2>. DEFINE s == State(l.job)
              renewal == s = "running" /\ l.want = "running"
  <2>1. l.pc = "state"
    BY <1>2 DEF CheckState, At
  <2>2. CASE Reject(w)
    BY <1>2, <2>2, AgentsKeep, Ends DEF CheckState, Reject, tables, disks
  <2>3. CASE renewal /\ Goto(w, "renew") /\ UNCHANGED agents
    <3>. DEFINE m == [l EXCEPT !.pc = "renew"]
    <3>1. m.pc = "renew" /\ m.job = l.job /\ m.node = l.node /\ m.want = l.want
      BY <1>a DEF Local
    <3>2. Fresh(m)
      BY <1>a, <2>1, <3>1 DEF Fresh, ReportPCs
    <3>. QED  BY <1>2, <2>3, <3>2, AgentsKeep, GoesOn DEF CheckState, Goto, tables, disks
  <2>4. CASE s \in Precursors[l.want] /\ Goto(w, "commit") /\ UNCHANGED agents
    <3>. DEFINE m == [l EXCEPT !.pc = "commit"]
    <3>1. m.pc = "commit" /\ m.job = l.job /\ m.node = l.node /\ m.want = l.want
      BY <1>a DEF Local
    <3>2. Fresh(m)
      BY <1>a, <2>1, <2>4, <3>1 DEF Fresh, ReportPCs
    <3>. QED  BY <1>2, <2>4, <3>2, AgentsKeep, GoesOn DEF CheckState, Goto, tables, disks
  <2>. QED  BY <1>2, <2>2, <2>3, <2>4 DEF CheckState
<1>3. CASE RenewLease(w)
  BY <1>3, AgentsKeep, Ends DEF RenewLease, Accept, disks
<1>4. CASE CommitReport(w)
  <2>1. PICK t \in Tenants : t = l.job
    BY <1>4, <1>a DEF CommitReport, At, Local, Assigned, ReportPCs
  <2>2. PICK r \in {"running", "cleaned", "failed"} : r = l.want
    BY <1>4, <1>a DEF CommitReport, At, Local, Assigned, ReportPCs, Results
  <2>b. /\ jobs \in [Tenants -> JobRow] /\ tenants \in [Tenants -> TenantRow]
        /\ jobs[t] \in JobRow /\ tenants[t] \in TenantRow
        /\ Rows(t) /\ Data(t)
    BY ByTenants DEF TypeOK
  <2>3. /\ State(t) \in Precursors[r]
        /\ OnNode(t, l.node)
        /\ r = "cleaned" => Gone(t, l.node)
    BY <1>4, <1>a, <2>1, <2>2 DEF CommitReport, At, Fresh, ReportPCs
  <2>4. State(t) \in {"dispatched", "running"} /\ tenants[t].status = "suspended"
    <3>1. State(t) \in {"dispatched", "running"}
      BY <2>3 DEF Precursors
    <3>. QED  BY <2>b, <3>1 DEF Rows
  <2>5. jobs'[t].state = r /\ jobs'[t].node = jobs[t].node /\ tenants'[t] = Outcome(tenants[t], r)
    BY <1>4, <2>1, <2>2, <2>b DEF CommitReport, JobRow
  <2>6. \A u \in Tenants \ {t} : jobs'[u] = jobs[u] /\ tenants'[u] = tenants[u]
    BY <1>4, <2>1, <2>b DEF CommitReport
  <2>7. UNCHANGED databases /\ Keeps /\ \A v \in Workers : Fresh(worker[v])'
    BY <1>4, AgentsKeep, AllIdle DEF CommitReport, Accept, disks
  <2>8. Rows(t)' /\ Data(t)'
    <3>1. CASE r = "running"
      BY <2>b, <2>4, <2>5, <3>1 DEF Rows, Data, State, Trial, Outcome
    <3>2. CASE r = "failed"
      <4>1. Outcome(tenants[t], r) = Failing(tenants[t])
        BY <3>2 DEF Outcome
      <4>2. tenants'[t].status = "failed"
        BY <2>b, <2>5, <4>1, TenantWrites
      <4>. QED  BY <2>b, <2>4, <2>5, <3>2, <4>2 DEF Rows, Data, State
    <3>3. CASE r = "cleaned"
      <4>1. tenants'[t].status = "decommissioned"
        <5>. DEFINE row == tenants[t]
        <5>1. \A c : [row EXCEPT !.status = "decommissioned", !.node = None, !.trial = c].status
                       = "decommissioned"
          BY <2>b DEF TenantRow
        <5>2. Outcome(row, r) = [row EXCEPT !.status = "decommissioned", !.node = None,
                                            !.trial = IF row.kind = "trial" THEN "cleaned" ELSE @]
          BY <3>3 DEF Outcome
        <5>. QED  BY <2>5, <5>1, <5>2
      <4>2. databases'[<<t, jobs'[t].node>>] = 0
        BY <2>3, <2>5, <2>7, <3>3 DEF OnNode, Gone
      <4>3. State(t)' = "cleaned" /\ jobs'[t].node \in Nodes
        BY <2>b, <2>4, <2>5, <3>3 DEF Rows, State
      <4>. QED  BY <4>1, <4>2, <4>3 DEF Rows, Data, Gone
    <3>. QED  BY <3>1, <3>2, <3>3
  <2>9. \A n : OnNode(t, n) => OnNode(t, n)'
    BY <2>5 DEF OnNode, State
  <2>. QED  BY <2>6, <2>7, <2>8, <2>9, OneTenant
<1>. QED  BY <1>1, <1>2, <1>3, <1>4 DEF ReportStep

(* Polls, reports, faults and lapses write no table.  An engine drops the  *)
(* database of what it has in hand, which is no ready tenant's.            *)
LEMMA CleanupAgent ==
  ASSUME Serial, TypeOK, CleanupInv,
         \/ \E n \in Nodes : AgentRequest(n) \/ AgentFault(n)
         \/ \E n \in Nodes, r \in Results : ExecutorReturns(n, r)
         \/ \E t \in Tenants : LeaseLapses(t)
         \/ \E w \in Workers : WorkerFails(w)
         \/ UNCHANGED vars
  PROVE  CleanupInv'
<1>b. /\ agents \in [Nodes -> Agent] /\ worker \in [Workers -> Local]
      /\ databases \in [Homes -> 0..MaxBuilds]
      /\ \A t \in Tenants : Rows(t) /\ Data(t)
      /\ \A n \in Nodes : InHand(agents[n], n)
      /\ \A w \in Workers : Fresh(worker[w])
  BY ByTenants DEF TypeOK
<1>1. ASSUME NEW n \in Nodes, NEW w \in Workers, Poll(w, n)
      PROVE  CleanupInv'
  <2>. DEFINE l == [Handler("expire", n, None, 0, "trial") EXCEPT !.work = Expired("trial", n)]
  <2>1. l.pc = "expire" /\ l.work = Expired("trial", n)
    BY DEF Handler
  <2>2. Fresh(l)
    BY <2>1 DEF Fresh, Expired, ReportPCs
  <2>3. Keeps
    BY <1>1, <1>b DEF Poll, Request, Agent, Keeps
  <2>. QED  BY <1>1, <2>2, <2>3, GoesOn DEF Poll, Request, Begin, disks
<1>2. ASSUME NEW n \in Nodes, NEW w \in Workers, SendReport(w, n)
      PROVE  CleanupInv'
  <2>. DEFINE a == agents[n]
              l == Handler("lease", n, a.job, a.token, Reported(a))
  <2>1. a.job \in Tenants /\ (Reported(a) = "cleaned" => a.result = "cleaned")
    BY <1>2, <1>b DEF SendReport, Report, Reported, Agent
  <2>2. OnNode(a.job, n) /\ (Reported(a) = "cleaned" => Gone(a.job, n))
    BY <1>b, <2>1 DEF InHand
  <2>3. Fresh(l)
    BY <2>2 DEF Fresh, Handler, ReportPCs
  <2>4. Keeps
    BY <1>2, <1>b DEF SendReport, Report, Agent, Keeps
  <2>. QED  BY <1>2, <2>3, <2>4, GoesOn DEF SendReport, Report, Begin, disks
<1>3. ASSUME UNCHANGED <<jobs, tenants, databases, worker>>, Keeps
      PROVE  CleanupInv'
  BY <1>3, <1>b, NoWrite DEF Fresh, State, Awaiting, Trial, Retryable, InFlight, OnNode, Gone
<1>4. ASSUME NEW n \in Nodes, AgentFault(n)
      PROVE  CleanupInv'
  <2>1. IdleAgent.job = None
    BY DEF IdleAgent
  <2>2. \/ AfterReject(agents[n]) = IdleAgent
        \/ /\ AfterReject(agents[n]).job = agents[n].job
           /\ AfterReject(agents[n]).result = agents[n].result
    BY <1>b DEF AfterReject, Agent
  <2>3. Keeps
    BY <1>4, <1>b, <2>1, <2>2 DEF AgentFault, ReplyLost, LoseReply, AgentRestarts, Restart, Keeps
  <2>. QED  BY <1>3, <1>4, <2>3 DEF AgentFault, ReplyLost, LoseReply, AgentRestarts, Restart, disks
<1>5. ASSUME NEW n \in Nodes, NEW r \in Results, ExecutorReturns(n, r)
      PROVE  CleanupInv'
  <2>1. PICK t \in Tenants : t = agents[n].job
    BY <1>5, <1>b DEF ExecutorReturns, Agent
  <2>2. OnNode(t, n)
    BY <1>b, <2>1 DEF InHand
  <2>3. /\ UNCHANGED <<jobs, tenants, worker>>
        /\ \A m \in Nodes : agents'[m].job = agents[m].job
        /\ \A m \in Nodes \ {n} : agents'[m] = agents[m]
    BY <1>5, <1>b DEF ExecutorReturns, Return, Agent
  <2>4. /\ r = "cleaned" => Gone(t, n)'
        /\ \A u \in Tenants, m \in Nodes :
             databases'[<<u, m>>] = databases[<<u, m>>]
               \/ (u = t /\ m = n /\ databases'[<<u, m>>] = 0)
    BY <1>5, <1>b, <2>1 DEF ExecutorReturns, Homes, Gone
  <2>5. ASSUME NEW u \in Tenants PROVE Rows(u)' /\ Data(u)'
    <3>1. Rows(u) /\ Data(u)
      BY <1>b
    <3>2. Rows(u)'
      BY <2>3, <3>1 DEF Rows, State, Trial
    <3>3. tenants[u].status = "ready" => ~(u = t /\ tenants[u].node = n)
      BY <2>1, <3>1 DEF Data
    <3>4. tenants[u].status = "ready" => tenants[u].node \in Nodes
      BY <3>1 DEF Rows
    <3>5. tenants[u].status = "decommissioned" => jobs[u].node \in Nodes
      BY <3>1 DEF Rows
    <3>. QED  BY <2>3, <2>4, <3>1, <3>2, <3>3, <3>4, <3>5 DEF Data, Gone
  <2>6. ASSUME NEW m \in Nodes PROVE InHand(agents[m], m)'
    <3>1. InHand(agents[m], m)
      BY <1>b
    <3>2. CASE m = n
      <4>1. agents'[n].result = r
        BY <1>5, <1>b DEF ExecutorReturns, Return, Agent
      <4>. QED  BY <2>1, <2>2, <2>3, <2>4, <3>2, <4>1 DEF InHand, OnNode, State, Gone
    <3>3. CASE m # n
      BY <2>3, <2>4, <3>1, <3>3 DEF InHand, OnNode, State, Gone
    <3>. QED  BY <3>2, <3>3
  <2>7. ASSUME NEW v \in Workers PROVE Fresh(worker[v])'
    <3>1. worker[v] \in Local /\ Fresh(worker[v]) /\ worker'[v] = worker[v]
      BY <1>b, <2>3
    <3>2. /\ worker[v].pc \in ReportPCs => worker[v].job \in Tenants /\ worker[v].node \in Nodes
      BY <3>1 DEF Local, Assigned
    <3>3. worker[v].pc \in ReportPCs /\ worker[v].want = "cleaned"
             => Gone(worker[v].job, worker[v].node)'
      BY <2>4, <3>1, <3>2 DEF Fresh, Gone
    <3>. QED  BY <2>3, <3>1, <3>3 DEF Fresh, State, Awaiting, Trial, Retryable, InFlight, OnNode
  <2>. QED  BY <2>5, <2>6, <2>7, ByTenants
<1>6. ASSUME NEW t \in Tenants, LeaseLapses(t)
      PROVE  CleanupInv'
  BY <1>3, <1>6, AgentsKeep DEF LeaseLapses, Lapse, disks
<1>7. ASSUME NEW w \in Workers, WorkerFails(w)
      PROVE  CleanupInv'
  BY <1>7, AgentsKeep, Ends DEF WorkerFails, Abort, disks
<1>8. CASE UNCHANGED vars
  BY <1>3, <1>8, AgentsKeep DEF vars
<1>. QED  BY <1>1, <1>2, <1>4, <1>5, <1>6, <1>7, <1>8 DEF AgentRequest

LEMMA CleanupStart == Init => CleanupInv
<1>. SUFFICES ASSUME Init PROVE CleanupInv
  OBVIOUS
<1>1. ASSUME NEW t \in Tenants PROVE Rows(t) /\ Data(t)
  <2>1. tenants[t].status = "ready" /\ tenants[t].node \in Nodes
    BY DEF Init, ReadyTenants, ReadyTenant
  <2>2. databases[<<t, tenants[t].node>>] = 1
    BY <2>1 DEF Init, Homes
  <2>3. State(t) = "absent" /\ agents[tenants[t].node].job = None
    BY <2>1 DEF Init, State, NoJob, IdleAgent
  <2>. QED  BY <2>1, <2>2, <2>3, DecommissionAssumption DEF Rows, Data, Gone
<1>2. \A n \in Nodes : InHand(agents[n], n)
  BY DecommissionAssumption DEF Init, IdleAgent, InHand
<1>3. \A w \in Workers : Fresh(worker[w])
  BY DEF Init, Idle, Handler, Fresh, ReportPCs
<1>. QED  BY <1>1, <1>2, <1>3, ByTenants

LEMMA CleanupInvariant == Serial => (Spec => []CleanupInv)
<1>. SUFFICES ASSUME Serial PROVE Spec => []CleanupInv
  OBVIOUS
<1>1. TypeOK /\ CleanupInv /\ [Next]_vars => CleanupInv'
  BY CleanupRequest, CleanupReprovision, CleanupWrite, CleanupClaim, CleanupReport, CleanupAgent
     DEF Next, WorkerStep
<1>. QED  BY <1>1, CleanupStart, TypeCorrect, PTL DEF Spec

(* When no two invocations overlap, the tenant tells what becomes of its   *)
(* cleanup: suspended while it is open, decommissioned exactly when it is  *)
(* cleaned, failed only after it has failed.                               *)
THEOREM TenantsFollow == Serial => (Spec => []TenantFollowsCleanup)
<1>. SUFFICES ASSUME Serial PROVE Spec => []TenantFollowsCleanup
  OBVIOUS
<1>1. CleanupInv => TenantFollowsCleanup
  BY DEF CleanupInv
<1>. QED  BY <1>1, CleanupInvariant, PTL

(* Under the same hypothesis no agent, however late, drops the database of *)
(* a tenant that has been provisioned again: a ready tenant has one.       *)
THEOREM ReadyKeepsDatabase == Serial => (Spec => []ReadyHasDatabase)
<1>. SUFFICES ASSUME Serial PROVE Spec => []ReadyHasDatabase
  OBVIOUS
<1>1. CleanupInv => ReadyHasDatabase
  BY DEF CleanupInv
<1>. QED  BY <1>1, CleanupInvariant, PTL

(* Under the same hypothesis a decommissioned tenant has left no database  *)
(* on the node of its cleanup.                                             *)
THEOREM NothingLeft == Serial => (Spec => []DecommissionedIsGone)
<1>. SUFFICES ASSUME Serial PROVE Spec => []DecommissionedIsGone
  OBVIOUS
<1>1. CleanupInv => DecommissionedIsGone
  BY DEF CleanupInv
<1>. QED  BY <1>1, CleanupInvariant, PTL

(* Under the same hypothesis every change of a cleanup's state is one of   *)
(* its life cycle, and a decommissioned tenant stays so: the unguarded     *)
(* UPDATEs of reports and expiries meet the state that was read.           *)
THEOREM CleanupSteps == Serial => (Spec => CleanupStepsLegal)
<1>. SUFFICES ASSUME Serial PROVE Spec => CleanupStepsLegal
  OBVIOUS
<1>. DEFINE Legal(t) ==
              /\ jobs'[t].state # State(t) => jobs'[t].state \in Successors[State(t)]
              /\ tenants[t].status = "decommissioned" => tenants'[t].status = "decommissioned"
<1>1. ASSUME TypeOK, CleanupInv, CleanupInv', [Next]_vars, NEW t \in Tenants PROVE Legal(t)
  <2>b. /\ jobs \in [Tenants -> JobRow] /\ tenants \in [Tenants -> TenantRow]
        /\ jobs[t] \in JobRow
        /\ \A w \in Workers : worker[w] \in Local /\ Fresh(worker[w])
        /\ Rows(t) /\ Rows(t)'
    BY <1>1, ByTenants DEF TypeOK
  <2>1. jobs'[t].state # State(t) => jobs'[t].state \in Successors[State(t)]
    <3>1. ASSUME NEW w \in Workers, WriteStep(w), worker[w].job = t
          PROVE  jobs'[t].state \in {State(t)} \cup Successors[State(t)]
      <4>1. CASE InsertJob(w)
        BY <2>b, <3>1, <4>1 DEF InsertJob, At, Fresh, State, Successors
      <4>2. CASE MarkPending(w)
        BY <4>2 DEF MarkPending, State
      <4>3. CASE RetryCommit(w)
        BY <2>b, <3>1, <4>3 DEF RetryCommit, At, Fresh, Retryable, Requeued, State, JobRow, Successors
      <4>. QED  BY <3>1, <4>1, <4>2, <4>3 DEF WriteStep
    <3>2. ASSUME NEW w \in Workers, ExpireLease(w, t)
          PROVE  jobs'[t].state \in Successors[State(t)]
      <4>1. InFlight(t)
        BY <2>b, <3>2 DEF ExpireLease, At, Fresh
      <4>2. jobs'[t].state = "failed"
        BY <2>b, <3>2, <4>1 DEF ExpireLease, FailedIfInFlight, InFlight, State, JobRow
      <4>. QED  BY <4>1, <4>2 DEF InFlight, Successors
    <3>3. ASSUME NEW w \in Workers, Dispatch(w), worker[w].job = t
          PROVE  jobs'[t].state \in Successors[State(t)]
      BY <2>b, <3>3 DEF Dispatch, At, Fresh, Dispatched, State, JobRow, Successors
    <3>4. ASSUME NEW w \in Workers, CommitReport(w), worker[w].job = t
          PROVE  jobs'[t].state \in Successors[State(t)]
      <4>1. PICK r \in {"running", "cleaned", "failed"} : r = worker[w].want
        BY <2>b, <3>4 DEF CommitReport, At, Local, Assigned, ReportPCs, Results
      <4>2. State(t) \in Precursors[r] /\ jobs'[t].state = r
        BY <2>b, <3>4, <4>1 DEF CommitReport, At, Fresh, JobRow
      <4>. QED  BY <4>1, <4>2 DEF Precursors, Successors
    <3>5. ASSUME jobs'[t] # jobs[t]
          PROVE  \E w \in Workers : \/ WriteStep(w) /\ worker[w].job = t
                                    \/ ExpireLease(w, t)
                                    \/ Dispatch(w) /\ worker[w].job = t
                                    \/ CommitReport(w) /\ worker[w].job = t
      <4>1. ASSUME NEW w \in Workers, WriteStep(w)
            PROVE  worker[w].job = t
        BY <2>b, <3>5, <4>1 DEF WriteStep, InsertJob, MarkPending, RetryCommit
      <4>2. ASSUME NEW w \in Workers, ClaimStep(w)
            PROVE  ExpireLease(w, t) \/ (Dispatch(w) /\ worker[w].job = t)
        <5>1. ASSUME NEW u \in Tenants, ExpireLease(w, u) PROVE u = t
          BY <2>b, <3>5, <5>1 DEF ExpireLease
        <5>2. Dispatch(w) => worker[w].job = t
          BY <2>b, <3>5 DEF Dispatch
        <5>3. ~(\E u \in Tenants : TakeLease(w, u)) /\ ~NextHandler(w) /\ ~TakeNothing(w)
              /\ ~ReadSource(w) /\ ~Withdraw(w)
          BY <3>5 DEF TakeLease, NextHandler, TakeNothing, ReadSource, Withdraw, tables
        <5>. QED  BY <4>2, <5>1, <5>2, <5>3 DEF ClaimStep
      <4>3. ASSUME NEW w \in Workers, ReportStep(w)
            PROVE  CommitReport(w) /\ worker[w].job = t
        BY <2>b, <3>5, <4>3 DEF ReportStep, CheckLease, CheckState, RenewLease, CommitReport, tables
      <4>4. CASE \/ Cron \/ AdminRequest
                 \/ \E u \in Tenants : Reprovisioned(u) \/ ReprovisionFails(u) \/ LeaseLapses(u)
                 \/ \E w \in Workers : WorkerFails(w)
                 \/ \E n \in Nodes : AgentRequest(n) \/ AgentFault(n)
                 \/ \E n \in Nodes, r \in Results : ExecutorReturns(n, r)
                 \/ UNCHANGED vars
        BY <3>5, <4>4 DEF Cron, TrialExpires, QueueRead, AdminRequest, RequestRead, RetryRead,
           Reprovision, RevokeNode, Reprovisioned, ReprovisionFails, LeaseLapses, WorkerFails,
           AgentRequest, Poll, SendReport, AgentFault, ReplyLost, AgentRestarts, ExecutorReturns,
           tables, vars
      <4>. QED  BY <1>1, <4>1, <4>2, <4>3, <4>4 DEF Next, WorkerStep
    <3>. QED  BY <3>1, <3>2, <3>3, <3>4, <3>5 DEF State
  <2>2. tenants[t].status = "decommissioned" => tenants'[t].status = "decommissioned"
    <3>1. tenants[t].status = "decommissioned" => State(t) = "cleaned"
      BY <2>b DEF Rows
    <3>2. State(t) = "cleaned" => jobs'[t].state = "cleaned"
      BY <2>1 DEF Successors
    <3>3. State(t)' = "cleaned" => tenants'[t].status = "decommissioned"
      BY <2>b DEF Rows
    <3>. QED  BY <3>1, <3>2, <3>3 DEF State
  <2>. QED  BY <2>1, <2>2
<1>2. ASSUME TypeOK, CleanupInv, CleanupInv', [Next]_vars PROVE [\A t \in Tenants : Legal(t)]_vars
  BY <1>1, <1>2
<1>. QED  BY <1>2, CleanupInvariant, TypeCorrect, PTL DEF Spec, CleanupStepsLegal
-----------------------------------------------------------------------------
(* The refinement of TenantCleanup *)

(* A step about one tenant, as its operator sees it. *)
LEMMA Observed ==
  ASSUME NEW t \in Tenants,
         \A u \in Tenants : u # t => jobs'[u] = jobs[u] /\ tenants'[u] = tenants[u]
  PROVE  /\ statuses' = [statuses EXCEPT ![t] = tenants'[t].status]
         /\ hosts' = [hosts EXCEPT ![t] = tenants'[t].node]
         /\ cleanups' = [cleanups EXCEPT ![t] = jobs'[t].state]
         /\ sites' = [sites EXCEPT ![t] = jobs'[t].node]
         /\ tenants'[t].status = tenants[t].status => UNCHANGED statuses
         /\ tenants'[t].node = tenants[t].node => UNCHANGED hosts
         /\ jobs'[t].state = State(t) => UNCHANGED cleanups
         /\ jobs'[t].node = jobs[t].node => UNCHANGED sites
         /\ statuses[t] = tenants[t].status /\ hosts[t] = tenants[t].node
         /\ cleanups[t] = State(t) /\ sites[t] = jobs[t].node
<1>1. /\ statuses' = [statuses EXCEPT ![t] = tenants'[t].status]
      /\ tenants'[t].status = tenants[t].status => UNCHANGED statuses
  BY DEF statuses
<1>2. /\ hosts' = [hosts EXCEPT ![t] = tenants'[t].node]
      /\ tenants'[t].node = tenants[t].node => UNCHANGED hosts
  BY DEF hosts
<1>3. /\ cleanups' = [cleanups EXCEPT ![t] = jobs'[t].state]
      /\ jobs'[t].state = State(t) => UNCHANGED cleanups
  BY DEF cleanups, State
<1>4. /\ sites' = [sites EXCEPT ![t] = jobs'[t].node]
      /\ jobs'[t].node = jobs[t].node => UNCHANGED sites
  BY DEF sites
<1>5. /\ statuses[t] = tenants[t].status /\ hosts[t] = tenants[t].node
      /\ cleanups[t] = State(t) /\ sites[t] = jobs[t].node
  BY DEF statuses, hosts, cleanups, sites
<1>. QED  BY <1>1, <1>2, <1>3, <1>4, <1>5

(* A database is built, or dropped. *)
LEMMA Placed ==
  ASSUME TypeOK, NEW t \in Tenants, NEW n \in Nodes, NEW b,
         databases' = [databases EXCEPT ![<<t, n>>] = b]
  PROVE  /\ b # 0 => places' = places \cup {<<t, n>>}
         /\ b = 0 => places' = places \ {<<t, n>>}
BY DEF TypeOK, Homes, places

(* What the abstract specification lets an operator see. *)
Promised == [Promise!Next]_(Promise!vars)

LEMMA Unseen == UNCHANGED <<jobs, tenants, databases>> => Promised
<1>. SUFFICES ASSUME UNCHANGED <<jobs, tenants, databases>> PROVE UNCHANGED Promise!vars
  BY DEF Promised
<1>1. statuses' = statuses /\ hosts' = hosts
  BY DEF statuses, hosts
<1>2. cleanups' = cleanups /\ sites' = sites
  BY DEF cleanups, sites, State
<1>3. places' = places
  BY DEF places
<1>. QED  BY <1>1, <1>2, <1>3 DEF Promise!vars

(* The time of a trial is up; a failed tenant is provisioned again.        *)
LEMMA TenantPromised ==
  ASSUME TypeOK, CleanupInv,
         NEW t \in Tenants,
         \/ TrialExpires(t) \/ Reprovisioned(t) \/ ReprovisionFails(t)
         \/ \E n \in Nodes : Reprovision(t, n)
  PROVE  Promised
<1>b. /\ tenants \in [Tenants -> TenantRow] /\ tenants[t] \in TenantRow
      /\ databases \in [Homes -> 0..MaxBuilds] /\ Rows(t)
  BY ByTenants DEF TypeOK
<1>1. /\ jobs' = jobs
      /\ \A u \in Tenants : u # t => jobs'[u] = jobs[u] /\ tenants'[u] = tenants[u]
  <2>1. jobs' = jobs /\ \E row : tenants' = [tenants EXCEPT ![t] = row]
    BY DEF TrialExpires, Reprovisioned, ReprovisionFails, Reprovision
  <2>. QED  BY <1>b, <2>1
<1>2. CASE TrialExpires(t)
  <2>1. /\ tenants[t].status = "ready" /\ tenants'[t].status = "suspended"
        /\ tenants'[t].node = tenants[t].node /\ UNCHANGED databases
    BY <1>2, <1>b DEF TrialExpires, TenantRow, disks
  <2>2. UNCHANGED places
    BY <2>1 DEF places
  <2>3. Promise!Suspend(t)
    BY <1>1, <2>1, <2>2, Observed DEF Promise!Suspend, State
  <2>. QED  BY <2>3 DEF Promised, Promise!Next
<1>3. ASSUME NEW n \in Nodes, Reprovision(t, n)
      PROVE  Promised
  <2>1. /\ tenants[t].status = "failed" /\ tenants'[t].status = "provisioning"
        /\ tenants'[t].node = n /\ UNCHANGED databases
    BY <1>3, <1>b DEF Reprovision, TenantRow, disks
  <2>2. UNCHANGED places
    BY <2>1 DEF places
  <2>3. Promise!Revive(t, n)
    BY <1>1, <2>1, <2>2, Observed DEF Promise!Revive, State
  <2>. QED  BY <2>3 DEF Promised, Promise!Next
<1>4. ASSUME NEW n \in Nodes, n = tenants[t].node, Reprovisioned(t)
      PROVE  Promised
  <2>1. /\ tenants[t].status = "provisioning" /\ tenants'[t].status = "ready"
        /\ tenants'[t].node = n
    BY <1>4, <1>b DEF Reprovisioned, ReadyTenant
  <2>2. databases' = [databases EXCEPT ![<<t, n>>] = Marked(t, n)] /\ Marked(t, n) # 0
    BY <1>4, <1>b DEF Reprovisioned, Marked, TenantRow
  <2>3. places' = places \cup {<<t, n>>}
    BY <2>2, Placed
  <2>4. Promise!Revived(t)
    BY <1>1, <1>4, <2>1, <2>3, Observed DEF Promise!Revived, State
  <2>. QED  BY <2>4 DEF Promised, Promise!Next
<1>5. CASE ReprovisionFails(t)
  <2>. DEFINE n == tenants[t].node
  <2>1. /\ tenants[t].status = "provisioning" /\ tenants'[t].status = "failed"
        /\ tenants'[t].node = n
    BY <1>5, <1>b DEF ReprovisionFails, Failing, TenantRow
  <2>2. places' \in {places, places \cup {<<t, n>>}}
    <3>1. CASE UNCHANGED databases
      BY <3>1 DEF places
    <3>2. CASE databases' = [databases EXCEPT ![<<t, n>>] = Marked(t, n)]
      <4>1. CASE n \in Nodes
        <5>1. Marked(t, n) # 0
          BY <1>b DEF Marked, TenantRow
        <5>. QED  BY <3>2, <4>1, <5>1, Placed
      <4>2. CASE n \notin Nodes
        BY <3>2, <4>2, <1>b DEF Homes, places
      <4>. QED  BY <4>1, <4>2
    <3>. QED  BY <1>5, <3>1, <3>2 DEF ReprovisionFails
  <2>3. Promise!Revived(t)
    BY <1>1, <2>1, <2>2, Observed DEF Promise!Revived, State
  <2>. QED  BY <2>3 DEF Promised, Promise!Next
<1>6. Reprovisioned(t) => tenants[t].node \in Nodes
  BY DEF Reprovisioned, ActiveNodes
<1>. QED  BY <1>2, <1>3, <1>4, <1>5, <1>6

(* The writes that queue a cleanup: where the tenant is, and stays.        *)
LEMMA WritePromised ==
  ASSUME TypeOK, CleanupInv, NEW w \in Workers, WriteStep(w)
  PROVE  Promised
<1>a. worker[w] \in Local /\ Fresh(worker[w])
  BY ByTenants DEF TypeOK
<1>0. PICK t \in Tenants : t = worker[w].job
  BY WorkerJob DEF WriteStep, InsertJob, MarkPending, RetryCommit, At, WritePCs
<1>b. /\ jobs \in [Tenants -> JobRow] /\ tenants \in [Tenants -> TenantRow]
      /\ jobs[t] \in JobRow /\ tenants[t] \in TenantRow
  BY <1>0 DEF TypeOK
<1>1. /\ \A u \in Tenants : u # t => jobs'[u] = jobs[u] /\ tenants'[u] = tenants[u]
      /\ UNCHANGED places
  BY <1>0, <1>b DEF WriteStep, InsertJob, MarkPending, RetryCommit, disks, places
<1>2. CASE InsertJob(w)
  <2>1. /\ State(t) = "absent" /\ tenants[t].node = worker[w].want
        /\ Awaiting(t) \/ (tenants[t].status = "ready" /\ ~Trial(t))
    BY <1>2, <1>0, <1>a DEF InsertJob, At, Fresh
  <2>2. jobs'[t].state = "queued" /\ jobs'[t].node = tenants[t].node
        /\ tenants'[t] = Suspended(tenants[t])
    BY <1>2, <1>0, <1>b, <2>1 DEF InsertJob
  <2>3. tenants'[t].status = "suspended" /\ tenants'[t].node = tenants[t].node
    BY <1>b, <2>1, <2>2 DEF Suspended, Pending, Awaiting, Trial, TenantRow
  <2>4. Promise!Queue(t)
    BY <1>1, <2>1, <2>2, <2>3, Observed DEF Promise!Queue, Awaiting
  <2>. QED  BY <2>4 DEF Promised, Promise!Next
<1>3. CASE MarkPending(w)
  <2>1. jobs' = jobs /\ tenants'[t] = Pending(tenants[t])
    BY <1>3, <1>0, <1>b DEF MarkPending
  <2>2. tenants'[t].status = tenants[t].status /\ tenants'[t].node = tenants[t].node
    BY <1>b, <2>1 DEF Pending, TenantRow
  <2>. QED  BY <1>1, <2>1, <2>2, Observed DEF Promised, Promise!vars, State
<1>4. CASE RetryCommit(w)
  <2>1. Retryable(t)
    BY <1>4, <1>0, <1>a DEF RetryCommit, At, Fresh
  <2>2. tenants'[t] = Resuspended(tenants[t]) /\ jobs'[t] = Requeued(jobs[t])
    BY <1>4, <1>0, <1>b DEF RetryCommit
  <2>3. jobs'[t].state = "queued" /\ jobs'[t].node = jobs[t].node
    BY <1>b, <2>1, <2>2 DEF Retryable, State, Requeued, JobRow
  <2>4. tenants'[t].status = "suspended" /\ tenants'[t].node = tenants[t].node
    <3>1. CASE tenants[t].kind = "test"
      BY <1>b, <2>1, <2>2, <3>1 DEF Retryable, Resuspended, TenantRow
    <3>2. CASE tenants[t].kind = "trial"
      BY <1>b, <2>1, <2>2, <3>2 DEF Retryable, Resuspended, Trial, TenantRow
    <3>. QED  BY <1>b, <3>1, <3>2 DEF TenantRow, Kinds
  <2>5. Promise!Queue(t)
    BY <1>1, <2>1, <2>3, <2>4, Observed DEF Promise!Queue, Retryable
  <2>. QED  BY <2>5 DEF Promised, Promise!Next
<1>. QED  BY <1>2, <1>3, <1>4 DEF WriteStep

(* A claim fails what has expired in flight, and dispatches what it serves.*)
LEMMA ClaimPromised ==
  ASSUME TypeOK, CleanupInv, NEW w \in Workers, ClaimStep(w)
  PROVE  Promised
<1>a. worker[w] \in Local /\ Fresh(worker[w])
  BY ByTenants DEF TypeOK
<1>b. jobs \in [Tenants -> JobRow] /\ tenants \in [Tenants -> TenantRow]
  BY DEF TypeOK
<1>1. ASSUME NEW t \in Tenants, ExpireLease(w, t)
      PROVE  Promised
  <2>1. InFlight(t) /\ jobs[t] \in JobRow /\ tenants[t] \in TenantRow
    BY <1>1, <1>a, <1>b DEF ExpireLease, At, Fresh
  <2>2. /\ \A u \in Tenants : u # t => jobs'[u] = jobs[u] /\ tenants'[u] = tenants[u]
        /\ jobs'[t] = FailedIfInFlight(jobs[t]) /\ UNCHANGED places
        /\ tenants'[t] \in {Failing(tenants[t]), [tenants[t] EXCEPT !.status = "failed"]}
    BY <1>1, <1>b DEF ExpireLease, disks, places
  <2>3. jobs'[t].state = "failed" /\ jobs'[t].node = jobs[t].node
    BY <2>1, <2>2 DEF FailedIfInFlight, InFlight, State, JobRow
  <2>4. tenants'[t].status = "failed" /\ tenants'[t].node = tenants[t].node
    BY <2>1, <2>2 DEF Failing, TenantRow
  <2>5. Promise!Fail(t)
    BY <2>1, <2>2, <2>3, <2>4, Observed DEF Promise!Fail, InFlight
  <2>. QED  BY <2>5 DEF Promised, Promise!Next
<1>2. CASE Dispatch(w)
  <2>1. PICK t \in Tenants : t = worker[w].job
    BY <1>2, WorkerJob DEF Dispatch, At
  <2>2. State(t) = "queued" /\ jobs[t] \in JobRow
    BY <1>2, <1>a, <1>b, <2>1 DEF Dispatch, At, Fresh
  <2>3. /\ \A u \in Tenants : u # t => jobs'[u] = jobs[u] /\ tenants'[u] = tenants[u]
        /\ jobs'[t].state = "dispatched" /\ jobs'[t].node = jobs[t].node
        /\ tenants' = tenants /\ UNCHANGED places
    BY <1>2, <1>b, <2>1, <2>2 DEF Dispatch, Dispatched, State, JobRow, disks, places
  <2>4. Promise!Dispatch(t)
    BY <2>2, <2>3, Observed DEF Promise!Dispatch, Promise!Advance
  <2>. QED  BY <2>4 DEF Promised, Promise!Next
<1>3. CASE UNCHANGED <<jobs, tenants, databases>>
  BY <1>3, Unseen
<1>. QED  BY <1>1, <1>2, <1>3
          DEF ClaimStep, TakeLease, NextHandler, TakeNothing, ReadSource, Withdraw, tables, disks

(* The write of a report is the abstract start, failure or end.            *)
LEMMA ReportPromised ==
  ASSUME TypeOK, CleanupInv, NEW w \in Workers, ReportStep(w)
  PROVE  Promised
<1>. DEFINE l == worker[w]
<1>a. l \in Local /\ Fresh(l)
  BY ByTenants DEF TypeOK
<1>1. CASE UNCHANGED <<jobs, tenants, databases>>
  BY <1>1, Unseen
<1>2. CASE CommitReport(w)
  <2>1. PICK t \in Tenants, n \in Nodes : t = l.job /\ n = l.node
    BY <1>2, <1>a DEF CommitReport, At, Local, Assigned, ReportPCs
  <2>2. PICK r \in {"running", "cleaned", "failed"} : r = l.want
    BY <1>2, <1>a DEF CommitReport, At, Local, Assigned, ReportPCs, Results
  <2>b. /\ jobs \in [Tenants -> JobRow] /\ tenants \in [Tenants -> TenantRow]
        /\ jobs[t] \in JobRow /\ tenants[t] \in TenantRow
        /\ databases \in [Homes -> 0..MaxBuilds]
    BY DEF TypeOK
  <2>3. /\ State(t) \in Precursors[r] /\ jobs[t].node = n
        /\ r = "cleaned" => Gone(t, n)
    BY <1>2, <1>a, <2>1, <2>2 DEF CommitReport, At, Fresh, ReportPCs, OnNode
  <2>4. /\ \A u \in Tenants : u # t => jobs'[u] = jobs[u] /\ tenants'[u] = tenants[u]
        /\ jobs'[t].state = r /\ jobs'[t].node = jobs[t].node
        /\ tenants'[t] = Outcome(tenants[t], r) /\ UNCHANGED places
    BY <1>2, <2>1, <2>2, <2>b DEF CommitReport, JobRow, disks, places
  <2>5. CASE r = "running"
    <3>1. State(t) = "dispatched" /\ tenants'[t] = tenants[t]
      BY <2>3, <2>4, <2>5 DEF Precursors, Outcome
    <3>2. Promise!Start(t)
      BY <2>4, <2>5, <3>1, Observed DEF Promise!Start, Promise!Advance
    <3>. QED  BY <3>2 DEF Promised, Promise!Next
  <2>6. CASE r = "failed"
    <3>1. State(t) = "running" /\ tenants'[t] = Failing(tenants[t])
      BY <2>3, <2>4, <2>6 DEF Precursors, Outcome
    <3>2. tenants'[t].status = "failed" /\ tenants'[t].node = tenants[t].node
      BY <2>b, <3>1 DEF Failing, TenantRow
    <3>3. Promise!Fail(t)
      BY <2>4, <2>6, <3>1, <3>2, Observed DEF Promise!Fail
    <3>. QED  BY <3>3 DEF Promised, Promise!Next
  <2>7. CASE r = "cleaned"
    <3>1. State(t) = "running" /\ <<t, jobs[t].node>> \notin places
      BY <2>3, <2>7 DEF Precursors, Gone, places
    <3>2. tenants'[t].status = "decommissioned" /\ tenants'[t].node = None
      <4>. DEFINE row == tenants[t]
      <4>1. \A c : LET m == [row EXCEPT !.status = "decommissioned", !.node = None, !.trial = c]
                   IN  m.status = "decommissioned" /\ m.node = None
        BY <2>b DEF TenantRow
      <4>2. Outcome(row, r) = [row EXCEPT !.status = "decommissioned", !.node = None,
                                          !.trial = IF row.kind = "trial" THEN "cleaned" ELSE @]
        BY <2>7 DEF Outcome
      <4>. QED  BY <2>4, <4>1, <4>2
    <3>3. Promise!Clean(t)
      BY <2>4, <2>7, <3>1, <3>2, Observed DEF Promise!Clean
    <3>. QED  BY <3>3 DEF Promised, Promise!Next
  <2>. QED  BY <2>5, <2>6, <2>7
<1>. QED  BY <1>1, <1>2 DEF ReportStep, CheckLease, CheckState, RenewLease, tables, disks

(* An engine drops what the cleanup in its agent's hand names, there.      *)
LEMMA DropPromised ==
  ASSUME TypeOK, CleanupInv, NEW n \in Nodes, NEW r \in Results, ExecutorReturns(n, r)
  PROVE  Promised
<1>b. /\ agents \in [Nodes -> Agent] /\ jobs \in [Tenants -> JobRow]
      /\ InHand(agents[n], n) /\ \A u \in Tenants : Rows(u) /\ Data(u)
  BY ByTenants DEF TypeOK
<1>1. PICK t \in Tenants : t = agents[n].job
  BY <1>b DEF ExecutorReturns, Agent
<1>2. State(t) # "absent" /\ jobs[t].node = n
  BY <1>b, <1>1 DEF InHand, OnNode
<1>3. ~(tenants[t].status = "ready" /\ tenants[t].node = n)
  BY <1>b, <1>1 DEF Data
<1>4. UNCHANGED <<jobs, tenants>>
  BY DEF ExecutorReturns
<1>5. CASE UNCHANGED databases
  BY <1>4, <1>5, Unseen
<1>6. CASE databases' = [databases EXCEPT ![<<t, n>>] = 0]
  <2>1. places' = places \ {<<t, n>>}
    BY <1>6, Placed
  <2>2. Promise!Drop(t)
    BY <1>2, <1>3, <1>4, <2>1, Observed DEF Promise!Drop, State
  <2>. QED  BY <2>2 DEF Promised, Promise!Next
<1>. QED  BY <1>1, <1>5, <1>6 DEF ExecutorReturns

LEMMA PromisedStep == TypeOK /\ CleanupInv /\ [Next]_vars => Promised
<1>. SUFFICES ASSUME TypeOK, CleanupInv, [Next]_vars PROVE Promised
  OBVIOUS
<1>1. CASE Cron \/ AdminRequest \/ UNCHANGED vars
  BY <1>1, TenantPromised, Unseen
     DEF Cron, AdminRequest, QueueRead, RequestRead, RetryRead, RevokeNode, tables, disks, vars
<1>2. ASSUME NEW w \in Workers, WorkerStep(w) \/ WorkerFails(w)
      PROVE  Promised
  BY <1>2, WritePromised, ClaimPromised, ReportPromised, Unseen DEF WorkerStep, WorkerFails, disks
<1>3. ASSUME NEW t \in Tenants, LeaseLapses(t) \/ Reprovisioned(t) \/ ReprovisionFails(t)
      PROVE  Promised
  BY <1>3, TenantPromised, Unseen DEF LeaseLapses, disks
<1>4. ASSUME NEW n \in Nodes, AgentRequest(n) \/ AgentFault(n)
      PROVE  Promised
  BY <1>4, Unseen DEF AgentRequest, Poll, SendReport, AgentFault, ReplyLost, AgentRestarts, disks
<1>. QED  BY <1>1, <1>2, <1>3, <1>4, DropPromised DEF Next

LEMMA PromisedStart == Init => Promise!Init
<1>. SUFFICES ASSUME Init PROVE Promise!Init
  OBVIOUS
<1>1. /\ \A t \in Tenants : tenants[t].status = "ready" /\ tenants[t].node \in Nodes
      /\ \A h \in Homes : databases[h] = IF tenants[h[1]].node = h[2] THEN 1 ELSE 0
  BY DEF Init, ReadyTenants, ReadyTenant
<1>2. places = {<<t, hosts[t]>> : t \in Tenants}
  BY <1>1 DEF places, hosts, Homes
<1>3. /\ statuses = [t \in Tenants |-> "ready"] /\ hosts \in [Tenants -> Nodes]
      /\ cleanups = [t \in Tenants |-> "absent"] /\ sites = [t \in Tenants |-> None]
  BY <1>1 DEF Init, NoJob, State, statuses, hosts, cleanups, sites
<1>. QED  BY <1>2, <1>3 DEF Promise!Init

(* When no two invocations overlap, the end of tenants implements          *)
(* TenantCleanup, however requests, leases, agents and engines fail:       *)
(* nothing is called cleaned while its database is there, no drop meets a  *)
(* ready tenant, and a cleanup is asked for, and again, where the tenant   *)
(* is.                                                                     *)
THEOREM CleanupRefines == Serial => (Spec => ImplementsTenantCleanup)
<1>. SUFFICES ASSUME Serial PROVE Spec => ImplementsTenantCleanup
  OBVIOUS
<1>. QED  BY PromisedStart, PromisedStep, CleanupInvariant, TypeCorrect, PTL
          DEF Spec, ImplementsTenantCleanup, Promise!Spec, Promised
=============================================================================
