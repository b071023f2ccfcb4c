-------------------------- MODULE ProvisioningProofs --------------------------
(* Proofs about Provisioning, for all values of its constants. *)
EXTENDS Provisioning, TLAPS

(* What the agent does with an answer leaves it a well-formed agent. *)
LEMMA AgentTypes ==
  /\ IdleAgent \in Agent
  /\ \A a \in Agent : AfterAccept(a) \in Agent /\ AfterReject(a) \in Agent
<1>. USE BoundsAssumption, RuntimeAssumption
<1>1. IdleAgent \in Agent
  BY DEF IdleAgent, Agent
<1>2. ASSUME NEW a \in Agent PROVE AfterAccept(a) \in Agent
  BY <1>1 DEF AfterAccept, Agent
<1>3. ASSUME NEW a \in Agent PROVE AfterReject(a) \in Agent
  BY <1>1 DEF AfterReject, Agent
<1>. QED  BY <1>1, <1>2, <1>3

(* The local variables of an admin request, and of a node request. *)
LEMMA AssignedTypes ==
  /\ \A j \in Jobs, n \in Nodes, pc \in {"create", "trial"} :
       Handler(pc, None, j, 0, n) \in Local
  /\ \A j \in Jobs : Handler("retry", None, j, 0, None) \in Local
  /\ \A n \in Nodes, S \in SUBSET Jobs :
       [Handler("expire", n, None, 0, None) EXCEPT !.work = S] \in Local
  /\ \A j \in Jobs, n \in Nodes, k \in 0..MaxTokens, s \in Results \cup {"running"} :
       Handler("lease", n, j, k, s) \in Local
BY BoundsAssumption, RuntimeAssumption DEF Handler, Local, Assigned, PCs, AtNode, AtJob

LEMMA LocalTypes == Idle \in Local
BY BoundsAssumption, RuntimeAssumption DEF Idle, Handler, Local, Assigned, PCs, AtNode, AtJob

LEMMA InitType == Init => TypeOK
<1>. SUFFICES ASSUME Init PROVE TypeOK
  OBVIOUS
<1>1. jobs \in [Jobs -> JobRow]
  BY BoundsAssumption, RuntimeAssumption DEF Init, NoJob, JobRow
<1>2. tenants \in [Tenants -> TenantRow]
  BY DEF Init, NoTenant, TenantRow, Kinds
<1>3. leases \in [Jobs -> LeaseRow]
  BY BoundsAssumption, RuntimeAssumption DEF Init, NoLease, LeaseRow
<1>. QED  BY <1>1, <1>2, <1>3, BoundsAssumption, RuntimeAssumption, AgentTypes, LocalTypes DEF Init, TypeOK

(* Handing a well-formed record to the waiting agent keeps all well formed. *)
LEMMA DeliverTypes ==
  ASSUME TypeOK, NEW w \in Workers
  PROVE  /\ \A a \in Agent : Deliver(w, a) => agents' \in [Nodes -> Agent]
         /\ DeliverEach(w, AfterReject) => agents' \in [Nodes -> Agent]
         /\ DeliverEach(w, AfterAccept) => agents' \in [Nodes -> Agent]
BY AgentTypes DEF TypeOK, Deliver, DeliverEach

LEMMA GotoTypes ==
  ASSUME TypeOK, NEW w \in Workers, Finish(w)
  PROVE  worker' \in [Workers -> Local]
BY LocalTypes DEF TypeOK, Finish

(* Every action that an admin's request consists of. *)
LEMMA AdminType ==
  ASSUME TypeOK, AdminRequest \/ \E w \in Workers : AdminCommit(w)
  PROVE  TypeOK'
<1>. USE BoundsAssumption, RuntimeAssumption
<1>1. ASSUME NEW t \in Tenants, NEW kind \in Kinds, CreateTenant(t, kind)
      PROVE  TypeOK'
  <2>1. [NoTenant EXCEPT !.status = "pending", !.kind = kind] \in TenantRow
    BY DEF NoTenant, TenantRow
  <2>. QED  BY <1>1, <2>1 DEF CreateTenant, TypeOK
<1>2. ASSUME NEW w \in Workers, NEW j \in Jobs, NEW n \in Nodes,
             CreateJobRead(w, j, n) \/ CreateTrialRead(w, j, n)
      PROVE  TypeOK'
  BY <1>2, AssignedTypes DEF CreateJobRead, CreateTrialRead, Begin, tables, TypeOK
<1>3. ASSUME NEW w \in Workers, NEW j \in Jobs, RetryRead(w, j)
      PROVE  TypeOK'
  BY <1>3, AssignedTypes DEF RetryRead, Begin, tables, TypeOK
<1>4. ASSUME NEW n \in Nodes, RevokeNode(n)
      PROVE  TypeOK'
  BY <1>4 DEF RevokeNode, Revoke, Fault, TypeOK
<1>5. ASSUME NEW w \in Workers, CreateJobCommit(w) \/ CreateTrialCommit(w)
      PROVE  TypeOK'
  <2>. DEFINE j == worker[w].job
              n == worker[w].want
              t == TenantOf(j)
  <2>1. j \in Jobs /\ n \in Nodes /\ t \in Tenants
    BY <1>5 DEF CreateJobCommit, CreateTrialCommit, At, TypeOK, Local, Assigned, AtJob,
                TenantOf, Jobs
  <2>2. PlacedOn(n) \in JobRow
    BY <2>1 DEF PlacedOn, JobRow, JobStates
  <2>3. /\ [tenants[t] EXCEPT !.status = "provisioning", !.node = n] \in TenantRow
        /\ [status |-> "provisioning", kind |-> "trial", node |-> n,
            trial |-> "provisioning"] \in TenantRow
    BY <2>1 DEF TypeOK, TenantRow, Kinds
  <2>4. worker' \in [Workers -> Local]
    BY <1>5, GotoTypes DEF CreateJobCommit, CreateTrialCommit
  <2>5. jobs' \in [Jobs -> JobRow]
    BY <1>5, <2>1, <2>2 DEF CreateJobCommit, CreateTrialCommit, TypeOK
  <2>6. tenants' \in [Tenants -> TenantRow]
    BY <1>5, <2>1, <2>3 DEF CreateJobCommit, TakenUp, CreateTrialCommit, TypeOK
  <2>. QED  BY <1>5, <2>4, <2>5, <2>6 DEF CreateJobCommit, CreateTrialCommit, TypeOK
<1>6. ASSUME NEW w \in Workers, RetryCommit(w)
      PROVE  TypeOK'
  <2>. DEFINE j == worker[w].job
              t == TenantOf(j)
  <2>1. j \in Jobs /\ t \in Tenants
    BY <1>6 DEF RetryCommit, At, TypeOK, Local, Assigned, AtJob, TenantOf, Jobs
  <2>2. [jobs[j] EXCEPT !.state = "retrying"] \in JobRow
    BY <2>1 DEF TypeOK, JobRow, JobStates
  <2>3. [tenants[t] EXCEPT !.status = "provisioning", !.node = jobs[j].node] \in TenantRow
    BY <2>1 DEF TypeOK, TenantRow, JobRow
  <2>4. NoLease \in LeaseRow
    BY DEF NoLease, LeaseRow
  <2>5. worker' \in [Workers -> Local]
    BY <1>6, GotoTypes DEF RetryCommit
  <2>. QED  BY <1>6, <2>1, <2>2, <2>3, <2>4, <2>5 DEF RetryCommit, Retried, TakenUp, TypeOK
<1>. QED  BY <1>1, <1>2, <1>3, <1>4, <1>5, <1>6 DEF AdminRequest, AdminCommit

(* Moving a handler on, with what its last call returned. *)
LEMMA ContinueTypes ==
  ASSUME TypeOK, NEW w \in Workers, NEW l, l \in Local,
         worker' = [worker EXCEPT ![w] = l]
  PROVE  worker' \in [Workers -> Local]
BY DEF TypeOK

LEMMA OutcomeTypes ==
  ASSUME NEW row \in TenantRow, NEW s \in Results
  PROVE  WithOutcome(row, s) \in TenantRow
BY DEF WithOutcome, TenantRow, Results

LEMMA NoLeaseType == NoLease \in LeaseRow
BY BoundsAssumption, RuntimeAssumption DEF NoLease, LeaseRow

(* Every step of a claim. *)
LEMMA ClaimType ==
  ASSUME TypeOK, NEW w \in Workers, ClaimStep(w)
  PROVE  TypeOK'
<1>. USE BoundsAssumption, RuntimeAssumption
<1>. DEFINE j == worker[w].job
<1>a. worker[w] \in Local
  BY DEF TypeOK
<1>1. ASSUME NEW i \in Jobs, ExpireLease(w, i)
      PROVE  TypeOK'
  <2>1. worker' \in [Workers -> Local]
    <3>1. [worker[w] EXCEPT !.work = @ \ {i}] \in Local
      BY <1>a DEF Local, Assigned
    <3>. QED  BY <1>1, <3>1 DEF ExpireLease, TypeOK
  <2>2. jobs' \in [Jobs -> JobRow]
    <3>1. [jobs[i] EXCEPT !.state = "failed"] \in JobRow
      BY DEF TypeOK, JobRow, JobStates
    <3>. QED  BY <1>1, <3>1 DEF ExpireLease, TypeOK
  <2>3. tenants' \in [Tenants -> TenantRow]
    <3>1. TenantOf(i) \in Tenants
      BY DEF TenantOf, Jobs
    <3>2. WithOutcome(tenants[TenantOf(i)], "failed") \in TenantRow
      BY <3>1, OutcomeTypes DEF TypeOK, Results
    <3>. QED  BY <1>1, <3>1, <3>2 DEF ExpireLease, TypeOK
  <2>. QED  BY <1>1, <2>1, <2>2, <2>3, NoLeaseType DEF ExpireLease, TypeOK
<1>2. ASSUME NEW i \in Jobs, TakeLease(w, i)
      PROVE  TypeOK'
  <2>1. tokens + 1 \in 0..MaxTokens
    BY <1>2 DEF TakeLease, Lease, NewLease, TypeOK
  <2>2. [token |-> tokens + 1, live |-> TRUE] \in LeaseRow
    BY <2>1 DEF LeaseRow
  <2>3. [worker[w] EXCEPT !.pc = "source", !.job = i, !.token = tokens + 1] \in Local
    BY <1>a, <1>2, <2>1 DEF TakeLease, Lease, NewLease, At, Local, Assigned, PCs, AtNode, AtJob
  <2>4. worker' \in [Workers -> Local]
    BY <1>2, <2>3 DEF TakeLease, Lease, NewLease, TypeOK
  <2>. QED  BY <1>2, <2>1, <2>2, <2>4 DEF TakeLease, Lease, NewLease, TypeOK
<1>3. ASSUME TakeNothing(w)
      PROVE  TypeOK'
  BY <1>3, GotoTypes, DeliverTypes, AgentTypes DEF TakeNothing, tables, TypeOK
<1>4. ASSUME ReadSource(w)
      PROVE  TypeOK'
  <2>1. j \in Jobs
    BY <1>4, <1>a DEF ReadSource, At, Local, Assigned, AtJob
  <2>2. jobs[j].state \in JobStates \cup {"absent"}
    BY <2>1 DEF TypeOK, JobRow
  <2>3. \A pc \in {"dispatch", "withdraw"} :
          [worker[w] EXCEPT !.seen = jobs[j].state, !.pc = pc] \in Local
    BY <1>a, <1>4, <2>1, <2>2 DEF ReadSource, At, Local, Assigned, PCs, AtNode, AtJob
  <2>4. worker' \in [Workers -> Local]
    BY <1>4, <2>3 DEF ReadSource, TypeOK
  <2>. QED  BY <1>4, <2>4 DEF ReadSource, tables, TypeOK
<1>5. ASSUME Withdraw(w)
      PROVE  TypeOK'
  BY <1>5, GotoTypes, DeliverTypes, AgentTypes, NoLeaseType DEF Withdraw, TypeOK
<1>6. ASSUME Dispatch(w)
      PROVE  TypeOK'
  <2>1. j \in Jobs /\ worker[w].token \in 0..MaxTokens
    BY <1>6, <1>a DEF Dispatch, At, Local, Assigned, AtJob
  <2>2. jobs[j].attempt < MaxAttempt =>
          Dispatched(jobs[j]) \in JobRow
    BY <2>1 DEF Dispatched, TypeOK, JobRow, JobStates
  <2>3. jobs' \in [Jobs -> JobRow]
    <3>1. jobs[j].attempt \in Nat
      BY <2>1 DEF TypeOK, JobRow
    <3>. QED  BY <1>6, <2>1, <2>2, <3>1 DEF Dispatch, Exhausted, TypeOK
  <2>4. Claimant(j, worker[w].token) \in Agent
    BY <2>1 DEF Claimant, Agent
  <2>5. agents' \in [Nodes -> Agent]
    BY <1>6, <2>4, DeliverTypes, AgentTypes DEF Dispatch
  <2>6. worker' \in [Workers -> Local]
    BY <1>6, GotoTypes DEF Dispatch
  <2>. QED  BY <1>6, <2>3, <2>5, <2>6 DEF Dispatch, TypeOK
<1>. QED  BY <1>1, <1>2, <1>3, <1>4, <1>5, <1>6 DEF ClaimStep

(* Every step of a report. *)
LEMMA ReportType ==
  ASSUME TypeOK, NEW w \in Workers, ReportStep(w)
  PROVE  TypeOK'
<1>. USE BoundsAssumption, RuntimeAssumption
<1>. DEFINE j == worker[w].job
            s == worker[w].want
<1>a. worker[w] \in Local
  BY DEF TypeOK
<1>b. j \in Jobs /\ s \in Results \cup {"running"} /\ TenantOf(j) \in Tenants
  BY <1>a DEF ReportStep, CheckLease, CheckState, RenewLease, CommitReport, At, Local,
              Assigned, AtJob, TenantOf, Jobs
<1>c. \A l \in LeaseRow : Renewed(l) \in LeaseRow
  BY DEF Renewed, LeaseRow
<1>1. CASE CheckLease(w)
  <2>1. At(w, "lease") => [worker[w] EXCEPT !.pc = "state"] \in Local
    BY <1>a DEF At, Local, Assigned, PCs, AtNode, AtJob
  <2>. QED  BY <1>1, <2>1, GotoTypes, DeliverTypes
            DEF CheckLease, Goto, Reject, tables, TypeOK
<1>2. CASE CheckState(w)
  <2>1. At(w, "state") => \A pc \in {"renew", "commit"} :
          [worker[w] EXCEPT !.pc = pc] \in Local
    BY <1>a DEF At, Local, Assigned, PCs, AtNode, AtJob
  <2>. QED  BY <1>2, <2>1, GotoTypes, DeliverTypes DEF CheckState, Reject, tables, TypeOK
<1>3. CASE RenewLease(w)
  BY <1>3, <1>b, <1>c, GotoTypes, DeliverTypes DEF RenewLease, Accept, TypeOK
<1>4. CASE CommitReport(w)
  <2>1. [jobs[j] EXCEPT !.state = s] \in JobRow
    BY <1>b DEF TypeOK, JobRow, JobStates, Results
  <2>2. jobs' \in [Jobs -> JobRow]
    BY <1>4, <1>b, <2>1 DEF CommitReport, TypeOK
  <2>3. leases' \in [Jobs -> LeaseRow]
    BY <1>4, <1>b, <1>c, NoLeaseType DEF CommitReport, LeaseAfter, TypeOK
  <2>4. tenants' \in [Tenants -> TenantRow]
    <3>1. s # "running" => WithOutcome(tenants[TenantOf(j)], s) \in TenantRow
      BY <1>b, OutcomeTypes DEF TypeOK
    <3>. QED  BY <1>4, <1>b, <3>1 DEF CommitReport, TypeOK
  <2>. QED  BY <1>4, <2>2, <2>3, <2>4, GotoTypes, DeliverTypes DEF CommitReport, Accept, TypeOK
<1>. QED  BY <1>1, <1>2, <1>3, <1>4 DEF ReportStep

(* The agents' steps and those of the environment. *)
LEMMA AgentType ==
  ASSUME TypeOK, NEW n \in Nodes,
         AgentRequest(n) \/ AgentFault(n) \/ \E r \in Results : ExecutorReturns(n, r)
  PROVE  TypeOK'
<1>. USE BoundsAssumption, RuntimeAssumption
<1>a. agents[n] \in Agent
  BY DEF TypeOK
<1>b. \A w \in Workers : [agents[n] EXCEPT !.wait = w] \in Agent
  BY <1>a DEF Agent
<1>1. ASSUME NEW w \in Workers, Poll(w, n)
      PROVE  TypeOK'
  <2>1. Expired(n) \in SUBSET Jobs
    BY DEF Expired
  <2>. QED  BY <1>1, <1>b, <2>1, AssignedTypes DEF Poll, Request, Begin, tables, TypeOK
<1>2. ASSUME NEW w \in Workers, SendReport(w, n)
      PROVE  TypeOK'
  <2>. DEFINE want == IF agents[n].result = None THEN "running" ELSE agents[n].result
  <2>1. /\ agents[n].job \in Jobs
        /\ agents[n].token \in 0..MaxTokens
        /\ want \in Results \cup {"running"}
    BY <1>a, <1>2 DEF SendReport, Report, Agent
  <2>2. Handler("lease", n, agents[n].job, agents[n].token, want) \in Local
    BY <2>1, AssignedTypes
  <2>. QED  BY <1>2, <1>b, <2>2 DEF SendReport, Report, Reported, Begin, tables, TypeOK
<1>3. CASE AgentFault(n)
  BY <1>3, <1>a, AgentTypes DEF AgentFault, ReplyLost, LoseReply, AgentRestarts, Restart, Fault, tables, TypeOK
<1>4. ASSUME NEW r \in Results, ExecutorReturns(n, r)
      PROVE  TypeOK'
  <2>1. [agents[n] EXCEPT !.result = r] \in Agent /\ agents[n].job \in Jobs
    BY <1>a, <1>4 DEF ExecutorReturns, Return, Agent
  <2>. QED  BY <1>4, <2>1 DEF ExecutorReturns, Return, tables, TypeOK
<1>. QED  BY <1>1, <1>2, <1>3, <1>4 DEF AgentRequest

LEMMA EnvironmentType ==
  ASSUME TypeOK,
         (\E j \in Jobs : LeaseLapses(j)) \/ (\E w \in Workers : WorkerFails(w))
  PROVE  TypeOK'
<1>. USE BoundsAssumption, RuntimeAssumption
<1>1. ASSUME NEW j \in Jobs, LeaseLapses(j)
      PROVE  TypeOK'
  <2>1. [leases[j] EXCEPT !.live = FALSE] \in LeaseRow
    BY DEF TypeOK, LeaseRow
  <2>. QED  BY <1>1, <2>1 DEF LeaseLapses, Lapse, Fault, TypeOK
<1>2. ASSUME NEW w \in Workers, WorkerFails(w)
      PROVE  TypeOK'
  BY <1>2, GotoTypes, DeliverTypes DEF WorkerFails, Abort, Fault, tables, TypeOK
<1>. QED  BY <1>1, <1>2

LEMMA StepType == TypeOK /\ [Next]_vars => TypeOK'
<1>. SUFFICES ASSUME TypeOK, [Next]_vars PROVE TypeOK'
  OBVIOUS
<1>1. CASE UNCHANGED vars
  BY <1>1 DEF vars, TypeOK
<1>2. CASE Next
  BY <1>2, AdminType, ClaimType, ReportType, AgentType, EnvironmentType DEF Next, WorkerStep
<1>. QED  BY <1>1, <1>2

(* Every table, handler and agent keeps its type: in particular no handler *)
(* of nodeOperations.ts or provisioning.ts reaches a database call with a  *)
(* local variable it needs unassigned.                                     *)
THEOREM TypeCorrect == Spec => []TypeOK
BY InitType, StepType, PTL DEF Spec

-----------------------------------------------------------------------------
(* Leases and the jobs they are on *)

(* Each action keeps the lease, moves the job to an open state, or deletes *)
(* the lease together with the change of the job.                          *)
LEMMA LeaseStep == TypeOK /\ LeaseOnOpenJob /\ [Next]_vars => LeaseOnOpenJob'
<1>. SUFFICES ASSUME TypeOK, LeaseOnOpenJob, [Next]_vars,
                     NEW i \in Jobs, Leased(i)'
              PROVE  Open(i)'
  BY DEF LeaseOnOpenJob
<1>. USE DEF Leased, Open
<1>a. Leased(i) => Open(i)
  BY DEF LeaseOnOpenJob
<1>b. jobs \in [Jobs -> JobRow] /\ leases \in [Jobs -> LeaseRow]
  BY DEF TypeOK
<1>1. ASSUME jobs' = jobs, leases' = leases
      PROVE  Open(i)'
  BY <1>1, <1>a
<1>2. ASSUME NEW w \in Workers, AdminCommit(w)
      PROVE  Open(i)'
  <2>. DEFINE j == worker[w].job
  <2>0. j \in Jobs
    BY <1>2 DEF AdminCommit, CreateJobCommit, CreateTrialCommit, RetryCommit, At, TypeOK,
                Local, Assigned, AtJob
  <2>1. CASE CreateJobCommit(w)
    BY <2>0, <2>1, <1>a, <1>b DEF CreateJobCommit, PlacedOn
  <2>2. CASE CreateTrialCommit(w)
    BY <2>0, <2>2, <1>a, <1>b DEF CreateTrialCommit, PlacedOn
  <2>3. CASE RetryCommit(w)
    BY <2>0, <2>3, <1>a, <1>b DEF RetryCommit, Retried, NoLease
  <2>. QED  BY <1>2, <2>1, <2>2, <2>3 DEF AdminCommit
<1>3. ASSUME NEW w \in Workers, ClaimStep(w)
      PROVE  Open(i)'
  <2>1. ASSUME NEW j \in Jobs, ExpireLease(w, j)
        PROVE  Open(i)'
    BY <2>1, <1>a, <1>b DEF ExpireLease, NoLease
  <2>2. ASSUME NEW j \in Jobs, TakeLease(w, j)
        PROVE  Open(i)'
    BY <2>2, <1>a, <1>b DEF TakeLease, Lease, NewLease, Unleased, Claimable
  <2>3. CASE Withdraw(w)
    <3>1. worker[w].job \in Jobs
      BY <2>3 DEF Withdraw, At, TypeOK, Local, Assigned, AtJob
    <3>. QED  BY <2>3, <3>1, <1>a, <1>b DEF Withdraw, NoLease
  <2>4. CASE Dispatch(w)
    <3>1. worker[w].job \in Jobs
      BY <2>4 DEF Dispatch, At, TypeOK, Local, Assigned, AtJob
    <3>. QED  BY <2>4, <3>1, <1>a, <1>b DEF Dispatch, Dispatched
  <2>5. CASE TakeNothing(w) \/ ReadSource(w)
    BY <2>5, <1>1 DEF TakeNothing, ReadSource, tables
  <2>. QED  BY <1>3, <2>1, <2>2, <2>3, <2>4, <2>5 DEF ClaimStep
<1>4. ASSUME NEW w \in Workers, ReportStep(w)
      PROVE  Open(i)'
  <2>. DEFINE j == worker[w].job
  <2>0. j \in Jobs
    BY <1>4 DEF ReportStep, CheckLease, CheckState, RenewLease, CommitReport, At, TypeOK,
                Local, Assigned, AtJob
  <2>1. CASE CheckLease(w) \/ CheckState(w)
    BY <2>1, <1>1 DEF CheckLease, CheckState, tables
  <2>2. CASE RenewLease(w)
    BY <2>0, <2>2, <1>a, <1>b DEF RenewLease, Renewed
  <2>3. CASE CommitReport(w)
    <3>1. CASE worker[w].want = "running"
      BY <2>0, <2>3, <3>1, <1>a, <1>b DEF CommitReport, Renewed, JobRow
    <3>2. CASE worker[w].want # "running"
      BY <2>0, <2>3, <3>2, <1>a, <1>b DEF CommitReport, LeaseAfter, NoLease, JobRow
    <3>. QED  BY <3>1, <3>2
  <2>. QED  BY <1>4, <2>1, <2>2, <2>3 DEF ReportStep
<1>5. ASSUME NEW j \in Jobs, LeaseLapses(j)
      PROVE  Open(i)'
  BY <1>5, <1>a, <1>b DEF LeaseLapses, Lapse, LeaseRow
<1>6. CASE \/ AdminRequest
           \/ \E w \in Workers : WorkerFails(w)
           \/ \E n \in Nodes : AgentRequest(n) \/ AgentFault(n)
           \/ \E n \in Nodes, r \in Results : ExecutorReturns(n, r)
           \/ UNCHANGED vars
  BY <1>6, <1>1 DEF AdminRequest, CreateTenant, CreateJobRead, CreateTrialRead, RetryRead,
     RevokeNode, Revoke, WorkerFails, Abort, AgentRequest, Poll, Request, SendReport, Report, AgentFault, ReplyLost, LoseReply,
     AgentRestarts, Restart, ExecutorReturns, Return, tables, vars
<1>. QED  BY <1>2, <1>3, <1>4, <1>5, <1>6 DEF Next, WorkerStep

(* A lease row exists only on an open job, whatever requests overlap.      *)
THEOREM LeaseSafety == Spec => []LeaseOnOpenJob
<1>1. Init => LeaseOnOpenJob
  BY DEF Init, LeaseOnOpenJob, Leased, NoLease
<1>. QED  BY <1>1, LeaseStep, TypeCorrect, PTL DEF Spec

(* What is not a row is not live. *)
LEMMA LiveLeaseStep == TypeOK /\ LiveLeaseIsRow /\ [Next]_vars => LiveLeaseIsRow'
<1>. SUFFICES ASSUME TypeOK, LiveLeaseIsRow, [Next]_vars PROVE LiveLeaseIsRow'
  OBVIOUS
<1>. USE DEF LiveLeaseIsRow, Leased
<1>a. leases \in [Jobs -> LeaseRow]
  BY DEF TypeOK
<1>b. \A l \in LeaseRow : (l.live => l.token # 0) => (Renewed(l).live => Renewed(l).token # 0)
  BY DEF Renewed
<1>1. ASSUME NEW w \in Workers, CreateJobCommit(w) \/ CreateTrialCommit(w) \/ RetryCommit(w)
      PROVE  LiveLeaseIsRow'
  BY <1>1, <1>a DEF CreateJobCommit, CreateTrialCommit, RetryCommit, Retried, NoLease
<1>2. ASSUME NEW w \in Workers, ClaimStep(w)
      PROVE  LiveLeaseIsRow'
  <2>1. ASSUME NEW j \in Jobs, ExpireLease(w, j) \/ TakeLease(w, j)
        PROVE  LiveLeaseIsRow'
    BY <2>1, <1>a DEF ExpireLease, TakeLease, Lease, NewLease, NoLease, TypeOK
  <2>2. CASE Withdraw(w) \/ Dispatch(w) \/ TakeNothing(w) \/ ReadSource(w)
    BY <2>2, <1>a DEF Withdraw, Dispatch, TakeNothing, ReadSource, tables, NoLease
  <2>. QED  BY <1>2, <2>1, <2>2 DEF ClaimStep
<1>3. ASSUME NEW w \in Workers, ReportStep(w)
      PROVE  LiveLeaseIsRow'
  <2>1. CASE RenewLease(w)
    BY <2>1, <1>a, <1>b DEF RenewLease
  <2>2. CASE CommitReport(w)
    BY <2>2, <1>a, <1>b DEF CommitReport, LeaseAfter, NoLease
  <2>3. CASE CheckLease(w) \/ CheckState(w)
    BY <2>3 DEF CheckLease, CheckState, tables
  <2>. QED  BY <1>3, <2>1, <2>2, <2>3 DEF ReportStep
<1>4. ASSUME NEW j \in Jobs, LeaseLapses(j)
      PROVE  LiveLeaseIsRow'
  BY <1>4, <1>a DEF LeaseLapses, Lapse, LeaseRow
<1>5. CASE \/ AdminRequest
           \/ \E w \in Workers : WorkerFails(w)
           \/ \E n \in Nodes : AgentRequest(n) \/ AgentFault(n)
           \/ \E n \in Nodes, r \in Results : ExecutorReturns(n, r)
           \/ UNCHANGED vars
  BY <1>5 DEF AdminRequest, CreateTenant, CreateJobRead, CreateTrialRead, RetryRead,
     RevokeNode, Revoke, WorkerFails, Abort, AgentRequest, Poll, Request, SendReport, Report, AgentFault, ReplyLost, LoseReply,
     AgentRestarts, Restart, ExecutorReturns, Return, tables, vars
<1>. QED  BY <1>1, <1>2, <1>3, <1>4, <1>5 DEF Next, WorkerStep, AdminCommit

LEMMA LiveLease == Spec => []LiveLeaseIsRow
<1>1. Init => LiveLeaseIsRow
  BY DEF Init, LiveLeaseIsRow, NoLease
<1>. QED  BY <1>1, LiveLeaseStep, TypeCorrect, PTL DEF Spec

-----------------------------------------------------------------------------
(* What is ready was built *)

(* An answer leaves an agent its result and job, or none at all. *)
LEMMA AnswerKeepsResult ==
  ASSUME NEW a \in Agent
  PROVE  /\ AfterAccept(a).result = "ready" => a.result = "ready" /\ AfterAccept(a).job = a.job
         /\ AfterReject(a).result = "ready" => a.result = "ready" /\ AfterReject(a).job = a.job
BY NoneAssumption DEF AfterAccept, AfterReject, IdleAgent, Agent, Results

(* `built' only grows, and its three users carry their job along: from the *)
(* executor to the agent's result, to the report, to the job and tenant.   *)
LEMMA BuiltStep == TypeOK /\ BuiltInv /\ [Next]_vars => BuiltInv'
<1>. SUFFICES ASSUME TypeOK, BuiltInv, [Next]_vars PROVE BuiltInv'
  OBVIOUS
<1>. DEFINE AgentsBuilt == \A n \in Nodes : agents[n].result = "ready" => agents[n].job \in built
            Built(l) == l.pc \in ReportPCs /\ l.want = "ready" => l.job \in built
            WorkersBuilt == \A w \in Workers : Built(worker[w])
<1>b. /\ jobs \in [Jobs -> JobRow]
      /\ tenants \in [Tenants -> TenantRow]
      /\ worker \in [Workers -> Local]
      /\ agents \in [Nodes -> Agent]
  BY DEF TypeOK
<1>c. ReadyMeansBuilt /\ AgentsBuilt /\ WorkersBuilt
  BY DEF BuiltInv
<1>d. Built(Idle)'
  BY DEF Idle, Handler, ReportPCs
<1>e. IdleAgent.result # "ready"
  BY NoneAssumption DEF IdleAgent
<1>1. ASSUME UNCHANGED <<jobs, tenants, built>> PROVE ReadyMeansBuilt'
  BY <1>1, <1>c DEF ReadyMeansBuilt
<1>2. ASSUME UNCHANGED <<worker, built>> PROVE WorkersBuilt'
  BY <1>2, <1>c
<1>3. ASSUME UNCHANGED <<agents, built>> PROVE AgentsBuilt'
  BY <1>3, <1>c
<1>4. ASSUME NEW w \in Workers, Finish(w), UNCHANGED built PROVE WorkersBuilt'
  BY <1>4, <1>b, <1>c, <1>d DEF Finish
<1>5. ASSUME NEW w \in Workers, UNCHANGED built,
             \/ DeliverEach(w, AfterAccept) \/ DeliverEach(w, AfterReject)
             \/ \E a \in Agent : a.result # "ready" /\ Deliver(w, a)
      PROVE  AgentsBuilt'
  BY <1>5, <1>b, <1>c, AnswerKeepsResult DEF DeliverEach, Deliver
<1>6. ASSUME NEW w \in Workers, NEW l, worker' = [worker EXCEPT ![w] = l], Built(l),
             UNCHANGED built
      PROVE  WorkersBuilt'
  BY <1>6, <1>b, <1>c
<1>7. CASE AdminRequest
  <2>1. ASSUME NEW t \in Tenants, NEW kind \in Kinds, CreateTenant(t, kind)
        PROVE  BuiltInv'
    <3>1. ReadyMeansBuilt'
      BY <2>1, <1>b, <1>c DEF CreateTenant, ReadyMeansBuilt, NoTenant
    <3>. QED  BY <2>1, <1>2, <1>3, <3>1 DEF CreateTenant, BuiltInv
  <2>2. ASSUME NEW w \in Workers, NEW j \in Jobs, NEW n \in Nodes,
               CreateJobRead(w, j, n) \/ CreateTrialRead(w, j, n)
        PROVE  BuiltInv'
    <3>1. Built(Handler("create", None, j, 0, n)) /\ Built(Handler("trial", None, j, 0, n))
      BY DEF Handler, ReportPCs
    <3>2. WorkersBuilt'
      BY <2>2, <1>6, <3>1 DEF CreateJobRead, CreateTrialRead, Begin
    <3>. QED  BY <2>2, <1>1, <1>3, <3>2 DEF CreateJobRead, CreateTrialRead, tables, BuiltInv
  <2>3. ASSUME NEW w \in Workers, NEW j \in Jobs, RetryRead(w, j)
        PROVE  BuiltInv'
    <3>1. Built(Handler("retry", None, j, 0, None))
      BY DEF Handler, ReportPCs
    <3>2. WorkersBuilt'
      BY <2>3, <1>6, <3>1 DEF RetryRead, Begin
    <3>. QED  BY <2>3, <1>1, <1>3, <3>2 DEF RetryRead, tables, BuiltInv
  <2>4. ASSUME NEW n \in Nodes, RevokeNode(n)
        PROVE  BuiltInv'
    BY <2>4, <1>1, <1>2, <1>3 DEF RevokeNode, Revoke, BuiltInv
  <2>. QED  BY <1>7, <2>1, <2>2, <2>3, <2>4 DEF AdminRequest
<1>8. ASSUME NEW w \in Workers, AdminCommit(w)
      PROVE  BuiltInv'
  <2>1. worker[w].job \in Jobs /\ TenantOf(worker[w].job) \in Tenants
    BY <1>8, <1>b DEF AdminCommit, CreateJobCommit, CreateTrialCommit, RetryCommit, At, Local,
       Assigned, AtJob, TenantOf, Jobs
  <2>2. /\ \A j \in Jobs : jobs'[j].state = "ready" => jobs[j].state = "ready"
        /\ \A t \in Tenants : tenants'[t].status = "ready" => tenants[t].status = "ready"
    <3>a. \A row \in TenantRow : \A n : TakenUp(row, n).status = "provisioning"
      BY DEF TakenUp, TenantRow
    <3>b. \A row \in JobRow : Retried(row).state = "retrying"
      BY DEF Retried, JobRow
    <3>c. \A n : PlacedOn(n).state = "placed"
      BY DEF PlacedOn
    <3>1. CASE CreateJobCommit(w)
      BY <3>1, <3>a, <3>c, <2>1, <1>b DEF CreateJobCommit
    <3>2. CASE CreateTrialCommit(w)
      BY <3>2, <3>c, <2>1, <1>b DEF CreateTrialCommit
    <3>3. CASE RetryCommit(w)
      BY <3>3, <3>a, <3>b, <2>1, <1>b DEF RetryCommit
    <3>. QED  BY <1>8, <3>1, <3>2, <3>3 DEF AdminCommit
  <2>3. Finish(w) /\ UNCHANGED <<agents, built>>
    BY <1>8 DEF AdminCommit, CreateJobCommit, CreateTrialCommit, RetryCommit
  <2>. QED  BY <2>2, <2>3, <1>c, <1>3, <1>4 DEF ReadyMeansBuilt, BuiltInv
<1>9. ASSUME NEW w \in Workers, ClaimStep(w)
      PROVE  BuiltInv'
  <2>1. ASSUME NEW j \in Jobs, ExpireLease(w, j)
        PROVE  BuiltInv'
    <3>1. TenantOf(j) \in Tenants
      BY DEF TenantOf, Jobs
    <3>2. \A row \in TenantRow : WithOutcome(row, "failed").status = "failed"
      BY DEF WithOutcome, TenantRow
    <3>3. ReadyMeansBuilt'
      BY <2>1, <1>b, <1>c, <3>1, <3>2 DEF ExpireLease, ReadyMeansBuilt, JobRow
    <3>4. Built([worker[w] EXCEPT !.work = @ \ {j}])
      BY <2>1, <1>b DEF ExpireLease, At, Local, ReportPCs
    <3>5. WorkersBuilt'
      BY <2>1, <1>6, <3>4 DEF ExpireLease
    <3>. QED  BY <2>1, <1>3, <3>3, <3>5 DEF ExpireLease, BuiltInv
  <2>2. ASSUME NEW j \in Jobs, TakeLease(w, j)
        PROVE  BuiltInv'
    <3>1. Built([worker[w] EXCEPT !.pc = "source", !.job = j, !.token = tokens + 1])
      BY <1>b DEF Local, ReportPCs
    <3>2. WorkersBuilt'
      BY <2>2, <1>6, <3>1 DEF TakeLease, Lease, NewLease
    <3>. QED  BY <2>2, <1>1, <1>3, <3>2 DEF TakeLease, Lease, NewLease, BuiltInv
  <2>3. CASE TakeNothing(w) \/ Withdraw(w)
    BY <2>3, <1>1, <1>4, <1>5, <1>e, AgentTypes DEF TakeNothing, Withdraw, tables, BuiltInv
  <2>4. CASE ReadSource(w)
    <3>1. \A pc \in {"dispatch", "withdraw"} : \A s :
            Built([worker[w] EXCEPT !.seen = s, !.pc = pc])
      BY <1>b DEF Local, ReportPCs
    <3>2. WorkersBuilt'
      BY <2>4, <1>6, <3>1 DEF ReadSource
    <3>. QED  BY <2>4, <1>1, <1>3, <3>2 DEF ReadSource, tables, BuiltInv
  <2>5. CASE Dispatch(w)
    <3>0. worker[w].job \in Jobs /\ worker[w].token \in 0..MaxTokens
      BY <2>5, <1>b DEF Dispatch, At, Local, Assigned, AtJob
    <3>1. LET a == Claimant(worker[w].job, worker[w].token)
          IN  a \in Agent /\ a.result # "ready"
      BY <3>0, NoneAssumption DEF Claimant, Agent
    <3>2. AgentsBuilt'
      BY <2>5, <1>5, <1>e, <3>1, AgentTypes DEF Dispatch
    <3>3. ReadyMeansBuilt'
      <4>1. \A j \in Jobs : jobs'[j].state = "ready" => jobs[j].state = "ready"
        BY <2>5, <1>b, <3>0 DEF Dispatch, Dispatched
      <4>2. UNCHANGED <<tenants, built>>
        BY <2>5 DEF Dispatch
      <4>. QED  BY <1>c, <4>1, <4>2 DEF ReadyMeansBuilt
    <3>. QED  BY <2>5, <1>4, <3>2, <3>3 DEF Dispatch, BuiltInv
  <2>. QED  BY <1>9, <2>1, <2>2, <2>3, <2>4, <2>5 DEF ClaimStep
<1>10. ASSUME NEW w \in Workers, ReportStep(w)
       PROVE  BuiltInv'
  <2>1. CASE CheckLease(w)
    <3>1. Built([worker[w] EXCEPT !.pc = "state"])
      BY <2>1, <1>b, <1>c DEF CheckLease, At, Local, ReportPCs
    <3>2. WorkersBuilt' /\ AgentsBuilt'
      BY <2>1, <1>3, <1>4, <1>5, <1>6, <3>1 DEF CheckLease, Goto, Reject
    <3>. QED  BY <2>1, <1>1, <3>2 DEF CheckLease, tables, BuiltInv
  <2>2. CASE CheckState(w)
    <3>1. \A pc : Built([worker[w] EXCEPT !.pc = pc])
      BY <2>2, <1>b, <1>c DEF CheckState, At, Local, ReportPCs
    <3>2. WorkersBuilt' /\ AgentsBuilt'
      BY <2>2, <1>3, <1>4, <1>5, <1>6, <3>1 DEF CheckState, Reject
    <3>. QED  BY <2>2, <1>1, <3>2 DEF CheckState, tables, BuiltInv
  <2>3. CASE RenewLease(w)
    BY <2>3, <1>1, <1>4, <1>5 DEF RenewLease, Accept, BuiltInv
  <2>4. CASE CommitReport(w)
    <3>. DEFINE j == worker[w].job
                t == TenantOf(j)
                s == worker[w].want
    <3>1. j \in Jobs /\ t \in Tenants /\ s \in Results \cup {"running"}
      BY <2>4, <1>b DEF CommitReport, At, Local, Assigned, AtJob, TenantOf, Jobs
    <3>2. s = "ready" => j \in built
      BY <2>4, <1>c DEF CommitReport, At, ReportPCs
    <3>3. \A i \in Jobs : jobs'[i].state = "ready" => i \in built
      BY <2>4, <1>b, <1>c, <3>1, <3>2 DEF CommitReport, ReadyMeansBuilt, JobRow
    <3>4. s # "running" => WithOutcome(tenants[t], s).status = s
      BY <1>b, <3>1 DEF WithOutcome, TenantRow
    <3>5. j = <<t, j[2]>> /\ j[2] \in Keys
      BY <3>1 DEF Jobs, TenantOf
    <3>6. \A u \in Tenants : tenants'[u].status = "ready" => \E k \in Keys : <<u, k>> \in built
      BY <2>4, <1>b, <1>c, <3>1, <3>2, <3>4, <3>5 DEF CommitReport, ReadyMeansBuilt
    <3>7. ReadyMeansBuilt'
      BY <2>4, <3>3, <3>6 DEF CommitReport, ReadyMeansBuilt
    <3>. QED  BY <2>4, <1>4, <1>5, <3>7 DEF CommitReport, Accept, BuiltInv
  <2>. QED  BY <1>10, <2>1, <2>2, <2>3, <2>4 DEF ReportStep
<1>11. ASSUME NEW n \in Nodes, NEW w \in Workers, Poll(w, n)
       PROVE  BuiltInv'
  <2>1. Built([Handler("expire", n, None, 0, None) EXCEPT !.work = Expired(n)])
    BY DEF Handler, ReportPCs
  <2>2. WorkersBuilt'
    BY <1>11, <1>6, <2>1 DEF Poll, Request, Begin
  <2>3. AgentsBuilt'
    BY <1>11, <1>b, <1>c DEF Poll, Request, Agent
  <2>. QED  BY <1>11, <1>1, <2>2, <2>3 DEF Poll, Request, tables, BuiltInv
<1>12. ASSUME NEW n \in Nodes, NEW w \in Workers, SendReport(w, n)
       PROVE  BuiltInv'
  <2>. DEFINE a == agents[n]
              s == IF a.result = None THEN "running" ELSE a.result
  <2>1. Built(Handler("lease", n, a.job, a.token, s))
    BY <1>c DEF Handler
  <2>2. WorkersBuilt'
    BY <1>12, <1>6, <2>1 DEF SendReport, Report, Reported, Begin
  <2>3. AgentsBuilt'
    BY <1>12, <1>b, <1>c DEF SendReport, Report, Agent
  <2>. QED  BY <1>12, <1>1, <2>2, <2>3 DEF SendReport, Report, tables, BuiltInv
<1>13. ASSUME NEW n \in Nodes, AgentFault(n)
       PROVE  BuiltInv'
  <2>1. AgentsBuilt'
    BY <1>13, <1>b, <1>c, <1>e, AnswerKeepsResult DEF AgentFault, ReplyLost, LoseReply, AgentRestarts, Restart
  <2>. QED  BY <1>13, <1>1, <1>2, <2>1 DEF AgentFault, ReplyLost, LoseReply, AgentRestarts, Restart, tables, BuiltInv
<1>14. ASSUME NEW n \in Nodes, NEW r \in Results, ExecutorReturns(n, r)
       PROVE  BuiltInv'
  <2>1. built \subseteq built'
    BY <1>14 DEF ExecutorReturns, Return
  <2>2. ReadyMeansBuilt' /\ WorkersBuilt'
    BY <1>14, <1>c, <2>1 DEF ExecutorReturns, Return, tables, ReadyMeansBuilt
  <2>3. AgentsBuilt'
    BY <1>14, <1>b, <1>c, <2>1 DEF ExecutorReturns, Return, Agent
  <2>. QED  BY <2>2, <2>3 DEF BuiltInv
<1>15. ASSUME (\E w \in Workers : WorkerFails(w)) \/ (\E j \in Jobs : LeaseLapses(j))
              \/ UNCHANGED vars
       PROVE  BuiltInv'
  BY <1>15, <1>1, <1>2, <1>3, <1>4, <1>5 DEF WorkerFails, Abort, LeaseLapses, Lapse, tables, vars, BuiltInv
<1>. QED  BY <1>7, <1>8, <1>9, <1>10, <1>11, <1>12, <1>13, <1>14, <1>15
          DEF Next, WorkerStep, AgentRequest

(* A job or tenant is shown ready only if an executor returned "ready" for *)
(* it: with any number of overlapping requests, stale reports included.    *)
THEOREM BuiltSafety == Spec => []ReadyMeansBuilt
<1>1. Init => BuiltInv
  BY NoneAssumption DEF Init, BuiltInv, ReadyMeansBuilt, NoJob, NoTenant, IdleAgent, Idle,
     Handler, ReportPCs
<1>2. BuiltInv => ReadyMeansBuilt
  BY DEF BuiltInv
<1>. QED  BY <1>1, <1>2, BuiltStep, TypeCorrect, PTL DEF Spec
=============================================================================
