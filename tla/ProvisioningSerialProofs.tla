---------------------- MODULE ProvisioningSerialProofs ----------------------
(* Proofs about Provisioning when no two Worker invocations overlap: every *)
(* fault of the model may still happen, between any two database calls.    *)
EXTENDS ProvisioningHolderProofs

LEMMA SerialInit == Init => SerialInv
BY DEF Init, SerialInv, InFlightHasLease, InFlight, JobsHaveTenants, Fresh, NoJob,
       Idle, Handler

(* An admin request: it finds the row it is about as it read it. *)
LEMMA SerialAdmin ==
  ASSUME Serial, TypeOK, SerialInv, NEW w \in Workers, AdminCommit(w)
  PROVE  SerialInv'
<1>. DEFINE j == worker[w].job
<1>a. j \in Jobs /\ TenantOf(j) \in Tenants
  BY DEF AdminCommit, CreateJobCommit, CreateTrialCommit, RetryCommit, At, TypeOK,
         Local, Assigned, AtJob, TenantOf, Jobs
<1>b. /\ jobs \in [Jobs -> JobRow]
      /\ tenants \in [Tenants -> TenantRow]
      /\ leases \in [Jobs -> LeaseRow]
      /\ worker \in [Workers -> Local]
  BY DEF TypeOK
<1>1. \A v \in Workers : Fresh(worker[v])'
  <2>1. \A v \in Workers : worker'[v] = Idle
    BY <1>b DEF Serial, AdminCommit, CreateJobCommit, CreateTrialCommit, RetryCommit, Finish
  <2>. QED  BY <2>1 DEF Fresh, Idle, Handler
<1>2. InFlightHasLease'
  <2>1. CASE CreateJobCommit(w)
    BY <2>1, <1>a, <1>b DEF CreateJobCommit, PlacedOn, SerialInv, InFlightHasLease, InFlight, Leased
  <2>2. CASE CreateTrialCommit(w)
    BY <2>2, <1>a, <1>b DEF CreateTrialCommit, PlacedOn, SerialInv, InFlightHasLease, InFlight, Leased
  <2>3. CASE RetryCommit(w)
    <3>1. jobs[j].state = "failed"
      BY <2>3 DEF RetryCommit, At, SerialInv, Fresh
    <3>. QED  BY <2>3, <3>1, <1>a, <1>b
              DEF RetryCommit, Retried, SerialInv, InFlightHasLease, InFlight, Leased, JobRow
  <2>. QED  BY <2>1, <2>2, <2>3 DEF AdminCommit
<1>3. JobsHaveTenants'
  <2>. SUFFICES ASSUME NEW i \in Jobs, tenants'[TenantOf(i)].status = "absent"
                PROVE  jobs'[i].state = "absent"
    BY DEF JobsHaveTenants
  <2>0. TenantOf(i) \in Tenants
    BY DEF TenantOf, Jobs
  <2>1. CASE CreateJobCommit(w)
    BY <2>0, <2>1, <1>a, <1>b DEF CreateJobCommit, TakenUp, SerialInv, JobsHaveTenants, TenantRow
  <2>2. CASE CreateTrialCommit(w)
    BY <2>0, <2>2, <1>a, <1>b DEF CreateTrialCommit, SerialInv, JobsHaveTenants
  <2>3. CASE RetryCommit(w)
    BY <2>0, <2>3, <1>a, <1>b DEF RetryCommit, TakenUp, SerialInv, JobsHaveTenants, TenantRow
  <2>. QED  BY <2>1, <2>2, <2>3 DEF AdminCommit
<1>. QED  BY <1>1, <1>2, <1>3 DEF SerialInv

(* A claim: from the insertion of its lease to the dispatch, nobody else   *)
(* has touched the job.                                                    *)
LEMMA SerialClaim ==
  ASSUME Serial, TypeOK, SerialInv, NEW w \in Workers, ClaimStep(w)
  PROVE  SerialInv'
<1>. DEFINE j == worker[w].job
<1>b. /\ jobs \in [Jobs -> JobRow]
      /\ tenants \in [Tenants -> TenantRow]
      /\ leases \in [Jobs -> LeaseRow]
      /\ worker \in [Workers -> Local]
      /\ tokens \in Nat
  BY BoundsAssumption, RuntimeAssumption DEF TypeOK
<1>c. Fresh(worker[w]) /\ InFlightHasLease /\ JobsHaveTenants
  BY DEF SerialInv
<1>d. Fresh(Idle)'
  BY DEF Fresh, Idle, Handler
<1>1. ASSUME NEW i \in Jobs, ExpireLease(w, i)
      PROVE  SerialInv'
  <2>0. TenantOf(i) \in Tenants /\ At(w, "expire") /\ InFlight(i)
    BY <1>1, <1>c DEF ExpireLease, At, Fresh, TenantOf, Jobs
  <2>1. \A v \in Workers : Fresh(worker[v])'
    <3>1. \A v \in Workers : worker'[v] = [worker[w] EXCEPT !.work = @ \ {i}]
      BY <1>1, <1>b DEF ExpireLease, Serial
    <3>2. \A k \in worker[w].work \ {i} : k \in Jobs /\ InFlight(k)'
      BY <1>1, <1>b, <1>c, <2>0 DEF ExpireLease, At, Fresh, InFlight, Local
    <3>. QED  BY <1>b, <2>0, <3>1, <3>2 DEF Fresh, At, Local
  <2>2. InFlightHasLease'
    BY <1>1, <1>b, <1>c, <2>0 DEF ExpireLease, InFlightHasLease, InFlight, Leased, JobRow
  <2>3. JobsHaveTenants'
    <3>1. tenants'[TenantOf(i)].status = "failed"
      BY <1>1, <1>b, <2>0 DEF ExpireLease, WithOutcome, TenantRow
    <3>. QED  BY <1>1, <1>b, <1>c, <2>0, <3>1
              DEF ExpireLease, JobsHaveTenants, TenantOf, Jobs
  <2>. QED  BY <2>1, <2>2, <2>3 DEF SerialInv
<1>2. ASSUME NEW i \in Jobs, TakeLease(w, i)
      PROVE  SerialInv'
  <2>1. \A v \in Workers :
          worker'[v] = [worker[w] EXCEPT !.pc = "source", !.job = i, !.token = tokens + 1]
    BY <1>2, <1>b DEF TakeLease, Lease, NewLease, Serial
  <2>2. Claimable(i)' /\ Leased(i)'
    BY <1>2, <1>b DEF TakeLease, Lease, NewLease, Unleased, Claimable, Leased
  <2>3. \A v \in Workers : worker'[v].pc = "source" /\ worker'[v].job = i
    BY <2>1, <1>b DEF Local
  <2>4. \A v \in Workers : Fresh(worker[v])'
    BY <2>2, <2>3 DEF Fresh
  <2>5. InFlightHasLease' /\ JobsHaveTenants'
    BY <1>2, <1>b, <1>c DEF TakeLease, Lease, NewLease, InFlightHasLease, InFlight, Leased, JobsHaveTenants
  <2>. QED  BY <2>4, <2>5 DEF SerialInv
<1>3. CASE TakeNothing(w)
  BY <1>3, <1>b, <1>c, <1>d DEF TakeNothing, Finish, Serial, tables, SerialInv, InFlightHasLease,
     InFlight, Leased, JobsHaveTenants
<1>4. CASE ReadSource(w)
  <2>0. j \in Jobs /\ Claimable(j) /\ Leased(j)
    BY <1>4, <1>b, <1>c DEF ReadSource, At, Fresh, Local, Assigned, AtJob
  <2>1. \A v \in Workers :
          worker'[v] = [worker[w] EXCEPT !.seen = jobs[j].state, !.pc = "dispatch"]
    BY <1>4, <1>b, <2>0 DEF ReadSource, Serial, Claimable, CanTransition, Transitions, JobStates
  <2>2. \A v \in Workers : /\ worker'[v].pc = "dispatch" /\ worker'[v].job = j
                           /\ worker'[v].seen = jobs[j].state
    BY <2>1, <1>b DEF Local
  <2>3. \A v \in Workers : Fresh(worker[v])'
    BY <1>4, <2>0, <2>2 DEF ReadSource, tables, Fresh, Claimable, Leased
  <2>4. InFlightHasLease' /\ JobsHaveTenants'
    BY <1>4, <1>c DEF ReadSource, tables, InFlightHasLease, InFlight, Leased, JobsHaveTenants
  <2>. QED  BY <2>3, <2>4 DEF SerialInv
<1>5. CASE Withdraw(w)
  <2>0. j \in Jobs /\ ~InFlight(j)
    BY <1>5, <1>b, <1>c DEF Withdraw, At, Fresh, Local, Assigned, AtJob
  <2>. QED  BY <1>5, <1>b, <1>c, <1>d, <2>0 DEF Withdraw, Finish, Serial, SerialInv,
            InFlightHasLease, InFlight, Leased, JobsHaveTenants
<1>6. CASE Dispatch(w)
  <2>0. j \in Jobs /\ Claimable(j) /\ Leased(j)
    BY <1>6, <1>b, <1>c DEF Dispatch, At, Fresh, Local, Assigned, AtJob
  <2>1. \A v \in Workers : worker'[v] = Idle
    BY <1>6, <1>b DEF Dispatch, Finish, Serial
  <2>2. InFlightHasLease'
    BY <1>6, <1>b, <1>c, <2>0 DEF Dispatch, Dispatched, InFlightHasLease, InFlight, Leased
  <2>3. JobsHaveTenants'
    BY <1>6, <1>b, <1>c, <2>0 DEF Dispatch, JobsHaveTenants, Claimable
  <2>. QED  BY <1>d, <2>1, <2>2, <2>3 DEF SerialInv
<1>. QED  BY <1>1, <1>2, <1>3, <1>4, <1>5, <1>6 DEF ClaimStep

(* A report: the lease that was checked is still there at the commit.      *)
LEMMA SerialReport ==
  ASSUME Serial, TypeOK, LiveLeaseIsRow, SerialInv, NEW w \in Workers, ReportStep(w)
  PROVE  SerialInv'
<1>. DEFINE j == worker[w].job
<1>a. j \in Jobs /\ TenantOf(j) \in Tenants /\ worker[w].want \in Results \cup {"running"}
  BY DEF ReportStep, CheckLease, CheckState, RenewLease, CommitReport, At, TypeOK,
         Local, Assigned, AtJob, TenantOf, Jobs
<1>b. /\ jobs \in [Jobs -> JobRow]
      /\ tenants \in [Tenants -> TenantRow]
      /\ leases \in [Jobs -> LeaseRow]
      /\ worker \in [Workers -> Local]
  BY DEF TypeOK
<1>c. Fresh(worker[w]) /\ InFlightHasLease /\ JobsHaveTenants
  BY DEF SerialInv
<1>d. Fresh(Idle)'
  BY DEF Fresh, Idle, Handler
<1>e. Finish(w) => \A v \in Workers : Fresh(worker[v])'
  BY <1>b, <1>d DEF Finish, Serial
<1>f. ASSUME UNCHANGED tables
      PROVE  InFlightHasLease' /\ JobsHaveTenants'
  BY <1>c, <1>f DEF tables, InFlightHasLease, InFlight, Leased, JobsHaveTenants
<1>1. CASE CheckLease(w)
  <2>1. CASE leases[j].token = worker[w].token /\ leases[j].live
    <3>1. \A v \in Workers : worker'[v] = [worker[w] EXCEPT !.pc = "state"]
      BY <1>1, <1>b, <2>1 DEF CheckLease, Goto, Serial
    <3>2. \A v \in Workers : worker'[v].pc = "state" /\ worker'[v].job = j
      BY <1>b, <3>1 DEF Local
    <3>3. Leased(j)
      BY <1>a, <2>1 DEF LiveLeaseIsRow
    <3>4. \A v \in Workers : Fresh(worker[v])'
      BY <1>1, <3>2, <3>3 DEF CheckLease, tables, Fresh, Leased
    <3>. QED  BY <1>1, <1>f, <3>4 DEF CheckLease, SerialInv
  <2>2. CASE ~(leases[j].token = worker[w].token /\ leases[j].live)
    BY <1>1, <1>e, <1>f, <2>2 DEF CheckLease, Reject, SerialInv
  <2>. QED  BY <2>1, <2>2
<1>2. CASE CheckState(w)
  <2>. DEFINE s == jobs[j].state
              want == worker[w].want
              renewal == s = "running" /\ want = "running"
  <2>1. CASE renewal \/ CanTransition(s, want)
    <3>. DEFINE pc == IF renewal THEN "renew" ELSE "commit"
    <3>1. \A v \in Workers : worker'[v] = [worker[w] EXCEPT !.pc = pc]
      BY <1>2, <1>b, <2>1 DEF CheckState, Serial
    <3>2. \A v \in Workers : /\ worker'[v].pc = pc /\ worker'[v].job = j
                             /\ worker'[v].want = want
      BY <1>b, <3>1 DEF Local
    <3>3. Leased(j)
      BY <1>2, <1>c DEF CheckState, At, Fresh
    <3>4. \A v \in Workers : Fresh(worker[v])'
      BY <1>2, <2>1, <3>2, <3>3 DEF CheckState, tables, Fresh, Leased
    <3>. QED  BY <1>2, <1>f, <3>4 DEF CheckState, SerialInv
  <2>2. CASE ~(renewal \/ CanTransition(s, want))
    BY <1>2, <1>e, <1>f, <2>2 DEF CheckState, Reject, SerialInv
  <2>. QED  BY <2>1, <2>2
<1>3. CASE RenewLease(w)
  <2>1. InFlightHasLease' /\ JobsHaveTenants'
    BY <1>3, <1>a, <1>b, <1>c DEF RenewLease, Renewed, InFlightHasLease, InFlight, Leased,
       JobsHaveTenants, LeaseRow
  <2>. QED  BY <1>3, <1>e, <2>1 DEF RenewLease, Accept, SerialInv
<1>4. CASE CommitReport(w)
  <2>1. Leased(j) /\ jobs[j].state \in JobStates
    BY <1>4, <1>c DEF CommitReport, At, Fresh, CanTransition
  <2>2. tenants[TenantOf(j)].status # "absent"
    BY <1>a, <1>c, <2>1 DEF JobsHaveTenants, JobStates
  <2>3. InFlightHasLease'
    BY <1>4, <1>a, <1>b, <1>c, <2>1 DEF CommitReport, LeaseAfter, Renewed, InFlightHasLease, InFlight,
       Leased, LeaseRow, JobRow, Results
  <2>4. JobsHaveTenants'
    <3>1. \A t \in Tenants : tenants'[t].status = "absent" => tenants[t].status = "absent"
      <4>1. \A row \in TenantRow, r \in Results : WithOutcome(row, r).status \in Results
        BY DEF WithOutcome, TenantRow
      <4>2. worker[w].want # "running" =>
              WithOutcome(tenants[TenantOf(j)], worker[w].want).status # "absent"
        BY <1>a, <1>b, <4>1 DEF Results
      <4>. QED  BY <1>4, <1>a, <1>b, <4>2 DEF CommitReport
    <3>2. tenants'[TenantOf(j)].status # "absent"
      BY <1>4, <1>a, <1>b, <2>2, <3>1
    <3>3. \A i \in Jobs : i # j => jobs'[i] = jobs[i]
      BY <1>4, <1>b DEF CommitReport
    <3>4. \A i \in Jobs : TenantOf(i) \in Tenants
      BY DEF TenantOf, Jobs
    <3>. QED  BY <1>c, <3>1, <3>2, <3>3, <3>4 DEF JobsHaveTenants
  <2>. QED  BY <1>4, <1>e, <2>3, <2>4 DEF CommitReport, Accept, SerialInv
<1>. QED  BY <1>1, <1>2, <1>3, <1>4 DEF ReportStep

(* A request begins only when no other is in flight, and what it read is   *)
(* fresh; what happens outside the Worker writes no state and no token.    *)
LEMMA SerialOther ==
  ASSUME Serial, TypeOK, SerialInv,
         \/ AdminRequest
         \/ \E w \in Workers : WorkerFails(w)
         \/ \E n \in Nodes : AgentRequest(n) \/ AgentFault(n)
         \/ \E n \in Nodes, r \in Results : ExecutorReturns(n, r)
         \/ \E j \in Jobs : LeaseLapses(j)
         \/ UNCHANGED vars
  PROVE  SerialInv'
<1>b. /\ jobs \in [Jobs -> JobRow]
      /\ tenants \in [Tenants -> TenantRow]
      /\ leases \in [Jobs -> LeaseRow]
      /\ worker \in [Workers -> Local]
  BY DEF TypeOK
<1>c. \A j \in Jobs : TenantOf(j) \in Tenants
  BY DEF TenantOf, Jobs
<1>1. ASSUME UNCHANGED <<jobs, tenants>>,
             \A j \in Jobs : leases'[j].token = leases[j].token
      PROVE  /\ InFlightHasLease' /\ JobsHaveTenants'
             /\ \A l \in Local : Fresh(l) => Fresh(l)'
  BY <1>1 DEF SerialInv, InFlightHasLease, InFlight, Leased, JobsHaveTenants, Fresh, Local,
     Assigned, AtJob, Claimable
<1>2. ASSUME NEW w \in Workers, NEW l, Begin(w, l), UNCHANGED tables, Fresh(l)
      PROVE  SerialInv'
  <2>1. \A v \in Workers : worker'[v] = l
    BY <1>2, <1>b DEF Begin, Serial
  <2>2. Fresh(l)'
    BY <1>2 DEF tables, Fresh, InFlight, Leased, Claimable
  <2>. QED  BY <1>2, <1>1, <2>1, <2>2 DEF tables, SerialInv
<1>3. ASSUME UNCHANGED worker, UNCHANGED <<jobs, tenants>>,
             \A j \in Jobs : leases'[j].token = leases[j].token
      PROVE  SerialInv'
  BY <1>3, <1>1, <1>b DEF SerialInv
<1>4. CASE AdminRequest
  <2>1. ASSUME NEW t \in Tenants, NEW kind \in Kinds, CreateTenant(t, kind)
        PROVE  SerialInv'
    <3>1. JobsHaveTenants'
      BY <2>1, <1>b, <1>c DEF CreateTenant, SerialInv, JobsHaveTenants, NoTenant
    <3>2. InFlightHasLease' /\ \A w \in Workers : Fresh(worker[w])'
      BY <2>1 DEF CreateTenant, SerialInv, InFlightHasLease, InFlight, Leased, Fresh, Claimable
    <3>. QED  BY <3>1, <3>2 DEF SerialInv
  <2>2. ASSUME NEW w \in Workers, NEW j \in Jobs, NEW n \in Nodes,
               CreateJobRead(w, j, n) \/ CreateTrialRead(w, j, n)
        PROVE  SerialInv'
    <3>1. Fresh(Handler("create", None, j, 0, n)) /\ Fresh(Handler("trial", None, j, 0, n))
      BY DEF Fresh, Handler
    <3>. QED  BY <1>2, <2>2, <3>1 DEF CreateJobRead, CreateTrialRead
  <2>3. ASSUME NEW w \in Workers, NEW j \in Jobs, RetryRead(w, j)
        PROVE  SerialInv'
    <3>1. Fresh(Handler("retry", None, j, 0, None))
      BY <2>3 DEF RetryRead, Retryable, Fresh, Handler
    <3>. QED  BY <1>2, <2>3, <3>1 DEF RetryRead
  <2>4. ASSUME NEW n \in Nodes, RevokeNode(n)
        PROVE  SerialInv'
    BY <2>4, <1>3 DEF RevokeNode, Revoke
  <2>. QED  BY <1>4, <2>1, <2>2, <2>3, <2>4 DEF AdminRequest
<1>5. ASSUME NEW w \in Workers, WorkerFails(w)
      PROVE  SerialInv'
  <2>1. Fresh(Idle)
    BY DEF Fresh, Idle, Handler
  <2>2. \A v \in Workers : worker'[v] = Idle
    BY <1>5, <1>b DEF WorkerFails, Abort, Finish, Serial
  <2>3. Fresh(Idle)'
    BY DEF Fresh, Idle, Handler
  <2>. QED  BY <1>5, <1>1, <2>2, <2>3 DEF WorkerFails, Abort, tables, SerialInv
<1>6. ASSUME NEW n \in Nodes, NEW w \in Workers, Poll(w, n)
      PROVE  SerialInv'
  <2>. DEFINE l == [Handler("expire", n, None, 0, None) EXCEPT !.work = Expired(n)]
  <2>1. l.pc = "expire" /\ l.work = Expired(n)
    BY DEF Handler
  <2>2. \A j \in Expired(n) : InFlight(j)
    BY DEF Expired
  <2>3. Fresh(l)
    BY <2>1, <2>2 DEF Fresh
  <2>. QED  BY <1>2, <1>6, <2>3 DEF Poll, Request, tables
<1>7. ASSUME NEW n \in Nodes, NEW w \in Workers, SendReport(w, n)
      PROVE  SerialInv'
  <2>1. \A j, k, s : Fresh(Handler("lease", n, j, k, s))
    BY DEF Fresh, Handler
  <2>. QED  BY <1>2, <1>7, <2>1 DEF SendReport, Report, tables
<1>8. ASSUME NEW j \in Jobs, LeaseLapses(j)
      PROVE  SerialInv'
  BY <1>3, <1>8, <1>b DEF LeaseLapses, Lapse, LeaseRow
<1>9. CASE \/ \E n \in Nodes : AgentFault(n)
           \/ \E n \in Nodes, r \in Results : ExecutorReturns(n, r)
           \/ UNCHANGED vars
  BY <1>9, <1>3 DEF AgentFault, ReplyLost, LoseReply, AgentRestarts, Restart, ExecutorReturns, Return, tables, vars
<1>. QED  BY <1>4, <1>5, <1>6, <1>7, <1>8, <1>9 DEF AgentRequest

LEMMA SerialStep ==
  ASSUME Serial, TypeOK, LiveLeaseIsRow, SerialInv, [Next]_vars
  PROVE  SerialInv'
BY SerialAdmin, SerialClaim, SerialReport, SerialOther DEF Next, WorkerStep

LEMMA SerialInvariant == Serial => (Spec => []SerialInv)
<1>. SUFFICES ASSUME Serial PROVE Spec => []SerialInv
  OBVIOUS
<1>1. TypeOK /\ LiveLeaseIsRow /\ SerialInv /\ [Next]_vars => SerialInv'
  BY SerialStep
<1>. QED  BY <1>1, SerialInit, TypeCorrect, LiveLease, PTL DEF Spec

(* If no two invocations overlap, a job in flight always has its lease, so *)
(* that its report or its expiry can still move it on: crashes, lost       *)
(* replies and restarts at any point do not take it away.                  *)
THEOREM SerialLeases == Serial => (Spec => []InFlightHasLease)
<1>. SUFFICES ASSUME Serial PROVE Spec => []InFlightHasLease
  OBVIOUS
<1>1. SerialInv => InFlightHasLease
  BY DEF SerialInv
<1>. QED  BY <1>1, SerialInvariant, PTL

(* If no two invocations overlap, every change of a job's state is one     *)
(* that TRANSITIONS allows, although the batches that make the changes do  *)
(* not ask for the state they change.                                      *)
THEOREM SerialSteps == Serial => (Spec => JobStepsLegal)
<1>. DEFINE Legal == \A j \in Jobs : jobs'[j].state # jobs[j].state =>
                                       LegalStep(jobs[j].state, jobs'[j].state)
<1>. SUFFICES ASSUME Serial PROVE Spec => JobStepsLegal
  OBVIOUS
<1>1. ASSUME TypeOK, SerialInv, [Next]_vars
      PROVE  Legal
  <2>. SUFFICES ASSUME NEW i \in Jobs, jobs'[i].state # jobs[i].state
                PROVE  LegalStep(jobs[i].state, jobs'[i].state)
    OBVIOUS
  <2>. USE DEF LegalStep, CanTransition, Transitions, JobStates
  <2>b. /\ jobs \in [Jobs -> JobRow]
        /\ \A w \in Workers : worker[w] \in Local /\ Fresh(worker[w])
    BY <1>1 DEF TypeOK, SerialInv
  <2>1. ASSUME NEW w \in Workers, AdminCommit(w)
        PROVE  LegalStep(jobs[i].state, jobs'[i].state)
    <3>a. worker[w].job \in Jobs
      BY <2>1, <2>b DEF AdminCommit, CreateJobCommit, CreateTrialCommit, RetryCommit, At,
         Local, Assigned, AtJob
    <3>1. CASE CreateJobCommit(w)
      BY <3>1, <3>a, <2>b DEF CreateJobCommit, PlacedOn
    <3>2. CASE CreateTrialCommit(w)
      BY <1>1, <3>2, <3>a, <2>b DEF CreateTrialCommit, PlacedOn, SerialInv, JobsHaveTenants
    <3>3. CASE RetryCommit(w)
      BY <3>3, <3>a, <2>b DEF RetryCommit, Retried, JobRow
    <3>. QED  BY <2>1, <3>1, <3>2, <3>3 DEF AdminCommit
  <2>2. ASSUME NEW w \in Workers, ClaimStep(w)
        PROVE  LegalStep(jobs[i].state, jobs'[i].state)
    <3>1. ASSUME NEW j \in Jobs, ExpireLease(w, j)
          PROVE  LegalStep(jobs[i].state, jobs'[i].state)
      BY <3>1, <2>b DEF ExpireLease, InFlight, JobRow
    <3>2. CASE Dispatch(w)
      <4>1. worker[w].job \in Jobs /\ Claimable(worker[w].job)
        BY <3>2, <2>b DEF Dispatch, At, Local, Assigned, AtJob, Fresh
      <4>. QED  BY <3>2, <4>1, <2>b DEF Dispatch, Dispatched, Claimable
    <3>. QED  BY <2>2, <3>1, <3>2 DEF ClaimStep, TakeLease, Lease, NewLease, TakeNothing, ReadSource, Withdraw,
              tables
  <2>3. ASSUME NEW w \in Workers, ReportStep(w)
        PROVE  LegalStep(jobs[i].state, jobs'[i].state)
    <3>1. CASE CommitReport(w)
      <4>1. worker[w].job \in Jobs
        BY <3>1, <2>b DEF CommitReport, At, Local, Assigned, AtJob
      <4>2. CanTransition(jobs[worker[w].job].state, worker[w].want)
        BY <3>1, <2>b DEF CommitReport, At, Fresh
      <4>3. jobs' = [jobs EXCEPT ![worker[w].job].state = worker[w].want]
        BY <3>1 DEF CommitReport
      <4>4. i = worker[w].job /\ jobs'[i].state = worker[w].want
        BY <4>1, <4>3, <2>b DEF JobRow
      <4>. QED  BY <4>2, <4>4
    <3>. QED  BY <2>3, <3>1 DEF ReportStep, CheckLease, CheckState, RenewLease, tables
  <2>. QED  BY <1>1, <2>1, <2>2, <2>3 DEF Next, WorkerStep, AdminRequest, CreateTenant,
            CreateJobRead, CreateTrialRead, RetryRead, RevokeNode, Revoke, WorkerFails, Abort, AgentRequest,
            Poll, Request, SendReport, Report, AgentFault, ReplyLost, LoseReply, AgentRestarts, Restart, ExecutorReturns, Return,
            LeaseLapses, Lapse, tables, vars
<1>2. TypeOK /\ SerialInv /\ [Next]_vars => [Legal]_vars
  BY <1>1
<1>. QED  BY <1>2, SerialInvariant, TypeCorrect, PTL DEF Spec, JobStepsLegal

-----------------------------------------------------------------------------
(* What a reader of the tables sees, when invocations do not overlap and a *)
(* tenant has one idempotency key, so one job                              *)

OneKey == \E k \in Keys : Keys = {k}

(* The status of a tenant that goes with the state of its job. *)
Fits(s, status) ==
  /\ s = "absent" => status \in {"absent", "pending"}
  /\ s = "queued" => FALSE
  /\ s \in {"placed", "dispatched", "running", "retrying"} => status = "provisioning"
  /\ s \in Results => status = s

(* Job and tenant move together; a handler past the check of its lease     *)
(* still acts for the token that the lease has.                            *)
FollowInv ==
  /\ \A j \in Jobs : Fits(jobs[j].state, tenants[TenantOf(j)].status)
  /\ \A w \in Workers : worker[w].pc \in {"state", "renew", "commit"} =>
       leases[worker[w].job].token = worker[w].token

(* Job j and its tenant move, and nothing else of either kind. *)
Moves(j, to, outcome) ==
  /\ \A i \in Jobs : jobs'[i].state = IF i = j THEN to ELSE jobs[i].state
  /\ \A t \in Tenants :
       tenants'[t].status = IF t = TenantOf(j) THEN outcome ELSE tenants[t].status

Still ==
  /\ \A i \in Jobs : jobs'[i].state = jobs[i].state
  /\ \A t \in Tenants : tenants'[t].status = tenants[t].status

(* The moves a step of the program makes. *)
Promised ==
  \/ Still
  \/ \E t \in Tenants : /\ tenants[t].status = "absent"
                        /\ \A i \in Jobs : jobs'[i].state = jobs[i].state
                        /\ \A u \in Tenants : tenants'[u].status =
                             IF u = t THEN "pending" ELSE tenants[u].status
  \/ \E j \in Jobs :
       \/ jobs[j].state = "absent" /\ Moves(j, "placed", "provisioning")
       \/ jobs[j].state \in {"placed", "retrying"} /\ Moves(j, "dispatched", "provisioning")
       \/ jobs[j].state = "dispatched" /\ Moves(j, "running", "provisioning")
       \/ jobs[j].state = "running" /\ Moves(j, "ready", "ready")
       \/ jobs[j].state \in {"dispatched", "running"} /\ Moves(j, "failed", "failed")
       \/ jobs[j].state = "failed" /\ Moves(j, "retrying", "provisioning")

LEMMA JobOfTenant ==
  ASSUME OneKey
  PROVE  /\ \A i, j \in Jobs : TenantOf(i) = TenantOf(j) => i = j
         /\ \A j \in Jobs : TenantOf(j) \in Tenants
BY DEF OneKey, TenantOf, Jobs

(* A promised move keeps state and status together ... *)
LEMMA PromisedFits ==
  ASSUME OneKey, FollowInv, Promised
  PROVE  (\A j \in Jobs : Fits(jobs[j].state, tenants[TenantOf(j)].status))'
<1>1. CASE Still
  BY <1>1, JobOfTenant DEF Still, FollowInv, Fits
<1>2. ASSUME NEW t \in Tenants, tenants[t].status = "absent",
             \A i \in Jobs : jobs'[i].state = jobs[i].state,
             \A u \in Tenants : tenants'[u].status =
               IF u = t THEN "pending" ELSE tenants[u].status
      PROVE  (\A j \in Jobs : Fits(jobs[j].state, tenants[TenantOf(j)].status))'
  BY <1>2, JobOfTenant DEF FollowInv, Fits, Results
<1>3. ASSUME NEW j \in Jobs, NEW to, NEW outcome, Fits(to, outcome), Moves(j, to, outcome)
      PROVE  (\A i \in Jobs : Fits(jobs[i].state, tenants[TenantOf(i)].status))'
  BY <1>3, JobOfTenant DEF Moves, FollowInv, Fits
<1>4. /\ \A s \in {"placed", "dispatched", "running", "retrying"} : Fits(s, "provisioning")
      /\ Fits("ready", "ready") /\ Fits("failed", "failed")
  BY DEF Fits, Results
<1>. QED  BY <1>1, <1>2, <1>3, <1>4 DEF Promised

(* ... and is one of the abstract specification. *)
LEMMA PromisedAbstract ==
  ASSUME OneKey, FollowInv, Promised
  PROVE  [Abstract!Next]_<<states, statuses>>
<1>. USE DEF states, statuses
<1>1. CASE Still
  BY <1>1 DEF Still
<1>2. ASSUME NEW t \in Tenants, tenants[t].status = "absent",
             \A i \in Jobs : jobs'[i].state = jobs[i].state,
             \A u \in Tenants : tenants'[u].status =
               IF u = t THEN "pending" ELSE tenants[u].status
      PROVE  Abstract!Register(t)
  BY <1>2 DEF Abstract!Register
<1>3. ASSUME NEW j \in Jobs, NEW to, NEW outcome, Moves(j, to, outcome)
      PROVE  Abstract!Move(j, to, outcome)
  BY <1>3 DEF Moves, Abstract!Move, TenantOf, Jobs
<1>4. ASSUME NEW j \in Jobs
      PROVE  /\ j \in Abstract!Jobs /\ j[1] \in Tenants
             /\ states[j] = jobs[j].state
             /\ statuses[j[1]] = tenants[TenantOf(j)].status
             /\ jobs[j].state \in {"absent", "failed"} => Abstract!Quiet(j[1])
  <2>1. j[1] \in Tenants /\ TenantOf(j) = j[1]
    BY DEF TenantOf, Jobs
  <2>2. \A k \in Keys : <<j[1], k>> = j
    BY DEF OneKey, Jobs
  <2>. QED  BY <2>1, <2>2 DEF Abstract!Jobs, Jobs, Abstract!Quiet, Abstract!Open
<1>5. ASSUME NEW j \in Jobs,
             jobs[j].state = "absent" /\ Moves(j, "placed", "provisioning")
      PROVE  Abstract!Place(j)
  BY <1>3, <1>4, <1>5 DEF Abstract!Place, FollowInv, Fits
<1>6. ASSUME NEW j \in Jobs,
             jobs[j].state \in {"placed", "retrying"} /\ Moves(j, "dispatched", "provisioning")
      PROVE  Abstract!Dispatch(j)
  BY <1>3, <1>4, <1>6 DEF Abstract!Dispatch
<1>7. ASSUME NEW j \in Jobs,
             jobs[j].state = "dispatched" /\ Moves(j, "running", "provisioning")
      PROVE  Abstract!Start(j)
  BY <1>3, <1>4, <1>7 DEF Abstract!Start
<1>8. ASSUME NEW j \in Jobs, jobs[j].state = "running" /\ Moves(j, "ready", "ready")
      PROVE  Abstract!Succeed(j)
  BY <1>3, <1>4, <1>8 DEF Abstract!Succeed
<1>9. ASSUME NEW j \in Jobs,
             jobs[j].state \in {"dispatched", "running"} /\ Moves(j, "failed", "failed")
      PROVE  Abstract!Fail(j)
  BY <1>3, <1>4, <1>9 DEF Abstract!Fail
<1>10. ASSUME NEW j \in Jobs, jobs[j].state = "failed" /\ Moves(j, "retrying", "provisioning")
       PROVE  Abstract!Retry(j)
  BY <1>3, <1>4, <1>10 DEF Abstract!Retry, FollowInv, Fits, Results
<1>. QED  BY <1>1, <1>2, <1>4, <1>5, <1>6, <1>7, <1>8, <1>9, <1>10 DEF Promised, Abstract!Next

(* A step that leaves jobs and tenants alone. *)
LEMMA StillStep ==
  ASSUME UNCHANGED <<jobs, tenants>>
  PROVE  Promised
BY DEF Promised, Still

LEMMA AdminPromised ==
  ASSUME OneKey, TypeOK, SerialInv, FollowInv, NEW w \in Workers, AdminCommit(w)
  PROVE  Promised
<1>. DEFINE j == worker[w].job
            t == TenantOf(j)
<1>1. /\ j \in Jobs /\ t \in Tenants
      /\ jobs \in [Jobs -> JobRow] /\ tenants \in [Tenants -> TenantRow]
      /\ \A row \in TenantRow : \A n : TakenUp(row, n).status = "provisioning"
  BY LocalFacts DEF AdminCommit, CreateJobCommit, CreateTrialCommit, RetryCommit, At, AtJob,
     TypeOK, TakenUp, TenantRow
<1>2. CASE UNCHANGED <<jobs, tenants>>
  BY <1>2, StillStep
<1>3. CASE CreateJobCommit(w) /\ jobs[j].state = "absent"
  <2>1. Moves(j, "placed", "provisioning")
    BY <1>1, <1>3 DEF CreateJobCommit, PlacedOn, Moves
  <2>. QED  BY <1>1, <1>3, <2>1 DEF Promised
<1>4. CASE CreateTrialCommit(w) /\ tenants[t].status = "absent"
  <2>1. Moves(j, "placed", "provisioning")
    BY <1>1, <1>4 DEF CreateTrialCommit, PlacedOn, Moves
  <2>2. jobs[j].state = "absent"
    BY <1>1, <1>4 DEF SerialInv, JobsHaveTenants
  <2>. QED  BY <1>1, <2>1, <2>2 DEF Promised
<1>5. CASE RetryCommit(w)
  <2>1. jobs[j].state = "failed"
    BY <1>5 DEF RetryCommit, At, SerialInv, Fresh
  <2>2. Moves(j, "retrying", "provisioning")
    BY <1>1, <1>5, <2>1 DEF RetryCommit, Retried, JobRow, Moves
  <2>. QED  BY <1>1, <2>1, <2>2 DEF Promised
<1>. QED  BY <1>2, <1>3, <1>4, <1>5 DEF AdminCommit, CreateJobCommit, CreateTrialCommit

LEMMA ClaimPromised ==
  ASSUME OneKey, TypeOK, SerialInv, FollowInv, NEW w \in Workers, ClaimStep(w)
  PROVE  Promised
<1>. DEFINE j == worker[w].job
<1>1. /\ jobs \in [Jobs -> JobRow] /\ tenants \in [Tenants -> TenantRow]
      /\ worker[w] \in Local /\ Fresh(worker[w])
  BY DEF TypeOK, SerialInv
<1>2. ASSUME NEW i \in Jobs, ExpireLease(w, i)
      PROVE  Promised
  <2>1. InFlight(i) /\ TenantOf(i) \in Tenants
    BY <1>1, <1>2, JobOfTenant DEF ExpireLease, At, Fresh
  <2>2. \A row \in TenantRow : WithOutcome(row, "failed").status = "failed"
    BY DEF WithOutcome, TenantRow
  <2>3. Moves(i, "failed", "failed")
    BY <1>1, <1>2, <2>1, <2>2 DEF ExpireLease, JobRow, Moves
  <2>. QED  BY <2>1, <2>3 DEF Promised, InFlight
<1>3. CASE Dispatch(w) /\ UNCHANGED jobs
  BY <1>3, StillStep DEF Dispatch
<1>4. CASE Dispatch(w) /\ ~UNCHANGED jobs
  <2>1. j \in Jobs /\ jobs[j].state \in {"placed", "retrying"} /\ TenantOf(j) \in Tenants
    BY <1>1, <1>4, LocalFacts DEF Dispatch, At, AtJob, Fresh, Claimable
  <2>2. jobs' = [jobs EXCEPT ![j] = Dispatched(@)] /\ UNCHANGED tenants
    BY <1>4 DEF Dispatch
  <2>3. tenants[TenantOf(j)].status = "provisioning"
    BY <2>1 DEF FollowInv, Fits
  <2>4. Moves(j, "dispatched", "provisioning")
    BY <1>1, <2>1, <2>2, <2>3 DEF Dispatched, Moves
  <2>. QED  BY <2>1, <2>4 DEF Promised
<1>. QED  BY <1>2, <1>3, <1>4, StillStep
          DEF ClaimStep, TakeLease, Lease, TakeNothing, ReadSource, Withdraw, tables

(* Only the agent whose executor has returned reports an end, and its job  *)
(* runs for as long as the lease is its own.                               *)
LEMMA ReportPromised ==
  ASSUME OneKey, TypeOK, HolderInv, SerialInv, FollowInv, NEW w \in Workers, ReportStep(w)
  PROVE  Promised
<1>. DEFINE j == worker[w].job
            s == worker[w].want
<1>1. CASE CommitReport(w)
  <2>1. /\ jobs \in [Jobs -> JobRow] /\ tenants \in [Tenants -> TenantRow]
        /\ worker[w] \in Local /\ Fresh(worker[w]) /\ LocalOk(worker[w])
        /\ worker[w].pc = "commit"
    BY <1>1 DEF TypeOK, SerialInv, HolderInv, CommitReport, At
  <2>2. j \in Jobs /\ TenantOf(j) \in Tenants /\ s \in Results \cup {"running"}
    BY <2>1, LocalFacts DEF AtJob, ReportPCs
  <2>3. CASE s = "running"
    <3>1. jobs[j].state = "dispatched"
      BY <2>1, <2>3 DEF Fresh, CanTransition, Transitions, JobStates
    <3>2. tenants[TenantOf(j)].status = "provisioning"
      BY <2>2, <3>1 DEF FollowInv, Fits
    <3>3. Moves(j, "running", "provisioning")
      BY <1>1, <2>1, <2>2, <2>3, <3>2 DEF CommitReport, JobRow, Moves
    <3>. QED  BY <2>2, <3>1, <3>3 DEF Promised
  <2>4. CASE s \in Results
    <3>1. leases[j].token = worker[w].token
      BY <2>1 DEF FollowInv
    <3>2. jobs[j].state = "running"
      BY <2>1, <2>4, <3>1 DEF LocalOk, Holds, ReportPCs
    <3>3. \A row \in TenantRow : WithOutcome(row, s).status = s
      BY DEF WithOutcome, TenantRow
    <3>4. s # "running"
      BY <2>4 DEF Results
    <3>5. Moves(j, s, s)
      BY <1>1, <2>1, <2>2, <3>3, <3>4 DEF CommitReport, JobRow, Moves
    <3>. QED  BY <2>2, <2>4, <3>2, <3>5 DEF Promised, Results
  <2>. QED  BY <2>2, <2>3, <2>4
<1>. QED  BY <1>1, StillStep DEF ReportStep, CheckLease, CheckState, RenewLease, tables

LEMMA PromisedStep ==
  ASSUME OneKey, TypeOK, HolderInv, SerialInv, FollowInv, [Next]_vars
  PROVE  Promised
<1>1. ASSUME NEW t \in Tenants, NEW kind \in Kinds, CreateTenant(t, kind)
      PROVE  Promised
  BY <1>1 DEF CreateTenant, NoTenant, TypeOK, Promised
<1>. QED  BY <1>1, AdminPromised, ClaimPromised, ReportPromised, StillStep
     DEF Next, WorkerStep, AdminRequest, CreateJobRead, CreateTrialRead, RetryRead, RevokeNode,
     Revoke, WorkerFails, Abort, AgentRequest, Poll, Request, SendReport, Report, AgentFault,
     ReplyLost, LoseReply, AgentRestarts, Restart, ExecutorReturns, Return, LeaseLapses, Lapse,
     tables, vars

(* The lease that was checked keeps its token until the handler ends. *)
LEMMA TokenStep ==
  ASSUME Serial, TypeOK, FollowInv, [Next]_vars
  PROVE  (\A w \in Workers : worker[w].pc \in {"state", "renew", "commit"} =>
            leases[worker[w].job].token = worker[w].token)'
<1>. DEFINE Checked == {"state", "renew", "commit"}
            Own(v) == worker[v].pc \in Checked => leases[worker[v].job].token = worker[v].token
<1>. SUFFICES ASSUME NEW v \in Workers PROVE Own(v)'
  OBVIOUS
<1>1. /\ worker \in [Workers -> Local] /\ leases \in [Jobs -> LeaseRow]
      /\ worker[v].pc \in Checked => worker[v].job \in Jobs
      /\ \A w \in Workers : w = v
      /\ Own(v)
  BY LocalFacts DEF TypeOK, AtJob, FollowInv, Serial
<1>2. ASSUME UNCHANGED worker, \A j \in Jobs : leases'[j].token = leases[j].token
      PROVE  Own(v)'
  BY <1>1, <1>2
<1>3. ASSUME worker'[v].pc \notin Checked PROVE Own(v)'
  BY <1>3
<1>4. ASSUME NEW pc \in {"create", "trial", "retry", "lease"}, NEW w \in Workers,
             NEW n, NEW j, NEW k, NEW x, Begin(w, Handler(pc, n, j, k, x))
      PROVE  Own(v)'
  BY <1>1, <1>3, <1>4 DEF Begin, Handler
<1>5. ASSUME NEW w \in Workers, Finish(w) PROVE Own(v)'
  BY <1>1, <1>3, <1>5 DEF Finish, Idle, Handler
<1>6. CASE AdminRequest
  BY <1>1, <1>2, <1>4, <1>6 DEF AdminRequest, CreateTenant, CreateJobRead, CreateTrialRead,
     RetryRead, RevokeNode, Revoke
<1>7. ASSUME NEW w \in Workers, AdminCommit(w) PROVE Own(v)'
  BY <1>5, <1>7 DEF AdminCommit, CreateJobCommit, CreateTrialCommit, RetryCommit
<1>8. ASSUME NEW w \in Workers, ClaimStep(w) PROVE Own(v)'
  <2>1. ASSUME NEW j \in Jobs, ExpireLease(w, j) PROVE worker'[v].pc \notin Checked
    BY <1>1, <2>1 DEF ExpireLease, At, Local
  <2>2. ASSUME NEW j \in Jobs, TakeLease(w, j) PROVE worker'[v].pc \notin Checked
    BY <1>1, <2>2 DEF TakeLease, Lease, Local
  <2>3. CASE ReadSource(w)
    <3>1. worker'[v].pc \in {"dispatch", "withdraw"}
      BY <1>1, <2>3 DEF ReadSource, Local
    <3>. QED  BY <1>3, <3>1
  <2>. QED  BY <1>3, <1>5, <1>8, <2>1, <2>2, <2>3
            DEF ClaimStep, TakeNothing, Withdraw, Dispatch
<1>9. ASSUME NEW w \in Workers, ReportStep(w) PROVE Own(v)'
  <2>. DEFINE j == worker[v].job
  <2>1. ASSUME NEW pc \in Checked, worker' = [worker EXCEPT ![v].pc = pc], UNCHANGED leases,
               leases[j].token = worker[v].token
        PROVE  Own(v)'
    <3>1. worker'[v].job = worker[v].job /\ worker'[v].token = worker[v].token
      BY <1>1, <2>1 DEF Local
    <3>. QED  BY <2>1, <3>1
  <2>2. CASE CheckLease(w)
    BY <1>1, <1>5, <2>1, <2>2 DEF CheckLease, Goto, Reject, tables
  <2>3. CASE CheckState(w)
    BY <1>1, <1>5, <2>1, <2>3 DEF CheckState, At, Reject, tables
  <2>. QED  BY <1>5, <1>9, <2>2, <2>3 DEF ReportStep, RenewLease, CommitReport, Accept
<1>10. ASSUME NEW w \in Workers, NEW n \in Nodes, Poll(w, n) \/ SendReport(w, n)
       PROVE  Own(v)'
  <2>1. CASE Poll(w, n)
    BY <1>1, <1>3, <2>1 DEF Poll, Request, Begin, Handler
  <2>2. CASE SendReport(w, n)
    BY <1>1, <1>4, <2>2 DEF SendReport, Report
  <2>. QED  BY <1>10, <2>1, <2>2
<1>11. ASSUME NEW w \in Workers, WorkerFails(w) PROVE Own(v)'
  BY <1>5, <1>11 DEF WorkerFails, Abort
<1>12. ASSUME NEW j \in Jobs, LeaseLapses(j) PROVE Own(v)'
  BY <1>1, <1>2, <1>12 DEF LeaseLapses, Lapse, LeaseRow
<1>13. CASE \/ \E n \in Nodes : AgentFault(n)
            \/ \E n \in Nodes, r \in Results : ExecutorReturns(n, r)
            \/ UNCHANGED vars
  BY <1>2, <1>13 DEF AgentFault, ReplyLost, LoseReply, AgentRestarts, Restart, ExecutorReturns,
     Return, vars
<1>. QED  BY <1>6, <1>7, <1>8, <1>9, <1>10, <1>11, <1>12, <1>13 DEF Next, WorkerStep, AgentRequest

LEMMA FollowInit == Init => FollowInv
BY DEF Init, FollowInv, Fits, NoJob, NoTenant, TenantOf, Jobs, Idle, Handler, Results

LEMMA FollowStep ==
  ASSUME Serial, OneKey, TypeOK, HolderInv, SerialInv, FollowInv, [Next]_vars
  PROVE  FollowInv' /\ [Abstract!Next]_<<states, statuses>>
BY PromisedStep, PromisedFits, PromisedAbstract, TokenStep DEF FollowInv

LEMMA FollowInvariant == Serial /\ OneKey => (Spec => []FollowInv)
<1>. SUFFICES ASSUME Serial, OneKey PROVE Spec => []FollowInv
  OBVIOUS
<1>1. TypeOK /\ HolderInv /\ SerialInv /\ FollowInv /\ [Next]_vars => FollowInv'
  BY FollowStep
<1>. QED  BY <1>1, FollowInit, TypeCorrect, HolderInvariant, SerialInvariant, PTL DEF Spec

(* If no two invocations overlap and each tenant has one idempotency key,  *)
(* the tenant tells what became of its job after every step, crashes, lost *)
(* replies, restarts and expiries included.                                *)
THEOREM SerialTenants == Serial /\ OneKey => (Spec => []TenantFollowsJob)
<1>. SUFFICES ASSUME Serial, OneKey PROVE Spec => []TenantFollowsJob
  OBVIOUS
<1>1. TypeOK /\ FollowInv => TenantFollowsJob
  <2>. SUFFICES ASSUME TypeOK, FollowInv, NEW t \in Tenants, NEW k \in Keys
                PROVE  LET s == jobs[<<t, k>>].state IN
                       /\ tenants[t].status = "provisioning" =>
                            s \in {"placed", "dispatched", "running", "retrying"}
                       /\ tenants[t].status \in Results => s = tenants[t].status
    BY DEF OneKey, TenantFollowsJob, Results
  <2>1. <<t, k>> \in Jobs /\ TenantOf(<<t, k>>) = t
    BY DEF Jobs, TenantOf
  <2>2. jobs[<<t, k>>].state \in JobStates \cup {"absent"}
    BY <2>1 DEF TypeOK, JobRow
  <2>3. Fits(jobs[<<t, k>>].state, tenants[t].status)
    BY <2>1 DEF FollowInv
  <2>. QED  BY <2>2, <2>3 DEF Fits, Results, JobStates
<1>. QED  BY <1>1, FollowInvariant, TypeCorrect, PTL

(* Under the same hypotheses the provisioning of the control plane, with   *)
(* its leases, agents and handlers, implements TenantProvisioning: a       *)
(* reader of jobs and tenants sees them move together, and only as that    *)
(* specification promises.                                                 *)
THEOREM SerialRefinement == Serial /\ OneKey => (Spec => ImplementsTenantProvisioning)
<1>. SUFFICES ASSUME Serial, OneKey PROVE Spec => ImplementsTenantProvisioning
  OBVIOUS
<1>1. Init => Abstract!Init
  BY DEF Init, Abstract!Init, Abstract!Jobs, states, statuses, NoJob, NoTenant, Jobs
<1>2. TypeOK /\ HolderInv /\ SerialInv /\ FollowInv /\ [Next]_vars
        => [Abstract!Next]_<<states, statuses>>
  BY FollowStep
<1>. QED  BY <1>1, <1>2, FollowInvariant, TypeCorrect, HolderInvariant, SerialInvariant, PTL
          DEF Spec, ImplementsTenantProvisioning, Abstract!Spec
=============================================================================
