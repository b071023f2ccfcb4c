---------------------- MODULE ProvisioningHolderProofs ----------------------
(* The proof, without any hypothesis on overlaps, that the job of an agent *)
(* whose lease still stands is running.                                    *)
EXTENDS ProvisioningProofs

(* A tenant's row is there before any job of it, and stays. *)
Known(j) == tenants[TenantOf(j)].status # "absent"

(* Whoever holds token k of job j may rely on this of the tables. *)
Holds(j, k) == leases[j].token = k => jobs[j].state = "running"

(* The handlers that act for a token. *)
TokenPCs == {"source", "withdraw", "dispatch"} \cup ReportPCs

(* A handler's token was drawn, and is that of a job whose tenant exists;  *)
(* what it has read of the job is what it goes on from.                    *)
LocalOk(l) ==
  /\ l.token <= tokens
  /\ l.pc \in TokenPCs => l.token > 0 /\ Known(l.job)
  /\ l.pc = "dispatch" => l.seen \in {"placed", "retrying"}
  /\ l.pc = "renew" \/ (l.pc \in ReportPCs /\ l.want \in Results)
       => Holds(l.job, l.token)

(* An agent's token was drawn; once "running" was accepted, its job runs   *)
(* for as long as the token is the lease's.                                *)
AgentOk(a) ==
  /\ a.token <= tokens
  /\ a.phase # "idle" => a.token > 0 /\ Known(a.job)
  /\ a.phase = "starting" => a.result = None
  /\ a.phase = "working" => Holds(a.job, a.token)

(* l is the handler of the request for which agent a waits: a poll of an   *)
(* idle agent, a report of its operation by a busy one.                    *)
Serves(a, l) ==
  /\ a.phase = "idle" => l.pc \in ClaimPCs
  /\ a.phase # "idle" => /\ l.pc \in ReportPCs
                         /\ l.job = a.job /\ l.token = a.token
                         /\ a.phase = "starting" => l.want = "running"

Waits ==
  \A n \in Nodes, w \in Workers :
    agents[n].wait = w => worker[w].node = n /\ Serves(agents[n], worker[w])

(* Tokens are drawn once, an agent waits for the handler that works for it *)
(* and on its operation, and a job leaves "running" only with its lease.   *)
HolderInv ==
  /\ JobsHaveTenants
  /\ \A j \in Jobs : leases[j].token <= tokens
  /\ \A w \in Workers : LocalOk(worker[w])
  /\ \A n \in Nodes : AgentOk(agents[n])
  /\ Waits

-----------------------------------------------------------------------------
(* What holds by the type of a handler. *)
LEMMA LocalFacts ==
  ASSUME TypeOK, NEW w \in Workers
  PROVE  /\ worker[w] \in Local /\ worker[w].token \in Nat
         /\ worker[w].pc \in AtJob =>
              worker[w].job \in Jobs /\ TenantOf(worker[w].job) \in Tenants
         /\ worker[w].pc \in ReportPCs => worker[w].want \in Results \cup {"running"}
BY RuntimeAssumption DEF TypeOK, Local, Assigned, AtJob, ReportPCs, TenantOf, Jobs

-----------------------------------------------------------------------------
(* The tables *)

(* A step of the tables that whoever holds a token need not notice. *)
TablesKept ==
  /\ tokens \in Nat /\ tokens' \in Nat /\ tokens <= tokens'
  /\ \A t \in Tenants : tenants[t].status # "absent" => tenants'[t].status # "absent"
  /\ \A j \in Jobs, k \in Nat :
       /\ 0 < k /\ k <= tokens
       /\ leases[j].token = k => jobs[j].state = "running"
       => (leases'[j].token = k => jobs'[j].state = "running")
  /\ JobsHaveTenants'
  /\ \A j \in Jobs : leases'[j].token <= tokens'

LEMMA TablesUnchanged ==
  ASSUME TypeOK, HolderInv, UNCHANGED <<jobs, tenants, tokens>>,
         \A j \in Jobs : leases'[j].token = leases[j].token \/ leases'[j].token = 0
  PROVE  TablesKept
BY RuntimeAssumption DEF TablesKept, HolderInv, TypeOK, LeaseRow, JobsHaveTenants

(* The admin's commits: a job is new, or loses its lease. *)
LEMMA AdminTables ==
  ASSUME TypeOK, HolderInv, NEW w \in Workers, AdminCommit(w)
  PROVE  TablesKept
<1>. DEFINE j == worker[w].job
            t == TenantOf(j)
<1>1. j \in Jobs /\ t \in Tenants
  BY LocalFacts DEF AdminCommit, CreateJobCommit, CreateTrialCommit, RetryCommit, At, AtJob
<1>2. /\ jobs \in [Jobs -> JobRow] /\ tenants \in [Tenants -> TenantRow]
      /\ leases \in [Jobs -> LeaseRow] /\ tokens \in Nat
      /\ JobsHaveTenants /\ \A i \in Jobs : leases[i].token <= tokens
      /\ \A i \in Jobs : TenantOf(i) \in Tenants
  BY RuntimeAssumption DEF TypeOK, HolderInv, TenantOf, Jobs
<1>3. \A row \in TenantRow : \A n : TakenUp(row, n).status = "provisioning"
  BY DEF TakenUp, TenantRow
<1>4. CASE CreateJobCommit(w)
  BY <1>1, <1>2, <1>3, <1>4 DEF CreateJobCommit, PlacedOn, TablesKept, JobsHaveTenants
<1>5. CASE CreateTrialCommit(w)
  BY <1>1, <1>2, <1>5 DEF CreateTrialCommit, PlacedOn, TablesKept, JobsHaveTenants
<1>6. CASE RetryCommit(w)
  BY <1>1, <1>2, <1>3, <1>6, RuntimeAssumption
     DEF RetryCommit, Retried, NoLease, LeaseRow, JobRow, TablesKept, JobsHaveTenants
<1>. QED  BY <1>4, <1>5, <1>6 DEF AdminCommit

(* A claim: a job is failed with its lease, leased with a token not yet    *)
(* drawn, dispatched from a state that is not running, or left alone.      *)
LEMMA ClaimTables ==
  ASSUME TypeOK, HolderInv, NEW w \in Workers, ClaimStep(w)
  PROVE  TablesKept
<1>. DEFINE j == worker[w].job
<1>2. /\ jobs \in [Jobs -> JobRow] /\ tenants \in [Tenants -> TenantRow]
      /\ leases \in [Jobs -> LeaseRow] /\ tokens \in Nat
      /\ JobsHaveTenants /\ \A i \in Jobs : leases[i].token <= tokens
      /\ \A i \in Jobs : TenantOf(i) \in Tenants
  BY RuntimeAssumption DEF TypeOK, HolderInv, TenantOf, Jobs
<1>3. ASSUME NEW i \in Jobs, ExpireLease(w, i)
      PROVE  TablesKept
  <2>1. \A row \in TenantRow : WithOutcome(row, "failed").status = "failed"
    BY DEF WithOutcome, TenantRow
  <2>. QED  BY <1>2, <1>3, <2>1, RuntimeAssumption
            DEF ExpireLease, NoLease, LeaseRow, JobRow, TablesKept, JobsHaveTenants
<1>4. ASSUME NEW i \in Jobs, TakeLease(w, i)
      PROVE  TablesKept
  BY <1>2, <1>4, RuntimeAssumption
     DEF TakeLease, Lease, NewLease, LeaseRow, TablesKept, JobsHaveTenants
<1>5. CASE Withdraw(w)
  BY <1>2, <1>5, TablesUnchanged DEF Withdraw, NoLease, LeaseRow
<1>6. CASE Dispatch(w)
  <2>1. j \in Jobs /\ worker[w].seen \in {"placed", "retrying"}
    BY <1>6, LocalFacts DEF Dispatch, At, AtJob, HolderInv, LocalOk
  <2>. QED  BY <1>2, <1>6, <2>1 DEF Dispatch, Dispatched, TablesKept, JobsHaveTenants
<1>7. CASE TakeNothing(w) \/ ReadSource(w)
  BY <1>2, <1>7, TablesUnchanged DEF TakeNothing, ReadSource, tables
<1>. QED  BY <1>3, <1>4, <1>5, <1>6, <1>7 DEF ClaimStep

(* A report: the job runs, or ends and loses its lease. *)
LEMMA ReportTables ==
  ASSUME TypeOK, HolderInv, NEW w \in Workers, ReportStep(w)
  PROVE  TablesKept
<1>. DEFINE j == worker[w].job
            t == TenantOf(j)
            s == worker[w].want
<1>1. /\ j \in Jobs /\ t \in Tenants
      /\ s \in Results \cup {"running"} /\ Known(j)
  BY LocalFacts DEF ReportStep, CheckLease, CheckState, RenewLease, CommitReport, At, AtJob,
     ReportPCs, TokenPCs, HolderInv, LocalOk
<1>2. /\ jobs \in [Jobs -> JobRow] /\ tenants \in [Tenants -> TenantRow]
      /\ leases \in [Jobs -> LeaseRow] /\ tokens \in Nat
      /\ JobsHaveTenants /\ \A i \in Jobs : leases[i].token <= tokens
      /\ \A i \in Jobs : TenantOf(i) \in Tenants
  BY RuntimeAssumption DEF TypeOK, HolderInv, TenantOf, Jobs
<1>3. \A l \in LeaseRow : Renewed(l) \in LeaseRow /\ Renewed(l).token = l.token
  BY DEF Renewed, LeaseRow
<1>4. CASE CheckLease(w) \/ CheckState(w)
  BY <1>2, <1>4, TablesUnchanged DEF CheckLease, CheckState, tables
<1>5. CASE RenewLease(w)
  BY <1>1, <1>2, <1>3, <1>5, TablesUnchanged DEF RenewLease
<1>6. CASE CommitReport(w)
  <2>1. CASE s = "running"
    BY <1>1, <1>2, <1>3, <1>6, <2>1
       DEF CommitReport, LeaseAfter, JobRow, TablesKept, JobsHaveTenants, Known
  <2>2. CASE s # "running"
    <3>1. \A row \in TenantRow : WithOutcome(row, s).status = s
      BY DEF WithOutcome, TenantRow
    <3>2. s # "absent"
      BY <1>1 DEF Results
    <3>. QED  BY <1>1, <1>2, <1>6, <2>2, <3>1, <3>2, RuntimeAssumption
              DEF CommitReport, LeaseAfter, NoLease, LeaseRow, JobRow, TablesKept,
                  JobsHaveTenants
  <2>. QED  BY <2>1, <2>2
<1>. QED  BY <1>4, <1>5, <1>6 DEF ReportStep

(* The requests, the agents and the environment. *)
LEMMA OtherTables ==
  ASSUME TypeOK, HolderInv,
         \/ AdminRequest
         \/ \E w \in Workers : WorkerFails(w)
         \/ \E n \in Nodes : AgentRequest(n) \/ AgentFault(n)
         \/ \E n \in Nodes, r \in Results : ExecutorReturns(n, r)
         \/ \E j \in Jobs : LeaseLapses(j)
         \/ UNCHANGED vars
  PROVE  TablesKept
<1>1. ASSUME UNCHANGED <<jobs, tenants, tokens, leases>>
      PROVE  TablesKept
  BY <1>1, TablesUnchanged
<1>2. ASSUME NEW t \in Tenants, NEW kind \in Kinds, CreateTenant(t, kind)
      PROVE  TablesKept
  BY <1>2, RuntimeAssumption
     DEF CreateTenant, NoTenant, TypeOK, HolderInv, TablesKept, JobsHaveTenants
<1>3. ASSUME NEW j \in Jobs, LeaseLapses(j)
      PROVE  TablesKept
  <2>1. \A i \in Jobs : leases'[i].token = leases[i].token
    BY <1>3 DEF LeaseLapses, Lapse, TypeOK, LeaseRow
  <2>. QED  BY <1>3, <2>1, TablesUnchanged DEF LeaseLapses, Lapse
<1>. QED  BY <1>1, <1>2, <1>3 DEF AdminRequest, CreateJobRead, CreateTrialRead, RetryRead,
     RevokeNode, Revoke, WorkerFails, Abort, AgentRequest, Poll, Request, SendReport, Report,
     AgentFault, ReplyLost, LoseReply, AgentRestarts, Restart, ExecutorReturns, Return,
     tables, vars

LEMMA TablesStep ==
  ASSUME TypeOK, HolderInv, [Next]_vars
  PROVE  TablesKept
BY AdminTables, ClaimTables, ReportTables, OtherTables DEF Next, WorkerStep

-----------------------------------------------------------------------------
(* Handlers and agents that a step does not touch *)

LEMMA KeptLocal ==
  ASSUME TablesKept, NEW l \in Local, LocalOk(l)
  PROVE  LocalOk(l)'
<1>1. l.token \in Nat
  BY RuntimeAssumption DEF Local
<1>2. l.pc \in TokenPCs => l.job \in Jobs /\ TenantOf(l.job) \in Tenants
  BY DEF Local, Assigned, AtJob, TokenPCs, ReportPCs, TenantOf, Jobs
<1>3. l.pc = "renew" \/ l.pc \in ReportPCs => l.pc \in TokenPCs
  BY DEF TokenPCs, ReportPCs
<1>. QED  BY <1>1, <1>2, <1>3 DEF LocalOk, TablesKept, Holds, Known

LEMMA KeptAgent ==
  ASSUME TablesKept, NEW a \in Agent, AgentOk(a)
  PROVE  AgentOk(a)'
<1>1. a.token \in Nat
  BY RuntimeAssumption DEF Agent
<1>2. a.phase # "idle" => a.job \in Jobs /\ TenantOf(a.job) \in Tenants
  BY DEF Agent, TenantOf, Jobs
<1>. QED  BY <1>1, <1>2 DEF AgentOk, TablesKept, Holds, Known

(* A step that only moves handler w on, to l. *)
LEMMA LocalStep ==
  ASSUME TypeOK, HolderInv, TablesKept, NEW w \in Workers, NEW l,
         worker' = [worker EXCEPT ![w] = l], LocalOk(l)'
  PROVE  (\A v \in Workers : LocalOk(worker[v]))'
<1>1. worker \in [Workers -> Local] /\ \A v \in Workers : LocalOk(worker[v])
  BY DEF TypeOK, HolderInv
<1>2. \A m \in Local : LocalOk(m) => LocalOk(m)'
  BY KeptLocal
<1>. QED  BY <1>1, <1>2 DEF LocalOk, Holds, Known

LEMMA LocalSame ==
  ASSUME TypeOK, HolderInv, TablesKept, UNCHANGED worker
  PROVE  (\A v \in Workers : LocalOk(worker[v]))'
<1>1. worker \in [Workers -> Local] /\ \A v \in Workers : LocalOk(worker[v])
  BY DEF TypeOK, HolderInv
<1>2. \A m \in Local : LocalOk(m) => LocalOk(m)'
  BY KeptLocal
<1>. QED  BY <1>1, <1>2 DEF LocalOk, Holds, Known

(* A step after which every agent is as before, or as described. *)
LEMMA AgentStep ==
  ASSUME TypeOK, HolderInv, TablesKept, agents' \in [Nodes -> Agent],
         \A n \in Nodes : agents'[n] = agents[n] \/ \E a \in Agent : a = agents'[n] /\ AgentOk(a)'
  PROVE  (\A n \in Nodes : AgentOk(agents[n]))'
<1>1. agents \in [Nodes -> Agent] /\ \A n \in Nodes : AgentOk(agents[n])
  BY DEF TypeOK, HolderInv
<1>2. \A a \in Agent : AgentOk(a) => AgentOk(a)'
  BY KeptAgent
<1>. QED  BY <1>1, <1>2 DEF AgentOk, Holds, Known

(* Handler w moves on to l: an agent has its answer, or waits for l, or    *)
(* never waited for w.                                                     *)
LEMMA WaitsStep ==
  ASSUME TypeOK, HolderInv, NEW w \in Workers, NEW l, worker' = [worker EXCEPT ![w] = l],
         \A n \in Nodes :
           \/ agents'[n].wait = None
           \/ agents'[n].wait = w /\ l.node = n /\ Serves(agents'[n], l)
           \/ agents'[n] = agents[n] /\ agents[n].wait # w
  PROVE  Waits'
BY RuntimeAssumption DEF TypeOK, HolderInv, Waits, Serves

LEMMA WaitsSame ==
  ASSUME TypeOK, HolderInv, worker' = worker,
         \A n \in Nodes : agents'[n] = agents[n] \/ agents'[n].wait = None
  PROVE  Waits'
BY RuntimeAssumption DEF TypeOK, HolderInv, Waits, Serves
-----------------------------------------------------------------------------
(* Answers *)

LEMMA IdleOk ==
  ASSUME tokens' \in Nat
  PROVE  LocalOk(Idle)' /\ AgentOk(IdleAgent)'
BY DEF LocalOk, AgentOk, Idle, Handler, IdleAgent, TokenPCs, ReportPCs

(* The parts of HolderInv' that are not about the tables. *)
LEMMA HolderParts ==
  ASSUME TablesKept, (\A w \in Workers : LocalOk(worker[w]))',
         (\A n \in Nodes : AgentOk(agents[n]))', Waits'
  PROVE  HolderInv'
BY DEF TablesKept, HolderInv

LEMMA UntouchedStep ==
  ASSUME TypeOK, HolderInv, TablesKept, UNCHANGED <<worker, agents>>
  PROVE  HolderInv'
<1>1. (\A n \in Nodes : AgentOk(agents[n]))'
  BY AgentStep DEF TypeOK
<1>. QED  BY <1>1, LocalSame, WaitsSame, HolderParts

(* Handler w ends, and whoever awaited it goes on as a sound agent. *)
LEMMA AnswerStep ==
  ASSUME TypeOK, TypeOK', HolderInv, TablesKept, NEW w \in Workers, Finish(w),
         \A n \in Nodes : IF AwaitedBy(w, n)
                          THEN agents'[n].wait = None /\
                               \E a \in Agent : a = agents'[n] /\ AgentOk(a)'
                          ELSE agents'[n] = agents[n]
  PROVE  HolderInv'
<1>1. agents' \in [Nodes -> Agent] /\ tokens' \in Nat
  BY RuntimeAssumption DEF TypeOK
<1>2. (\A v \in Workers : LocalOk(worker[v]))'
  BY <1>1, IdleOk, LocalStep DEF Finish
<1>3. (\A n \in Nodes : AgentOk(agents[n]))'
  BY <1>1, AgentStep
<1>4. Waits'
  <2>1. \A n \in Nodes : agents'[n].wait = None \/ (agents'[n] = agents[n] /\ agents[n].wait # w)
    BY DEF AwaitedBy, HolderInv, Waits
  <2>. QED  BY <2>1, WaitsStep DEF Finish
<1>. QED  BY <1>2, <1>3, <1>4, HolderParts

(* An error, or "no operation". *)
LEMMA RejectStep ==
  ASSUME TypeOK, TypeOK', HolderInv, TablesKept, NEW w \in Workers, Finish(w),
         DeliverEach(w, AfterReject) \/ Deliver(w, IdleAgent)
  PROVE  HolderInv'
<1>1. ASSUME NEW n \in Nodes, AwaitedBy(w, n)
      PROVE  agents'[n].wait = None /\ \E a \in Agent : a = agents'[n] /\ AgentOk(a)'
  <2>1. agents[n] \in Agent /\ AgentOk(agents[n]) /\ tokens' \in Nat
    BY DEF TypeOK, HolderInv, TablesKept
  <2>2. IdleAgent \in Agent /\ IdleAgent.wait = None /\ AgentOk(IdleAgent)'
    BY <2>1, IdleOk, AgentTypes DEF IdleAgent
  <2>3. PICK b \in Agent : b = [agents[n] EXCEPT !.wait = None]
    BY <2>1 DEF Agent
  <2>4. b.wait = None /\ AgentOk(b)
    BY <2>1, <2>3 DEF AgentOk, Agent
  <2>5. AgentOk(b)'
    BY <2>4, KeptAgent
  <2>6. agents'[n] = IdleAgent \/ agents'[n] = b
    BY <1>1, <2>3 DEF DeliverEach, Deliver, AfterReject
  <2>. QED  BY <2>2, <2>4, <2>5, <2>6
<1>2. \A n \in Nodes : ~AwaitedBy(w, n) => agents'[n] = agents[n]
  BY DEF DeliverEach, Deliver
<1>. QED  BY <1>1, <1>2, AnswerStep

(* A report is accepted: the job of an agent that starts is running then.  *)
LEMMA AcceptStep ==
  ASSUME TypeOK, TypeOK', HolderInv, TablesKept, NEW w \in Workers, Accept(w),
         NEW j, j = worker[w].job, NEW k, k = worker[w].token,
         worker[w].want = "running" => Holds(j, k)'
  PROVE  HolderInv'
<1>1. ASSUME NEW n \in Nodes, AwaitedBy(w, n)
      PROVE  agents'[n].wait = None /\ \E a \in Agent : a = agents'[n] /\ AgentOk(a)'
  <2>1. agents[n] \in Agent /\ AgentOk(agents[n]) /\ tokens' \in Nat
    BY DEF TypeOK, HolderInv, TablesKept
  <2>2. IdleAgent \in Agent /\ IdleAgent.wait = None /\ AgentOk(IdleAgent)'
    BY <2>1, IdleOk, AgentTypes DEF IdleAgent
  <2>3. PICK b \in Agent : b = [agents[n] EXCEPT !.wait = None]
    BY <2>1 DEF Agent
  <2>4. b.wait = None /\ AgentOk(b)
    BY <2>1, <2>3 DEF AgentOk, Agent
  <2>5. AgentOk(b)'
    BY <2>4, KeptAgent
  <2>6. CASE agents[n].phase = "starting"
    <3>1. agents[n].job = j /\ agents[n].token = k /\ worker[w].want = "running"
      BY <1>1, <2>6 DEF AwaitedBy, HolderInv, Waits, Serves
    <3>2. PICK c \in Agent : c = [agents[n] EXCEPT !.phase = "working", !.wait = None]
      BY <2>1, <2>6 DEF Agent
    <3>3. /\ c.wait = None /\ c.phase = "working" /\ c.job = j /\ c.token = k
          /\ b.phase = "starting" /\ b.job = j /\ b.token = k
      BY <2>1, <2>3, <2>6, <3>1, <3>2 DEF Agent
    <3>4. AgentOk(c)'
      BY <2>5, <3>1, <3>3 DEF AgentOk
    <3>5. agents'[n] = c
      BY <1>1, <2>6, <3>2 DEF Accept, DeliverEach, AfterAccept
    <3>. QED  BY <3>3, <3>4, <3>5
  <2>7. CASE agents[n].phase # "starting"
    <3>1. agents'[n] = IdleAgent \/ agents'[n] = b
      BY <1>1, <2>3, <2>7 DEF Accept, DeliverEach, AfterAccept
    <3>. QED  BY <2>2, <2>4, <2>5, <3>1
  <2>. QED  BY <2>6, <2>7
<1>2. \A n \in Nodes : ~AwaitedBy(w, n) => agents'[n] = agents[n]
  BY DEF Accept, DeliverEach
<1>. QED  BY <1>1, <1>2, AnswerStep DEF Accept

(* A handler moves on without an answer: whoever waits for it still may. *)
LEMMA MoveStep ==
  ASSUME TypeOK, TypeOK', HolderInv, TablesKept, UNCHANGED agents, NEW w \in Workers, NEW l,
         worker' = [worker EXCEPT ![w] = l], LocalOk(l)',
         \A n \in Nodes : agents[n].wait = w => l.node = worker[w].node /\ Serves(agents[n], l)
  PROVE  HolderInv'
<1>1. (\A v \in Workers : LocalOk(worker[v]))'
  BY LocalStep
<1>2. (\A n \in Nodes : AgentOk(agents[n]))'
  BY AgentStep DEF TypeOK
<1>3. \A n \in Nodes : agents[n].wait = w => worker[w].node = n
  BY DEF HolderInv, Waits
<1>4. Waits'
  BY <1>3, WaitsStep
<1>. QED  BY <1>1, <1>2, <1>4, HolderParts

(* Only agents that are in a request wait, and only for its handler. *)
LEMMA NobodyWaits ==
  ASSUME HolderInv, NEW w \in Workers, worker[w].pc \notin ClaimPCs \cup ReportPCs
  PROVE  \A n \in Nodes : agents[n].wait # w
BY DEF HolderInv, Waits, Serves
-----------------------------------------------------------------------------
(* The steps *)

(* A request begins; where it is an agent's, that agent waits for it.      *)
LEMMA RequestStep ==
  ASSUME TypeOK, TypeOK', HolderInv, TablesKept, NEW n \in Nodes, NEW w \in Workers,
         Poll(w, n) \/ SendReport(w, n)
  PROVE  HolderInv'
<1>1. /\ agents[n] \in Agent /\ AgentOk(agents[n]) /\ worker[w] = Idle /\ tokens' = tokens
      /\ tokens \in Nat
  BY DEF TypeOK, HolderInv, TablesKept, Poll, Request, SendReport, Report, Begin
<1>2. PICK b \in Agent : b = [agents[n] EXCEPT !.wait = w]
  BY <1>1 DEF Agent
<1>3. b.wait = w /\ AgentOk(b)
  BY <1>1, <1>2 DEF AgentOk, Agent
<1>4. AgentOk(b)'
  BY <1>3, KeptAgent
<1>5. agents' = [agents EXCEPT ![n] = b]
  BY <1>2 DEF Poll, Request, SendReport, Report
<1>6. \A m \in Nodes : agents[m].wait # w
  BY <1>1, NobodyWaits DEF Idle, Handler, ClaimPCs, ReportPCs
<1>7. \A l : /\ worker' = [worker EXCEPT ![w] = l] /\ LocalOk(l)'
             /\ l.node = n /\ Serves(b, l)
             => HolderInv'
  <2>. SUFFICES ASSUME NEW l, worker' = [worker EXCEPT ![w] = l], LocalOk(l)',
                       l.node = n, Serves(b, l)
                PROVE  HolderInv'
    OBVIOUS
  <2>1. \A m \in Nodes : agents'[m] = IF m = n THEN b ELSE agents[m]
    BY <1>5 DEF TypeOK
  <2>2. (\A v \in Workers : LocalOk(worker[v]))'
    BY LocalStep
  <2>3. (\A m \in Nodes : AgentOk(agents[m]))'
    BY <2>1, <1>4, AgentStep DEF TypeOK
  <2>4. Waits'
    BY <2>1, <1>3, <1>6, WaitsStep
  <2>. QED  BY <2>2, <2>3, <2>4, HolderParts
<1>8. CASE Poll(w, n)
  <2>1. PICK l : l = [Handler("expire", n, None, 0, None) EXCEPT !.work = Expired(n)]
    OBVIOUS
  <2>2. l.pc = "expire" /\ l.token = 0 /\ l.node = n
    BY <2>1 DEF Handler
  <2>3. LocalOk(l)'
    BY <1>1, <2>2 DEF LocalOk, TokenPCs, ReportPCs
  <2>4. b.phase = "idle"
    BY <1>1, <1>2, <1>8 DEF Poll, Request, IdleAgent, Agent
  <2>5. Serves(b, l)
    BY <2>2, <2>4 DEF Serves, ClaimPCs
  <2>6. worker' = [worker EXCEPT ![w] = l]
    BY <1>8, <2>1 DEF Poll, Request, Begin
  <2>. QED  BY <1>7, <2>2, <2>3, <2>5, <2>6
<1>9. CASE SendReport(w, n)
  <2>1. PICK l : l = Handler("lease", n, agents[n].job, agents[n].token, Reported(agents[n]))
    OBVIOUS
  <2>2. /\ b.phase # "idle" /\ b.job = l.job /\ b.token = l.token
        /\ l.pc = "lease" /\ l.node = n
        /\ b.phase = "starting" => l.want = "running"
        /\ l.want \in Results => b.phase = "working"
    BY <1>1, <1>2, <1>9, <2>1
       DEF SendReport, Report, Handler, Reported, Agent, AgentOk, Results
  <2>3. LocalOk(l)'
    BY <1>4, <2>2 DEF AgentOk, LocalOk, Known, Holds
  <2>4. Serves(b, l)
    BY <2>2 DEF Serves, ReportPCs
  <2>5. worker' = [worker EXCEPT ![w] = l]
    BY <1>9, <2>1 DEF SendReport, Report, Begin
  <2>. QED  BY <1>7, <2>2, <2>3, <2>4, <2>5
<1>. QED  BY <1>8, <1>9

(* The admin's requests, and their ends. *)
LEMMA AdminStep ==
  ASSUME TypeOK, TypeOK', HolderInv, TablesKept,
         AdminRequest \/ \E w \in Workers : AdminCommit(w)
  PROVE  HolderInv'
<1>a. tokens' \in Nat
  BY DEF TablesKept
<1>1. ASSUME NEW w \in Workers, NEW l, worker' = [worker EXCEPT ![w] = l], UNCHANGED agents,
             l.token = 0, l.pc \in {"idle", "create", "trial", "retry"},
             worker[w].pc \in {"idle", "create", "trial", "retry"}
      PROVE  HolderInv'
  <2>1. LocalOk(l)'
    BY <1>a, <1>1 DEF LocalOk, TokenPCs, ReportPCs
  <2>2. \A n \in Nodes : agents[n].wait # w
    BY <1>1, NobodyWaits DEF ClaimPCs, ReportPCs
  <2>. QED  BY <1>1, <2>1, <2>2, MoveStep
<1>2. ASSUME NEW w \in Workers, NEW j \in Jobs, NEW n \in Nodes,
             CreateJobRead(w, j, n) \/ CreateTrialRead(w, j, n)
      PROVE  HolderInv'
  BY <1>1, <1>2 DEF CreateJobRead, CreateTrialRead, Begin, Handler, Idle
<1>3. ASSUME NEW w \in Workers, NEW j \in Jobs, RetryRead(w, j)
      PROVE  HolderInv'
  <2>1. PICK l : l = Handler("retry", None, j, 0, None)
    OBVIOUS
  <2>2. l.token = 0 /\ l.pc = "retry"
    BY <2>1 DEF Handler
  <2>3. worker' = [worker EXCEPT ![w] = l] /\ UNCHANGED agents /\ worker[w].pc = "idle"
    BY <1>3, <2>1 DEF RetryRead, Begin, Idle, Handler
  <2>. QED  BY <1>1, <2>2, <2>3
<1>4. ASSUME NEW w \in Workers, AdminCommit(w)
      PROVE  HolderInv'
  <2>1. PICK l : l = Idle
    OBVIOUS
  <2>2. l.token = 0 /\ l.pc = "idle"
    BY <2>1 DEF Idle, Handler
  <2>3. worker' = [worker EXCEPT ![w] = l] /\ UNCHANGED agents
    BY <1>4, <2>1 DEF AdminCommit, CreateJobCommit, CreateTrialCommit, RetryCommit, Finish
  <2>4. worker[w].pc \in {"create", "trial", "retry"}
    BY <1>4 DEF AdminCommit, CreateJobCommit, CreateTrialCommit, RetryCommit, At
  <2>. QED  BY <1>1, <2>2, <2>3, <2>4
<1>5. ASSUME NEW t \in Tenants, NEW kind \in Kinds, CreateTenant(t, kind)
      PROVE  HolderInv'
  BY <1>5, UntouchedStep DEF CreateTenant
<1>6. ASSUME NEW n \in Nodes, RevokeNode(n)
      PROVE  HolderInv'
  BY <1>6, UntouchedStep DEF RevokeNode, Revoke
<1>. QED  BY <1>2, <1>3, <1>4, <1>5, <1>6 DEF AdminRequest

(* A claim. *)
LEMMA ClaimHolder ==
  ASSUME TypeOK, TypeOK', HolderInv, TablesKept, NEW w \in Workers, ClaimStep(w)
  PROVE  HolderInv'
<1>a. worker[w] \in Local /\ LocalOk(worker[w]) /\ tokens' \in Nat
  BY DEF TypeOK, HolderInv, TablesKept
<1>b. \A n \in Nodes : agents[n].wait = w => Serves(agents[n], worker[w])
  BY DEF HolderInv, Waits
<1>1. ASSUME NEW i \in Jobs, ExpireLease(w, i)
      PROVE  HolderInv'
  <2>1. PICK l : l = [worker[w] EXCEPT !.work = @ \ {i}]
    OBVIOUS
  <2>2. l.pc = "expire" /\ worker[w].pc = "expire" /\ l.token = worker[w].token
        /\ l.node = worker[w].node
    BY <1>1, <1>a, <2>1 DEF ExpireLease, At, Local
  <2>3. LocalOk(l)'
    BY <1>1, <1>a, <2>2 DEF ExpireLease, LocalOk, TokenPCs, ReportPCs
  <2>4. \A n \in Nodes : agents[n].wait = w => Serves(agents[n], l)
    BY <1>b, <2>2 DEF Serves, ReportPCs, ClaimPCs
  <2>5. worker' = [worker EXCEPT ![w] = l] /\ UNCHANGED agents
    BY <1>1, <2>1 DEF ExpireLease
  <2>. QED  BY <2>2, <2>3, <2>4, <2>5, MoveStep
<1>2. ASSUME NEW i \in Jobs, TakeLease(w, i)
      PROVE  HolderInv'
  <2>0. tokens \in Nat /\ JobsHaveTenants
    BY DEF TablesKept, HolderInv
  <2>1. PICK l : l = [worker[w] EXCEPT !.pc = "source", !.job = i, !.token = tokens + 1]
    OBVIOUS
  <2>2. l.pc = "source" /\ worker[w].pc = "expire" /\ l.token = tokens + 1 /\ l.job = i
        /\ l.node = worker[w].node
    BY <1>2, <1>a, <2>1 DEF TakeLease, At, Local
  <2>3. Known(i) /\ UNCHANGED tenants /\ tokens' = tokens + 1
    BY <1>2, <2>0 DEF TakeLease, Lease, Unleased, Claimable, Known, JobsHaveTenants
  <2>4. LocalOk(l)'
    BY <2>0, <2>2, <2>3 DEF LocalOk, Known, ReportPCs
  <2>5. \A n \in Nodes : agents[n].wait = w => Serves(agents[n], l)
    BY <1>b, <2>2 DEF Serves, ReportPCs, ClaimPCs
  <2>6. worker' = [worker EXCEPT ![w] = l] /\ UNCHANGED agents
    BY <1>2, <2>1 DEF TakeLease, Lease
  <2>. QED  BY <2>2, <2>4, <2>5, <2>6, MoveStep
<1>3. CASE ReadSource(w)
  <2>. DEFINE s == jobs[worker[w].job].state
  <2>1. PICK l : l = [worker[w] EXCEPT !.seen = s,
                        !.pc = IF CanTransition(s, "dispatched") THEN "dispatch" ELSE "withdraw"]
    OBVIOUS
  <2>2. /\ worker[w].pc = "source" /\ l.pc \in {"dispatch", "withdraw"}
        /\ l.token = worker[w].token /\ l.job = worker[w].job /\ l.node = worker[w].node
        /\ l.pc = "dispatch" => l.seen = s /\ CanTransition(s, "dispatched")
    BY <1>3, <1>a, <2>1 DEF ReadSource, At, Local
  <2>3. l.pc = "dispatch" => l.seen \in {"placed", "retrying"}
    BY <2>2 DEF CanTransition, Transitions, JobStates
  <2>4. UNCHANGED <<tokens, tenants, agents>> /\ worker' = [worker EXCEPT ![w] = l]
    BY <1>3, <2>1 DEF ReadSource, tables
  <2>5. LocalOk(l)'
    BY <1>a, <2>2, <2>3, <2>4 DEF LocalOk, Known, TokenPCs, ReportPCs
  <2>6. \A n \in Nodes : agents[n].wait = w => Serves(agents[n], l)
    BY <1>b, <2>2 DEF Serves, ReportPCs, ClaimPCs
  <2>. QED  BY <2>2, <2>4, <2>5, <2>6, MoveStep
<1>4. CASE TakeNothing(w) \/ Withdraw(w)
  BY <1>4, RejectStep DEF TakeNothing, Withdraw
<1>5. CASE Dispatch(w)
  <2>. DEFINE j == worker[w].job
              k == worker[w].token
  <2>1. CASE Deliver(w, IdleAgent)
    BY <1>5, <2>1, RejectStep DEF Dispatch
  <2>2. CASE Deliver(w, Claimant(j, k))
    <3>1. j \in Jobs /\ k \in 0..MaxTokens /\ k <= tokens /\ k > 0 /\ Known(j)
      BY <1>5, <1>a, LocalFacts DEF Dispatch, At, AtJob, TokenPCs, LocalOk, Local
    <3>2. PICK a \in Agent : a = Claimant(j, k)
      BY <3>1 DEF Claimant, Agent
    <3>3. /\ a.phase = "starting" /\ a.result = None /\ a.wait = None
          /\ a.job = j /\ a.token = k
      BY <3>2 DEF Claimant
    <3>4. AgentOk(a)
      BY <3>1, <3>3 DEF AgentOk
    <3>5. AgentOk(a)'
      BY <3>4, KeptAgent
    <3>6. \A n \in Nodes : agents'[n] = IF AwaitedBy(w, n) THEN a ELSE agents[n]
      BY <2>2, <3>2 DEF Deliver
    <3>. QED  BY <1>5, <3>3, <3>5, <3>6, AnswerStep DEF Dispatch
  <2>. QED  BY <1>5, <2>1, <2>2 DEF Dispatch
<1>. QED  BY <1>1, <1>2, <1>3, <1>4, <1>5 DEF ClaimStep

(* A report. *)
LEMMA ReportHolder ==
  ASSUME TypeOK, TypeOK', HolderInv, TablesKept, NEW w \in Workers, ReportStep(w)
  PROVE  HolderInv'
<1>. DEFINE j == worker[w].job
            k == worker[w].token
<1>a. worker[w] \in Local /\ LocalOk(worker[w])
  BY DEF TypeOK, HolderInv
<1>b. \A n \in Nodes : agents[n].wait = w => Serves(agents[n], worker[w])
  BY DEF HolderInv, Waits
<1>1. ASSUME NEW pc \in {"state", "renew", "commit"}, worker[w].pc \in ReportPCs,
             worker' = [worker EXCEPT ![w].pc = pc], UNCHANGED <<tables, agents>>,
             pc = "renew" => jobs[j].state = "running"
      PROVE  HolderInv'
  <2>1. PICK l : l = [worker[w] EXCEPT !.pc = pc]
    OBVIOUS
  <2>2. /\ l.pc = pc /\ l.token = k /\ l.job = j /\ l.node = worker[w].node
        /\ l.want = worker[w].want
    BY <1>a, <2>1 DEF Local
  <2>3. LocalOk(l)'
    BY <1>1, <1>a, <2>2 DEF LocalOk, Known, Holds, tables, TokenPCs, ReportPCs
  <2>4. \A n \in Nodes : agents[n].wait = w => Serves(agents[n], l)
    BY <1>b, <1>1, <2>2 DEF Serves, ReportPCs, ClaimPCs
  <2>5. worker' = [worker EXCEPT ![w] = l]
    BY <1>1, <2>1 DEF TypeOK
  <2>. QED  BY <1>1, <2>2, <2>3, <2>4, <2>5, MoveStep
<1>2. CASE CheckLease(w)
  BY <1>2, <1>1, RejectStep DEF CheckLease, Goto, Reject, At, ReportPCs
<1>3. CASE CheckState(w)
  BY <1>3, <1>1, RejectStep DEF CheckState, Reject, At, ReportPCs
<1>4. CASE RenewLease(w)
  <2>1. PICK i, t : i = j /\ t = k
    OBVIOUS
  <2>2. Holds(i, t) /\ worker[w].pc = "renew"
    BY <1>4, <1>a, <2>1 DEF RenewLease, At, LocalOk
  <2>3. leases \in [Jobs -> LeaseRow] /\ jobs' = jobs
    BY <1>4 DEF RenewLease, TypeOK
  <2>4. i \in Jobs /\ leases' = [leases EXCEPT ![i] = Renewed(@)]
    BY <1>4, <2>1, LocalFacts DEF RenewLease, At, AtJob
  <2>5. Renewed(leases[i]).token = leases[i].token
    BY <2>3, <2>4 DEF Renewed, LeaseRow
  <2>6. Holds(i, t)'
    BY <2>2, <2>3, <2>4, <2>5 DEF Holds
  <2>. QED  BY <1>4, <2>1, <2>6, AcceptStep DEF RenewLease
<1>5. CASE CommitReport(w)
  <2>1. PICK i, t : i = j /\ t = k
    OBVIOUS
  <2>2. i \in Jobs
    BY <1>5, <2>1, LocalFacts DEF CommitReport, At, AtJob
  <2>3. worker[w].want = "running" => jobs'[i].state = "running"
    BY <1>5, <2>1, <2>2 DEF CommitReport, TypeOK, JobRow
  <2>. QED  BY <1>5, <2>1, <2>3, AcceptStep DEF CommitReport, Holds
<1>. QED  BY <1>2, <1>3, <1>4, <1>5 DEF ReportStep

(* An agent's steps without a handler: it stops waiting, or never did. *)
LEMMA AgentHolder ==
  ASSUME TypeOK, TypeOK', HolderInv, TablesKept, NEW n \in Nodes,
         AgentFault(n) \/ \E r \in Results : ExecutorReturns(n, r)
  PROVE  HolderInv'
<1>1. agents[n] \in Agent /\ AgentOk(agents[n]) /\ tokens' \in Nat
  BY DEF TypeOK, HolderInv, TablesKept
<1>2. UNCHANGED worker
  BY DEF AgentFault, ReplyLost, LoseReply, AgentRestarts, Restart, ExecutorReturns, Return
<1>3. ASSUME NEW a \in Agent, a.wait = None, AgentOk(a)', agents' = [agents EXCEPT ![n] = a]
      PROVE  HolderInv'
  <2>1. \A m \in Nodes : agents'[m] = IF m = n THEN a ELSE agents[m]
    BY <1>3 DEF TypeOK
  <2>2. (\A v \in Workers : LocalOk(worker[v]))'
    BY <1>2, LocalSame
  <2>3. (\A m \in Nodes : AgentOk(agents[m]))'
    BY <2>1, <1>3, AgentStep DEF TypeOK
  <2>4. Waits'
    BY <2>1, <1>2, <1>3, WaitsSame
  <2>. QED  BY <2>2, <2>3, <2>4, HolderParts
<1>4. PICK b \in Agent : b = [agents[n] EXCEPT !.wait = None]
  BY <1>1 DEF Agent
<1>5. b.wait = None /\ AgentOk(b)
  BY <1>1, <1>4 DEF AgentOk, Agent
<1>6. AgentOk(b)'
  BY <1>5, KeptAgent
<1>7. PICK d \in Agent : d = IdleAgent
  BY AgentTypes
<1>8. d.wait = None /\ AgentOk(d)'
  BY <1>1, <1>7 DEF AgentOk, IdleAgent
<1>9. CASE AgentFault(n)
  <2>1. agents' = [agents EXCEPT ![n] = b] \/ agents' = [agents EXCEPT ![n] = d]
    BY <1>4, <1>7, <1>9
       DEF AgentFault, ReplyLost, LoseReply, AgentRestarts, Restart, AfterReject
  <2>. QED  BY <1>3, <1>5, <1>6, <1>8, <2>1
<1>10. ASSUME NEW r \in Results, ExecutorReturns(n, r)
       PROVE  HolderInv'
  <2>1. PICK a \in Agent : a = [agents[n] EXCEPT !.result = r]
    BY <1>1 DEF Agent
  <2>2. a.wait = None /\ AgentOk(a)
    BY <1>1, <1>10, <2>1 DEF ExecutorReturns, Return, AgentOk, Agent
  <2>3. AgentOk(a)'
    BY <2>2, KeptAgent
  <2>4. agents' = [agents EXCEPT ![n] = a]
    BY <1>10, <2>1 DEF ExecutorReturns, Return
  <2>. QED  BY <1>3, <2>2, <2>3, <2>4
<1>. QED  BY <1>9, <1>10

LEMMA HolderStep == TypeOK /\ HolderInv /\ [Next]_vars => HolderInv'
<1>. SUFFICES ASSUME TypeOK, HolderInv, [Next]_vars PROVE HolderInv'
  OBVIOUS
<1>1. TablesKept /\ TypeOK'
  BY TablesStep, StepType
<1>2. ASSUME NEW w \in Workers, WorkerFails(w)
      PROVE  HolderInv'
  BY <1>1, <1>2, RejectStep DEF WorkerFails, Abort
<1>3. ASSUME NEW j \in Jobs, LeaseLapses(j)
      PROVE  HolderInv'
  BY <1>1, <1>3, UntouchedStep DEF LeaseLapses, Lapse
<1>4. CASE UNCHANGED vars
  BY <1>1, <1>4, UntouchedStep DEF vars
<1>5. ASSUME NEW n \in Nodes, AgentRequest(n)
      PROVE  HolderInv'
  BY <1>1, <1>5, RequestStep DEF AgentRequest
<1>6. ASSUME NEW n \in Nodes, AgentFault(n) \/ \E r \in Results : ExecutorReturns(n, r)
      PROVE  HolderInv'
  BY <1>1, <1>6, AgentHolder
<1>7. ASSUME NEW w \in Workers, WorkerStep(w)
      PROVE  HolderInv'
  BY <1>1, <1>7, AdminStep, ClaimHolder, ReportHolder DEF WorkerStep
<1>8. CASE AdminRequest
  BY <1>1, <1>8, AdminStep
<1>. QED  BY <1>2, <1>3, <1>4, <1>5, <1>6, <1>7, <1>8 DEF Next

LEMMA HolderInvariant == Spec => []HolderInv
<1>1. Init => HolderInv
  BY RuntimeAssumption DEF Init, HolderInv, JobsHaveTenants, NoTenant, NoJob, NoLease, LocalOk,
     AgentOk, Waits, Idle, Handler, IdleAgent, TokenPCs, ReportPCs
<1>. QED  BY <1>1, HolderStep, TypeCorrect, PTL DEF Spec

(* While the lease an agent was given still stands, the job it works on is *)
(* running, whatever requests, expiries and retries overlap with it.       *)
THEOREM HolderSafety == Spec => []HolderOfLeaseRuns
<1>1. HolderInv => HolderOfLeaseRuns
  BY DEF HolderInv, HolderOfLeaseRuns, AgentOk, Holds
<1>. QED  BY <1>1, HolderInvariant, PTL
=============================================================================
