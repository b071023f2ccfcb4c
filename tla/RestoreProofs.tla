---------------------------- MODULE RestoreProofs ----------------------------
(* Proofs about Restore, for all values of its constants. *)
EXTENDS Restore, TLAPS

-----------------------------------------------------------------------------
(* Type correctness *)

(* What the agent does with an answer leaves it a well-formed agent. *)
LEMMA AgentTypes ==
  /\ IdleAgent \in Agent
  /\ \A a \in Agent : AfterAccept(a) \in Agent /\ AfterReject(a) \in Agent
  /\ \A t \in Tenants, k \in 0..MaxTokens : Claimant(t, k) \in Agent
<1>. USE RuntimeAssumption
<1>1. IdleAgent \in Agent
  BY DEF IdleAgent, Agent
<1>2. ASSUME NEW a \in Agent PROVE AfterAccept(a) \in Agent /\ AfterReject(a) \in Agent
  BY <1>1 DEF AfterAccept, AfterReject, Agent
<1>3. ASSUME NEW t \in Tenants, NEW k \in 0..MaxTokens PROVE Claimant(t, k) \in Agent
  BY DEF Claimant, Agent
<1>. QED  BY <1>1, <1>2, <1>3

LEMMA IdleTypes == Idle \in Local /\ NoLease \in LeaseRow /\ NoCall \in Call /\ EmptyDisk \in Disk
<1>1. Idle \in Local /\ NoLease \in LeaseRow
  BY RuntimeAssumption DEF Idle, Handler, Local, Assigned, PCs, ClaimPCs, ReportPCs, NoLease, LeaseRow
<1>2. NoCall \in Call /\ EmptyDisk \in Disk
  BY DEF NoCall, Call, EmptyDisk, Disk, Marks
<1>. QED  BY <1>1, <1>2

LEMMA AnswerTypes ==
  ASSUME TypeOK, NEW w \in Workers
  PROVE  /\ Finish(w) => worker' \in [Workers -> Local]
         /\ \A a \in Agent : Deliver(w, a) => agents' \in [Nodes -> Agent]
         /\ DeliverEach(w, AfterReject) => agents' \in [Nodes -> Agent]
         /\ Reject(w) \/ Accept(w) => agents' \in [Nodes -> Agent] /\ worker' \in [Workers -> Local]
<1>1. Finish(w) => worker' \in [Workers -> Local]
  BY IdleTypes DEF TypeOK, Finish
<1>2. \A a \in Agent : Deliver(w, a) => agents' \in [Nodes -> Agent]
  BY DEF TypeOK, Deliver
<1>3. DeliverEach(w, AfterReject) => agents' \in [Nodes -> Agent]
  BY AgentTypes DEF TypeOK, DeliverEach
<1>4. DeliverEach(w, AfterAccept) => agents' \in [Nodes -> Agent]
  BY AgentTypes DEF TypeOK, DeliverEach
<1>. QED  BY <1>1, <1>2, <1>3, <1>4 DEF Reject, Accept

LEMMA RowTypes ==
  /\ \A l \in LeaseRow : Renewed(l) \in LeaseRow
  /\ \A row \in JobRow : Requeued(row) \in JobRow
  /\ \A row \in JobRow : row.attempt # MaxAttempt => Dispatched(row) \in JobRow
  /\ \A row \in JobRow, s \in Results \cup {"running"} : Ended(row, s) \in JobRow
  /\ \A row \in TenantRow, r \in {"ready", "failed"} : Built(row, r) \in TenantRow
  /\ \A row \in TenantRow : AfterFailure(row) \in TenantRow
  /\ \A n \in Nodes : Tenant("ready", n, "restored") \in TenantRow
<1>1. \A l \in LeaseRow : Renewed(l) \in LeaseRow
  BY DEF Renewed, LeaseRow
<1>2. \A row \in JobRow : Requeued(row) \in JobRow
  BY DEF Requeued, JobRow
<1>3. \A row \in JobRow : row.attempt # MaxAttempt => Dispatched(row) \in JobRow
  <2>. SUFFICES ASSUME NEW row \in JobRow, row.attempt # MaxAttempt
                PROVE  Dispatched(row) \in JobRow
    OBVIOUS
  <2>1. row.attempt \in 0..MaxAttempt
    BY DEF JobRow
  <2>2. row.attempt + 1 \in 0..MaxAttempt
    BY <2>1, RestoreAssumption
  <2>. QED  BY <2>2 DEF Dispatched, JobRow
<1>4. \A row \in JobRow, s \in Results \cup {"running"} : Ended(row, s) \in JobRow
  BY DEF Ended, JobRow, Results
<1>5. \A row \in TenantRow, r \in {"ready", "failed"} : Built(row, r) \in TenantRow
  BY DEF Built, TenantRow
<1>6. /\ \A row \in TenantRow : AfterFailure(row) \in TenantRow
      /\ \A n \in Nodes : Tenant("ready", n, "restored") \in TenantRow
  BY DEF AfterFailure, Tenant, TenantRow
<1>. QED  BY <1>1, <1>2, <1>3, <1>4, <1>5, <1>6

LEMMA InitType == Init => TypeOK
<1>. SUFFICES ASSUME Init PROVE TypeOK
  OBVIOUS
<1>1. NoJob \in JobRow /\ Tenant("pending", None, None) \in TenantRow
  BY RestoreAssumption DEF NoJob, JobRow, Tenant, TenantRow
<1>. QED  BY <1>1, AgentTypes, IdleTypes, RuntimeAssumption DEF Init, TypeOK

(* The requests that are not an agent's. *)
LEMMA AdminType ==
  ASSUME TypeOK, NEW w \in Workers, NEW t \in Tenants
  PROVE  /\ \A n \in Nodes : CreateRead(w, t, n) \/ TakeRead(w, t, n) => TypeOK'
         /\ \A r \in {"ready", "failed"} : BuildReport(w, t, r) => TypeOK'
<1>1. ASSUME NEW n \in Nodes, CreateRead(w, t, n) \/ TakeRead(w, t, n)
      PROVE  TypeOK'
  <2>1. Handler("create", n, t, 0, None) \in Local /\ Handler("take", n, t, 0, None) \in Local
    BY RuntimeAssumption DEF Handler, Local, Assigned, PCs, ClaimPCs, ReportPCs
  <2>2. worker' \in [Workers -> Local]
    BY <1>1, <2>1 DEF CreateRead, TakeRead, Begin, TypeOK
  <2>. QED  BY <1>1, <2>2 DEF CreateRead, TakeRead, tables, rows, local, TypeOK
<1>2. ASSUME NEW r \in {"ready", "failed"}, BuildReport(w, t, r)
      PROVE  TypeOK'
  <2>1. building[t] \in Nodes
    BY <1>2 DEF BuildReport, TypeOK
  <2>2. Handler("built", building[t], t, 0, r) \in Local
    BY <2>1, RuntimeAssumption DEF Handler, Local, Assigned, PCs, ClaimPCs, ReportPCs, Results
  <2>3. worker' \in [Workers -> Local]
    BY <1>2, <2>2 DEF BuildReport, Begin, TypeOK
  <2>. QED  BY <1>2, <2>3 DEF BuildReport, tables, rows, local, TypeOK
<1>. QED  BY <1>1, <1>2

LEMMA AdminCommitType ==
  ASSUME TypeOK, NEW w \in Workers, CreateCommit(w) \/ TakeCommit(w) \/ BuildCommit(w)
  PROVE  TypeOK'
<1>. DEFINE t == worker[w].job
            n == worker[w].node
<1>a. worker[w] \in Local
  BY DEF TypeOK
<1>b. t \in Tenants /\ n \in Nodes
  BY <1>a DEF CreateCommit, TakeCommit, BuildCommit, At, Local, Assigned
<1>c. tenants[t] \in TenantRow
  BY <1>b DEF TypeOK
<1>1. CASE CreateCommit(w)
  <2>1. TakenUp(t, n) \in TenantRow
    BY <1>b, <1>c DEF TakenUp, Tenant, TenantRow
  <2>2. [state |-> "queued", node |-> n, attempt |-> 0] \in JobRow
    BY <1>b, RestoreAssumption DEF JobRow
  <2>3. jobs' \in [Tenants -> JobRow] /\ tenants' \in [Tenants -> TenantRow]
    BY <1>1, <2>1, <2>2 DEF CreateCommit, TypeOK
  <2>. QED  BY <1>1, <2>3, AnswerTypes DEF CreateCommit, local, TypeOK
<1>2. CASE TakeCommit(w)
  <2>1. [tenants[t] EXCEPT !.status = "provisioning", !.node = n] \in TenantRow
    BY <1>b, <1>c DEF TenantRow
  <2>2. tenants' \in [Tenants -> TenantRow]
    BY <1>2, <2>1 DEF TakeCommit, TypeOK
  <2>3. building' \in [Tenants -> Nodes \cup {None}]
    BY <1>2, <1>b DEF TakeCommit, TypeOK
  <2>. QED  BY <1>2, <2>2, <2>3, AnswerTypes DEF TakeCommit, local, TypeOK
<1>3. CASE BuildCommit(w)
  <2>1. Built(tenants[t], worker[w].want) \in TenantRow
    BY <1>c DEF Built, TenantRow
  <2>2. tenants' \in [Tenants -> TenantRow]
    BY <1>3, <2>1 DEF BuildCommit, TypeOK
  <2>. QED  BY <1>3, <2>2, AnswerTypes DEF BuildCommit, local, TypeOK
<1>. QED  BY <1>1, <1>2, <1>3

LEMMA ClaimType ==
  ASSUME TypeOK, NEW w \in Workers, ClaimStep(w)
  PROVE  TypeOK'
<1>. USE RuntimeAssumption, RestoreAssumption
<1>a. worker[w] \in Local
  BY DEF TypeOK
<1>1. ASSUME NEW t \in Tenants, ExpireLease(w, t)
      PROVE  TypeOK'
  <2>1. [worker[w] EXCEPT !.work = @ \ {t}] \in Local
    BY <1>a DEF Local, Assigned
  <2>2. worker' \in [Workers -> Local]
    BY <1>1, <2>1 DEF ExpireLease, TypeOK
  <2>3. jobs' \in [Tenants -> JobRow]
    BY <1>1, RowTypes DEF ExpireLease, TypeOK
  <2>4. leases' \in [Tenants -> LeaseRow]
    BY <1>1, IdleTypes DEF ExpireLease, TypeOK
  <2>. QED  BY <1>1, <2>2, <2>3, <2>4 DEF ExpireLease, local, TypeOK
<1>2. ASSUME NEW t \in Tenants, TakeLease(w, t)
      PROVE  TypeOK'
  <2>1. tokens + 1 \in 0..MaxTokens
    BY <1>2 DEF TakeLease, Lease, TypeOK
  <2>2. NewLease(tokens + 1) \in LeaseRow
    BY <2>1 DEF NewLease, LeaseRow
  <2>3. [worker[w] EXCEPT !.pc = "dispatch", !.job = t, !.token = tokens + 1] \in Local
    BY <1>a, <1>2, <2>1 DEF TakeLease, At, Local, Assigned, PCs, ClaimPCs, ReportPCs
  <2>4. worker' \in [Workers -> Local]
    BY <1>2, <2>3 DEF TakeLease, Lease, TypeOK
  <2>5. leases' \in [Tenants -> LeaseRow]
    BY <1>2, <2>2 DEF TakeLease, Lease, TypeOK
  <2>. QED  BY <1>2, <2>1, <2>4, <2>5 DEF TakeLease, Lease, rows, local, TypeOK
<1>3. CASE TakeNothing(w)
  BY <1>3, AgentTypes, AnswerTypes DEF TakeNothing, tables, rows, local, TypeOK
<1>4. CASE Dispatch(w)
  <2>1. worker[w].job \in Tenants /\ worker[w].token \in 0..MaxTokens
    BY <1>a, <1>4 DEF Dispatch, At, Local, Assigned
  <2>2. jobs' \in [Tenants -> JobRow]
    BY <1>4, <2>1, RowTypes DEF Dispatch, TypeOK
  <2>3. agents' \in [Nodes -> Agent]
    BY <1>4, <2>1, AgentTypes, AnswerTypes DEF Dispatch
  <2>. QED  BY <1>4, <2>2, <2>3, AnswerTypes DEF Dispatch, local, TypeOK
<1>5. CASE LoseClaim(w)
  <2>1. [worker[w] EXCEPT !.pc = "withdraw"] \in Local
    BY <1>a, <1>5 DEF LoseClaim, At, Local, Assigned, PCs, ClaimPCs, ReportPCs
  <2>. QED  BY <1>5, <2>1 DEF LoseClaim, Goto, tables, rows, local, TypeOK
<1>6. CASE Withdraw(w)
  <2>1. leases' \in [Tenants -> LeaseRow]
    BY <1>6, IdleTypes DEF Withdraw, TypeOK
  <2>. QED  BY <1>6, <2>1, AgentTypes, AnswerTypes DEF Withdraw, rows, local, TypeOK
<1>. QED  BY <1>1, <1>2, <1>3, <1>4, <1>5, <1>6 DEF ClaimStep

LEMMA ReportType ==
  ASSUME TypeOK, NEW w \in Workers, ReportStep(w)
  PROVE  TypeOK'
<1>. DEFINE t == worker[w].job
<1>a. worker[w] \in Local
  BY DEF TypeOK
<1>b. t \in Tenants /\ worker[w].want \in Results \cup {"running"} /\ worker[w].node \in Nodes
  BY <1>a DEF ReportStep, CheckLease, Replay, CommitRunning, CommitFailed, CommitValidated, At,
              Local, Assigned, ReportPCs
<1>c. leases[t] \in LeaseRow /\ tenants[t] \in TenantRow /\ jobs[t] \in JobRow
  BY <1>b DEF TypeOK
<1>1. CASE CheckLease(w)
  <2>1. /\ [worker[w] EXCEPT !.pc = worker[w].want] \in Local
        /\ worker[w].want = "validated" => [worker[w] EXCEPT !.pc = "replay"] \in Local
    BY <1>a, <1>b, <1>1 DEF CheckLease, At, Local, Assigned, PCs, ClaimPCs, ReportPCs, Results
  <2>2. worker' \in [Workers -> Local] /\ agents' \in [Nodes -> Agent]
    BY <1>1, <2>1, AnswerTypes DEF CheckLease, Goto, TypeOK
  <2>. QED  BY <1>1, <2>2 DEF CheckLease, tables, rows, local, TypeOK
<1>2. CASE Replay(w)
  <2>1. worker' \in [Workers -> Local] /\ agents' \in [Nodes -> Agent]
    BY <1>2, AnswerTypes DEF Replay
  <2>. QED  BY <1>2, <2>1 DEF Replay, tables, rows, local, TypeOK
<1>3. CASE CommitRunning(w)
  <2>1. Renewed(leases[t]) \in LeaseRow /\ Ended(jobs[t], "running") \in JobRow
    BY <1>c, RowTypes
  <2>2. leases' \in [Tenants -> LeaseRow] /\ jobs' \in [Tenants -> JobRow]
    BY <1>3, <2>1 DEF CommitRunning, TypeOK
  <2>. QED  BY <1>3, <2>2, AnswerTypes DEF CommitRunning, local, TypeOK
<1>4. CASE CommitFailed(w)
  <2>1. Ended(jobs[t], "failed") \in JobRow /\ AfterFailure(tenants[t]) \in TenantRow
    BY <1>c, RowTypes DEF Results
  <2>2. /\ leases' \in [Tenants -> LeaseRow] /\ jobs' \in [Tenants -> JobRow]
        /\ tenants' \in [Tenants -> TenantRow]
    BY <1>4, <2>1, IdleTypes DEF CommitFailed, LeaseAfterFailure, TypeOK
  <2>. QED  BY <1>4, <2>2, AnswerTypes DEF CommitFailed, local, TypeOK
<1>5. CASE CommitValidated(w)
  <2>1. Ended(jobs[t], "validated") \in JobRow /\ Tenant("ready", worker[w].node, "restored") \in TenantRow
    BY <1>b, <1>c, RowTypes DEF Results
  <2>2. /\ leases' \in [Tenants -> LeaseRow] /\ jobs' \in [Tenants -> JobRow]
        /\ tenants' \in [Tenants -> TenantRow]
    BY <1>5, <2>1, IdleTypes DEF CommitValidated, TypeOK
  <2>3. identity' \in SUBSET Tenants
    BY <1>5, <1>b DEF CommitValidated, Materialized, TypeOK
  <2>. QED  BY <1>5, <2>2, <2>3, AnswerTypes DEF CommitValidated, local, TypeOK
<1>. QED  BY <1>1, <1>2, <1>3, <1>4, <1>5 DEF ReportStep

(* The agents and their executors. *)
LEMMA AgentType ==
  ASSUME TypeOK, NEW n \in Nodes,
         \/ AgentRequest(n) \/ CallHelper(n)
         \/ ReplyLost(n) \/ AgentRestarts(n) \/ DownloadFails(n) \/ HelperTimesOut(n)
  PROVE  TypeOK'
<1>. USE RuntimeAssumption, RestoreAssumption
<1>a. agents[n] \in Agent
  BY DEF TypeOK
<1>b. \A w \in Workers : [agents[n] EXCEPT !.wait = w] \in Agent
  BY <1>a DEF Agent
<1>c. [agents[n] EXCEPT !.result = "failed"] \in Agent
  BY <1>a DEF Agent, Results
<1>d. Fault => faults' \in 0..MaxFaults
  BY DEF Fault, TypeOK
<1>e. Unheard(n) => helper' \in [Nodes -> Call] /\ calls' \in [Nodes -> SUBSET (Tenants \X BOOLEAN)]
  <2>. SUFFICES ASSUME Unheard(n)
                PROVE  helper' \in [Nodes -> Call] /\ calls' \in [Nodes -> SUBSET (Tenants \X BOOLEAN)]
    OBVIOUS
  <2>1. [helper[n] EXCEPT !.heard = FALSE] \in Call
    <3>1. helper[n] \in Call
      BY DEF TypeOK
    <3>2. CASE helper[n] = NoCall
      <4>. DEFINE quiet == [helper[n] EXCEPT !.heard = FALSE]
      <4>1. quiet \in [job : Tenants \cup {None}, stage : {"idle"} \cup Stages, heard : BOOLEAN]
        BY <3>1 DEF Call
      <4>2. quiet.job = None /\ quiet.stage = "idle" /\ quiet.heard = FALSE
        BY <3>1, <3>2 DEF NoCall, Call
      <4>. HIDE DEF quiet
      <4>3. quiet = NoCall
        BY <4>1, <4>2 DEF NoCall
      <4>. QED  BY <4>3, IdleTypes DEF quiet
    <3>3. CASE helper[n] # NoCall
      BY <3>1, <3>3 DEF Call
    <3>. QED  BY <3>2, <3>3
  <2>2. {<<c[1], FALSE>> : c \in calls[n]} \in SUBSET (Tenants \X BOOLEAN)
    <3>1. \A c \in calls[n] : c[1] \in Tenants
      BY DEF TypeOK
    <3>2. \A c \in calls[n] : <<c[1], FALSE>> \in Tenants \X BOOLEAN
      BY <3>1
    <3>. QED  BY <3>2
  <2>. QED  BY <2>1, <2>2 DEF Unheard, TypeOK
<1>1. ASSUME NEW w \in Workers, Poll(w, n)
      PROVE  TypeOK'
  <2>1. Expired(n) \in SUBSET Tenants
    BY DEF Expired
  <2>2. [Handler("expire", n, None, 0, None) EXCEPT !.work = Expired(n)] \in Local
    BY <2>1 DEF Handler, Local, Assigned, PCs, ClaimPCs, ReportPCs
  <2>. QED  BY <1>1, <1>b, <2>2 DEF Poll, Request, Begin, rows, local, TypeOK
<1>2. ASSUME NEW w \in Workers, SendReport(w, n)
      PROVE  TypeOK'
  <2>1. /\ agents[n].job \in Tenants
        /\ agents[n].token \in 0..MaxTokens
        /\ Reported(agents[n]) \in Results \cup {"running"}
    BY <1>a, <1>2 DEF SendReport, Report, Reported, Agent
  <2>2. Handler("lease", n, agents[n].job, agents[n].token, Reported(agents[n])) \in Local
    BY <2>1 DEF Handler, Local, Assigned, PCs, ClaimPCs, ReportPCs
  <2>. QED  BY <1>2, <1>b, <2>2 DEF SendReport, Report, Begin, rows, local, TypeOK
<1>3. CASE CallHelper(n)
  <2>1. agents[n].job \in Tenants
    BY <1>a, <1>3 DEF CallHelper, Executing, Agent
  <2>2. calls' \in [Nodes -> SUBSET (Tenants \X BOOLEAN)]
    <3>1. <<agents[n].job, TRUE>> \in Tenants \X BOOLEAN
      BY <2>1
    <3>2. calls[n] \cup {<<agents[n].job, TRUE>>} \in SUBSET (Tenants \X BOOLEAN)
      BY <3>1 DEF TypeOK
    <3>. QED  BY <1>3, <3>2 DEF CallHelper, TypeOK
  <2>. QED  BY <1>3, <2>2 DEF CallHelper, tables, rows, TypeOK
<1>4. CASE DownloadFails(n)
  BY <1>4, <1>c, <1>d DEF DownloadFails, Return, rows, local, TypeOK
<1>5. CASE HelperTimesOut(n)
  BY <1>5, <1>c, <1>d, <1>e DEF HelperTimesOut, Return, rows, TypeOK
<1>6. CASE ReplyLost(n)
  BY <1>6, <1>a, <1>d, AgentTypes DEF ReplyLost, LoseReply, rows, local, TypeOK
<1>7. CASE AgentRestarts(n)
  BY <1>7, <1>d, <1>e, AgentTypes DEF AgentRestarts, Restart, rows, TypeOK
<1>. QED  BY <1>1, <1>2, <1>3, <1>4, <1>5, <1>6, <1>7 DEF AgentRequest

(* The helper. *)
LEMMA HelperType ==
  ASSUME TypeOK, NEW n \in Nodes, HelperStep(n) \/ HelperCrashes(n)
  PROVE  TypeOK'
<1>. USE RuntimeAssumption
<1>. DEFINE d == disk[helper[n].job]
<1>a. helper[n] \in Call /\ agents[n] \in Agent
  BY DEF TypeOK
<1>b. helper[n] # NoCall => d \in Disk
  BY <1>a DEF Call, TypeOK
<1>c. helper[n].stage \in Stages => helper[n] # NoCall
  BY DEF NoCall, Stages
<1>d. \A r \in Results : Return(n, r) => agents' \in [Nodes -> Agent] /\ UNCHANGED <<leases, nodes, tokens, worker>>
  <2>1. \A r \in Results : [agents[n] EXCEPT !.result = r] \in Agent
    BY <1>a DEF Agent
  <2>2. agents \in [Nodes -> Agent]
    BY DEF TypeOK
  <2>. QED  BY <2>1, <2>2 DEF Return
<1>e. Fault => faults' \in 0..MaxFaults
  BY DEF Fault, TypeOK
<1>1. ASSUME NEW r \in Results, NEW e \in Disk, Answer(n, r, e), Fault \/ UNCHANGED faults
      PROVE  TypeOK'
  <2>1. agents' \in [Nodes -> Agent] /\ UNCHANGED <<leases, nodes, tokens, worker>>
    BY <1>1, <1>d DEF Answer, TypeOK
  <2>2. helper' \in [Nodes -> Call] /\ disk' \in [Tenants -> Disk]
    BY <1>1, IdleTypes DEF Answer, TypeOK
  <2>. QED  BY <1>1, <1>e, <2>1, <2>2 DEF Answer, rows, TypeOK
<1>2. ASSUME NEW stage \in Stages, NEW e \in Disk, Reach(n, stage, e), helper[n] # NoCall
      PROVE  TypeOK'
  <2>1. [helper[n] EXCEPT !.stage = stage] \in Call
    BY <1>a, <1>2 DEF Call
  <2>2. helper' \in [Nodes -> Call] /\ disk' \in [Tenants -> Disk]
    BY <1>2, <2>1 DEF Reach, TypeOK
  <2>. QED  BY <1>2, <2>2 DEF Reach, tables, rows, TypeOK
<1>3. ASSUME NEW c \in calls[n], ServeCall(n, c)
      PROVE  TypeOK'
  <2>1. c[1] \in Tenants /\ c[2] \in BOOLEAN
    BY <1>3 DEF TypeOK
  <2>2. [job |-> c[1], stage |-> "called", heard |-> c[2]] \in Call
    BY <2>1 DEF Call, Stages
  <2>3. helper' \in [Nodes -> Call] /\ calls' \in [Nodes -> SUBSET (Tenants \X BOOLEAN)]
    BY <1>3, <2>2 DEF ServeCall, TypeOK
  <2>. QED  BY <1>3, <2>3 DEF ServeCall, tables, rows, TypeOK
<1>4. CASE AnswerReplay(n)
  BY <1>1, <1>4, <1>b, <1>c DEF AnswerReplay, Results, Stages
<1>5. CASE AnswerConflict(n)
  BY <1>1, <1>5, <1>b, <1>c DEF AnswerConflict, Results, Stages
<1>6. CASE ExtractFiles(n)
  <2>1. [EmptyDisk EXCEPT !.staging = TRUE] \in Disk
    BY DEF EmptyDisk, Disk, Marks
  <2>. QED  BY <1>2, <1>6, <1>c, <2>1 DEF ExtractFiles, Stages
<1>7. CASE LoadDatabase(n)
  <2>1. d \in Disk => [d EXCEPT !.db = "foreign"] \in Disk
    BY DEF Disk, Marks
  <2>. QED  BY <1>2, <1>7, <1>b, <1>c, <2>1 DEF LoadDatabase, Stages
<1>8. CASE WriteMarker(n)
  <2>1. d \in Disk => [d EXCEPT !.db = "target"] \in Disk
    BY DEF Disk, Marks
  <2>. QED  BY <1>2, <1>8, <1>b, <1>c, <2>1 DEF WriteMarker, Stages
<1>9. CASE PublishFiles(n)
  <2>1. d \in Disk => Published(d) \in Disk
    BY DEF Published, Disk
  <2>. QED  BY <1>1, <1>9, <1>b, <1>c, <2>1 DEF PublishFiles, Results, Stages
<1>10. CASE StageFails(n)
  <2>1. d \in Disk => [d EXCEPT !.staging = FALSE] \in Disk
    BY DEF Disk
  <2>. QED  BY <1>1, <1>10, <1>b, <1>c, <2>1, IdleTypes DEF StageFails, Results, Stages
<1>11. CASE HelperCrashes(n)
  <2>1. agents' \in [Nodes -> Agent] /\ UNCHANGED <<leases, nodes, tokens, worker>>
    BY <1>11, <1>d DEF HelperCrashes, Results, TypeOK
  <2>2. helper' \in [Nodes -> Call] /\ calls' \in [Nodes -> SUBSET (Tenants \X BOOLEAN)]
    BY <1>11, IdleTypes DEF HelperCrashes, TypeOK
  <2>. QED  BY <1>11, <1>e, <2>1, <2>2 DEF HelperCrashes, rows, TypeOK
<1>. QED  BY <1>3, <1>4, <1>5, <1>6, <1>7, <1>8, <1>9, <1>10, <1>11 DEF HelperStep

LEMMA EnvironmentType ==
  ASSUME TypeOK,
         \/ \E n \in Nodes : RevokeNode(n)
         \/ \E t \in Tenants : LeaseLapses(t)
         \/ \E w \in Workers : WorkerFails(w)
  PROVE  TypeOK'
<1>. USE RuntimeAssumption
<1>a. Fault => faults' \in 0..MaxFaults
  BY DEF Fault, TypeOK
<1>1. ASSUME NEW n \in Nodes, RevokeNode(n)
      PROVE  TypeOK'
  BY <1>1, <1>a DEF RevokeNode, Revoke, rows, local, TypeOK
<1>2. ASSUME NEW t \in Tenants, LeaseLapses(t)
      PROVE  TypeOK'
  <2>1. leases' \in [Tenants -> LeaseRow]
    BY <1>2 DEF LeaseLapses, Lapse, TypeOK, LeaseRow
  <2>2. faults' \in 0..MaxFaults
    BY <1>2, <1>a DEF LeaseLapses, Lapse, TypeOK
  <2>. QED  BY <1>2, <2>1, <2>2 DEF LeaseLapses, Lapse, rows, local, TypeOK
<1>3. ASSUME NEW w \in Workers, WorkerFails(w)
      PROVE  TypeOK'
  BY <1>3, <1>a, AnswerTypes DEF WorkerFails, Abort, rows, local, TypeOK
<1>. QED  BY <1>1, <1>2, <1>3

LEMMA StepType == TypeOK /\ [Next]_vars => TypeOK'
<1>. SUFFICES ASSUME TypeOK, [Next]_vars PROVE TypeOK'
  OBVIOUS
<1>1. CASE UNCHANGED vars
  BY <1>1 DEF vars, TypeOK
<1>2. CASE AdminRequest
  BY <1>2, AdminType, EnvironmentType DEF AdminRequest
<1>3. ASSUME NEW w \in Workers, WorkerStep(w)
      PROVE  TypeOK'
  BY <1>3, AdminCommitType, ClaimType, ReportType DEF WorkerStep
<1>. QED  BY <1>1, <1>2, <1>3, AgentType, HelperType, EnvironmentType DEF Next, NodeFault

(* Every row, every local variable and what is on the disk is well formed. *)
THEOREM TypeCorrect == Spec => []TypeOK
BY InitType, StepType, PTL DEF Spec

-----------------------------------------------------------------------------
(* Leases *)

LEMMA LeaseStep == TypeOK /\ LeaseOnOpenJob /\ [Next]_vars => LeaseOnOpenJob'
<1>. SUFFICES ASSUME TypeOK, LeaseOnOpenJob, [Next]_vars PROVE LeaseOnOpenJob'
  OBVIOUS
<1>1. CASE UNCHANGED <<jobs, leases>>
  BY <1>1 DEF LeaseOnOpenJob, Leased, State
<1>2. ASSUME NEW w \in Workers, WorkerStep(w), ~UNCHANGED <<jobs, leases>>
      PROVE  LeaseOnOpenJob'
  <2>a. worker[w] \in Local
    BY DEF TypeOK
  <2>1. ASSUME NEW t \in Tenants, NEW l, NEW row,
               leases' = [leases EXCEPT ![t] = l], jobs' = [jobs EXCEPT ![t] = row],
               l.token # 0 => row.state \in {"queued", "dispatched", "running"}
        PROVE  LeaseOnOpenJob'
    BY <2>1 DEF LeaseOnOpenJob, Leased, State, TypeOK
  <2>2. ASSUME NEW t \in Tenants, NEW row, leases' = leases, jobs' = [jobs EXCEPT ![t] = row],
               row.state \in {"queued", "dispatched", "running"}
        PROVE  LeaseOnOpenJob'
    BY <2>2 DEF LeaseOnOpenJob, Leased, State, TypeOK
  <2>3. ASSUME NEW t \in Tenants, NEW l, leases' = [leases EXCEPT ![t] = l], jobs' = jobs,
               l.token # 0 => jobs[t].state \in {"queued", "dispatched", "running"}
        PROVE  LeaseOnOpenJob'
    BY <2>3 DEF LeaseOnOpenJob, Leased, State, TypeOK
  <2>4. CASE CreateCommit(w)
    <3>1. worker[w].job \in Tenants
      BY <2>a, <2>4 DEF CreateCommit, At, Local, Assigned
    <3>2. CASE State(worker[w].job) = "absent"
      BY <2>2, <2>4, <3>1, <3>2 DEF CreateCommit
    <3>3. CASE State(worker[w].job) # "absent"
      BY <1>2, <2>4, <3>3 DEF CreateCommit
    <3>. QED  BY <3>2, <3>3
  <2>5. ASSUME NEW t \in Tenants, ExpireLease(w, t)
        PROVE  LeaseOnOpenJob'
    BY <2>1, <2>5 DEF ExpireLease, NoLease
  <2>6. ASSUME NEW t \in Tenants, TakeLease(w, t)
        PROVE  LeaseOnOpenJob'
    <3>1. jobs' = jobs /\ leases' = [leases EXCEPT ![t] = NewLease(tokens + 1)]
      BY <2>6 DEF TakeLease, Lease, rows
    <3>2. jobs[t].state = "queued"
      BY <2>6 DEF TakeLease, Unleased, State
    <3>. QED  BY <2>3, <3>1, <3>2
  <2>7. CASE Dispatch(w)
    <3>1. worker[w].job \in Tenants /\ leases' = leases
      BY <2>a, <2>7 DEF Dispatch, At, Local, Assigned
    <3>2. jobs' = [jobs EXCEPT ![worker[w].job] = Dispatched(jobs[worker[w].job])]
      BY <1>2, <2>7 DEF Dispatch
    <3>3. jobs[worker[w].job] \in JobRow
      BY <3>1 DEF TypeOK
    <3>4. Dispatched(jobs[worker[w].job]).state = "dispatched"
      BY <3>3 DEF Dispatched, JobRow
    <3>. QED  BY <2>2, <3>1, <3>2, <3>4
  <2>8. CASE Withdraw(w)
    <3>1. worker[w].job \in Tenants
      BY <2>a, <2>8 DEF Withdraw, At, Local, Assigned
    <3>. QED  BY <2>3, <2>8, <3>1 DEF Withdraw, NoLease, rows
  <2>9. CASE CommitRunning(w)
    <3>. DEFINE t == worker[w].job
    <3>1. /\ t \in Tenants /\ jobs[t] \in JobRow /\ leases[t] \in LeaseRow
          /\ leases' = [leases EXCEPT ![t] = Renewed(leases[t])]
          /\ jobs' = [jobs EXCEPT ![t] = Ended(jobs[t], "running")]
      BY <2>a, <2>9 DEF CommitRunning, At, Local, Assigned, ReportPCs, TypeOK
    <3>2. Renewed(leases[t]).token = leases[t].token
      BY <3>1 DEF Renewed, LeaseRow
    <3>3. leases[t].token # 0 => jobs[t].state \in {"queued", "dispatched", "running"}
      BY <3>1 DEF LeaseOnOpenJob, Leased, State
    <3>4. Ended(jobs[t], "running").state \in {jobs[t].state, "running"}
      BY <3>1 DEF Ended, JobRow
    <3>. QED  BY <2>1, <3>1, <3>2, <3>3, <3>4
  <2>10. CASE CommitFailed(w) \/ CommitValidated(w)
    <3>1. worker[w].job \in Tenants
      BY <2>a, <2>10 DEF CommitFailed, CommitValidated, At, Local, Assigned, ReportPCs
    <3>2. PICK row : /\ leases' = [leases EXCEPT ![worker[w].job] = NoLease]
                     /\ jobs' = [jobs EXCEPT ![worker[w].job] = row]
      BY <2>10 DEF CommitFailed, CommitValidated, LeaseAfterFailure
    <3>. QED  BY <2>1, <3>1, <3>2 DEF NoLease
  <2>11. CASE TakeCommit(w) \/ BuildCommit(w) \/ TakeNothing(w) \/ LoseClaim(w) \/ CheckLease(w)
                \/ Replay(w)
    BY <1>2, <2>11 DEF TakeCommit, BuildCommit, TakeNothing, LoseClaim, CheckLease, Replay, tables, rows
  <2>. QED  BY <1>2, <2>4, <2>5, <2>6, <2>7, <2>8, <2>9, <2>10, <2>11
            DEF WorkerStep, ClaimStep, ReportStep
<1>3. ASSUME NEW t \in Tenants, LeaseLapses(t)
      PROVE  LeaseOnOpenJob'
  <2>1. \A u \in Tenants : leases'[u].token = leases[u].token
    BY <1>3 DEF LeaseLapses, Lapse, TypeOK, LeaseRow
  <2>2. jobs' = jobs
    BY <1>3 DEF LeaseLapses, rows
  <2>. QED  BY <2>1, <2>2 DEF LeaseOnOpenJob, Leased, State
<1>4. \/ UNCHANGED <<jobs, leases>>
      \/ \E w \in Workers : WorkerStep(w)
      \/ \E t \in Tenants : LeaseLapses(t)
  <2>1. CASE AdminRequest
    BY <2>1 DEF AdminRequest, CreateRead, TakeRead, BuildReport, RevokeNode, Revoke, tables, rows
  <2>2. ASSUME NEW w \in Workers, WorkerFails(w)
        PROVE  UNCHANGED <<jobs, leases>>
    BY <2>2 DEF WorkerFails, Abort, rows
  <2>3. ASSUME NEW n \in Nodes, AgentRequest(n) \/ CallHelper(n) \/ NodeFault(n)
        PROVE  UNCHANGED <<jobs, leases>>
    BY <2>3 DEF AgentRequest, Poll, Request, SendReport, Report, CallHelper, NodeFault, ReplyLost,
       LoseReply, AgentRestarts, Restart, DownloadFails, HelperTimesOut, HelperCrashes, Return,
       tables, rows
  <2>4. ASSUME NEW n \in Nodes, HelperStep(n)
        PROVE  UNCHANGED <<jobs, leases>>
    BY <2>4 DEF HelperStep, ServeCall, AnswerReplay, AnswerConflict, ExtractFiles, LoadDatabase,
       WriteMarker, PublishFiles, StageFails, Answer, Reach, Return, tables, rows
  <2>5. CASE UNCHANGED vars
    BY <2>5 DEF vars
  <2>. QED  BY <2>1, <2>2, <2>3, <2>4, <2>5 DEF Next
<1>. QED  BY <1>1, <1>2, <1>3, <1>4

(* No agent ever reports with a standing lease on a restore that has ended,*)
(* however claims, reports and expiries interleave.                        *)
THEOREM LeasesStayOpen == Spec => []LeaseOnOpenJob
<1>1. Init => LeaseOnOpenJob
  BY DEF Init, LeaseOnOpenJob, Leased, NoLease
<1>. QED  BY InitType, StepType, LeaseStep, <1>1, PTL DEF Spec

-----------------------------------------------------------------------------
(* Validated restores *)

(* A restore has its node from its creation on, which is where the target  *)
(* database is; a validated one is in place.                               *)
JobsOk ==
  \A t \in Tenants :
    /\ State(t) = "absent" => jobs[t].node = None
    /\ State(t) = "validated" => Restored(disk[t])

(* Agents, their requests and their helpers work on restores of their node,*)
(* and who says "validated" has seen the restore in place.                 *)
AgentsOk ==
  \A n \in Nodes : agents[n].phase # "idle" =>
    /\ jobs[agents[n].job].node = n
    /\ agents[n].result = "validated" => Restored(disk[agents[n].job])
WorkersOk ==
  \A w \in Workers :
    /\ worker[w].pc = "dispatch" => jobs[worker[w].job].node = worker[w].node
    /\ worker[w].pc \in ReportPCs /\ worker[w].want = "validated" => Restored(disk[worker[w].job])
CallsOk == \A n \in Nodes : \A c \in calls[n] : jobs[c[1]].node = n
HelpersOk ==
  \A n \in Nodes : helper[n] # NoCall =>
    /\ jobs[helper[n].job].node = n
    /\ helper[n].stage \in {"staged", "loaded", "marked"} => ~disk[helper[n].job].files
    /\ helper[n].stage = "marked" => disk[helper[n].job].db = "target"

(* The request that an agent waits for is its own, a poll if it is idle.   *)
Awaits ==
  \A n \in Nodes : agents[n].wait # None =>
    /\ worker[agents[n].wait].node = n
    /\ worker[agents[n].wait].pc \in ClaimPCs \cup ReportPCs
    /\ worker[agents[n].wait].pc \in ClaimPCs => agents[n].phase = "idle"

(* An answer that is still awaited is about the restore the agent executes.*)
Runs(n, t) == agents[n].phase = "working" /\ agents[n].job = t /\ agents[n].result = None
Hears ==
  \A n \in Nodes :
    /\ helper[n].heard => Runs(n, helper[n].job) /\ \A t \in Tenants : <<t, TRUE>> \notin calls[n]
    /\ \A t \in Tenants : <<t, TRUE>> \in calls[n] => Runs(n, t)

DoneInv ==
  /\ TypeOK
  /\ JobsOk /\ AgentsOk /\ WorkersOk /\ CallsOk /\ HelpersOk /\ Awaits /\ Hears

NodesStay == \A t \in Tenants : jobs[t].node # None => jobs'[t].node = jobs[t].node

(* The agent goes on with the restore it had, or is idle. *)
Kept(a, b) ==
  /\ b.wait = None
  /\ b.phase # "idle" => a.phase # "idle" /\ b.job = a.job /\ b.result = a.result
  /\ a.phase = "working" /\ a.result = None => b.phase = "working" /\ b.job = a.job /\ b.result = None

LEMMA DoneInit == Init => DoneInv
<1>. SUFFICES ASSUME Init PROVE DoneInv
  OBVIOUS
<1>1. JobsOk
  BY DEF Init, JobsOk, State, NoJob
<1>2. AgentsOk /\ Awaits
  BY DEF Init, AgentsOk, Awaits, IdleAgent
<1>3. WorkersOk
  BY DEF Init, WorkersOk, Idle, Handler, ReportPCs
<1>4. CallsOk /\ HelpersOk /\ Hears
  BY DEF Init, CallsOk, HelpersOk, Hears, NoCall
<1>. QED  BY <1>1, <1>2, <1>3, <1>4, InitType DEF DoneInv

LEMMA KeptAfter ==
  /\ \A a \in Agent : Kept(a, AfterAccept(a)) /\ Kept(a, AfterReject(a))
  /\ \A a \in Agent : a.phase = "idle" => Kept(a, IdleAgent)
<1>1. \A a \in Agent : Kept(a, AfterAccept(a))
  BY DEF Kept, AfterAccept, IdleAgent, Agent
<1>2. \A a \in Agent : Kept(a, AfterReject(a))
  BY DEF Kept, AfterReject, IdleAgent, Agent
<1>3. \A a \in Agent : a.phase = "idle" => Kept(a, IdleAgent)
  BY DEF Kept, IdleAgent
<1>. QED  BY <1>1, <1>2, <1>3

(* Only the agent that waits for it gets the answer. *)
LEMMA Answered ==
  ASSUME TypeOK, Awaits, NEW w \in Workers,
         \/ Reject(w) \/ Accept(w) \/ DeliverEach(w, AfterReject)
         \/ Deliver(w, IdleAgent) /\ worker[w].pc \in ClaimPCs
  PROVE  \A n \in Nodes : \/ agents'[n] = agents[n] /\ agents[n].wait # w
                          \/ Kept(agents[n], agents'[n])
<1>. SUFFICES ASSUME NEW n \in Nodes
              PROVE  \/ agents'[n] = agents[n] /\ agents[n].wait # w
                     \/ Kept(agents[n], agents'[n])
  OBVIOUS
<1>1. agents[n] \in Agent
  BY DEF TypeOK
<1>2. agents[n].wait = w => AwaitedBy(w, n) /\ (worker[w].pc \in ClaimPCs => agents[n].phase = "idle")
  BY RuntimeAssumption DEF Awaits, AwaitedBy
<1>3. CASE AwaitedBy(w, n)
  <2>1. CASE DeliverEach(w, AfterReject)
    BY <1>1, <1>3, <2>1, KeptAfter DEF DeliverEach
  <2>2. CASE DeliverEach(w, AfterAccept)
    BY <1>1, <1>3, <2>2, KeptAfter DEF DeliverEach
  <2>3. CASE Deliver(w, IdleAgent) /\ worker[w].pc \in ClaimPCs
    <3>1. agents'[n] = IdleAgent /\ agents[n].phase = "idle"
      BY <1>2, <1>3, <2>3 DEF Deliver, AwaitedBy
    <3>. QED  BY <1>1, <3>1, KeptAfter
  <2>. QED  BY <2>1, <2>2, <2>3 DEF Reject, Accept
<1>4. CASE ~AwaitedBy(w, n)
  <2>1. agents'[n] = agents[n]
    BY <1>4 DEF Reject, Accept, DeliverEach, Deliver
  <2>. QED  BY <1>2, <1>4, <2>1
<1>. QED  BY <1>3, <1>4

(* What is said of agents, requests and helpers stays true. *)
LEMMA AgentsFrame ==
  ASSUME DoneInv, NodesStay, disk' = disk,
         \A n \in Nodes : agents'[n] = agents[n] \/ Kept(agents[n], agents'[n])
  PROVE  AgentsOk'
<1>. SUFFICES ASSUME NEW n \in Nodes, agents'[n].phase # "idle"
              PROVE  /\ jobs'[agents'[n].job].node = n
                     /\ agents'[n].result = "validated" => Restored(disk[agents'[n].job])
  BY DEF AgentsOk, Restored
<1>1. agents[n].phase # "idle" /\ agents'[n].job = agents[n].job /\ agents'[n].result = agents[n].result
  BY DEF Kept
<1>2. agents[n].job \in Tenants /\ n # None
  BY <1>1, RuntimeAssumption DEF DoneInv, TypeOK, Agent
<1>. QED  BY <1>1, <1>2 DEF DoneInv, AgentsOk, NodesStay

LEMMA HearsFrame ==
  ASSUME Hears, UNCHANGED local,
         \A n \in Nodes : \A t : Runs(n, t) =>
           /\ agents'[n].phase = "working" /\ agents'[n].job = t /\ agents'[n].result = None
  PROVE  Hears'
<1>. SUFFICES ASSUME NEW n \in Nodes
              PROVE  /\ helper[n].heard =>
                          /\ agents'[n].phase = "working" /\ agents'[n].job = helper[n].job
                          /\ agents'[n].result = None
                          /\ \A t \in Tenants : <<t, TRUE>> \notin calls[n]
                     /\ \A t \in Tenants : <<t, TRUE>> \in calls[n] =>
                          /\ agents'[n].phase = "working" /\ agents'[n].job = t
                          /\ agents'[n].result = None
  BY DEF Hears, Runs, local
<1>. QED  BY DEF Hears

LEMMA HelpersFrame ==
  ASSUME DoneInv, NodesStay, UNCHANGED local,
         \A n \in Nodes : agents'[n] = agents[n] \/ Kept(agents[n], agents'[n])
  PROVE  CallsOk' /\ HelpersOk' /\ Hears'
<1>1. CallsOk'
  <2>1. \A n \in Nodes : n # None /\ \A c \in calls[n] : c[1] \in Tenants
    BY RuntimeAssumption DEF DoneInv, TypeOK
  <2>. QED  BY <2>1 DEF DoneInv, CallsOk, NodesStay, local
<1>2. HelpersOk'
  <2>1. \A n \in Nodes : n # None /\ (helper[n] # NoCall => helper[n].job \in Tenants)
    BY RuntimeAssumption DEF DoneInv, TypeOK, Call
  <2>. QED  BY <2>1 DEF DoneInv, HelpersOk, NodesStay, local
<1>3. Hears'
  <2>1. \A n \in Nodes : \A t : Runs(n, t) => agents'[n].phase = "working" /\ agents'[n].job = t
                                               /\ agents'[n].result = None
    BY DEF Runs, Kept
  <2>. QED  BY <2>1, HearsFrame DEF DoneInv
<1>. QED  BY <1>1, <1>2, <1>3

(* A request ends. *)
LEMMA EndStep ==
  ASSUME DoneInv, TypeOK', NEW w \in Workers, Finish(w), NodesStay, JobsOk', UNCHANGED local,
         \A n \in Nodes : \/ agents'[n] = agents[n] /\ agents[n].wait # w
                          \/ Kept(agents[n], agents'[n])
  PROVE  DoneInv'
<1>1. worker'[w] = Idle /\ \A v \in Workers : v # w => worker'[v] = worker[v]
  BY DEF Finish, DoneInv, TypeOK
<1>2. AgentsOk' /\ CallsOk' /\ HelpersOk' /\ Hears'
  BY AgentsFrame, HelpersFrame DEF local
<1>3. WorkersOk'
  <2>. SUFFICES ASSUME NEW v \in Workers
                PROVE  /\ worker'[v].pc = "dispatch" => jobs'[worker'[v].job].node = worker'[v].node
                       /\ worker'[v].pc \in ReportPCs /\ worker'[v].want = "validated" =>
                            Restored(disk[worker'[v].job])
    BY DEF WorkersOk, Restored, local
  <2>1. CASE v = w
    BY <1>1, <2>1 DEF Idle, Handler, ReportPCs
  <2>2. CASE v # w
    <3>1. worker'[v] = worker[v] /\ worker[v] \in Local
      BY <1>1, <2>2 DEF DoneInv, TypeOK
    <3>2. worker[v].pc = "dispatch" => worker[v].job \in Tenants /\ worker[v].node \in Nodes
      BY <3>1 DEF Local, Assigned
    <3>. QED  BY <3>1, <3>2, RuntimeAssumption DEF DoneInv, WorkersOk, NodesStay
  <2>. QED  BY <2>1, <2>2
<1>4. Awaits'
  <2>. SUFFICES ASSUME NEW n \in Nodes, agents'[n].wait # None
                PROVE  agents'[n] = agents[n] /\ worker'[agents[n].wait] = worker[agents[n].wait]
    BY DEF DoneInv, Awaits
  <2>1. agents'[n] = agents[n] /\ agents[n].wait # w
    BY DEF Kept
  <2>2. agents[n].wait \in Workers
    BY <2>1 DEF DoneInv, TypeOK, Agent
  <2>. QED  BY <1>1, <2>1, <2>2
<1>. QED  BY <1>2, <1>3, <1>4 DEF DoneInv

(* A request goes on. *)
LEMMA MoveStep ==
  ASSUME DoneInv, TypeOK', NEW w \in Workers, NEW l, worker' = [worker EXCEPT ![w] = l],
         NodesStay, JobsOk', UNCHANGED local, agents' = agents,
         l.node = worker[w].node \/ worker[w].pc \notin ClaimPCs \cup ReportPCs,
         worker[w].pc \in ClaimPCs => l.pc \in ClaimPCs,
         worker[w].pc \in ReportPCs => l.pc \in ReportPCs,
         l.pc = "dispatch" => jobs'[l.job].node = l.node,
         l.pc \in ReportPCs => worker[w].pc \in ReportPCs /\ l.job = worker[w].job /\ l.want = worker[w].want
  PROVE  DoneInv'
<1>1. worker'[w] = l /\ \A v \in Workers : v # w => worker'[v] = worker[v]
  BY DEF DoneInv, TypeOK
<1>2. AgentsOk' /\ CallsOk' /\ HelpersOk' /\ Hears'
  BY AgentsFrame, HelpersFrame DEF local
<1>3. WorkersOk'
  <2>. SUFFICES ASSUME NEW v \in Workers
                PROVE  /\ worker'[v].pc = "dispatch" => jobs'[worker'[v].job].node = worker'[v].node
                       /\ worker'[v].pc \in ReportPCs /\ worker'[v].want = "validated" =>
                            Restored(disk[worker'[v].job])
    BY DEF WorkersOk, Restored, local
  <2>1. CASE v = w
    BY <1>1, <2>1 DEF DoneInv, WorkersOk
  <2>2. CASE v # w
    <3>1. worker'[v] = worker[v] /\ worker[v] \in Local
      BY <1>1, <2>2 DEF DoneInv, TypeOK
    <3>2. worker[v].pc = "dispatch" => worker[v].job \in Tenants /\ worker[v].node \in Nodes
      BY <3>1 DEF Local, Assigned
    <3>. QED  BY <3>1, <3>2, RuntimeAssumption DEF DoneInv, WorkersOk, NodesStay
  <2>. QED  BY <2>1, <2>2
<1>4. Awaits'
  <2>. SUFFICES ASSUME NEW n \in Nodes, agents[n].wait # None
                PROVE  /\ worker'[agents[n].wait].node = n
                       /\ worker'[agents[n].wait].pc \in ClaimPCs \cup ReportPCs
                       /\ worker'[agents[n].wait].pc \in ClaimPCs => agents[n].phase = "idle"
    BY DEF Awaits
  <2>1. agents[n].wait \in Workers
    BY DEF DoneInv, TypeOK, Agent
  <2>2. CASE agents[n].wait = w
    <3>1. \A pc \in ClaimPCs : pc \notin ReportPCs
      BY DEF ClaimPCs, ReportPCs
    <3>. QED  BY <1>1, <2>2, <3>1 DEF DoneInv, Awaits
  <2>3. CASE agents[n].wait # w
    BY <1>1, <2>1, <2>3 DEF DoneInv, Awaits
  <2>. QED  BY <2>2, <2>3
<1>. QED  BY <1>2, <1>3, <1>4 DEF DoneInv

(* A write to one restore keeps its node, and validates it only in place. *)
LEMMA RowStep ==
  ASSUME DoneInv, disk' = disk
  PROVE  /\ jobs' = jobs => NodesStay /\ JobsOk'
         /\ \A t \in Tenants, row \in JobRow :
              /\ jobs' = [jobs EXCEPT ![t] = row]
              /\ jobs[t].node # None => row.node = jobs[t].node
              /\ row.state # "absent"
              /\ row.state = "validated" => State(t) = "validated" \/ Restored(disk[t])
              => NodesStay /\ JobsOk'
<1>1. jobs' = jobs => NodesStay /\ JobsOk'
  BY DEF DoneInv, JobsOk, NodesStay, State, Restored
<1>2. ASSUME NEW t \in Tenants, NEW row \in JobRow,
             jobs' = [jobs EXCEPT ![t] = row],
             jobs[t].node # None => row.node = jobs[t].node,
             row.state # "absent",
             row.state = "validated" => State(t) = "validated" \/ Restored(disk[t])
      PROVE  NodesStay /\ JobsOk'
  <2>1. jobs'[t] = row /\ \A u \in Tenants : u # t => jobs'[u] = jobs[u]
    BY <1>2 DEF DoneInv, TypeOK
  <2>. QED  BY <1>2, <2>1 DEF DoneInv, JobsOk, NodesStay, State, Restored
<1>. QED  BY <1>1, <1>2

LEMMA AdminStep ==
  ASSUME DoneInv, TypeOK', NEW w \in Workers, NEW t \in Tenants,
         \/ \E n \in Nodes : CreateRead(w, t, n) \/ TakeRead(w, t, n)
         \/ \E r \in {"ready", "failed"} : BuildReport(w, t, r)
  PROVE  DoneInv'
<1>1. UNCHANGED <<jobs, local, agents>>
  BY DEF CreateRead, TakeRead, BuildReport, tables, rows
<1>2. PICK l : /\ worker[w] = Idle /\ worker' = [worker EXCEPT ![w] = l]
               /\ l.pc \in {"create", "take", "built"}
  <2>1. ASSUME NEW n \in Nodes, CreateRead(w, t, n) \/ TakeRead(w, t, n)
        PROVE  \E l : /\ worker[w] = Idle /\ worker' = [worker EXCEPT ![w] = l]
                     /\ l.pc \in {"create", "take", "built"}
    <3>1. Handler("create", n, t, 0, None).pc = "create" /\ Handler("take", n, t, 0, None).pc = "take"
      BY DEF Handler
    <3>. QED  BY <2>1, <3>1 DEF CreateRead, TakeRead, Begin
  <2>2. ASSUME NEW r \in {"ready", "failed"}, BuildReport(w, t, r)
        PROVE  \E l : /\ worker[w] = Idle /\ worker' = [worker EXCEPT ![w] = l]
                     /\ l.pc \in {"create", "take", "built"}
    <3>1. Handler("built", building[t], t, 0, r).pc = "built"
      BY DEF Handler
    <3>. QED  BY <2>2, <3>1 DEF BuildReport, Begin
  <2>. QED  BY <2>1, <2>2
<1>3. worker[w].pc = "idle"
  BY <1>2 DEF Idle, Handler
<1>4. NodesStay /\ JobsOk'
  BY <1>1, RowStep DEF local
<1>. QED  BY <1>1, <1>2, <1>3, <1>4, MoveStep DEF ClaimPCs, ReportPCs

LEMMA AdminCommitStep ==
  ASSUME DoneInv, TypeOK', NEW w \in Workers, CreateCommit(w) \/ TakeCommit(w) \/ BuildCommit(w)
  PROVE  DoneInv'
<1>1. UNCHANGED <<agents, local>> /\ Finish(w) /\ worker[w].pc \in {"create", "take", "built"}
  BY DEF CreateCommit, TakeCommit, BuildCommit, At
<1>2. \A n \in Nodes : agents'[n] = agents[n] /\ agents[n].wait # w
  <2>1. \A pc \in {"create", "take", "built"} : pc \notin ClaimPCs \cup ReportPCs
    BY DEF ClaimPCs, ReportPCs
  <2>. QED  BY <1>1, <2>1, RuntimeAssumption DEF DoneInv, Awaits
<1>3. NodesStay /\ JobsOk'
  <2>1. CASE jobs' = jobs
    BY <1>1, <2>1, RowStep DEF local
  <2>2. CASE jobs' # jobs
    <3>. DEFINE t == worker[w].job
                row == [state |-> "queued", node |-> worker[w].node, attempt |-> 0]
    <3>1. /\ CreateCommit(w) /\ State(t) = "absent"
          /\ jobs' = [jobs EXCEPT ![t] = row]
      BY <2>2 DEF CreateCommit, TakeCommit, BuildCommit
    <3>2. t \in Tenants /\ worker[w].node \in Nodes
      BY <3>1 DEF DoneInv, TypeOK, CreateCommit, At, Local, Assigned
    <3>3. row \in JobRow
      BY <3>2, RestoreAssumption DEF JobRow
    <3>4. jobs[t].node = None
      BY <3>1, <3>2 DEF DoneInv, JobsOk
    <3>5. row.state = "queued"
      OBVIOUS
    <3>. HIDE DEF t, row
    <3>. QED  BY <1>1, <3>1, <3>2, <3>3, <3>4, <3>5, RowStep DEF local
  <2>. QED  BY <2>1, <2>2
<1>. QED  BY <1>1, <1>2, <1>3, EndStep

(* The claim hands a restore of the node to the agent that polled. *)
LEMMA DispatchStep ==
  ASSUME DoneInv, TypeOK', NEW w \in Workers, Dispatch(w)
  PROVE  DoneInv'
<1>a. PICK t \in Tenants, m \in Nodes, k \in 0..MaxTokens :
        t = worker[w].job /\ m = worker[w].node /\ k = worker[w].token
  BY DEF DoneInv, TypeOK, Dispatch, At, Local, Assigned
<1>b. /\ jobs[t].state = "queued" /\ jobs[t].node = m /\ jobs[t] \in JobRow
      /\ worker[w].pc = "dispatch" /\ worker[w].pc \in ClaimPCs /\ Finish(w) /\ UNCHANGED local
  BY <1>a DEF DoneInv, TypeOK, Dispatch, At, State, WorkersOk, ClaimPCs
<1>1. CASE jobs[t].attempt = MaxAttempt
  <2>1. Deliver(w, IdleAgent) /\ jobs' = jobs
    BY <1>1, <1>a DEF Dispatch
  <2>2. \A n \in Nodes : \/ agents'[n] = agents[n] /\ agents[n].wait # w
                         \/ Kept(agents[n], agents'[n])
    BY <1>b, <2>1, Answered DEF DoneInv
  <2>3. NodesStay /\ JobsOk'
    BY <1>b, <2>1, RowStep DEF local
  <2>. QED  BY <1>b, <2>2, <2>3, EndStep
<1>2. CASE jobs[t].attempt # MaxAttempt
  <2>1. Deliver(w, Claimant(t, k)) /\ jobs' = [jobs EXCEPT ![t] = Dispatched(jobs[t])]
    BY <1>2, <1>a DEF Dispatch, DoneInv, TypeOK
  <2>2. /\ Dispatched(jobs[t]) \in JobRow
        /\ Dispatched(jobs[t]).node = m /\ Dispatched(jobs[t]).state = "dispatched"
    BY <1>b, <1>2, RowTypes DEF Dispatched, JobRow
  <2>3. NodesStay /\ JobsOk'
    BY <1>b, <2>1, <2>2, RowStep DEF local
  <2>4. jobs'[t].node = m
    BY <2>1, <2>2 DEF DoneInv, TypeOK
  <2>5. \A n \in Nodes :
          \/ agents'[n] = agents[n] /\ agents[n].wait # w
          \/ n = m /\ agents[n].phase = "idle" /\ agents'[n] = Claimant(t, k)
    <3>. SUFFICES ASSUME NEW n \in Nodes
                  PROVE  \/ agents'[n] = agents[n] /\ agents[n].wait # w
                         \/ n = m /\ agents[n].phase = "idle" /\ agents'[n] = Claimant(t, k)
      OBVIOUS
    <3>1. CASE AwaitedBy(w, n)
      <4>1. agents[n].wait = w /\ n = m /\ w # None
        BY <1>a, <3>1, RuntimeAssumption DEF AwaitedBy
      <4>. QED  BY <1>b, <2>1, <3>1, <4>1 DEF Deliver, DoneInv, Awaits
    <3>2. CASE ~AwaitedBy(w, n)
      <4>1. agents'[n] = agents[n]
        BY <2>1, <3>2 DEF Deliver
      <4>2. agents[n].wait # w
        BY <3>2, RuntimeAssumption DEF AwaitedBy, DoneInv, Awaits
      <4>. QED  BY <4>1, <4>2
    <3>. QED  BY <3>1, <3>2
  <2>6. worker'[w] = Idle /\ \A v \in Workers : v # w => worker'[v] = worker[v]
    BY <1>b DEF Finish, DoneInv, TypeOK
  <2>7. AgentsOk'
    <3>. SUFFICES ASSUME NEW n \in Nodes, agents'[n].phase # "idle"
                  PROVE  /\ jobs'[agents'[n].job].node = n
                         /\ agents'[n].result = "validated" => Restored(disk[agents'[n].job])
      BY <1>b DEF AgentsOk, Restored, local
    <3>1. CASE agents'[n] = agents[n]
      <4>1. agents[n].job \in Tenants /\ n # None
        BY <3>1, RuntimeAssumption DEF DoneInv, TypeOK, Agent
      <4>. QED  BY <2>3, <3>1, <4>1 DEF DoneInv, AgentsOk, NodesStay
    <3>2. CASE n = m /\ agents'[n] = Claimant(t, k)
      BY <2>4, <3>2, RestoreAssumption DEF Claimant
    <3>. QED  BY <2>5, <3>1, <3>2
  <2>8. WorkersOk'
    <3>. SUFFICES ASSUME NEW v \in Workers
                  PROVE  /\ worker'[v].pc = "dispatch" => jobs'[worker'[v].job].node = worker'[v].node
                         /\ worker'[v].pc \in ReportPCs /\ worker'[v].want = "validated" =>
                              Restored(disk[worker'[v].job])
      BY <1>b DEF WorkersOk, Restored, local
    <3>1. CASE v = w
      BY <2>6, <3>1 DEF Idle, Handler, ReportPCs
    <3>2. CASE v # w
      <4>1. worker'[v] = worker[v] /\ worker[v] \in Local
        BY <2>6, <3>2 DEF DoneInv, TypeOK
      <4>2. worker[v].pc = "dispatch" => worker[v].job \in Tenants /\ worker[v].node \in Nodes
        BY <4>1 DEF Local, Assigned
      <4>. QED  BY <2>3, <4>1, <4>2, RuntimeAssumption DEF DoneInv, WorkersOk, NodesStay
    <3>. QED  BY <3>1, <3>2
  <2>9. CallsOk' /\ HelpersOk'
    <3>1. \A n \in Nodes : /\ n # None
                           /\ \A c \in calls[n] : c[1] \in Tenants
                           /\ helper[n] # NoCall => helper[n].job \in Tenants
      BY RuntimeAssumption DEF DoneInv, TypeOK, Call
    <3>. QED  BY <1>b, <2>3, <3>1 DEF DoneInv, CallsOk, HelpersOk, NodesStay, local
  <2>10. Hears'
    <3>1. \A n \in Nodes : \A u : Runs(n, u) => agents'[n].phase = "working" /\ agents'[n].job = u
                                                 /\ agents'[n].result = None
      BY <2>5 DEF Runs
    <3>2. UNCHANGED local /\ Hears
      BY <1>b DEF DoneInv
    <3>. QED  BY <3>1, <3>2, HearsFrame
  <2>11. Awaits'
    <3>. SUFFICES ASSUME NEW n \in Nodes, agents'[n].wait # None
                  PROVE  agents'[n] = agents[n] /\ worker'[agents[n].wait] = worker[agents[n].wait]
      BY DEF DoneInv, Awaits
    <3>1. agents'[n] = agents[n] /\ agents[n].wait # w
      BY <2>5 DEF Claimant
    <3>2. agents[n].wait \in Workers
      BY <3>1 DEF DoneInv, TypeOK, Agent
    <3>. QED  BY <2>6, <3>1, <3>2
  <2>. QED  BY <2>3, <2>7, <2>8, <2>9, <2>10, <2>11 DEF DoneInv
<1>. QED  BY <1>1, <1>2

LEMMA ClaimKeeps ==
  ASSUME DoneInv, TypeOK', NEW w \in Workers, ClaimStep(w)
  PROVE  DoneInv'
<1>a. worker[w] \in Local /\ UNCHANGED local
  BY DEF DoneInv, TypeOK, ClaimStep, ExpireLease, TakeLease, TakeNothing, Dispatch, LoseClaim, Withdraw
<1>b. jobs' = jobs => NodesStay /\ JobsOk'
  BY <1>a, RowStep DEF local
<1>c. \A pc \in ClaimPCs : pc \notin ReportPCs
  BY DEF ClaimPCs, ReportPCs
<1>1. ASSUME NEW t \in Tenants, ExpireLease(w, t)
      PROVE  DoneInv'
  <2>1. jobs[t] \in JobRow /\ jobs' = [jobs EXCEPT ![t] = Requeued(jobs[t])]
    BY <1>1 DEF ExpireLease, DoneInv, TypeOK
  <2>2. Requeued(jobs[t]) \in JobRow /\ Requeued(jobs[t]).node = jobs[t].node
        /\ Requeued(jobs[t]).state \in {jobs[t].state, "queued"}
    BY <2>1, RowTypes DEF Requeued, JobRow
  <2>3. NodesStay /\ JobsOk'
    <3>1. CASE jobs[t].state = "absent"
      <4>1. Requeued(jobs[t]) = jobs[t]
        BY <3>1 DEF Requeued
      <4>2. jobs' = jobs
        BY <2>1, <4>1 DEF DoneInv, TypeOK
      <4>. QED  BY <1>b, <4>2
    <3>2. CASE jobs[t].state # "absent"
      BY <1>a, <2>1, <2>2, <3>2, RowStep DEF local, State
    <3>. QED  BY <3>1, <3>2
  <2>4. PICK l : /\ worker' = [worker EXCEPT ![w] = l]
                 /\ l.pc = "expire" /\ l.node = worker[w].node
    <3>. DEFINE l == [worker[w] EXCEPT !.work = @ \ {t}]
    <3>1. l.pc = "expire" /\ l.node = worker[w].node
      BY <1>1, <1>a DEF ExpireLease, At, Local
    <3>2. worker' = [worker EXCEPT ![w] = l]
      BY <1>1 DEF ExpireLease
    <3>. QED  BY <3>1, <3>2
  <2>5. worker[w].pc = "expire" /\ agents' = agents
    BY <1>1 DEF ExpireLease, At
  <2>. QED  BY <1>a, <2>3, <2>4, <2>5, MoveStep DEF ClaimPCs, ReportPCs
<1>2. ASSUME NEW t \in Tenants, TakeLease(w, t)
      PROVE  DoneInv'
  <2>1. PICK l : /\ worker' = [worker EXCEPT ![w] = l]
                 /\ l.pc = "dispatch" /\ l.node = worker[w].node /\ l.job = t
    <3>. DEFINE l == [worker[w] EXCEPT !.pc = "dispatch", !.job = t, !.token = tokens + 1]
    <3>1. l.pc = "dispatch" /\ l.node = worker[w].node /\ l.job = t
      BY <1>a DEF Local
    <3>2. worker' = [worker EXCEPT ![w] = l]
      BY <1>2 DEF TakeLease, Lease
    <3>. QED  BY <3>1, <3>2
  <2>2. /\ worker[w].pc = "expire" /\ agents' = agents /\ jobs' = jobs
        /\ jobs[t].node = worker[w].node
    BY <1>2 DEF TakeLease, At, Lease, rows, Unleased
  <2>. QED  BY <1>a, <1>b, <2>1, <2>2, MoveStep DEF ClaimPCs, ReportPCs
<1>3. CASE TakeNothing(w) \/ Withdraw(w)
  <2>1. worker[w].pc \in ClaimPCs /\ Deliver(w, IdleAgent) /\ Finish(w) /\ jobs' = jobs
    BY <1>3 DEF TakeNothing, Withdraw, At, ClaimPCs, tables, rows
  <2>2. \A n \in Nodes : \/ agents'[n] = agents[n] /\ agents[n].wait # w
                         \/ Kept(agents[n], agents'[n])
    BY <2>1, Answered DEF DoneInv
  <2>. QED  BY <1>a, <1>b, <2>1, <2>2, EndStep
<1>4. CASE LoseClaim(w)
  <2>1. PICK l : /\ worker' = [worker EXCEPT ![w] = l]
                 /\ l.pc = "withdraw" /\ l.node = worker[w].node
    <3>. DEFINE l == [worker[w] EXCEPT !.pc = "withdraw"]
    <3>1. l.pc = "withdraw" /\ l.node = worker[w].node
      BY <1>a DEF Local
    <3>2. worker' = [worker EXCEPT ![w] = l]
      BY <1>4, <1>a DEF LoseClaim, Goto
    <3>. QED  BY <3>1, <3>2
  <2>2. worker[w].pc = "dispatch" /\ agents' = agents /\ jobs' = jobs
    BY <1>4 DEF LoseClaim, At, tables, rows
  <2>. QED  BY <1>a, <1>b, <2>1, <2>2, MoveStep DEF ClaimPCs, ReportPCs
<1>. QED  BY <1>1, <1>2, <1>3, <1>4, DispatchStep DEF ClaimStep

LEMMA ReportKeeps ==
  ASSUME DoneInv, TypeOK', NEW w \in Workers, ReportStep(w)
  PROVE  DoneInv'
<1>a. PICK t \in Tenants : t = worker[w].job
  BY DEF DoneInv, TypeOK, ReportStep, CheckLease, Replay, CommitRunning, CommitFailed,
         CommitValidated, At, Local, Assigned, ReportPCs
<1>b. /\ worker[w] \in Local /\ jobs[t] \in JobRow /\ UNCHANGED local
      /\ worker[w].pc \in ReportPCs /\ worker[w].want \in Results \cup {"running"}
  BY DEF DoneInv, TypeOK, ReportStep, CheckLease, Replay, CommitRunning, CommitFailed,
         CommitValidated, At, Local, Assigned, ReportPCs
<1>c. jobs' = jobs => NodesStay /\ JobsOk'
  BY <1>b, RowStep DEF local
<1>1. ASSUME Reject(w) \/ Accept(w), NodesStay, JobsOk'
      PROVE  DoneInv'
  <2>1. \A n \in Nodes : \/ agents'[n] = agents[n] /\ agents[n].wait # w
                         \/ Kept(agents[n], agents'[n])
    BY <1>1, Answered DEF DoneInv
  <2>2. Finish(w)
    BY <1>1 DEF Reject, Accept
  <2>. QED  BY <1>1, <1>b, <2>1, <2>2, EndStep
<1>2. ASSUME NEW pc \in ReportPCs, Goto(w, pc), UNCHANGED <<agents, jobs>>
      PROVE  DoneInv'
  <2>1. PICK l : /\ worker' = [worker EXCEPT ![w] = l]
                 /\ l.pc = pc /\ l.node = worker[w].node /\ l.job = worker[w].job
                 /\ l.want = worker[w].want
    <3>. DEFINE l == [worker[w] EXCEPT !.pc = pc]
    <3>1. l.pc = pc /\ l.node = worker[w].node /\ l.job = worker[w].job /\ l.want = worker[w].want
      BY <1>b DEF Local
    <3>2. worker' = [worker EXCEPT ![w] = l]
      BY <1>2 DEF Goto
    <3>. QED  BY <3>1, <3>2
  <2>2. \A c \in ClaimPCs : c \notin ReportPCs
    BY DEF ClaimPCs, ReportPCs
  <2>3. "dispatch" \in ClaimPCs
    BY DEF ClaimPCs
  <2>. QED  BY <1>2, <1>b, <1>c, <2>1, <2>2, <2>3, MoveStep
<1>3. ASSUME NEW s \in Results \cup {"running"}, jobs' = [jobs EXCEPT ![t] = Ended(jobs[t], s)],
             s = "validated" => Restored(disk[t])
      PROVE  NodesStay /\ JobsOk'
  <2>1. CASE jobs[t].state \in {"dispatched", "running"}
    <3>1. /\ Ended(jobs[t], s) \in JobRow
          /\ Ended(jobs[t], s).state = s /\ Ended(jobs[t], s).node = jobs[t].node
      BY <1>b, <2>1, RowTypes DEF Ended, JobRow
    <3>2. s # "absent"
      BY DEF Results
    <3>. QED  BY <1>b, <1>3, <3>1, <3>2, RowStep DEF local
  <2>2. CASE jobs[t].state \notin {"dispatched", "running"}
    <3>1. jobs' = jobs
      BY <1>3, <2>2 DEF Ended, DoneInv, TypeOK
    <3>. QED  BY <1>c, <3>1
  <2>. QED  BY <2>1, <2>2
<1>4. CASE CheckLease(w)
  <2>1. jobs' = jobs
    BY <1>4 DEF CheckLease, tables, rows
  <2>2. "replay" \in ReportPCs /\ worker[w].want \in ReportPCs
    BY <1>b DEF ReportPCs, Results
  <2>3. CASE Reject(w)
    BY <1>1, <1>c, <2>1, <2>3
  <2>4. CASE ~Reject(w)
    <3>1. (Goto(w, "replay") \/ Goto(w, worker[w].want)) /\ agents' = agents
      BY <1>4, <2>4 DEF CheckLease
    <3>. QED  BY <1>2, <2>1, <2>2, <3>1
  <2>. QED  BY <2>3, <2>4
<1>5. CASE Replay(w)
  <2>1. jobs' = jobs /\ (Reject(w) \/ Accept(w))
    BY <1>5 DEF Replay, tables, rows
  <2>. QED  BY <1>1, <1>c, <2>1
<1>6. CASE CommitRunning(w)
  BY <1>1, <1>3, <1>6, <1>a DEF CommitRunning
<1>7. CASE CommitFailed(w)
  BY <1>1, <1>3, <1>7, <1>a DEF CommitFailed, Results
<1>8. CASE CommitValidated(w)
  <2>1. worker[w].want = "validated"
    BY <1>8, <1>b DEF CommitValidated, At, Local, Assigned
  <2>2. Restored(disk[t])
    BY <1>a, <1>b, <2>1 DEF DoneInv, WorkersOk
  <2>. QED  BY <1>1, <1>3, <1>8, <1>a, <2>2 DEF CommitValidated, Results
<1>. QED  BY <1>4, <1>5, <1>6, <1>7, <1>8 DEF ReportStep

(* The agent sends a poll or a report. *)
LEMMA RequestKeeps ==
  ASSUME DoneInv, TypeOK', NEW n \in Nodes, AgentRequest(n)
  PROVE  DoneInv'
<1>. DEFINE Sent(w, l) ==
        /\ worker[w] = Idle /\ worker' = [worker EXCEPT ![w] = l]
        /\ agents' = [agents EXCEPT ![n].wait = w]
        /\ UNCHANGED <<jobs, local>>
        /\ l.node = n
        /\ \/ l.pc = "expire" /\ agents[n].phase = "idle"
           \/ /\ l.pc = "lease" /\ l.job = agents[n].job
              /\ l.want = "validated" => agents[n].phase # "idle" /\ agents[n].result = "validated"
<1>0. \E w \in Workers : \E l : Sent(w, l)
  <2>1. ASSUME NEW w \in Workers, Poll(w, n)
        PROVE  <1>0
    <3>. DEFINE l == [Handler("expire", n, None, 0, None) EXCEPT !.work = Expired(n)]
    <3>1. l.node = n /\ l.pc = "expire"
      BY DEF Handler
    <3>2. agents[n].phase = "idle"
      BY <2>1 DEF Poll, Request, IdleAgent
    <3>3. /\ worker[w] = Idle /\ worker' = [worker EXCEPT ![w] = l]
          /\ agents' = [agents EXCEPT ![n].wait = w]
          /\ UNCHANGED <<jobs, local>>
      BY <2>1 DEF Poll, Request, Begin, rows
    <3>. QED  BY <3>1, <3>2, <3>3
  <2>2. ASSUME NEW w \in Workers, SendReport(w, n)
        PROVE  <1>0
    <3>. DEFINE l == Handler("lease", n, agents[n].job, agents[n].token, Reported(agents[n]))
    <3>1. l.node = n /\ l.pc = "lease" /\ l.job = agents[n].job /\ l.want = Reported(agents[n])
      BY DEF Handler
    <3>2. agents[n].phase # "idle" /\ (Reported(agents[n]) = "validated" => agents[n].result = "validated")
      BY <2>2 DEF SendReport, Report, Reported
    <3>3. /\ worker[w] = Idle /\ worker' = [worker EXCEPT ![w] = l]
          /\ agents' = [agents EXCEPT ![n].wait = w]
          /\ UNCHANGED <<jobs, local>>
      BY <2>2 DEF SendReport, Report, Begin, rows
    <3>. QED  BY <3>1, <3>2, <3>3
  <2>. QED  BY <2>1, <2>2 DEF AgentRequest
<1>w. PICK w \in Workers : \E l : Sent(w, l)
  BY <1>0
<1>1. PICK l : Sent(w, l)
  BY <1>w
<1>2. worker[w].pc = "idle" /\ worker'[w] = l /\ \A v \in Workers : v # w => worker'[v] = worker[v]
  BY <1>1 DEF DoneInv, TypeOK, Idle, Handler
<1>3. /\ \A m \in Nodes : m # n => agents'[m] = agents[m]
      /\ agents'[n].wait = w /\ agents'[n].phase = agents[n].phase /\ agents'[n].job = agents[n].job
      /\ agents'[n].result = agents[n].result
  BY <1>1 DEF DoneInv, TypeOK, Agent
<1>4. JobsOk' /\ CallsOk' /\ HelpersOk'
  BY <1>1 DEF DoneInv, JobsOk, CallsOk, HelpersOk, State, Restored, local
<1>5. AgentsOk'
  <2>1. \A m \in Nodes : /\ agents'[m].phase = agents[m].phase /\ agents'[m].job = agents[m].job
                         /\ agents'[m].result = agents[m].result
    BY <1>3
  <2>. QED  BY <1>1, <2>1 DEF DoneInv, AgentsOk, Restored, local
<1>6. Hears'
  <2>1. \A m \in Nodes : /\ agents'[m].phase = agents[m].phase /\ agents'[m].job = agents[m].job
                         /\ agents'[m].result = agents[m].result
    BY <1>3
  <2>2. \A m \in Nodes : \A t : Runs(m, t) =>
          /\ agents'[m].phase = "working" /\ agents'[m].job = t /\ agents'[m].result = None
    BY <2>1 DEF Runs
  <2>3. UNCHANGED local /\ Hears
    BY <1>1 DEF DoneInv
  <2>. QED  BY <2>2, <2>3, HearsFrame
<1>7. WorkersOk'
  <2>. SUFFICES ASSUME NEW v \in Workers
                PROVE  /\ worker'[v].pc = "dispatch" => jobs'[worker'[v].job].node = worker'[v].node
                       /\ worker'[v].pc \in ReportPCs /\ worker'[v].want = "validated" =>
                            Restored(disk[worker'[v].job])
    BY <1>1 DEF WorkersOk, Restored, local
  <2>1. CASE v = w
    <3>1. "expire" \notin ReportPCs
      BY DEF ReportPCs
    <3>. QED  BY <1>1, <1>2, <2>1, <3>1 DEF DoneInv, AgentsOk
  <2>2. CASE v # w
    BY <1>1, <1>2, <2>2 DEF DoneInv, WorkersOk
  <2>. QED  BY <2>1, <2>2
<1>8. Awaits'
  <2>. SUFFICES ASSUME NEW m \in Nodes, agents'[m].wait # None
                PROVE  /\ worker'[agents'[m].wait].node = m
                       /\ worker'[agents'[m].wait].pc \in ClaimPCs \cup ReportPCs
                       /\ worker'[agents'[m].wait].pc \in ClaimPCs => agents'[m].phase = "idle"
    BY DEF Awaits
  <2>0. "idle" \notin ClaimPCs \cup ReportPCs /\ "expire" \in ClaimPCs /\ "lease" \in ReportPCs
        /\ "lease" \notin ClaimPCs
    BY DEF ClaimPCs, ReportPCs
  <2>1. CASE m = n
    BY <1>1, <1>2, <1>3, <2>0, <2>1
  <2>2. CASE m # n
    <3>1. agents'[m] = agents[m] /\ agents[m].wait \in Workers
      BY <1>3, <2>2 DEF DoneInv, TypeOK, Agent
    <3>2. agents[m].wait # w
      BY <1>2, <2>0, <3>1 DEF DoneInv, Awaits
    <3>. QED  BY <1>2, <3>1, <3>2 DEF DoneInv, Awaits
  <2>. QED  BY <2>1, <2>2
<1>. QED  BY <1>4, <1>5, <1>6, <1>7, <1>8 DEF DoneInv

(* An agent moves outside of a request; what is restored stays so. *)
LEMMA AgentMove ==
  ASSUME DoneInv, NEW n \in Nodes, NEW b, UNCHANGED <<jobs, worker>>,
         agents' = [agents EXCEPT ![n] = b],
         b.wait # None => b = agents[n],
         b.phase # "idle" =>
           /\ agents[n].phase # "idle" /\ b.job = agents[n].job
           /\ b.result = "validated" => agents[n].result = "validated" \/ Restored(disk'[b.job]),
         \A t \in Tenants : Restored(disk[t]) => Restored(disk'[t])
  PROVE  JobsOk' /\ AgentsOk' /\ WorkersOk' /\ Awaits'
<1>1. agents'[n] = b /\ \A m \in Nodes : m # n => agents'[m] = agents[m]
  BY DEF DoneInv, TypeOK
<1>2. JobsOk'
  BY DEF DoneInv, JobsOk, State, Restored
<1>3. AgentsOk'
  <2>. SUFFICES ASSUME NEW m \in Nodes, agents'[m].phase # "idle"
                PROVE  /\ jobs[agents'[m].job].node = m
                       /\ agents'[m].result = "validated" => Restored(disk'[agents'[m].job])
    BY DEF AgentsOk, Restored
  <2>1. agents[m].phase # "idle" /\ agents'[m].job = agents[m].job
    BY <1>1
  <2>2. agents[m].job \in Tenants
    BY <2>1 DEF DoneInv, TypeOK, Agent
  <2>3. agents'[m].result = "validated" =>
          agents[m].result = "validated" \/ Restored(disk'[agents'[m].job])
    BY <1>1
  <2>. QED  BY <2>1, <2>2, <2>3 DEF DoneInv, AgentsOk
<1>4. WorkersOk'
  <2>1. \A w \in Workers : worker[w].pc \in ReportPCs => worker[w].job \in Tenants
    BY DEF DoneInv, TypeOK, Local, Assigned
  <2>. QED  BY <2>1 DEF DoneInv, WorkersOk, Restored
<1>5. Awaits'
  <2>1. \A m \in Nodes : agents'[m].wait # None => agents'[m] = agents[m]
    BY <1>1
  <2>. QED  BY <2>1 DEF DoneInv, Awaits
<1>. QED  BY <1>2, <1>3, <1>4, <1>5

(* Hears after a step, of one node. *)
HearsAfter(n) ==
  /\ helper'[n].heard =>
       /\ agents'[n].phase = "working" /\ agents'[n].job = helper'[n].job /\ agents'[n].result = None
       /\ \A t \in Tenants : <<t, TRUE>> \notin calls'[n]
  /\ \A t \in Tenants : <<t, TRUE>> \in calls'[n] =>
       agents'[n].phase = "working" /\ agents'[n].job = t /\ agents'[n].result = None

LEMMA HearsBy == (\A n \in Nodes : HearsAfter(n)) => Hears'
BY DEF Hears, HearsAfter, Runs

LEMMA HearsStay ==
  ASSUME Hears, NEW n \in Nodes, helper'[n] = helper[n], calls'[n] = calls[n], agents'[n] = agents[n]
  PROVE  HearsAfter(n)
<1>1. /\ helper[n].heard => Runs(n, helper[n].job) /\ \A t \in Tenants : <<t, TRUE>> \notin calls[n]
      /\ \A t \in Tenants : <<t, TRUE>> \in calls[n] => Runs(n, t)
  BY DEF Hears
<1>2. \A t : Runs(n, t) => agents'[n].phase = "working" /\ agents'[n].job = t /\ agents'[n].result = None
  BY DEF Runs
<1>. QED  BY <1>1, <1>2 DEF HearsAfter

LEMMA HearsNone ==
  ASSUME NEW n \in Nodes, ~helper'[n].heard, \A t \in Tenants : <<t, TRUE>> \notin calls'[n]
  PROVE  HearsAfter(n)
BY DEF HearsAfter

LEMMA UnheardKeeps ==
  ASSUME DoneInv, TypeOK', NEW n \in Nodes, Unheard(n), UNCHANGED <<jobs, disk>>,
         \A m \in Nodes : m # n => agents'[m] = agents[m]
  PROVE  CallsOk' /\ HelpersOk' /\ Hears'
<1>1. /\ helper'[n].heard = FALSE /\ helper'[n].job = helper[n].job /\ helper'[n].stage = helper[n].stage
      /\ \A m \in Nodes : m # n => helper'[m] = helper[m] /\ calls'[m] = calls[m]
      /\ calls'[n] = {<<c[1], FALSE>> : c \in calls[n]}
  BY DEF Unheard, DoneInv, TypeOK, Call
<1>2. CallsOk'
  <2>. SUFFICES ASSUME NEW m \in Nodes, NEW c \in calls'[m]
                PROVE  jobs[c[1]].node = m
    BY DEF CallsOk
  <2>1. \E d \in calls[m] : d[1] = c[1]
    <3>1. CASE m = n
      <4>1. PICK d \in calls[n] : c = <<d[1], FALSE>>
        BY <1>1, <3>1
      <4>. QED  BY <3>1, <4>1
    <3>2. CASE m # n
      BY <1>1, <3>2
    <3>. QED  BY <3>1, <3>2
  <2>. QED  BY <2>1 DEF DoneInv, CallsOk
<1>3. helper'[n] # NoCall => helper[n] # NoCall
  <2>1. helper'[n] # NoCall => helper'[n].job \in Tenants
    BY DEF TypeOK, Call
  <2>. QED  BY <1>1, <2>1, RestoreAssumption DEF NoCall
<1>4. HelpersOk'
  BY <1>1, <1>3 DEF DoneInv, HelpersOk
<1>5. \A t : <<t, TRUE>> \notin calls'[n]
  BY <1>1
<1>6. Hears'
  <2>1. ASSUME NEW m \in Nodes, m # n
        PROVE  HearsAfter(m)
    BY <1>1, <2>1, HearsStay DEF DoneInv
  <2>2. HearsAfter(n)
    BY <1>1, <1>5, HearsNone
  <2>. QED  BY <2>1, <2>2, HearsBy
<1>. QED  BY <1>2, <1>4, <1>6

LEMMA AgentKeeps ==
  ASSUME DoneInv, TypeOK', NEW n \in Nodes,
         \/ CallHelper(n) \/ ReplyLost(n) \/ AgentRestarts(n) \/ DownloadFails(n) \/ HelperTimesOut(n)
  PROVE  DoneInv'
<1>a. agents[n] \in Agent
  BY DEF DoneInv, TypeOK
<1>b. UNCHANGED <<jobs, worker, disk>>
  BY DEF CallHelper, ReplyLost, LoseReply, AgentRestarts, Restart, DownloadFails, HelperTimesOut,
         Return, tables, rows, local
<1>c. \A t \in Tenants : Restored(disk[t]) => Restored(disk'[t])
  BY <1>b
<1>d. ASSUME Return(n, "failed")
      PROVE  /\ JobsOk' /\ AgentsOk' /\ WorkersOk' /\ Awaits'
             /\ \A m \in Nodes : m # n => agents'[m] = agents[m]
  <2>1. PICK b : /\ agents' = [agents EXCEPT ![n] = b]
                 /\ b.wait = None /\ b.phase = "working" /\ b.job = agents[n].job /\ b.result = "failed"
    <3>. DEFINE b == [agents[n] EXCEPT !.result = "failed"]
    <3>1. b.wait = None /\ b.phase = "working" /\ b.job = agents[n].job /\ b.result = "failed"
      BY <1>a, <1>d DEF Return, Agent
    <3>2. agents' = [agents EXCEPT ![n] = b]
      BY <1>d DEF Return
    <3>. QED  BY <3>1, <3>2
  <2>2. agents[n].phase = "working"
    BY <1>d DEF Return
  <2>. QED  BY <1>b, <1>c, <2>1, <2>2, AgentMove DEF DoneInv, TypeOK
<1>1. CASE CallHelper(n)
  <2>1. agents' = [agents EXCEPT ![n] = agents[n]]
    BY <1>1 DEF CallHelper, DoneInv, TypeOK
  <2>2. JobsOk' /\ AgentsOk' /\ WorkersOk' /\ Awaits'
    BY <1>b, <1>c, <2>1, AgentMove
  <2>3. /\ calls'[n] = calls[n] \cup {<<agents[n].job, TRUE>>}
        /\ \A m \in Nodes : m # n => calls'[m] = calls[m]
        /\ helper' = helper /\ agents' = agents /\ agents[n].job \in Tenants
        /\ Runs(n, agents[n].job)
    BY <1>1, <1>a DEF CallHelper, DoneInv, TypeOK, Executing, Runs, Agent
  <2>4. CallsOk'
    <3>. SUFFICES ASSUME NEW m \in Nodes, NEW c \in calls'[m]
                  PROVE  jobs[c[1]].node = m
      BY <1>b DEF CallsOk
    <3>1. jobs[agents[n].job].node = n
      BY <2>3 DEF DoneInv, AgentsOk, Runs
    <3>2. CASE c \in calls[m]
      BY <3>2 DEF DoneInv, CallsOk
    <3>3. CASE c \notin calls[m]
      <4>1. m = n /\ c = <<agents[n].job, TRUE>>
        BY <2>3, <3>3
      <4>. QED  BY <3>1, <4>1
    <3>. QED  BY <3>2, <3>3
  <2>5. HelpersOk'
    BY <1>b, <2>3 DEF DoneInv, HelpersOk
  <2>6. Hears'
    <3>1. ~helper[n].heard /\ \A t \in Tenants : <<t, TRUE>> \notin calls[n]
      BY <1>1 DEF CallHelper, Asked
    <3>2. ASSUME NEW m \in Nodes, m # n
          PROVE  HearsAfter(m)
      BY <2>3, <3>2, HearsStay DEF DoneInv
    <3>3. HearsAfter(n)
      <4>1. ~helper'[n].heard
        BY <2>3, <3>1
      <4>2. ASSUME NEW t \in Tenants, <<t, TRUE>> \in calls'[n]
            PROVE  t = agents[n].job
        <5>1. <<t, TRUE>> \notin calls[n]
          BY <3>1
        <5>2. <<t, TRUE>> = <<agents[n].job, TRUE>>
          BY <2>3, <4>2, <5>1
        <5>. QED  BY <5>2
      <4>3. agents'[n].phase = "working" /\ agents'[n].result = None /\ agents'[n].job = agents[n].job
        BY <2>3 DEF Runs
      <4>. QED  BY <4>1, <4>2, <4>3 DEF HearsAfter
    <3>. QED  BY <3>2, <3>3, HearsBy
  <2>. QED  BY <2>2, <2>4, <2>5, <2>6 DEF DoneInv
<1>2. CASE DownloadFails(n)
  <2>1. JobsOk' /\ AgentsOk' /\ WorkersOk' /\ Awaits' /\ \A m \in Nodes : m # n => agents'[m] = agents[m]
    BY <1>2, <1>d DEF DownloadFails
  <2>2. UNCHANGED local
    BY <1>2 DEF DownloadFails
  <2>3. CallsOk' /\ HelpersOk'
    BY <1>b, <2>2 DEF DoneInv, CallsOk, HelpersOk, local
  <2>4. Hears'
    <3>1. ~helper[n].heard /\ \A t \in Tenants : <<t, TRUE>> \notin calls[n]
      BY <1>2 DEF DownloadFails, Asked
    <3>2. ASSUME NEW m \in Nodes, m # n
          PROVE  HearsAfter(m)
      BY <2>1, <2>2, <3>2, HearsStay DEF DoneInv, local
    <3>3. HearsAfter(n)
      BY <2>2, <3>1, HearsNone DEF local
    <3>. QED  BY <3>2, <3>3, HearsBy
  <2>. QED  BY <2>1, <2>3, <2>4 DEF DoneInv
<1>3. CASE HelperTimesOut(n)
  <2>1. Return(n, "failed") /\ Unheard(n)
    BY <1>3 DEF HelperTimesOut
  <2>. QED  BY <1>b, <1>d, <2>1, UnheardKeeps DEF DoneInv
<1>4. CASE ReplyLost(n)
  <2>1. UNCHANGED local /\ agents' = [agents EXCEPT ![n] = AfterReject(agents[n])]
    BY <1>4 DEF ReplyLost, LoseReply, DoneInv, TypeOK
  <2>2. Kept(agents[n], AfterReject(agents[n]))
    BY <1>a, KeptAfter
  <2>3. PICK b : b = AfterReject(agents[n])
    OBVIOUS
  <2>4. JobsOk' /\ AgentsOk' /\ WorkersOk' /\ Awaits'
    BY <1>b, <1>c, <2>1, <2>2, <2>3, AgentMove DEF Kept
  <2>5. \A m \in Nodes : agents'[m] = agents[m] \/ Kept(agents[m], agents'[m])
    BY <2>1, <2>2 DEF DoneInv, TypeOK
  <2>6. NodesStay
    BY <1>b DEF NodesStay
  <2>. QED  BY <2>1, <2>4, <2>5, <2>6, HelpersFrame DEF DoneInv
<1>5. CASE AgentRestarts(n)
  <2>1. Unheard(n) /\ agents' = [agents EXCEPT ![n] = IdleAgent]
    BY <1>5 DEF AgentRestarts, Restart
  <2>2. IdleAgent.wait = None /\ IdleAgent.phase = "idle"
    BY DEF IdleAgent
  <2>3. JobsOk' /\ AgentsOk' /\ WorkersOk' /\ Awaits'
    BY <1>b, <1>c, <2>1, <2>2, AgentMove
  <2>4. \A m \in Nodes : m # n => agents'[m] = agents[m]
    BY <2>1 DEF DoneInv, TypeOK
  <2>. QED  BY <1>b, <2>1, <2>3, <2>4, UnheardKeeps DEF DoneInv
<1>. QED  BY <1>1, <1>2, <1>3, <1>4, <1>5

-----------------------------------------------------------------------------
(* The helper *)

(* It answers; what was restored is still there, and what it calls         *)
(* validated is.                                                           *)
LEMMA AnswerKeeps ==
  ASSUME DoneInv, TypeOK', NEW n \in Nodes, NEW r \in Results, NEW e, Answer(n, r, e),
         helper[n] # NoCall,
         Restored(disk[helper[n].job]) => Restored(e),
         r = "validated" => Restored(e)
  PROVE  DoneInv'
<1>. DEFINE t == helper[n].job
<1>a. t \in Tenants /\ jobs[t].node = n /\ agents[n] \in Agent
  BY DEF DoneInv, TypeOK, Call, HelpersOk
<1>b. /\ disk'[t] = e /\ \A u \in Tenants : u # t => disk'[u] = disk[u]
      /\ helper'[n] = NoCall /\ \A m \in Nodes : m # n => helper'[m] = helper[m]
      /\ UNCHANGED <<jobs, calls>>
  BY <1>a DEF Answer, DoneInv, TypeOK, rows
<1>c. \A u \in Tenants : Restored(disk[u]) => Restored(disk'[u])
  BY <1>b
<1>1. /\ JobsOk' /\ AgentsOk' /\ WorkersOk' /\ Awaits'
      /\ worker' = worker /\ \A m \in Nodes : m # n => agents'[m] = agents[m]
      /\ ~helper[n].heard => agents' = agents
  <2>1. CASE helper[n].heard
    <3>1. Return(n, r) /\ worker' = worker
      BY <2>1 DEF Answer, Return
    <3>2. agents[n].phase = "working" /\ agents[n].job = t
      BY <2>1 DEF DoneInv, Hears, Runs
    <3>3. PICK b : /\ agents' = [agents EXCEPT ![n] = b]
                   /\ b.wait = None /\ b.phase = "working" /\ b.job = agents[n].job /\ b.result = r
      <4>. DEFINE b == [agents[n] EXCEPT !.result = r]
      <4>1. b.wait = None /\ b.phase = "working" /\ b.job = agents[n].job /\ b.result = r
        BY <1>a, <3>1 DEF Return, Agent
      <4>2. agents' = [agents EXCEPT ![n] = b]
        BY <3>1 DEF Return
      <4>. QED  BY <4>1, <4>2
    <3>4. b.result = "validated" => Restored(disk'[b.job])
      BY <1>b, <3>2, <3>3
    <3>5. JobsOk' /\ AgentsOk' /\ WorkersOk' /\ Awaits'
      BY <1>b, <1>c, <3>1, <3>2, <3>3, <3>4, AgentMove
    <3>. QED  BY <2>1, <3>1, <3>3, <3>5 DEF DoneInv, TypeOK
  <2>2. CASE ~helper[n].heard
    <3>1. UNCHANGED <<agents, worker>> /\ agents' = [agents EXCEPT ![n] = agents[n]]
      BY <2>2 DEF Answer, DoneInv, TypeOK
    <3>2. PICK b : b = agents[n]
      OBVIOUS
    <3>3. JobsOk' /\ AgentsOk' /\ WorkersOk' /\ Awaits'
      BY <1>b, <1>c, <3>1, <3>2, AgentMove
    <3>. QED  BY <3>1, <3>3
  <2>. QED  BY <2>1, <2>2
<1>2. CallsOk'
  BY <1>b DEF DoneInv, CallsOk
<1>3. HelpersOk'
  <2>. SUFFICES ASSUME NEW m \in Nodes, helper'[m] # NoCall
                PROVE  m # n /\ helper'[m] = helper[m] /\ helper[m].job # t /\ helper[m].job \in Tenants
    BY <1>b DEF DoneInv, HelpersOk
  <2>1. m # n /\ helper'[m] = helper[m]
    BY <1>b
  <2>. QED  BY <1>a, <2>1 DEF DoneInv, HelpersOk, TypeOK, Call
<1>4. Hears'
  <2>1. ASSUME NEW m \in Nodes, m # n
        PROVE  HearsAfter(m)
    BY <1>b, <1>1, <2>1, HearsStay DEF DoneInv
  <2>2. HearsAfter(n)
    <3>1. ~helper'[n].heard
      BY <1>b DEF NoCall
    <3>2. CASE helper[n].heard
      <4>1. \A u \in Tenants : <<u, TRUE>> \notin calls'[n]
        BY <1>b, <3>2 DEF DoneInv, Hears
      <4>. QED  BY <3>1, <4>1, HearsNone
    <3>3. CASE ~helper[n].heard
      <4>1. \A u \in Tenants : <<u, TRUE>> \in calls[n] => Runs(n, u)
        BY DEF DoneInv, Hears
      <4>2. \A u : Runs(n, u) => agents'[n].phase = "working" /\ agents'[n].job = u /\ agents'[n].result = None
        BY <1>1, <3>3 DEF Runs
      <4>. QED  BY <1>b, <3>1, <4>1, <4>2 DEF HearsAfter
    <3>. QED  BY <3>2, <3>3
  <2>. QED  BY <2>1, <2>2, HearsBy
<1>. QED  BY <1>1, <1>2, <1>3, <1>4 DEF DoneInv

(* It works on a target that is not in place. *)
LEMMA ReachKeeps ==
  ASSUME DoneInv, TypeOK', NEW n \in Nodes, NEW stage \in {"staged", "loaded", "marked"}, NEW e,
         Reach(n, stage, e), helper[n] # NoCall,
         ~disk[helper[n].job].files, ~e.files, stage = "marked" => e.db = "target"
  PROVE  DoneInv'
<1>. DEFINE t == helper[n].job
<1>a. t \in Tenants /\ jobs[t].node = n /\ helper[n] \in Call
  BY DEF DoneInv, TypeOK, Call, HelpersOk
<1>b. /\ disk'[t] = e /\ \A u \in Tenants : u # t => disk'[u] = disk[u]
      /\ helper'[n].job = t /\ helper'[n].stage = stage /\ helper'[n].heard = helper[n].heard
      /\ \A m \in Nodes : m # n => helper'[m] = helper[m]
      /\ UNCHANGED <<jobs, calls, worker, agents>>
  BY <1>a DEF Reach, DoneInv, TypeOK, tables, rows, Call
<1>c. \A u \in Tenants : Restored(disk[u]) => Restored(disk'[u])
  BY <1>b DEF Restored
<1>1. JobsOk' /\ AgentsOk' /\ WorkersOk' /\ Awaits'
  <2>1. agents' = [agents EXCEPT ![n] = agents[n]]
    BY <1>b DEF DoneInv, TypeOK
  <2>2. PICK b : b = agents[n]
    OBVIOUS
  <2>. QED  BY <1>b, <1>c, <2>1, <2>2, AgentMove
<1>2. CallsOk'
  BY <1>b DEF DoneInv, CallsOk
<1>3. HelpersOk'
  <2>. SUFFICES ASSUME NEW m \in Nodes, helper'[m] # NoCall
                PROVE  /\ jobs'[helper'[m].job].node = m
                       /\ helper'[m].stage \in {"staged", "loaded", "marked"} => ~disk'[helper'[m].job].files
                       /\ helper'[m].stage = "marked" => disk'[helper'[m].job].db = "target"
    BY DEF HelpersOk
  <2>1. CASE m = n
    BY <1>a, <1>b, <2>1
  <2>2. CASE m # n
    <3>1. helper'[m] = helper[m] /\ helper[m].job \in Tenants /\ helper[m].job # t
      BY <1>a, <1>b, <2>2 DEF DoneInv, HelpersOk, TypeOK, Call
    <3>. QED  BY <1>b, <3>1 DEF DoneInv, HelpersOk
  <2>. QED  BY <2>1, <2>2
<1>4. Hears'
  <2>1. \A m \in Nodes : helper'[m].job = helper[m].job /\ helper'[m].heard = helper[m].heard
    BY <1>b
  <2>. QED  BY <1>b, <2>1 DEF DoneInv, Hears, Runs
<1>. QED  BY <1>1, <1>2, <1>3, <1>4 DEF DoneInv

LEMMA ServeKeeps ==
  ASSUME DoneInv, TypeOK', NEW n \in Nodes, NEW c \in calls[n], ServeCall(n, c)
  PROVE  DoneInv'
<1>a. /\ c[1] \in Tenants /\ c[2] \in BOOLEAN /\ c = <<c[1], c[2]>>
      /\ jobs[c[1]].node = n
  BY DEF DoneInv, TypeOK, CallsOk
<1>b. /\ helper'[n].job = c[1] /\ helper'[n].stage = "called" /\ helper'[n].heard = c[2]
      /\ \A m \in Nodes : m # n => helper'[m] = helper[m] /\ calls'[m] = calls[m]
      /\ calls'[n] = calls[n] \ {c}
      /\ UNCHANGED <<jobs, worker, agents, disk>>
  BY DEF ServeCall, DoneInv, TypeOK, tables, rows
<1>1. JobsOk' /\ AgentsOk' /\ WorkersOk' /\ Awaits'
  <2>1. agents' = [agents EXCEPT ![n] = agents[n]]
    BY <1>b DEF DoneInv, TypeOK
  <2>2. PICK b : b = agents[n]
    OBVIOUS
  <2>. QED  BY <1>b, <2>1, <2>2, AgentMove
<1>2. CallsOk'
  <2>1. \A m \in Nodes : calls'[m] \subseteq calls[m]
    BY <1>b
  <2>. QED  BY <1>b, <2>1 DEF DoneInv, CallsOk
<1>3. HelpersOk'
  BY <1>a, <1>b DEF DoneInv, HelpersOk
<1>4. Hears'
  <2>1. ASSUME NEW m \in Nodes, m # n
        PROVE  HearsAfter(m)
    BY <1>b, <2>1, HearsStay DEF DoneInv
  <2>2. \A t \in Tenants : <<t, TRUE>> \in calls[n] => Runs(n, t)
    BY DEF DoneInv, Hears
  <2>3. ASSUME c[2] = TRUE
        PROVE  /\ Runs(n, c[1])
               /\ \A t \in Tenants : <<t, TRUE>> \notin calls'[n]
    <3>1. <<c[1], TRUE>> \in calls[n] /\ c = <<c[1], TRUE>>
      BY <1>a, <2>3
    <3>2. Runs(n, c[1])
      BY <1>a, <2>2, <3>1
    <3>3. ASSUME NEW t \in Tenants, <<t, TRUE>> \in calls[n]
          PROVE  <<t, TRUE>> = c
      <4>1. Runs(n, t)
        BY <2>2, <3>3
      <4>. QED  BY <3>1, <3>2, <4>1 DEF Runs
    <3>. QED  BY <1>b, <3>2, <3>3
  <2>4. HearsAfter(n)
    <3>1. \A t : Runs(n, t) => agents'[n].phase = "working" /\ agents'[n].job = t /\ agents'[n].result = None
      BY <1>b DEF Runs
    <3>2. \A t \in Tenants : <<t, TRUE>> \in calls'[n] => Runs(n, t)
      BY <1>b, <2>2
    <3>. QED  BY <1>a, <1>b, <2>3, <3>1, <3>2 DEF HearsAfter
  <2>. QED  BY <2>1, <2>4, HearsBy
<1>. QED  BY <1>1, <1>2, <1>3, <1>4 DEF DoneInv

LEMMA CrashKeeps ==
  ASSUME DoneInv, TypeOK', NEW n \in Nodes, HelperCrashes(n)
  PROVE  DoneInv'
<1>a. agents[n] \in Agent /\ UNCHANGED <<jobs, worker, disk>>
  BY DEF DoneInv, TypeOK, HelperCrashes, Return, rows
<1>b. /\ helper'[n] = NoCall /\ calls'[n] = {}
      /\ \A m \in Nodes : m # n => helper'[m] = helper[m] /\ calls'[m] = calls[m]
  BY DEF HelperCrashes, DoneInv, TypeOK
<1>1. PICK b : /\ agents' = [agents EXCEPT ![n] = b]
               /\ b.wait # None => b = agents[n]
               /\ b.phase # "idle" => /\ agents[n].phase # "idle" /\ b.job = agents[n].job
                                      /\ b.result = "validated" => agents[n].result = "validated"
  <2>1. CASE Asked(n)
    <3>. DEFINE b == [agents[n] EXCEPT !.result = "failed"]
    <3>1. /\ b.wait = None /\ b.phase = agents[n].phase /\ b.job = agents[n].job /\ b.result = "failed"
          /\ agents' = [agents EXCEPT ![n] = b]
      BY <1>a, <2>1 DEF HelperCrashes, Return, Agent
    <3>. QED  BY <3>1
  <2>2. CASE ~Asked(n)
    <3>1. agents' = [agents EXCEPT ![n] = agents[n]]
      BY <2>2 DEF HelperCrashes, DoneInv, TypeOK
    <3>. QED  BY <3>1
  <2>. QED  BY <2>1, <2>2
<1>2. JobsOk' /\ AgentsOk' /\ WorkersOk' /\ Awaits'
  BY <1>a, <1>1, AgentMove
<1>3. CallsOk' /\ HelpersOk'
  BY <1>a, <1>b DEF DoneInv, CallsOk, HelpersOk
<1>4. Hears'
  <2>1. ASSUME NEW m \in Nodes, m # n
        PROVE  HearsAfter(m)
    BY <1>1, <1>b, <2>1, HearsStay DEF DoneInv, TypeOK
  <2>2. HearsAfter(n)
    <3>1. ~helper'[n].heard /\ \A t \in Tenants : <<t, TRUE>> \notin calls'[n]
      BY <1>b DEF NoCall
    <3>. QED  BY <3>1, HearsNone
  <2>. QED  BY <2>1, <2>2, HearsBy
<1>. QED  BY <1>2, <1>3, <1>4 DEF DoneInv

LEMMA HelperKeeps ==
  ASSUME DoneInv, TypeOK', NEW n \in Nodes, HelperStep(n)
  PROVE  DoneInv'
<1>. DEFINE d == disk[helper[n].job]
<1>a. helper[n].stage \in Stages => helper[n] # NoCall
  BY DEF NoCall, Stages
<1>b. helper[n] # NoCall =>
        /\ d \in Disk
        /\ helper[n].stage \in {"staged", "loaded", "marked"} => ~d.files
        /\ helper[n].stage = "marked" => d.db = "target"
  BY DEF DoneInv, TypeOK, Call, HelpersOk
<1>1. ASSUME NEW c \in calls[n], ServeCall(n, c)
      PROVE  DoneInv'
  BY <1>1, ServeKeeps
<1>2. CASE AnswerReplay(n)
  BY <1>2, <1>a, AnswerKeeps DEF AnswerReplay, Results, Stages
<1>3. CASE AnswerConflict(n)
  BY <1>3, <1>a, AnswerKeeps DEF AnswerConflict, Results, Stages
<1>4. CASE ExtractFiles(n)
  <2>1. ~EmptyDisk.files /\ ~[EmptyDisk EXCEPT !.staging = TRUE].files
    BY DEF EmptyDisk
  <2>. QED  BY <1>4, <1>a, <2>1, ReachKeeps DEF ExtractFiles, Stages
<1>5. CASE LoadDatabase(n)
  <2>1. ~d.files /\ ~[d EXCEPT !.db = "foreign"].files
    BY <1>5, <1>a, <1>b DEF LoadDatabase, Stages, Disk
  <2>. QED  BY <1>5, <1>a, <2>1, ReachKeeps DEF LoadDatabase, Stages
<1>6. CASE WriteMarker(n)
  <2>1. /\ ~d.files /\ ~[d EXCEPT !.db = "target"].files
        /\ [d EXCEPT !.db = "target"].db = "target"
    BY <1>6, <1>a, <1>b DEF WriteMarker, Stages, Disk
  <2>. QED  BY <1>6, <1>a, <2>1, ReachKeeps DEF WriteMarker, Stages
<1>7. CASE PublishFiles(n)
  <2>1. Restored(Published(d))
    BY <1>7, <1>a, <1>b DEF PublishFiles, Stages, Disk, Restored, Published
  <2>. QED  BY <1>7, <1>a, <2>1, AnswerKeeps DEF PublishFiles, Results, Stages
<1>8. CASE StageFails(n)
  <2>1. ~Restored(d) /\ helper[n] # NoCall
    BY <1>8, <1>a, <1>b DEF StageFails, Stages, Restored
  <2>2. PICK e : Answer(n, "failed", e)
    BY <1>8 DEF StageFails
  <2>. QED  BY <2>1, <2>2, AnswerKeeps DEF Results
<1>. QED  BY <1>1, <1>2, <1>3, <1>4, <1>5, <1>6, <1>7, <1>8 DEF HelperStep

-----------------------------------------------------------------------------
(* The theorem *)

LEMMA EnvironmentKeeps ==
  ASSUME DoneInv, TypeOK',
         \/ \E n \in Nodes : RevokeNode(n)
         \/ \E t \in Tenants : LeaseLapses(t)
         \/ UNCHANGED vars
  PROVE  DoneInv'
<1>1. UNCHANGED <<jobs, worker, agents, disk, calls, helper>>
  BY DEF RevokeNode, Revoke, LeaseLapses, Lapse, rows, local, vars
<1>2. JobsOk' /\ AgentsOk' /\ WorkersOk'
  BY <1>1 DEF DoneInv, JobsOk, AgentsOk, WorkersOk, State, Restored
<1>3. CallsOk' /\ HelpersOk' /\ Awaits'
  BY <1>1 DEF DoneInv, CallsOk, HelpersOk, Awaits
<1>4. Hears'
  BY <1>1, HearsBy, HearsStay DEF DoneInv
<1>. QED  BY <1>2, <1>3, <1>4 DEF DoneInv

LEMMA FailKeeps ==
  ASSUME DoneInv, TypeOK', NEW w \in Workers, WorkerFails(w)
  PROVE  DoneInv'
<1>1. DeliverEach(w, AfterReject) /\ Finish(w) /\ UNCHANGED <<jobs, local>>
  BY DEF WorkerFails, Abort, rows
<1>2. \A n \in Nodes : \/ agents'[n] = agents[n] /\ agents[n].wait # w
                       \/ Kept(agents[n], agents'[n])
  BY <1>1, Answered DEF DoneInv
<1>3. NodesStay /\ JobsOk'
  BY <1>1, RowStep DEF local
<1>. QED  BY <1>1, <1>2, <1>3, EndStep

LEMMA DoneStep == DoneInv /\ [Next]_vars => DoneInv'
<1>. SUFFICES ASSUME DoneInv, [Next]_vars PROVE DoneInv'
  OBVIOUS
<1>0. TypeOK'
  BY StepType DEF DoneInv
<1>1. CASE AdminRequest
  BY <1>0, <1>1, AdminStep, EnvironmentKeeps DEF AdminRequest
<1>2. ASSUME NEW w \in Workers, WorkerStep(w)
      PROVE  DoneInv'
  BY <1>0, <1>2, AdminCommitStep, ClaimKeeps, ReportKeeps DEF WorkerStep
<1>3. ASSUME NEW n \in Nodes, AgentRequest(n) \/ CallHelper(n) \/ HelperStep(n) \/ NodeFault(n)
      PROVE  DoneInv'
  BY <1>0, <1>3, RequestKeeps, AgentKeeps, HelperKeeps, CrashKeeps DEF NodeFault
<1>. QED  BY <1>0, <1>1, <1>2, <1>3, FailKeeps, EnvironmentKeeps DEF Next

(* A validated restore is in place: no request that the agent has given up,*)
(* no second attempt, no crash of the helper has taken it away again.      *)
THEOREM ValidatedInPlace == Spec => []ValidatedMeansRestored
<1>1. DoneInv => ValidatedMeansRestored
  BY DEF DoneInv, JobsOk, Restored, ValidatedMeansRestored
<1>. QED  BY DoneInit, DoneStep, <1>1, PTL DEF Spec

-----------------------------------------------------------------------------
(* While invocations do not overlap *)

(* A restore's row agrees with its tenant's row, its tenant's provisioning *)
(* job and its lease.                                                      *)
RowOk(t) ==
  /\ Open(t) => tenants[t] = Tenant("provisioning", jobs[t].node, "restored")
  /\ State(t) = "validated" =>
       tenants[t] = Tenant("ready", jobs[t].node, "restored") /\ t \in identity
  /\ State(t) \in {"absent", "failed"} => tenants[t].db # "restored"
  /\ building[t] # None => State(t) \in {"absent", "failed"} /\ tenants[t].status = "provisioning"
  /\ tenants[t].db = "provisioned" => State(t) \in {"absent", "failed"}
  /\ InFlight(t) => Leased(t)

(* Whoever has the token of a standing lease has a restore in flight: the  *)
(* token was drawn for one claim, and is handed out with the dispatch.     *)
Holds(t, token) == token = leases[t].token /\ Leased(t) => InFlight(t)

Drawn ==
  /\ \A t \in Tenants : leases[t].token <= tokens
  /\ \A n \in Nodes : agents[n].token <= tokens

(* What an invocation has read is still so: nobody else has written since. *)
StillSo(l) ==
  /\ l.token <= tokens
  /\ l.pc = "create" => Eligible(l.job)
  /\ l.pc = "take" => tenants[l.job].status \in {"pending", "failed"} /\ building[l.job] = None
  /\ l.pc = "built" => building[l.job] # None
  /\ l.pc = "dispatch" => State(l.job) = "queued" /\ Leased(l.job)
  /\ l.pc # "withdraw"
  /\ l.pc \in ReportPCs => jobs[l.job].node = l.node /\ Holds(l.job, l.token)
  /\ l.pc \in {"running", "failed", "validated"} => InFlight(l.job)

TablesInv ==
  /\ DoneInv /\ LeaseOnOpenJob
  /\ Drawn
  /\ \A t \in Tenants : RowOk(t)
  /\ \A n \in Nodes : agents[n].phase # "idle" => Holds(agents[n].job, agents[n].token)
  /\ \A w \in Workers : StillSo(worker[w])

LEMMA IdleSo == TypeOK => StillSo(Idle)
BY RuntimeAssumption DEF Idle, Handler, StillSo, ReportPCs, TypeOK

LEMMA TablesInit == Init => TablesInv
<1>. SUFFICES ASSUME Init PROVE TablesInv
  OBVIOUS
<1>0. TypeOK
  BY InitType
<1>1. Drawn
  BY DEF Init, Drawn, NoLease, IdleAgent
<1>2. ASSUME NEW t \in Tenants
      PROVE  RowOk(t)
  <2>1. State(t) = "absent" /\ tenants[t].db = None /\ building[t] = None
    BY DEF Init, State, NoJob, Tenant
  <2>2. None # "restored" /\ None # "provisioned"
    BY <1>0, RestoreAssumption
  <2>. QED  BY <2>1, <2>2 DEF RowOk, Open, InFlight
<1>3. \A n \in Nodes : agents[n].phase = "idle"
  BY DEF Init, IdleAgent
<1>4. \A w \in Workers : StillSo(worker[w])
  BY <1>0, IdleSo DEF Init
<1>5. LeaseOnOpenJob
  BY DEF Init, LeaseOnOpenJob, Leased, NoLease
<1>. QED  BY <1>1, <1>2, <1>3, <1>4, <1>5, DoneInit DEF TablesInv

(* An agent goes on with what it has, or drops it. *)
AgentsGoOn ==
  \A n \in Nodes :
    /\ agents'[n].token \in {0, agents[n].token}
    /\ agents'[n].phase # "idle" =>
         agents[n].phase # "idle" /\ agents'[n].job = agents[n].job /\ agents'[n].token = agents[n].token

LEMMA AgentsStay ==
  ASSUME TypeOK
  PROVE  /\ UNCHANGED agents => AgentsGoOn
         /\ \A w \in Workers : \/ Accept(w) \/ Reject(w) \/ DeliverEach(w, AfterReject)
                               \/ Deliver(w, IdleAgent)
                               => AgentsGoOn
         /\ \A n \in Nodes, w \in Workers : agents' = [agents EXCEPT ![n].wait = w] => AgentsGoOn
         /\ \A n \in Nodes, r \in Results : Return(n, r) => AgentsGoOn
         /\ \A n \in Nodes : LoseReply(n) \/ Restart(n) => AgentsGoOn
<1>0. agents \in [Nodes -> Agent]
  BY DEF TypeOK
<1>1. ASSUME NEW a \in Agent
      PROVE  /\ AfterAccept(a) \in {IdleAgent, [a EXCEPT !.phase = "working", !.wait = None],
                                    [a EXCEPT !.wait = None]}
             /\ AfterReject(a) \in {IdleAgent, [a EXCEPT !.wait = None]}
  BY DEF AfterAccept, AfterReject
<1>2. ASSUME NEW a \in Agent
      PROVE  /\ AfterAccept(a).token \in {0, a.token} /\ AfterReject(a).token \in {0, a.token}
             /\ AfterAccept(a).phase # "idle" =>
                  a.phase # "idle" /\ AfterAccept(a).job = a.job /\ AfterAccept(a).token = a.token
             /\ AfterReject(a).phase # "idle" =>
                  a.phase # "idle" /\ AfterReject(a).job = a.job /\ AfterReject(a).token = a.token
  BY DEF AfterAccept, AfterReject, IdleAgent, Agent
<1>3. IdleAgent.phase = "idle" /\ IdleAgent.token = 0
  BY DEF IdleAgent
<1>4. UNCHANGED agents => AgentsGoOn
  BY DEF AgentsGoOn
<1>5. ASSUME NEW w \in Workers,
             Accept(w) \/ Reject(w) \/ DeliverEach(w, AfterReject) \/ Deliver(w, IdleAgent)
      PROVE  AgentsGoOn
  BY <1>0, <1>2, <1>3, <1>5 DEF Accept, Reject, DeliverEach, Deliver, AgentsGoOn
<1>6. ASSUME NEW n \in Nodes, NEW w \in Workers, agents' = [agents EXCEPT ![n].wait = w]
      PROVE  AgentsGoOn
  BY <1>0, <1>6 DEF Agent, AgentsGoOn
<1>7. ASSUME NEW n \in Nodes, NEW r \in Results, Return(n, r)
      PROVE  AgentsGoOn
  BY <1>0, <1>7 DEF Return, Agent, AgentsGoOn
<1>8. ASSUME NEW n \in Nodes, LoseReply(n) \/ Restart(n)
      PROVE  AgentsGoOn
  BY <1>0, <1>2, <1>3, <1>8 DEF LoseReply, Restart, AgentsGoOn
<1>. QED  BY <1>4, <1>5, <1>6, <1>7, <1>8

(* A step that leaves rows and tokens as they are. *)
TablesStay ==
  /\ UNCHANGED <<jobs, tenants, identity, building, tokens>>
  /\ \A t \in Tenants : leases'[t].token = leases[t].token

LEMMA StayStep ==
  ASSUME TablesInv, DoneInv', LeaseOnOpenJob', TablesStay, AgentsGoOn,
         \A v \in Workers : \E l \in Local : worker'[v] = l /\ StillSo(l)
  PROVE  TablesInv'
<1>0. TypeOK
  BY DEF TablesInv, DoneInv
<1>1. Drawn'
  <2>1. tokens \in Nat
    BY <1>0, RuntimeAssumption DEF TypeOK
  <2>. QED  BY <2>1 DEF TablesInv, Drawn, TablesStay, AgentsGoOn
<1>2. \A t \in Tenants : RowOk(t)'
  BY DEF TablesInv, RowOk, TablesStay, Open, InFlight, State, Leased
<1>3. ASSUME NEW n \in Nodes, agents'[n].phase # "idle"
      PROVE  Holds(agents[n].job, agents[n].token)'
  <2>1. agents[n].phase # "idle" /\ agents'[n].job = agents[n].job /\ agents'[n].token = agents[n].token
    BY <1>3 DEF AgentsGoOn
  <2>2. agents[n].job \in Tenants
    BY <1>0, <2>1 DEF TypeOK, Agent
  <2>. QED  BY <2>1, <2>2 DEF TablesInv, TablesStay, Holds, Leased, InFlight, State
<1>4. ASSUME NEW v \in Workers
      PROVE  StillSo(worker[v])'
  <2>1. PICK l \in Local : worker'[v] = l /\ StillSo(l)
    OBVIOUS
  <2>2. /\ l.pc \in {"dispatch"} \cup ReportPCs => l.job \in Tenants
        /\ l.pc \in {"running", "failed", "validated"} => l.job \in Tenants
    BY DEF Local, Assigned, ReportPCs
  <2>3. StillSo(l)'
    BY <2>1, <2>2 DEF TablesStay, StillSo, Holds, Leased, InFlight, State, Eligible
  <2>. QED  BY <2>1, <2>3 DEF StillSo
<1>. QED  BY <1>1, <1>2, <1>3, <1>4 DEF TablesInv

(* A commit of the one invocation in flight, about one restore. *)
LEMMA OneRestore ==
  ASSUME TablesInv, Serial, DoneInv', LeaseOnOpenJob',
         NEW w \in Workers, ~At(w, "idle"),
         NEW l, worker' = [worker EXCEPT ![w] = l], StillSo(l)',
         NEW t \in Tenants,
         \A u \in Tenants : u # t =>
           /\ jobs'[u] = jobs[u] /\ tenants'[u] = tenants[u] /\ building'[u] = building[u]
           /\ leases'[u] = leases[u]
           /\ u \in identity => u \in identity',
         tokens' \in {tokens, tokens + 1}, leases'[t].token \in 0..tokens',
         RowOk(t)',
         Leased(t)' => InFlight(t)' \/ leases'[t].token > tokens,
         \A n \in Nodes :
           \/ /\ agents'[n].token \in {0, agents[n].token}
              /\ agents'[n].phase # "idle" =>
                   agents[n].phase # "idle" /\ agents'[n].job = agents[n].job
                   /\ agents'[n].token = agents[n].token
           \/ agents'[n].token <= tokens /\ agents'[n].job = t /\ InFlight(t)'
  PROVE  TablesInv'
<1>0. TypeOK /\ tokens \in Nat
  BY RuntimeAssumption DEF TablesInv, DoneInv, TypeOK
<1>1. Drawn'
  <2>1. \A u \in Tenants : leases[u].token \in Nat
    BY <1>0, RuntimeAssumption DEF TypeOK, LeaseRow
  <2>2. \A n \in Nodes : agents[n].token \in Nat /\ agents[n].token <= tokens
    BY <1>0, RuntimeAssumption DEF TypeOK, Agent, TablesInv, Drawn
  <2>3. \A u \in Tenants : leases'[u].token <= tokens'
    <3>1. \A u \in Tenants : u # t => leases'[u].token <= tokens
      BY DEF TablesInv, Drawn
    <3>. QED  BY <1>0, <2>1, <3>1
  <2>4. \A n \in Nodes : agents'[n].token <= tokens
    BY <1>0, <2>2
  <2>5. TypeOK'
    BY DEF DoneInv
  <2>6. \A n \in Nodes : agents'[n].token \in Nat
    BY <2>5, RuntimeAssumption DEF TypeOK, Agent
  <2>. QED  BY <1>0, <2>3, <2>4, <2>6 DEF Drawn
<1>2. ASSUME NEW u \in Tenants
      PROVE  RowOk(u)'
  <2>1. CASE u = t
    BY <2>1
  <2>2. CASE u # t
    BY <2>2 DEF TablesInv, RowOk, Open, InFlight, State, Leased
  <2>. QED  BY <2>1, <2>2
<1>3. ASSUME NEW n \in Nodes, agents'[n].phase # "idle"
      PROVE  Holds(agents[n].job, agents[n].token)'
  <2>1. CASE agents'[n].token <= tokens /\ agents'[n].job = t /\ InFlight(t)'
    BY <2>1 DEF Holds, InFlight, State
  <2>2. CASE /\ agents[n].phase # "idle" /\ agents'[n].job = agents[n].job
             /\ agents'[n].token = agents[n].token
    <3>1. Holds(agents[n].job, agents[n].token) /\ agents[n].job \in Tenants
      BY <1>0, <2>2 DEF TablesInv, TypeOK, Agent
    <3>2. CASE agents[n].job = t
      <4>1. agents[n].token \in Nat /\ agents[n].token <= tokens
        BY <1>0, RuntimeAssumption DEF TablesInv, Drawn, TypeOK, Agent
      <4>. QED  BY <1>0, <2>2, <3>2, <4>1 DEF Holds, Leased, InFlight, State
    <3>3. CASE agents[n].job # t
      BY <2>2, <3>1, <3>3 DEF Holds, Leased, InFlight, State
    <3>. QED  BY <3>2, <3>3
  <2>. QED  BY <1>3, <2>1, <2>2
<1>4. ASSUME NEW v \in Workers
      PROVE  StillSo(worker[v])'
  <2>1. worker'[w] = l /\ \A i \in Workers : i # w => worker'[i] = worker[i] /\ worker[i].pc = "idle"
    BY <1>0 DEF TypeOK, Serial, At
  <2>2. CASE v = w
    BY <2>1, <2>2 DEF StillSo
  <2>3. CASE v # w
    <3>1. worker[v].token \in Nat /\ worker[v].token <= tokens
      BY <1>0, RuntimeAssumption DEF TablesInv, StillSo, TypeOK, Local
    <3>. QED  BY <1>0, <2>1, <2>3, <3>1 DEF StillSo, ReportPCs
  <2>. QED  BY <2>2, <2>3
<1>. QED  BY <1>1, <1>2, <1>3, <1>4 DEF TablesInv

LEMMA LocalFields ==
  ASSUME NEW pc, NEW n, NEW t, NEW k, NEW want
  PROVE  /\ Handler(pc, n, t, k, want).pc = pc
         /\ Handler(pc, n, t, k, want).node = n
         /\ Handler(pc, n, t, k, want).job = t
         /\ Handler(pc, n, t, k, want).token = k
BY DEF Handler

(* An invocation begins, with what it reads. *)
LEMMA BeginTables ==
  ASSUME TablesInv, DoneInv', LeaseOnOpenJob', TablesStay, AgentsGoOn,
         NEW w \in Workers, NEW l, Begin(w, l), StillSo(l)
  PROVE  TablesInv'
<1>0. TypeOK /\ TypeOK'
  BY DEF TablesInv, DoneInv
<1>1. worker'[w] = l /\ \A v \in Workers : v # w => worker'[v] = worker[v]
  BY <1>0 DEF Begin, TypeOK
<1>2. \A v \in Workers : worker'[v] \in Local /\ StillSo(worker[v])
  BY <1>0 DEF TablesInv, TypeOK
<1>3. ASSUME NEW v \in Workers
      PROVE  \E k \in Local : worker'[v] = k /\ StillSo(k)
  <2>1. CASE v = w
    BY <1>1, <1>2, <2>1
  <2>2. CASE v # w
    BY <1>1, <1>2, <2>2
  <2>. QED  BY <2>1, <2>2
<1>. QED  BY <1>3, StayStep

(* Requests of the admin begin with reads of the rows. *)
LEMMA AdminTables ==
  ASSUME TablesInv, DoneInv', LeaseOnOpenJob', AdminRequest
  PROVE  TablesInv'
<1>0. TypeOK /\ TypeOK' /\ 0 <= tokens
  BY RuntimeAssumption DEF TablesInv, DoneInv, TypeOK
<1>1. UNCHANGED <<jobs, tenants, identity, building, leases, tokens, agents>>
  BY DEF AdminRequest, CreateRead, TakeRead, BuildReport, RevokeNode, Revoke, tables, rows
<1>2. TablesStay /\ AgentsGoOn
  BY <1>0, <1>1, AgentsStay DEF TablesStay
<1>3. ASSUME NEW w \in Workers, NEW l, Begin(w, l), StillSo(l)
      PROVE  TablesInv'
  BY <1>2, <1>3, BeginTables
<1>4. ASSUME NEW w \in Workers, NEW t \in Tenants, NEW n \in Nodes, CreateRead(w, t, n)
      PROVE  TablesInv'
  <2>1. StillSo(Handler("create", n, t, 0, None))
    BY <1>0, <1>4, LocalFields DEF CreateRead, StillSo, ReportPCs
  <2>. QED  BY <1>3, <1>4, <2>1 DEF CreateRead
<1>5. ASSUME NEW w \in Workers, NEW t \in Tenants, NEW n \in Nodes, TakeRead(w, t, n)
      PROVE  TablesInv'
  <2>1. StillSo(Handler("take", n, t, 0, None))
    BY <1>0, <1>5, LocalFields DEF TakeRead, StillSo, ReportPCs
  <2>. QED  BY <1>3, <1>5, <2>1 DEF TakeRead
<1>6. ASSUME NEW w \in Workers, NEW t \in Tenants, NEW r \in {"ready", "failed"}, BuildReport(w, t, r)
      PROVE  TablesInv'
  <2>1. StillSo(Handler("built", building[t], t, 0, r))
    BY <1>0, <1>6, LocalFields DEF BuildReport, StillSo, ReportPCs
  <2>. QED  BY <1>3, <1>6, <2>1 DEF BuildReport
<1>7. ASSUME NEW n \in Nodes, RevokeNode(n)
      PROVE  TablesInv'
  <2>1. \A v \in Workers : worker'[v] = worker[v] /\ worker[v] \in Local /\ StillSo(worker[v])
    BY <1>0, <1>7 DEF RevokeNode, Revoke, TablesInv, TypeOK
  <2>. QED  BY <1>2, <2>1, StayStep
<1>. QED  BY <1>4, <1>5, <1>6, <1>7 DEF AdminRequest

(* A poll has read nothing yet; a report brings what the agent has. *)
LEMMA RequestTables ==
  ASSUME TablesInv, DoneInv', LeaseOnOpenJob', NEW n \in Nodes, AgentRequest(n)
  PROVE  TablesInv'
<1>0. TypeOK /\ TypeOK' /\ 0 <= tokens
  BY RuntimeAssumption DEF TablesInv, DoneInv, TypeOK
<1>1. PICK w \in Workers : Poll(w, n) \/ SendReport(w, n)
  BY DEF AgentRequest
<1>2. TablesStay /\ AgentsGoOn
  <2>1. agents' = [agents EXCEPT ![n].wait = w]
    BY <1>1 DEF Poll, Request, SendReport, Report
  <2>. QED  BY <1>0, <1>1, <2>1, AgentsStay
            DEF TablesStay, Poll, Request, SendReport, Report, rows
<1>3. ASSUME NEW l, Begin(w, l), StillSo(l)
      PROVE  TablesInv'
  BY <1>2, <1>3, BeginTables
<1>4. CASE Poll(w, n)
  <2>. DEFINE l == [Handler("expire", n, None, 0, None) EXCEPT !.work = Expired(n)]
  <2>1. l.pc = "expire" /\ l.token = 0
    BY DEF Handler
  <2>2. Begin(w, l)
    BY <1>4 DEF Poll, Request
  <2>. HIDE DEF l
  <2>3. StillSo(l)
    BY <1>0, <2>1 DEF StillSo, ReportPCs
  <2>. QED  BY <1>3, <2>2, <2>3
<1>5. CASE SendReport(w, n)
  <2>. DEFINE l == Handler("lease", n, agents[n].job, agents[n].token, Reported(agents[n]))
  <2>1. l.pc = "lease" /\ l.node = n /\ l.job = agents[n].job /\ l.token = agents[n].token
    BY LocalFields
  <2>2. Begin(w, l) /\ agents[n].phase # "idle"
    BY <1>5 DEF SendReport, Report
  <2>. HIDE DEF l
  <2>3. /\ jobs[l.job].node = l.node /\ Holds(agents[n].job, agents[n].token)
        /\ agents[n].token <= tokens
    BY <2>1, <2>2 DEF TablesInv, DoneInv, AgentsOk, Drawn
  <2>4. StillSo(l)
    BY <2>1, <2>3 DEF StillSo, Holds
  <2>. QED  BY <1>3, <2>2, <2>4
<1>. QED  BY <1>1, <1>4, <1>5

(* Agents, helpers, lapses and aborted invocations do not write the rows. *)
LEMMA OtherTables ==
  ASSUME TablesInv, DoneInv', LeaseOnOpenJob',
         \/ \E n \in Nodes : CallHelper(n) \/ HelperStep(n) \/ NodeFault(n)
         \/ \E t \in Tenants : LeaseLapses(t)
         \/ \E w \in Workers : WorkerFails(w)
         \/ UNCHANGED vars
  PROVE  TablesInv'
<1>0. TypeOK /\ TypeOK'
  BY DEF TablesInv, DoneInv
<1>1. ASSUME UNCHANGED worker, TablesStay, AgentsGoOn
      PROVE  TablesInv'
  <2>1. \A v \in Workers : worker'[v] = worker[v] /\ worker[v] \in Local /\ StillSo(worker[v])
    BY <1>0, <1>1 DEF TablesInv, TypeOK
  <2>. QED  BY <1>1, <2>1, StayStep
<1>2. ASSUME NEW n \in Nodes, CallHelper(n) \/ NodeFault(n)
      PROVE  TablesInv'
  <2>1. UNCHANGED <<tables, worker>> /\ TablesStay
    BY <1>2 DEF CallHelper, NodeFault, ReplyLost, LoseReply, AgentRestarts, Restart, DownloadFails,
                HelperTimesOut, HelperCrashes, Return, tables, rows, TablesStay
  <2>2. \/ UNCHANGED agents
        \/ \E r \in Results : Return(n, r)
        \/ LoseReply(n) \/ Restart(n)
    BY <1>2 DEF CallHelper, NodeFault, ReplyLost, AgentRestarts, DownloadFails,
                HelperTimesOut, HelperCrashes, Results
  <2>. QED  BY <1>0, <1>1, <2>1, <2>2, AgentsStay
<1>3. ASSUME NEW n \in Nodes, HelperStep(n)
      PROVE  TablesInv'
  <2>1. UNCHANGED <<tables, worker>> /\ TablesStay
    BY <1>3 DEF HelperStep, ServeCall, AnswerReplay, AnswerConflict, ExtractFiles, LoadDatabase,
                WriteMarker, PublishFiles, StageFails, Answer, Reach, Return, tables, rows, TablesStay
  <2>2. UNCHANGED agents \/ \E r \in Results : Return(n, r)
    BY <1>3 DEF HelperStep, ServeCall, AnswerReplay, AnswerConflict, ExtractFiles, LoadDatabase,
                WriteMarker, PublishFiles, StageFails, Answer, Reach, Results
  <2>. QED  BY <1>0, <1>1, <2>1, <2>2, AgentsStay
<1>4. ASSUME NEW t \in Tenants, LeaseLapses(t)
      PROVE  TablesInv'
  <2>1. TablesStay /\ UNCHANGED <<worker, agents>>
    BY <1>0, <1>4 DEF LeaseLapses, Lapse, rows, TablesStay, TypeOK, LeaseRow
  <2>. QED  BY <1>0, <1>1, <2>1, AgentsStay
<1>5. ASSUME NEW w \in Workers, WorkerFails(w)
      PROVE  TablesInv'
  <2>1. TablesStay /\ AgentsGoOn
    BY <1>0, <1>5, AgentsStay DEF WorkerFails, Abort, rows, TablesStay
  <2>2. ASSUME NEW v \in Workers
        PROVE  \E l \in Local : worker'[v] = l /\ StillSo(l)
    <3>1. worker'[w] = Idle /\ (v # w => worker'[v] = worker[v])
      BY <1>0, <1>5 DEF WorkerFails, Abort, Finish, TypeOK
    <3>2. worker[v] \in Local /\ StillSo(worker[v]) /\ StillSo(Idle) /\ Idle \in Local
      BY <1>0, IdleSo, IdleTypes DEF TablesInv, TypeOK
    <3>. QED  BY <3>1, <3>2
  <2>. QED  BY <2>1, <2>2, StayStep
<1>6. CASE UNCHANGED vars
  BY <1>0, <1>1, <1>6, AgentsStay DEF vars, TablesStay
<1>. QED  BY <1>2, <1>3, <1>4, <1>5, <1>6

(* A commit of an admin's request, or of a provisioning job's report. *)
LEMMA AdminCommitTables ==
  ASSUME TablesInv, Serial, DoneInv', LeaseOnOpenJob',
         NEW w \in Workers, CreateCommit(w) \/ TakeCommit(w) \/ BuildCommit(w)
  PROVE  TablesInv'
<1>a. PICK t \in Tenants, n \in Nodes : t = worker[w].job /\ n = worker[w].node
  BY DEF TablesInv, DoneInv, TypeOK, CreateCommit, TakeCommit, BuildCommit, At, Local, Assigned
<1>0. /\ TypeOK /\ t \in Tenants /\ n \in Nodes /\ n # None
      /\ t = worker[w].job /\ n = worker[w].node
      /\ jobs[t] \in JobRow /\ tenants[t] \in TenantRow
      /\ tokens \in Nat /\ leases[t].token \in 0..tokens
      /\ "restored" # None /\ "provisioned" # None
  <2>1. TypeOK
    BY DEF TablesInv, DoneInv
  <2>2. leases[t] \in LeaseRow /\ tokens \in Nat
    BY <1>a, <2>1, RuntimeAssumption DEF TypeOK
  <2>3. leases[t].token \in 0..tokens
    BY <1>a, <2>2, RuntimeAssumption DEF LeaseRow, TablesInv, Drawn
  <2>. QED  BY <1>a, <2>1, <2>2, <2>3, RuntimeAssumption, RestoreAssumption DEF TypeOK
<1>1. RowOk(t) /\ StillSo(worker[w]) /\ (Leased(t) => Open(t))
  BY <1>0 DEF TablesInv, LeaseOnOpenJob, Open
<1>2. /\ ~At(w, "idle") /\ worker' = [worker EXCEPT ![w] = Idle]
      /\ UNCHANGED <<identity, leases, tokens, agents>>
  BY DEF CreateCommit, TakeCommit, BuildCommit, At, Finish
<1>3. StillSo(Idle)'
  BY <1>0, RuntimeAssumption, <1>2 DEF StillSo, Idle, Handler, ReportPCs
<1>4. \A u \in Tenants : u # t =>
        jobs'[u] = jobs[u] /\ tenants'[u] = tenants[u] /\ building'[u] = building[u]
  BY <1>0 DEF CreateCommit, TakeCommit, BuildCommit, TypeOK
<1>5. ASSUME RowOk(t)', ~Leased(t)'
      PROVE  TablesInv'
  <2>1. tokens' \in {tokens, tokens + 1} /\ leases'[t].token \in 0..tokens'
    BY <1>0, <1>2
  <2>2. \A m \in Nodes :
          /\ agents'[m].token \in {0, agents[m].token}
          /\ agents'[m].phase # "idle" =>
               agents[m].phase # "idle" /\ agents'[m].job = agents[m].job
               /\ agents'[m].token = agents[m].token
    BY <1>2
  <2>. QED  BY <1>2, <1>3, <1>4, <1>5, <2>1, <2>2, OneRestore
<1>6. CASE CreateCommit(w)
  <2>1. Eligible(t)
    BY <1>0, <1>1, <1>6 DEF StillSo, CreateCommit, At
  <2>2. /\ tenants[t].status = "pending" /\ building[t] = None
        /\ State(t) \in {"absent", "failed"}
    BY <1>0, <1>1, <2>1 DEF Eligible, Tenant, RowOk, Open, State, JobRow
  <2>3. CASE State(t) = "absent"
    <3>1. /\ jobs'[t] = [state |-> "queued", node |-> n, attempt |-> 0]
          /\ tenants'[t] = Tenant("provisioning", n, "restored")
          /\ building'[t] = None
      BY <1>0, <1>6, <2>1, <2>2, <2>3 DEF CreateCommit, TakenUp, TypeOK
    <3>2. RowOk(t)' /\ ~Leased(t)'
      BY <1>0, <1>1, <1>2, <2>3, <3>1 DEF RowOk, Open, State, InFlight, Tenant, Leased
    <3>. QED  BY <1>5, <3>2
  <2>4. CASE State(t) # "absent"
    <3>1. UNCHANGED <<jobs, tenants, building>>
      BY <1>0, <1>6, <2>4 DEF CreateCommit
    <3>2. RowOk(t)' /\ ~Leased(t)'
      BY <1>1, <1>2, <2>2, <3>1 DEF RowOk, Open, State, InFlight, Leased
    <3>. QED  BY <1>5, <3>2
  <2>. QED  BY <2>3, <2>4
<1>7. CASE TakeCommit(w) \/ BuildCommit(w)
  <2>1. State(t) \in {"absent", "failed"}
    <3>1. CASE TakeCommit(w)
      <4>1. tenants[t].status \in {"pending", "failed"}
        BY <1>0, <1>1, <3>1 DEF StillSo, TakeCommit, At
      <4>. QED  BY <1>0, <1>1, <4>1 DEF RowOk, Tenant, Open, State, JobRow
    <3>2. CASE BuildCommit(w)
      BY <1>0, <1>1, <3>2 DEF StillSo, BuildCommit, At, RowOk
    <3>. QED  BY <1>7, <3>1, <3>2
  <2>2. ~Leased(t)' /\ State(t)' = State(t)
    BY <1>1, <1>2, <1>7, <2>1 DEF TakeCommit, BuildCommit, Leased, State, Open
  <2>3. CASE TakeCommit(w)
    <3>1. building'[t] = n /\ tenants'[t].status = "provisioning" /\ tenants'[t].db = tenants[t].db
      BY <1>0, <2>3 DEF TakeCommit, TypeOK, TenantRow
    <3>2. RowOk(t)'
      BY <1>1, <2>1, <2>2, <3>1 DEF RowOk, Open, InFlight, State
    <3>. QED  BY <1>5, <2>2, <3>2
  <2>4. CASE BuildCommit(w)
    <3>1. building'[t] = None /\ tenants'[t].db \in {"provisioned", tenants[t].db}
      BY <1>0, <2>4 DEF BuildCommit, Built, TypeOK, TenantRow
    <3>2. RowOk(t)'
      BY <1>1, <2>1, <2>2, <3>1 DEF RowOk, Open, InFlight, State
    <3>. QED  BY <1>5, <2>2, <3>2
  <2>. QED  BY <1>7, <2>3, <2>4
<1>. QED  BY <1>6, <1>7

(* What OneRestore asks of a step by its shape. *)
LEMMA CommitFacts ==
  ASSUME TablesInv, NEW w \in Workers, ClaimStep(w) \/ ReportStep(w)
  PROVE  /\ TypeOK /\ TypeOK' /\ tokens \in Nat /\ ~At(w, "idle")
         /\ worker[w] \in Local /\ StillSo(worker[w])
         /\ \A t \in Tenants :
              /\ jobs[t] \in JobRow /\ leases[t] \in LeaseRow /\ leases[t].token \in 0..tokens
              /\ RowOk(t) /\ (Leased(t) => Open(t))
         /\ UNCHANGED <<building, nodes>>
<1>1. TypeOK /\ TypeOK' /\ worker[w] \in Local /\ StillSo(worker[w])
  <2>1. TypeOK /\ TypeOK'
    BY StepType DEF TablesInv, DoneInv, Next, WorkerStep
  <2>. QED  BY <2>1 DEF TablesInv, TypeOK
<1>2. tokens \in Nat
  BY <1>1, RuntimeAssumption DEF TypeOK
<1>3. ASSUME NEW t \in Tenants
      PROVE  /\ jobs[t] \in JobRow /\ leases[t] \in LeaseRow /\ leases[t].token \in 0..tokens
             /\ RowOk(t) /\ (Leased(t) => Open(t))
  <2>1. jobs[t] \in JobRow /\ leases[t] \in LeaseRow
    BY <1>1 DEF TypeOK
  <2>2. leases[t].token \in 0..tokens
    BY <1>2, <2>1, RuntimeAssumption DEF LeaseRow, TablesInv, Drawn
  <2>. QED  BY <2>1, <2>2 DEF TablesInv, LeaseOnOpenJob, Open
<1>4. ~At(w, "idle") /\ UNCHANGED <<building, nodes>>
  BY DEF ClaimStep, ExpireLease, TakeLease, Lease, TakeNothing, Dispatch, LoseClaim, Withdraw,
     ReportStep, CheckLease, Replay, CommitRunning, CommitFailed, CommitValidated, At, tables
<1>. QED  BY <1>1, <1>2, <1>3, <1>4

(* A step of the one invocation in flight that writes no row. *)
LEMMA WorkerStays ==
  ASSUME TablesInv, DoneInv', LeaseOnOpenJob', TablesStay, AgentsGoOn,
         NEW w \in Workers, NEW l, worker' = [worker EXCEPT ![w] = l], StillSo(l)
  PROVE  TablesInv'
<1>1. TypeOK /\ TypeOK'
  BY DEF TablesInv, DoneInv
<1>2. ASSUME NEW v \in Workers
      PROVE  \E k \in Local : worker'[v] = k /\ StillSo(k)
  <2>1. worker'[v] \in Local /\ (v = w => worker'[v] = l) /\ (v # w => worker'[v] = worker[v])
    BY <1>1 DEF TypeOK
  <2>. QED  BY <2>1 DEF TablesInv
<1>. QED  BY <1>2, StayStep

LEMMA ClaimTables ==
  ASSUME TablesInv, Serial, DoneInv', LeaseOnOpenJob', NEW w \in Workers, ClaimStep(w)
  PROVE  TablesInv'
<1>0. /\ TypeOK /\ TypeOK' /\ tokens \in Nat /\ ~At(w, "idle")
      /\ worker[w] \in Local /\ StillSo(worker[w])
      /\ \A t \in Tenants :
           /\ jobs[t] \in JobRow /\ leases[t] \in LeaseRow /\ leases[t].token \in 0..tokens
           /\ RowOk(t) /\ (Leased(t) => Open(t))
      /\ UNCHANGED <<building, nodes>>
  BY CommitFacts
<1>1. ASSUME NEW t \in Tenants, ExpireLease(w, t)
      PROVE  TablesInv'
  <2>1. PICK l : /\ worker' = [worker EXCEPT ![w] = l]
                 /\ l.pc = "expire" /\ l.token = worker[w].token
    <3>. DEFINE k == [worker[w] EXCEPT !.work = @ \ {t}]
    <3>1. k.pc = "expire" /\ k.token = worker[w].token
      BY <1>0, <1>1 DEF ExpireLease, At, Local
    <3>2. worker' = [worker EXCEPT ![w] = k]
      BY <1>1 DEF ExpireLease
    <3>. QED  BY <3>1, <3>2
  <2>2. /\ jobs'[t] = Requeued(jobs[t]) /\ leases'[t] = NoLease
        /\ UNCHANGED <<tenants, identity, building, tokens, agents>>
        /\ \A u \in Tenants : u # t => jobs'[u] = jobs[u] /\ leases'[u] = leases[u]
    BY <1>0, <1>1 DEF ExpireLease, TypeOK
  <2>3. /\ jobs'[t].node = jobs[t].node
        /\ InFlight(t) => State(t)' = "queued"
        /\ ~InFlight(t) => State(t)' = State(t)
    BY <1>0, <2>2 DEF Requeued, JobRow, InFlight, State
  <2>4. RowOk(t)' /\ ~Leased(t)'
    BY <1>0, <2>2, <2>3 DEF RowOk, Open, InFlight, State, Leased, NoLease
  <2>5. StillSo(l)'
    BY <1>0, <2>1, <2>2 DEF StillSo, ReportPCs
  <2>6. /\ tokens' \in {tokens, tokens + 1} /\ leases'[t].token \in 0..tokens'
        /\ \A m \in Nodes :
             /\ agents'[m].token \in {0, agents[m].token}
             /\ agents'[m].phase # "idle" =>
                  agents[m].phase # "idle" /\ agents'[m].job = agents[m].job
                  /\ agents'[m].token = agents[m].token
    BY <1>0, <2>2 DEF NoLease
  <2>. QED  BY <1>0, <2>1, <2>2, <2>4, <2>5, <2>6, OneRestore
<1>2. ASSUME NEW t \in Tenants, TakeLease(w, t)
      PROVE  TablesInv'
  <2>1. PICK l : /\ worker' = [worker EXCEPT ![w] = l]
                 /\ l.pc = "dispatch" /\ l.job = t /\ l.token = tokens + 1
    <3>. DEFINE k == [worker[w] EXCEPT !.pc = "dispatch", !.job = t, !.token = tokens + 1]
    <3>1. k.pc = "dispatch" /\ k.job = t /\ k.token = tokens + 1
      BY <1>0 DEF Local
    <3>2. worker' = [worker EXCEPT ![w] = k]
      BY <1>2 DEF TakeLease, Lease
    <3>. QED  BY <3>1, <3>2
  <2>2. /\ leases'[t].token = tokens + 1 /\ tokens' = tokens + 1
        /\ UNCHANGED <<jobs, tenants, identity, building, agents>>
        /\ \A u \in Tenants : u # t => leases'[u] = leases[u]
        /\ State(t) = "queued"
    BY <1>0, <1>2 DEF TakeLease, Lease, NewLease, Unleased, rows, TypeOK
  <2>3. RowOk(t)' /\ leases'[t].token > tokens /\ leases'[t].token # 0
    BY <1>0, <2>2 DEF RowOk, Open, InFlight, State
  <2>4. StillSo(l)'
    BY <1>0, <2>1, <2>2, <2>3 DEF StillSo, ReportPCs, State, Leased
  <2>5. /\ tokens' \in {tokens, tokens + 1} /\ leases'[t].token \in 0..tokens'
        /\ \A m \in Nodes :
             /\ agents'[m].token \in {0, agents[m].token}
             /\ agents'[m].phase # "idle" =>
                  agents[m].phase # "idle" /\ agents'[m].job = agents[m].job
                  /\ agents'[m].token = agents[m].token
    BY <1>0, <2>2
  <2>. QED  BY <1>0, <2>1, <2>2, <2>3, <2>4, <2>5, OneRestore
<1>3. CASE TakeNothing(w)
  <2>1. TablesStay /\ AgentsGoOn /\ worker' = [worker EXCEPT ![w] = Idle]
    BY <1>0, <1>3, AgentsStay DEF TakeNothing, Finish, tables, rows, TablesStay
  <2>. QED  BY <1>0, <2>1, IdleSo, WorkerStays
<1>4. CASE Dispatch(w)
  <2>a. PICK t \in Tenants, k \in 0..MaxTokens : t = worker[w].job /\ k = worker[w].token
    BY <1>0, <1>4 DEF Dispatch, At, Local, Assigned
  <2>0. /\ State(t) = "queued" /\ Leased(t) /\ worker' = [worker EXCEPT ![w] = Idle]
        /\ k <= tokens /\ UNCHANGED <<tenants, identity, building, leases, tokens>>
    BY <1>0, <1>4, <2>a DEF Dispatch, At, Finish, StillSo
  <2>1. CASE jobs[t].attempt = MaxAttempt
    <3>1. TablesStay /\ AgentsGoOn
      BY <1>0, <1>4, <2>a, <2>0, <2>1, AgentsStay DEF Dispatch, TablesStay
    <3>. QED  BY <1>0, <2>0, <3>1, IdleSo, WorkerStays
  <2>2. CASE jobs[t].attempt # MaxAttempt
    <3>1. Deliver(w, Claimant(t, k)) /\ jobs' = [jobs EXCEPT ![t] = Dispatched(jobs[t])]
      BY <1>4, <2>a, <2>2 DEF Dispatch, TypeOK
    <3>2. /\ State(t)' = "dispatched" /\ jobs'[t].node = jobs[t].node
          /\ \A u \in Tenants : u # t => jobs'[u] = jobs[u]
      BY <1>0, <3>1 DEF Dispatched, JobRow, State, TypeOK
    <3>3. RowOk(t)' /\ InFlight(t)'
      BY <1>0, <2>0, <3>2 DEF RowOk, Open, InFlight, State, Leased
    <3>4. StillSo(Idle)'
      BY <1>0, RuntimeAssumption DEF StillSo, Idle, Handler, ReportPCs, TypeOK
    <3>5. \A m \in Nodes :
            \/ /\ agents'[m].token \in {0, agents[m].token}
               /\ agents'[m].phase # "idle" =>
                    agents[m].phase # "idle" /\ agents'[m].job = agents[m].job
                    /\ agents'[m].token = agents[m].token
            \/ agents'[m].token <= tokens /\ agents'[m].job = t /\ InFlight(t)'
      BY <2>0, <3>1, <3>3 DEF Deliver, Claimant
    <3>6. tokens' \in {tokens, tokens + 1} /\ leases'[t].token \in 0..tokens'
      BY <1>0, <2>0
    <3>. QED  BY <1>0, <2>0, <3>2, <3>3, <3>4, <3>5, <3>6, OneRestore
  <2>. QED  BY <2>1, <2>2
<1>5. ~LoseClaim(w) /\ ~Withdraw(w)
  BY <1>0 DEF LoseClaim, Withdraw, At, StillSo
<1>. QED  BY <1>1, <1>2, <1>3, <1>4, <1>5 DEF ClaimStep

(* A lease that stands has a token. *)
LiveHasToken == \A t \in Tenants : leases[t].live => Leased(t)

LEMMA LiveStep == TypeOK /\ LiveHasToken /\ [Next]_vars => LiveHasToken'
<1>. SUFFICES ASSUME TypeOK, LiveHasToken, [Next]_vars PROVE LiveHasToken'
  OBVIOUS
<1>1. CASE UNCHANGED leases
  BY <1>1 DEF LiveHasToken, Leased
<1>2. ASSUME NEW t, NEW l, leases' = [leases EXCEPT ![t] = l], l.live => l.token # 0
      PROVE  LiveHasToken'
  BY <1>2 DEF LiveHasToken, Leased, TypeOK
<1>3. ASSUME NEW w \in Workers, WorkerStep(w), ~UNCHANGED leases
      PROVE  LiveHasToken'
  <2>1. ASSUME NEW t \in Tenants, TakeLease(w, t)
        PROVE  LiveHasToken'
    <3>1. leases' = [leases EXCEPT ![t] = NewLease(tokens + 1)]
      BY <2>1 DEF TakeLease, Lease
    <3>2. NewLease(tokens + 1).token # 0
      BY RuntimeAssumption DEF NewLease, TypeOK
    <3>. QED  BY <1>2, <3>1, <3>2
  <2>2. CASE CommitRunning(w)
    <3>1. worker[w] \in Local
      BY DEF TypeOK
    <3>2. PICK t \in Tenants : t = worker[w].job
      BY <2>2, <3>1 DEF CommitRunning, At, Local, Assigned, ReportPCs
    <3>3. leases[t] \in LeaseRow /\ leases' = [leases EXCEPT ![t] = Renewed(leases[t])]
      BY <2>2, <3>2 DEF CommitRunning, TypeOK
    <3>4. Renewed(leases[t]).live => Renewed(leases[t]).token # 0
      BY <3>3 DEF Renewed, LeaseRow, LiveHasToken, Leased
    <3>. QED  BY <1>2, <3>3, <3>4
  <2>3. ASSUME NEW t \in Tenants, ExpireLease(w, t)
        PROVE  LiveHasToken'
    BY <1>2, <2>3 DEF ExpireLease, NoLease
  <2>4. CASE Withdraw(w) \/ CommitFailed(w) \/ CommitValidated(w)
    <3>1. PICK t : leases' = [leases EXCEPT ![t] = NoLease]
      BY <2>4 DEF Withdraw, CommitFailed, CommitValidated, LeaseAfterFailure
    <3>. QED  BY <1>2, <3>1 DEF NoLease
  <2>. QED  BY <1>3, <2>1, <2>2, <2>3, <2>4
            DEF WorkerStep, ClaimStep, ReportStep, CreateCommit, TakeCommit, BuildCommit, TakeNothing,
                Dispatch, LoseClaim, CheckLease, Replay, tables
<1>4. ASSUME NEW t \in Tenants, LeaseLapses(t)
      PROVE  LiveHasToken'
  BY <1>4 DEF LeaseLapses, Lapse, LiveHasToken, Leased, TypeOK, LeaseRow
<1>5. CASE AdminRequest \/ UNCHANGED vars
  BY <1>1, <1>5 DEF AdminRequest, CreateRead, TakeRead, BuildReport, RevokeNode, Revoke, tables, vars
<1>6. ASSUME NEW w \in Workers, WorkerFails(w)
      PROVE  LiveHasToken'
  BY <1>1, <1>6 DEF WorkerFails, Abort
<1>7. ASSUME NEW n \in Nodes, AgentRequest(n) \/ CallHelper(n) \/ NodeFault(n)
      PROVE  LiveHasToken'
  BY <1>1, <1>7 DEF AgentRequest, Poll, Request, SendReport, Report, CallHelper, NodeFault, ReplyLost,
     LoseReply, AgentRestarts, Restart, DownloadFails, HelperTimesOut, HelperCrashes, Return, tables
<1>8. ASSUME NEW n \in Nodes, HelperStep(n)
      PROVE  LiveHasToken'
  BY <1>1, <1>8 DEF HelperStep, ServeCall, AnswerReplay, AnswerConflict, ExtractFiles, LoadDatabase,
     WriteMarker, PublishFiles, StageFails, Answer, Reach, Return, tables
<1>. QED  BY <1>1, <1>3, <1>4, <1>5, <1>6, <1>7, <1>8 DEF Next

LEMMA ReportTables ==
  ASSUME TablesInv, Serial, LiveHasToken, DoneInv', LeaseOnOpenJob', NEW w \in Workers, ReportStep(w)
  PROVE  TablesInv'
<1>a. PICK t \in Tenants, n \in Nodes, k \in 0..MaxTokens :
        t = worker[w].job /\ n = worker[w].node /\ k = worker[w].token
  BY DEF TablesInv, DoneInv, TypeOK, ReportStep, CheckLease, Replay, CommitRunning, CommitFailed,
         CommitValidated, At, Local, Assigned, ReportPCs
<1>0. /\ TypeOK /\ TypeOK' /\ tokens \in Nat /\ ~At(w, "idle")
      /\ worker[w] \in Local /\ StillSo(worker[w])
      /\ jobs[t] \in JobRow /\ leases[t] \in LeaseRow /\ leases[t].token \in 0..tokens
      /\ RowOk(t) /\ (Leased(t) => Open(t))
      /\ UNCHANGED <<building, nodes>>
      /\ t = worker[w].job /\ n = worker[w].node /\ k = worker[w].token
  BY <1>a, CommitFacts
<1>1. worker[w].pc \in ReportPCs /\ jobs[t].node = n /\ Holds(t, k) /\ k <= tokens
  <2>1. worker[w].pc \in ReportPCs
    BY DEF ReportStep, CheckLease, Replay, CommitRunning, CommitFailed, CommitValidated, At, ReportPCs
  <2>. QED  BY <1>0, <2>1 DEF StillSo
<1>2. ASSUME TablesStay, Accept(w) \/ Reject(w)
      PROVE  TablesInv'
  <2>1. worker' = [worker EXCEPT ![w] = Idle] /\ AgentsGoOn
    BY <1>0, <1>2, AgentsStay DEF Accept, Reject, Finish
  <2>. QED  BY <1>0, <1>2, <2>1, IdleSo, WorkerStays
<1>3. ASSUME TablesStay, UNCHANGED agents, NEW pc \in {"replay", "running", "failed", "validated"},
             Goto(w, pc), pc # "replay" => InFlight(t)
      PROVE  TablesInv'
  <2>1. PICK l : /\ worker' = [worker EXCEPT ![w] = l]
                 /\ l.pc = pc /\ l.node = n /\ l.job = t /\ l.token = k
    <3>. DEFINE d == [worker[w] EXCEPT !.pc = pc]
    <3>1. d.pc = pc /\ d.node = n /\ d.job = t /\ d.token = k
      BY <1>0 DEF Local
    <3>2. worker' = [worker EXCEPT ![w] = d]
      BY <1>3 DEF Goto
    <3>. QED  BY <3>1, <3>2
  <2>2. StillSo(l)
    BY <1>1, <1>3, <2>1 DEF StillSo
  <2>. QED  BY <1>0, <1>3, <2>1, <2>2, AgentsStay, WorkerStays
<1>4. CASE CheckLease(w)
  <2>1. TablesStay
    BY <1>4 DEF CheckLease, tables, rows, TablesStay
  <2>2. CASE Reject(w)
    BY <1>2, <2>1, <2>2
  <2>3. CASE Goto(w, "replay") /\ UNCHANGED agents
    BY <1>3, <2>1, <2>3
  <2>4. CASE /\ leases[t].token = k /\ leases[t].live
             /\ Goto(w, worker[w].want) /\ UNCHANGED agents
    <3>1. InFlight(t)
      <4>1. Leased(t)
        BY <2>4 DEF LiveHasToken
      <4>. QED  BY <1>1, <2>4, <4>1 DEF Holds
    <3>2. worker[w].want \in {"running", "failed", "validated"}
      BY <1>0, <1>1 DEF Local, Assigned, Results
    <3>. QED  BY <1>3, <2>1, <2>4, <3>1, <3>2
  <2>. QED  BY <1>0, <1>4, <2>2, <2>3, <2>4 DEF CheckLease
<1>5. CASE Replay(w)
  BY <1>2, <1>5 DEF Replay, tables, rows, TablesStay
<1>6. CASE CommitRunning(w) \/ CommitFailed(w) \/ CommitValidated(w)
  <2>1. InFlight(t)
    BY <1>0, <1>6 DEF CommitRunning, CommitFailed, CommitValidated, At, StillSo
  <2>2. /\ Accept(w) /\ tokens' = tokens
        /\ \A u \in Tenants : u # t =>
             /\ jobs'[u] = jobs[u] /\ tenants'[u] = tenants[u] /\ leases'[u] = leases[u]
             /\ u \in identity => u \in identity'
    BY <1>0, <1>6 DEF CommitRunning, CommitFailed, CommitValidated, Materialized, TypeOK
  <2>3. worker' = [worker EXCEPT ![w] = Idle] /\ StillSo(Idle)' /\ AgentsGoOn
    <3>1. StillSo(Idle)'
      BY <1>0, RuntimeAssumption DEF StillSo, Idle, Handler, ReportPCs, TypeOK
    <3>. QED  BY <1>0, <2>2, <3>1, AgentsStay DEF Accept, Finish
  <2>4. ASSUME NEW s \in {"running", "failed", "validated"}, jobs' = [jobs EXCEPT ![t] = Ended(jobs[t], s)]
        PROVE  State(t)' = s /\ jobs'[t].node = jobs[t].node
    BY <1>0, <2>1, <2>4 DEF Ended, InFlight, State, JobRow, TypeOK
  <2>5. RowOk(t)' /\ leases'[t].token \in 0..tokens' /\ (Leased(t)' => InFlight(t)')
    <3>1. CASE CommitRunning(w)
      <4>1. State(t)' = "running" /\ jobs'[t].node = jobs[t].node
        BY <1>0, <2>4, <3>1 DEF CommitRunning
      <4>2. leases'[t].token = leases[t].token /\ UNCHANGED <<tenants, identity>>
        <5>1. leases'[t] = Renewed(leases[t]) /\ UNCHANGED <<tenants, identity>>
          BY <1>0, <3>1 DEF CommitRunning, TypeOK
        <5>2. Renewed(leases[t]).token = leases[t].token
          BY <1>0 DEF Renewed, LeaseRow
        <5>. QED  BY <5>1, <5>2
      <4>. QED  BY <1>0, <2>1, <2>2, <4>1, <4>2 DEF RowOk, Open, InFlight, State, Leased
    <3>2. CASE CommitFailed(w)
      <4>1. State(t)' = "failed"
        BY <1>0, <2>4, <3>2 DEF CommitFailed
      <4>2. leases'[t] = NoLease /\ tenants'[t] = Tenant("failed", None, None)
        BY <1>0, <3>2 DEF CommitFailed, LeaseAfterFailure, AfterFailure, TypeOK
      <4>3. building[t] = None
        BY <1>0, <2>1 DEF RowOk, InFlight
      <4>4. tenants'[t].db \notin {"restored", "provisioned"}
        BY <4>2, RestoreAssumption DEF Tenant
      <4>5. /\ ~Open(t)' /\ ~InFlight(t)' /\ State(t)' \in {"absent", "failed"}
            /\ ~(State(t)' = "validated")
        BY <4>1 DEF Open, InFlight, State
      <4>6. RowOk(t)'
        BY <1>0, <4>3, <4>4, <4>5 DEF RowOk
      <4>7. leases'[t].token = 0
        BY <4>2 DEF NoLease
      <4>. QED  BY <1>0, <2>2, <4>6, <4>7 DEF Leased
    <3>3. CASE CommitValidated(w)
      <4>1. State(t)' = "validated" /\ jobs'[t].node = jobs[t].node
        BY <1>0, <2>4, <3>3 DEF CommitValidated
      <4>2. /\ leases'[t] = NoLease /\ tenants'[t] = Tenant("ready", n, "restored")
            /\ t \in identity'
        BY <1>0, <2>1, <3>3 DEF CommitValidated, Materialized, TypeOK
      <4>3. building[t] = None
        BY <1>0, <2>1 DEF RowOk, InFlight
      <4>4. ~Open(t)' /\ ~InFlight(t)' /\ ~(State(t)' \in {"absent", "failed"})
        BY <4>1 DEF Open, InFlight, State
      <4>5. tenants'[t].db = "restored"
        BY <4>2 DEF Tenant
      <4>6. tenants'[t] = Tenant("ready", jobs'[t].node, "restored")
        BY <1>1, <4>1, <4>2
      <4>7. RowOk(t)'
        BY <1>0, <4>1, <4>2, <4>3, <4>4, <4>5, <4>6 DEF RowOk
      <4>8. leases'[t].token = 0
        BY <4>2 DEF NoLease
      <4>. QED  BY <1>0, <2>2, <4>7, <4>8 DEF Leased
    <3>. QED  BY <1>6, <3>1, <3>2, <3>3
  <2>6. \A m \in Nodes :
          /\ agents'[m].token \in {0, agents[m].token}
          /\ agents'[m].phase # "idle" =>
               agents[m].phase # "idle" /\ agents'[m].job = agents[m].job
               /\ agents'[m].token = agents[m].token
    BY <2>3 DEF AgentsGoOn
  <2>. QED  BY <1>0, <2>2, <2>3, <2>5, <2>6, OneRestore
<1>. QED  BY <1>4, <1>5, <1>6 DEF ReportStep

LEMMA TablesStep == TablesInv /\ Serial /\ LiveHasToken /\ [Next]_vars => TablesInv'
<1>. SUFFICES ASSUME TablesInv, Serial, LiveHasToken, [Next]_vars PROVE TablesInv'
  OBVIOUS
<1>1. DoneInv' /\ LeaseOnOpenJob'
  BY DoneStep, LeaseStep DEF TablesInv, DoneInv
<1>2. ASSUME NEW w \in Workers, WorkerStep(w)
      PROVE  TablesInv'
  BY <1>1, <1>2, AdminCommitTables, ClaimTables, ReportTables DEF WorkerStep
<1>. QED  BY <1>1, <1>2, AdminTables, RequestTables, OtherTables DEF Next

(* As long as invocations do not overlap, a restore in flight has a lease, *)
(* its tenant is taken, ready or given up as the restore is, a restored    *)
(* tenant can be cleaned, and no provisioning job has a tenant that a      *)
(* restore is about to write: however leases lapse, agents restart,        *)
(* replies are lost and handlers stop between two of their calls.          *)
THEOREM TablesAgree == Spec => SerialTables
<1>1. TablesInv => InFlightHasLease /\ TenantFollowsRestore /\ RestoredCanBeCleaned /\ OneOwner
  <2>. SUFFICES ASSUME TablesInv
                PROVE  InFlightHasLease /\ TenantFollowsRestore /\ RestoredCanBeCleaned /\ OneOwner
    OBVIOUS
  <2>1. \A t \in Tenants : jobs[t] \in JobRow /\ RowOk(t)
    BY DEF TablesInv, DoneInv, TypeOK
  <2>2. InFlightHasLease /\ TenantFollowsRestore /\ OneOwner
    BY <2>1 DEF InFlightHasLease, TenantFollowsRestore, OneOwner, RowOk, Open
  <2>3. RestoredCanBeCleaned
    <3>1. ASSUME NEW t \in Tenants, tenants[t].status = "ready", tenants[t].db = "restored"
          PROVE  State(t) = "validated"
      <4>1. State(t) \notin {"absent", "failed"}
        BY <2>1, <3>1 DEF RowOk
      <4>2. ~Open(t)
        <5>1. Tenant("provisioning", jobs[t].node, "restored").status = "provisioning"
          BY DEF Tenant
        <5>2. Open(t) => tenants[t] = Tenant("provisioning", jobs[t].node, "restored")
          BY <2>1 DEF RowOk
        <5>. QED  BY <3>1, <5>1, <5>2
      <4>. QED  BY <2>1, <4>1, <4>2 DEF Open, State, JobRow
    <3>. QED  BY <2>1, <3>1 DEF RestoredCanBeCleaned, RowOk
  <2>. QED  BY <2>2, <2>3
<1>2. Init => LiveHasToken
  BY DEF Init, LiveHasToken, NoLease
<1>3. TablesInv => TypeOK
  BY DEF TablesInv, DoneInv
<1>. QED  BY TablesInit, TablesStep, LiveStep, <1>1, <1>2, <1>3, PTL DEF Spec, SerialTables

-----------------------------------------------------------------------------
(* The promise to a tenant *)

(* Whoever has the token of a standing lease, and is past the report that  *)
(* it runs, has a restore that runs.                                       *)
IfHeld(t, token) == token = leases[t].token /\ Leased(t) => State(t) = "running"

(* The report of a claimant that an agent waits for says that it runs. *)
Announces(a, l) == l.want = "running" /\ l.job = a.job /\ l.token = a.token

AgentRuns(a) ==
  /\ a.phase = "working" => IfHeld(a.job, a.token)
  /\ a.phase = "starting" =>
       a.result = None /\ (a.wait # None => Announces(a, worker[a.wait]))

WorkerRuns(l) ==
  /\ l.pc \in ReportPCs /\ l.want \in Results => IfHeld(l.job, l.token)
  /\ l.pc \in {"failed", "validated"} => State(l.job) = "running"

RunsInv ==
  /\ \A n \in Nodes : AgentRuns(agents[n])
  /\ \A w \in Workers : WorkerRuns(worker[w])

LEMMA RunsInit == Init => RunsInv
<1>. SUFFICES ASSUME Init PROVE RunsInv
  OBVIOUS
<1>1. \A n \in Nodes : AgentRuns(agents[n])
  BY DEF Init, AgentRuns, IdleAgent
<1>2. \A w \in Workers : WorkerRuns(worker[w])
  BY DEF Init, WorkerRuns, Idle, Handler, ReportPCs
<1>. QED  BY <1>1, <1>2 DEF RunsInv

(* A restore that runs goes on while its lease stands, and a new lease has *)
(* a token that nobody had.                                                *)
LEMMA IfHeldStays ==
  ASSUME TypeOK, [Next]_vars, NEW t \in Tenants, NEW k, k \in Nat, k <= tokens, IfHeld(t, k)
  PROVE  IfHeld(t, k)'
<1>0. tokens \in Nat /\ jobs \in [Tenants -> JobRow] /\ leases \in [Tenants -> LeaseRow]
  BY RuntimeAssumption DEF TypeOK
<1>1. ASSUME leases'[t].token = leases[t].token, State(t) = "running" => State(t)' = "running"
      PROVE  IfHeld(t, k)'
  BY <1>1 DEF IfHeld, Leased
<1>2. ASSUME leases'[t].token = 0 \/ leases'[t].token > tokens
      PROVE  IfHeld(t, k)'
  BY <1>0, <1>2 DEF IfHeld, Leased
<1>3. CASE UNCHANGED <<jobs, leases>>
  BY <1>1, <1>3 DEF State
<1>4. ASSUME NEW w \in Workers, WorkerStep(w), ~UNCHANGED <<jobs, leases>>
      PROVE  IfHeld(t, k)'
  <2>1. CASE CreateCommit(w)
    <3>1. jobs'[t] = jobs[t] \/ State(t) = "absent"
      BY <1>0, <2>1 DEF CreateCommit, State
    <3>. QED  BY <1>1, <2>1, <3>1 DEF CreateCommit, State
  <2>2. ASSUME NEW u \in Tenants, ExpireLease(w, u)
        PROVE  IfHeld(t, k)'
    <3>1. CASE u = t
      BY <1>0, <1>2, <2>2, <3>1 DEF ExpireLease, NoLease
    <3>2. CASE u # t
      BY <1>0, <1>1, <2>2, <3>2 DEF ExpireLease, State
    <3>. QED  BY <3>1, <3>2
  <2>3. ASSUME NEW u \in Tenants, TakeLease(w, u)
        PROVE  IfHeld(t, k)'
    <3>1. CASE u = t
      <4>1. leases'[t].token = tokens + 1
        BY <1>0, <2>3, <3>1 DEF TakeLease, Lease, NewLease
      <4>. QED  BY <1>0, <1>2, <4>1
    <3>2. CASE u # t
      BY <1>0, <1>1, <2>3, <3>2 DEF TakeLease, Lease, State, rows
    <3>. QED  BY <3>1, <3>2
  <2>4. CASE Dispatch(w)
    <3>1. jobs'[t] = jobs[t] \/ State(t) = "queued"
      BY <1>0, <2>4 DEF Dispatch, State
    <3>. QED  BY <1>1, <2>4, <3>1 DEF Dispatch, State
  <2>5. CASE Withdraw(w)
    <3>1. leases'[t] \in {leases[t], NoLease} /\ jobs' = jobs
      BY <1>0, <2>5 DEF Withdraw, rows
    <3>. QED  BY <1>1, <1>2, <3>1 DEF NoLease, State
  <2>6. CASE CommitRunning(w)
    <3>1. leases'[t] \in {leases[t], Renewed(leases[t])}
          /\ jobs'[t] \in {jobs[t], Ended(jobs[t], "running")}
      BY <1>0, <2>6 DEF CommitRunning
    <3>2. jobs[t] \in JobRow /\ leases[t] \in LeaseRow
      BY <1>0
    <3>3. leases'[t].token = leases[t].token
      BY <3>1, <3>2 DEF Renewed, LeaseRow
    <3>4. State(t) = "running" => State(t)' = "running"
      BY <3>1, <3>2 DEF Ended, JobRow, State
    <3>. QED  BY <1>1, <3>3, <3>4
  <2>7. CASE CommitFailed(w) \/ CommitValidated(w)
    <3>1. \/ leases'[t] = NoLease
          \/ leases'[t] = leases[t] /\ jobs'[t] = jobs[t]
      BY <1>0, <2>7 DEF CommitFailed, CommitValidated, LeaseAfterFailure
    <3>. QED  BY <1>1, <1>2, <3>1 DEF NoLease, State
  <2>. QED  BY <1>4, <2>1, <2>2, <2>3, <2>4, <2>5, <2>6, <2>7
            DEF WorkerStep, ClaimStep, ReportStep, TakeCommit, BuildCommit, TakeNothing, LoseClaim,
                CheckLease, Replay, tables, rows
<1>5. ASSUME NEW u \in Tenants, LeaseLapses(u)
      PROVE  IfHeld(t, k)'
  <2>1. leases'[t].token = leases[t].token /\ jobs' = jobs
    BY <1>0, <1>5 DEF LeaseLapses, Lapse, LeaseRow, rows
  <2>. QED  BY <1>1, <2>1 DEF State
<1>6. \/ UNCHANGED <<jobs, leases>>
      \/ \E w \in Workers : WorkerStep(w)
      \/ \E u \in Tenants : LeaseLapses(u)
  <2>1. CASE AdminRequest
    BY <2>1 DEF AdminRequest, CreateRead, TakeRead, BuildReport, RevokeNode, Revoke, tables, rows
  <2>2. ASSUME NEW w \in Workers, WorkerFails(w)
        PROVE  UNCHANGED <<jobs, leases>>
    BY <2>2 DEF WorkerFails, Abort, rows
  <2>3. ASSUME NEW n \in Nodes, AgentRequest(n) \/ CallHelper(n) \/ NodeFault(n)
        PROVE  UNCHANGED <<jobs, leases>>
    BY <2>3 DEF AgentRequest, Poll, Request, SendReport, Report, CallHelper, NodeFault, ReplyLost,
       LoseReply, AgentRestarts, Restart, DownloadFails, HelperTimesOut, HelperCrashes, Return,
       tables, rows
  <2>4. ASSUME NEW n \in Nodes, HelperStep(n)
        PROVE  UNCHANGED <<jobs, leases>>
    BY <2>4 DEF HelperStep, ServeCall, AnswerReplay, AnswerConflict, ExtractFiles, LoadDatabase,
       WriteMarker, PublishFiles, StageFails, Answer, Reach, Return, tables, rows
  <2>5. CASE UNCHANGED vars
    BY <2>5 DEF vars
  <2>. QED  BY <2>1, <2>2, <2>3, <2>4, <2>5 DEF Next
<1>. QED  BY <1>3, <1>4, <1>5, <1>6

(* What a step does to an agent. *)
SameWork(n) ==
  agents'[n].phase = "working" /\ agents'[n].job = agents[n].job /\ agents'[n].token = agents[n].token
Ends(w) == Replay(w) \/ CommitRunning(w) \/ CommitFailed(w) \/ CommitValidated(w)

AgentMoves(n) ==
  \/ agents'[n].phase = "idle"
  \/ agents'[n] = agents[n]
  \/ agents[n].phase = "working" /\ SameWork(n)
  \/ agents'[n].phase = "starting" /\ agents'[n].result = None /\ agents'[n].wait = None
  \/ agents[n].phase = "starting" /\ SameWork(n) /\ \E w \in Workers : agents[n].wait = w /\ Ends(w)
  \/ \E w \in Workers : SendReport(w, n)

LEMMA AgentAnswers ==
  ASSUME TypeOK, NEW n \in Nodes, NEW w \in Workers
  PROVE  /\ Accept(w) /\ Ends(w) => AgentMoves(n)
         /\ Reject(w) \/ DeliverEach(w, AfterReject) \/ Deliver(w, IdleAgent) => AgentMoves(n)
<1>1. agents[n] \in Agent
  BY DEF TypeOK
<1>2. IdleAgent.phase = "idle"
  BY DEF IdleAgent
<1>3. ASSUME agents'[n] = AfterReject(agents[n])
      PROVE  AgentMoves(n)
  BY <1>1, <1>2, <1>3 DEF AgentMoves, AfterReject, SameWork, Agent
<1>4. ASSUME Accept(w), Ends(w)
      PROVE  AgentMoves(n)
  <2>1. CASE AwaitedBy(w, n)
    <3>1. agents'[n] = AfterAccept(agents[n]) /\ agents[n].wait = w
      BY <1>4, <2>1 DEF Accept, DeliverEach, AwaitedBy
    <3>2. CASE agents[n].phase = "starting"
      BY <1>1, <1>4, <3>1, <3>2 DEF AgentMoves, AfterAccept, SameWork, Agent
    <3>3. CASE agents[n].phase = "working"
      BY <1>1, <1>2, <3>1, <3>3 DEF AgentMoves, AfterAccept, SameWork, Agent
    <3>4. CASE agents[n].phase = "idle"
      BY <1>1, <1>2, <3>1, <3>4 DEF AgentMoves, AfterAccept, Agent
    <3>. QED  BY <1>1, <3>2, <3>3, <3>4 DEF Agent
  <2>2. CASE ~AwaitedBy(w, n)
    BY <1>4, <2>2 DEF Accept, DeliverEach, AgentMoves
  <2>. QED  BY <2>1, <2>2
<1>5. ASSUME Reject(w) \/ DeliverEach(w, AfterReject) \/ Deliver(w, IdleAgent)
      PROVE  AgentMoves(n)
  <2>1. agents'[n] \in {agents[n], AfterReject(agents[n]), IdleAgent}
    BY <1>5 DEF Reject, DeliverEach, Deliver
  <2>. QED  BY <1>2, <1>3, <2>1 DEF AgentMoves
<1>. QED  BY <1>4, <1>5

LEMMA AgentStep ==
  ASSUME TypeOK, [Next]_vars, NEW n \in Nodes
  PROVE  AgentMoves(n)
<1>1. agents[n] \in Agent /\ agents \in [Nodes -> Agent]
  BY DEF TypeOK
<1>2. CASE UNCHANGED agents
  BY <1>2 DEF AgentMoves
<1>3. CASE AdminRequest \/ UNCHANGED vars
  BY <1>2, <1>3 DEF AdminRequest, CreateRead, TakeRead, BuildReport, RevokeNode, Revoke, vars
<1>4. ASSUME NEW w \in Workers, WorkerStep(w)
      PROVE  AgentMoves(n)
  <2>1. CASE ReportStep(w)
    <3>1. UNCHANGED agents \/ Reject(w) \/ (Accept(w) /\ Ends(w))
      BY <2>1 DEF ReportStep, CheckLease, Replay, CommitRunning, CommitFailed, CommitValidated, Ends
    <3>. QED  BY <1>2, <3>1, AgentAnswers
  <2>2. CASE Dispatch(w)
    <3>1. CASE Deliver(w, IdleAgent)
      BY <3>1, AgentAnswers
    <3>2. CASE Deliver(w, Claimant(worker[w].job, worker[w].token))
      <4>1. agents'[n] \in {agents[n], Claimant(worker[w].job, worker[w].token)}
        BY <3>2 DEF Deliver
      <4>. QED  BY <4>1 DEF AgentMoves, Claimant
    <3>. QED  BY <2>2, <3>1, <3>2 DEF Dispatch
  <2>. QED  BY <1>2, <1>4, <2>1, <2>2, AgentAnswers
            DEF WorkerStep, CreateCommit, TakeCommit, BuildCommit, ClaimStep, ExpireLease, TakeLease,
                Lease, TakeNothing, LoseClaim, Withdraw
<1>5. ASSUME NEW w \in Workers, WorkerFails(w)
      PROVE  AgentMoves(n)
  BY <1>5, AgentAnswers DEF WorkerFails, Abort
<1>6. ASSUME NEW m \in Nodes, AgentRequest(m)
      PROVE  AgentMoves(n)
  <2>1. CASE m = n
    <3>1. ASSUME NEW w \in Workers, Poll(w, n)
          PROVE  AgentMoves(n)
      <4>1. agents'[n].phase = agents[n].phase /\ agents[n].phase = "idle"
        BY <1>1, <3>1 DEF Poll, Request, IdleAgent, Agent
      <4>. QED  BY <4>1 DEF AgentMoves
    <3>. QED  BY <1>6, <2>1, <3>1 DEF AgentRequest, AgentMoves
  <2>2. CASE m # n
    <3>1. agents'[n] = agents[n]
      BY <1>1, <1>6, <2>2 DEF AgentRequest, Poll, Request, SendReport, Report
    <3>. QED  BY <3>1 DEF AgentMoves
  <2>. QED  BY <2>1, <2>2
<1>7. ASSUME NEW m \in Nodes, NEW r, Return(m, r)
      PROVE  AgentMoves(n)
  <2>1. CASE m = n
    <3>1. agents[n].phase = "working" /\ agents'[n].phase = "working"
          /\ agents'[n].job = agents[n].job /\ agents'[n].token = agents[n].token
      BY <1>1, <1>7, <2>1 DEF Return, Agent
    <3>. QED  BY <3>1 DEF AgentMoves, SameWork
  <2>2. CASE m # n
    BY <1>1, <1>7, <2>2 DEF Return, AgentMoves
  <2>. QED  BY <2>1, <2>2
<1>8. ASSUME NEW m \in Nodes, LoseReply(m) \/ Restart(m)
      PROVE  AgentMoves(n)
  <2>1. agents'[n] \in {agents[n], AfterReject(agents[n]), IdleAgent}
    BY <1>1, <1>8 DEF LoseReply, Restart
  <2>2. CASE agents'[n] = AfterReject(agents[n])
    BY <1>1, <2>2 DEF AgentMoves, AfterReject, SameWork, Agent, IdleAgent
  <2>. QED  BY <2>1, <2>2 DEF AgentMoves, IdleAgent
<1>9. ASSUME NEW m \in Nodes, CallHelper(m) \/ HelperStep(m) \/ NodeFault(m)
      PROVE  AgentMoves(n)
  <2>1. UNCHANGED agents \/ (\E r : Return(m, r)) \/ LoseReply(m) \/ Restart(m)
    <3>1. CASE CallHelper(m)
      BY <3>1 DEF CallHelper
    <3>2. CASE HelperStep(m)
      BY <3>2 DEF HelperStep, ServeCall, AnswerReplay, AnswerConflict, ExtractFiles, LoadDatabase,
         WriteMarker, PublishFiles, StageFails, Answer, Reach
    <3>3. CASE NodeFault(m)
      BY <3>3 DEF NodeFault, ReplyLost, AgentRestarts, DownloadFails, HelperTimesOut, HelperCrashes
    <3>. QED  BY <1>9, <3>1, <3>2, <3>3
  <2>. QED  BY <1>2, <1>7, <1>8, <2>1
<1>10. ASSUME NEW t \in Tenants, LeaseLapses(t)
       PROVE  AgentMoves(n)
  BY <1>2, <1>10 DEF LeaseLapses, Lapse
<1>. QED  BY <1>3, <1>4, <1>5, <1>6, <1>9, <1>10 DEF Next

(* What a step does to a handler of a report. *)
WorkerMoves(w) ==
  \/ worker'[w] = worker[w]
  \/ /\ worker'[w].pc \notin ReportPCs
     /\ worker[w].pc \in ReportPCs => \A n \in Nodes : AwaitedBy(w, n) => agents'[n].wait = None
  \/ /\ CheckLease(w) /\ worker'[w].pc \in ReportPCs
     /\ \E pc : worker'[w] = [worker[w] EXCEPT !.pc = pc]
  \/ \E n \in Nodes : SendReport(w, n)

LEMMA WorkerMove ==
  ASSUME TypeOK, [Next]_vars, NEW w \in Workers
  PROVE  WorkerMoves(w)
<1>0. worker \in [Workers -> Local] /\ worker[w] \in Local /\ agents \in [Nodes -> Agent]
      /\ Idle.pc \notin ReportPCs
  BY DEF TypeOK, Idle, Handler, ReportPCs
<1>1. ASSUME NEW v, v # w, NEW l, worker' = [worker EXCEPT ![v] = l]
      PROVE  WorkerMoves(w)
  BY <1>0, <1>1 DEF WorkerMoves
<1>2. CASE UNCHANGED worker
  BY <1>2 DEF WorkerMoves
<1>3. ASSUME NEW pc, pc \notin ReportPCs, NEW n, NEW t, NEW k, NEW want,
             Begin(w, Handler(pc, n, t, k, want))
      PROVE  WorkerMoves(w)
  <2>1. worker'[w] = Handler(pc, n, t, k, want) /\ worker[w].pc \notin ReportPCs
    BY <1>0, <1>3 DEF Begin
  <2>. QED  BY <1>3, <2>1, LocalFields DEF WorkerMoves
<1>4. ASSUME Finish(w), worker[w].pc \notin ReportPCs
      PROVE  WorkerMoves(w)
  BY <1>0, <1>4 DEF Finish, WorkerMoves
<1>5. ASSUME Finish(w), DeliverEach(w, AfterAccept) \/ DeliverEach(w, AfterReject)
      PROVE  WorkerMoves(w)
  <2>1. \A a \in Agent : AfterAccept(a).wait = None /\ AfterReject(a).wait = None
    BY DEF AfterAccept, AfterReject, IdleAgent, Agent
  <2>2. \A n \in Nodes : AwaitedBy(w, n) => agents'[n].wait = None
    BY <1>0, <1>5, <2>1 DEF DeliverEach
  <2>. QED  BY <1>0, <1>5, <2>2 DEF Finish, WorkerMoves
<1>6. ASSUME NEW v \in Workers, WorkerStep(v)
      PROVE  WorkerMoves(w)
  <2>1. CASE v # w
    <3>1. \E l : worker' = [worker EXCEPT ![v] = l]
      BY <1>6 DEF WorkerStep, CreateCommit, TakeCommit, BuildCommit, ClaimStep, ExpireLease, TakeLease,
         Lease, TakeNothing, Dispatch, LoseClaim, Withdraw, ReportStep, CheckLease, Replay,
         CommitRunning, CommitFailed, CommitValidated, Accept, Reject, Finish, Goto
    <3>. QED  BY <1>1, <2>1, <3>1
  <2>2. CASE v = w /\ ReportStep(w)
    <3>1. CASE CheckLease(w) /\ ~Reject(w)
      <4>1. PICK pc \in {"replay", worker[w].want} : Goto(w, pc)
        BY <3>1 DEF CheckLease
      <4>2. worker'[w] = [worker[w] EXCEPT !.pc = pc] /\ worker'[w].pc = pc
        BY <1>0, <4>1 DEF Goto, Local
      <4>3. worker[w].want \in Results \cup {"running"}
        BY <1>0, <3>1 DEF CheckLease, At, Local, Assigned, ReportPCs
      <4>4. pc \in ReportPCs
        BY <4>1, <4>3 DEF ReportPCs, Results
      <4>. QED  BY <3>1, <4>2, <4>4 DEF WorkerMoves
    <3>2. CASE Reject(w) \/ Accept(w)
      BY <1>5, <3>2 DEF Reject, Accept
    <3>. QED  BY <2>2, <3>1, <3>2 DEF ReportStep, Replay, CommitRunning, CommitFailed, CommitValidated
  <2>3. CASE v = w /\ ~ReportStep(w)
    <3>1. worker[w].pc \notin ReportPCs
      BY <1>6, <2>3 DEF WorkerStep, CreateCommit, TakeCommit, BuildCommit, ClaimStep, ExpireLease,
         TakeLease, TakeNothing, Dispatch, LoseClaim, Withdraw, At, ReportPCs
    <3>2. ASSUME NEW t \in Tenants, ExpireLease(w, t)
          PROVE  worker'[w].pc = "expire"
      BY <1>0, <3>2 DEF ExpireLease, At, Local
    <3>3. ASSUME NEW t \in Tenants, TakeLease(w, t)
          PROVE  worker'[w].pc = "dispatch"
      BY <1>0, <3>3 DEF TakeLease, Lease, Local
    <3>4. LoseClaim(w) => worker'[w].pc = "withdraw"
      BY <1>0 DEF LoseClaim, Goto, Local
    <3>5. {"expire", "dispatch", "withdraw"} \cap ReportPCs = {}
      BY DEF ReportPCs
    <3>6. \/ Finish(w) \/ LoseClaim(w)
          \/ \E t \in Tenants : ExpireLease(w, t) \/ TakeLease(w, t)
      BY <1>6, <2>3 DEF WorkerStep, CreateCommit, TakeCommit, BuildCommit, ClaimStep, TakeNothing,
         Dispatch, Withdraw
    <3>. QED  BY <1>4, <3>1, <3>2, <3>3, <3>4, <3>5, <3>6 DEF WorkerMoves
  <2>. QED  BY <1>6, <2>1, <2>2, <2>3
<1>7. ASSUME NEW v \in Workers, WorkerFails(v)
      PROVE  WorkerMoves(w)
  <2>1. CASE v = w
    BY <1>5, <1>7, <2>1 DEF WorkerFails, Abort
  <2>2. CASE v # w
    BY <1>1, <1>7, <2>2 DEF WorkerFails, Abort, Finish
  <2>. QED  BY <2>1, <2>2
<1>8. ASSUME NEW n \in Nodes, AgentRequest(n)
      PROVE  WorkerMoves(w)
  <2>1. ASSUME NEW v \in Workers, SendReport(v, n)
        PROVE  WorkerMoves(w)
    BY <1>1, <2>1 DEF SendReport, Report, Begin, WorkerMoves
  <2>2. ASSUME NEW v \in Workers, Poll(v, n)
        PROVE  WorkerMoves(w)
    <3>1. CASE v # w
      BY <1>1, <2>2, <3>1 DEF Poll, Request, Begin
    <3>2. CASE v = w
      <4>1. [Handler("expire", n, None, 0, None) EXCEPT !.work = Expired(n)].pc = "expire"
            /\ "expire" \notin ReportPCs
        BY DEF Handler, ReportPCs
      <4>2. worker'[w].pc \notin ReportPCs /\ worker[w].pc \notin ReportPCs
        BY <1>0, <2>2, <3>2, <4>1 DEF Poll, Request, Begin
      <4>. QED  BY <4>2 DEF WorkerMoves
    <3>. QED  BY <3>1, <3>2
  <2>. QED  BY <1>8, <2>1, <2>2 DEF AgentRequest
<1>9. CASE AdminRequest
  <2>1. \/ UNCHANGED worker
        \/ \E v \in Workers : \E pc \in {"create", "take", "built"} : \E n, t, want :
             Begin(v, Handler(pc, n, t, 0, want))
    BY <1>9 DEF AdminRequest, CreateRead, TakeRead, BuildReport, RevokeNode, Revoke
  <2>2. {"create", "take", "built"} \cap ReportPCs = {}
    BY DEF ReportPCs
  <2>3. ASSUME NEW v \in Workers, NEW l, Begin(v, l), v # w
        PROVE  WorkerMoves(w)
    BY <1>1, <2>3 DEF Begin
  <2>. QED  BY <1>2, <1>3, <2>1, <2>2, <2>3
<1>10. ASSUME NEW n \in Nodes, CallHelper(n) \/ HelperStep(n) \/ NodeFault(n)
       PROVE  WorkerMoves(w)
  <2>1. UNCHANGED worker
    BY <1>10 DEF CallHelper, HelperStep, NodeFault, ServeCall, AnswerReplay, AnswerConflict,
       ExtractFiles, LoadDatabase, WriteMarker, PublishFiles, StageFails, Answer, Reach, Return,
       ReplyLost, LoseReply, AgentRestarts, Restart, DownloadFails, HelperTimesOut, HelperCrashes
  <2>. QED  BY <1>2, <2>1
<1>11. CASE UNCHANGED vars \/ \E t \in Tenants : LeaseLapses(t)
  BY <1>2, <1>11 DEF vars, LeaseLapses, Lapse
<1>. QED  BY <1>6, <1>7, <1>8, <1>9, <1>10, <1>11 DEF Next

(* The handler of an end is the only one that runs; until it writes, the   *)
(* restore runs on.                                                        *)
LEMMA EndWaits ==
  ASSUME TypeOK, Serial, [Next]_vars, NEW w \in Workers, worker[w].pc \in {"failed", "validated"},
         worker'[w] = worker[w] \/ CheckLease(w)
  PROVE  jobs' = jobs
<1>1. worker \in [Workers -> Local] /\ Idle.pc = "idle"
  BY DEF TypeOK, Idle, Handler
<1>2. ASSUME NEW v \in Workers, WorkerStep(v)
      PROVE  jobs' = jobs
  <2>1. ~At(v, "idle")
    BY <1>2 DEF WorkerStep, CreateCommit, TakeCommit, BuildCommit, ClaimStep, ExpireLease, TakeLease,
       TakeNothing, Dispatch, LoseClaim, Withdraw, ReportStep, CheckLease, Replay, CommitRunning,
       CommitFailed, CommitValidated, At
  <2>2. v = w
    BY <2>1 DEF Serial, At
  <2>3. ~Finish(w) /\ ~CheckLease(w)
    BY <1>1 DEF Finish, CheckLease, At
  <2>. QED  BY <1>2, <2>2, <2>3
            DEF WorkerStep, CreateCommit, TakeCommit, BuildCommit, ClaimStep, ExpireLease, TakeLease,
                TakeNothing, Dispatch, LoseClaim, Withdraw, ReportStep, CheckLease, Replay, CommitRunning,
                CommitFailed, CommitValidated, Accept, At
<1>3. ASSUME NEW n \in Nodes, AgentRequest(n) \/ CallHelper(n) \/ NodeFault(n) \/ HelperStep(n)
      PROVE  jobs' = jobs
  BY <1>3 DEF AgentRequest, Poll, SendReport, CallHelper, NodeFault, ReplyLost, AgentRestarts,
     DownloadFails, HelperTimesOut, HelperCrashes, HelperStep, ServeCall, AnswerReplay, AnswerConflict,
     ExtractFiles, LoadDatabase, WriteMarker, PublishFiles, StageFails, Answer, Reach, tables, rows
<1>4. CASE AdminRequest \/ UNCHANGED vars
  BY <1>4 DEF AdminRequest, CreateRead, TakeRead, BuildReport, RevokeNode, tables, rows, vars
<1>5. ASSUME NEW v \in Workers, WorkerFails(v)
      PROVE  jobs' = jobs
  BY <1>5 DEF WorkerFails, rows
<1>6. ASSUME NEW t \in Tenants, LeaseLapses(t)
      PROVE  jobs' = jobs
  BY <1>6 DEF LeaseLapses, rows
<1>. QED  BY <1>2, <1>3, <1>4, <1>5, <1>6 DEF Next

LEMMA RunsStep ==
  ASSUME TablesInv, TablesInv', LiveHasToken, RunsInv, Serial, [Next]_vars
  PROVE  RunsInv'
<1>0. /\ TypeOK /\ TypeOK' /\ tokens \in Nat
      /\ \A n \in Nodes :
           /\ agents[n] \in Agent /\ agents'[n] \in Agent /\ AgentRuns(agents[n]) /\ AgentMoves(n)
           /\ agents[n].token \in Nat /\ agents[n].token <= tokens
      /\ \A w \in Workers :
           /\ worker[w] \in Local /\ worker'[w] \in Local /\ WorkerRuns(worker[w]) /\ WorkerMoves(w)
           /\ StillSo(worker[w])
           /\ worker[w].token \in Nat /\ worker[w].token <= tokens
  <2>1. TypeOK /\ TypeOK'
    BY DEF TablesInv, DoneInv
  <2>2. /\ tokens \in Nat
        /\ \A n \in Nodes : agents[n] \in Agent /\ agents'[n] \in Agent
        /\ \A w \in Workers : worker[w] \in Local /\ worker'[w] \in Local
    BY <2>1, RuntimeAssumption DEF TypeOK
  <2>3. /\ \A n \in Nodes : agents[n].token \in Nat /\ agents[n].token <= tokens
        /\ \A w \in Workers : worker[w].token \in Nat /\ worker[w].token <= tokens
    <3>1. \A n \in Nodes : agents[n].token \in Nat
      BY <2>1, RuntimeAssumption DEF TypeOK, Agent
    <3>2. \A w \in Workers : worker[w].token \in Nat
      BY <2>1, RuntimeAssumption DEF TypeOK, Local
    <3>3. \A n \in Nodes : agents[n].token <= tokens
      BY DEF TablesInv, Drawn
    <3>4. \A w \in Workers : worker[w].token <= tokens
      BY DEF TablesInv, StillSo
    <3>. QED  BY <3>1, <3>2, <3>3, <3>4
  <2>4. \A n \in Nodes : AgentMoves(n)
    BY <2>1, AgentStep
  <2>5. \A w \in Workers : WorkerMoves(w)
    BY <2>1, WorkerMove
  <2>6. /\ \A n \in Nodes : AgentRuns(agents[n])
        /\ \A w \in Workers : WorkerRuns(worker[w]) /\ StillSo(worker[w])
    BY DEF RunsInv, TablesInv
  <2>7. ASSUME NEW n \in Nodes
        PROVE  /\ agents[n] \in Agent /\ agents'[n] \in Agent /\ AgentRuns(agents[n]) /\ AgentMoves(n)
               /\ agents[n].token \in Nat /\ agents[n].token <= tokens
    BY <2>2, <2>3, <2>4, <2>6
  <2>8. ASSUME NEW w \in Workers
        PROVE  /\ worker[w] \in Local /\ worker'[w] \in Local /\ WorkerRuns(worker[w]) /\ WorkerMoves(w)
               /\ StillSo(worker[w])
               /\ worker[w].token \in Nat /\ worker[w].token <= tokens
    BY <2>2, <2>3, <2>5, <2>6
  <2>. QED  BY <2>1, <2>2, <2>7, <2>8
<1>1. \A t \in Tenants, k \in Nat : k <= tokens /\ IfHeld(t, k) => IfHeld(t, k)'
  BY <1>0, IfHeldStays
<1>2. ASSUME NEW n \in Nodes, agents'[n].phase = "working"
      PROVE  IfHeld(agents[n].job, agents[n].token)'
  <2>1. CASE agents[n].phase = "working" /\ SameWork(n)
    <3>1. agents[n].job \in Tenants /\ IfHeld(agents[n].job, agents[n].token)
      BY <1>0, <2>1 DEF AgentRuns, Agent
    <3>2. PICK t \in Tenants, k \in Nat : t = agents[n].job /\ k = agents[n].token /\ k <= tokens
      BY <1>0, <3>1
    <3>3. IfHeld(t, k)'
      BY <1>1, <3>1, <3>2
    <3>. QED  BY <2>1, <3>2, <3>3 DEF SameWork, IfHeld, Leased, State
  <2>2. ASSUME NEW w \in Workers, agents[n].phase = "starting", SameWork(n), agents[n].wait = w, Ends(w)
        PROVE  IfHeld(agents[n].job, agents[n].token)'
    <3>1. worker[w].want = "running" /\ worker[w].job = agents[n].job
      BY <1>0, <2>2, RuntimeAssumption DEF AgentRuns, Announces
    <3>2. CommitRunning(w)
      BY <1>0, <2>2, <3>1 DEF Ends, Replay, CommitFailed, CommitValidated, At, Local, Assigned
    <3>3. PICK t \in Tenants : t = worker[w].job
      BY <1>0, <3>2 DEF CommitRunning, At, Local, Assigned, ReportPCs
    <3>4. InFlight(t) /\ jobs'[t] = Ended(jobs[t], "running") /\ jobs[t] \in JobRow
      BY <1>0, <3>2, <3>3 DEF CommitRunning, At, StillSo, TypeOK
    <3>5. State(t)' = "running"
      BY <3>4 DEF Ended, InFlight, State, JobRow
    <3>. QED  BY <2>2, <3>1, <3>3, <3>5 DEF SameWork, IfHeld, State
  <2>3. ASSUME agents'[n] = agents[n] \/ \E w \in Workers : SendReport(w, n)
        PROVE  agents[n].phase = "working" /\ SameWork(n)
    <3>1. ASSUME NEW w \in Workers, SendReport(w, n)
          PROVE  /\ agents'[n].phase = agents[n].phase /\ agents'[n].job = agents[n].job
                 /\ agents'[n].token = agents[n].token
      BY <1>0, <3>1 DEF SendReport, Report, TypeOK, Agent
    <3>. QED  BY <1>2, <2>3, <3>1 DEF SameWork
  <2>. QED  BY <1>0, <1>2, <2>1, <2>2, <2>3 DEF AgentMoves
<1>3. ASSUME NEW n \in Nodes, agents'[n].phase = "starting"
      PROVE  /\ agents'[n].result = None
             /\ agents'[n].wait # None => Announces(agents'[n], worker'[agents'[n].wait])
  <2>1. CASE agents'[n] = agents[n]
    <3>1. agents[n].result = None
      BY <1>0, <1>3, <2>1 DEF AgentRuns
    <3>2. ASSUME NEW w \in Workers, agents[n].wait = w
          PROVE  Announces(agents[n], worker'[w])
      <4>1. /\ worker[w].pc \in ReportPCs /\ AwaitedBy(w, n) /\ Announces(agents[n], worker[w])
            /\ w # None
        BY <1>0, <1>3, <2>1, <3>2, RuntimeAssumption
           DEF AgentRuns, TablesInv, DoneInv, Awaits, AwaitedBy
      <4>2. CASE worker'[w] = worker[w]
        BY <4>1, <4>2
      <4>3. ASSUME NEW pc, worker'[w] = [worker[w] EXCEPT !.pc = pc]
            PROVE  Announces(agents[n], worker'[w])
        BY <1>0, <4>1, <4>3 DEF Announces, Local
      <4>4. ASSUME NEW m \in Nodes, SendReport(w, m)
            PROVE  FALSE
        BY <4>1, <4>4 DEF SendReport, Report, Begin, Idle, Handler, ReportPCs
      <4>. QED  BY <1>0, <2>1, <3>2, <4>1, <4>2, <4>3, <4>4 DEF WorkerMoves
    <3>. QED  BY <1>0, <2>1, <3>1, <3>2 DEF Agent
  <2>2. ASSUME NEW w \in Workers, SendReport(w, n)
        PROVE  /\ agents'[n].result = None
               /\ agents'[n].wait # None => Announces(agents'[n], worker'[agents'[n].wait])
    <3>1. /\ agents'[n] = [agents[n] EXCEPT !.wait = w]
          /\ worker'[w] = Handler("lease", n, agents[n].job, agents[n].token, Reported(agents[n]))
      BY <1>0, <2>2 DEF SendReport, Report, Begin, TypeOK
    <3>2. /\ agents'[n].phase = agents[n].phase /\ agents'[n].job = agents[n].job
          /\ agents'[n].token = agents[n].token /\ agents'[n].result = agents[n].result
          /\ agents'[n].wait = w
      BY <1>0, <3>1 DEF Agent
    <3>3. agents[n].result = None /\ Reported(agents[n]) = "running"
      BY <1>0, <1>3, <3>2 DEF AgentRuns, Reported
    <3>4. Announces(agents'[n], worker'[w])
      BY <3>1, <3>2, <3>3 DEF Announces, Handler
    <3>. QED  BY <3>2, <3>3, <3>4
  <2>. QED  BY <1>0, <1>3, <2>1, <2>2 DEF AgentMoves, SameWork
<1>4. ASSUME NEW w \in Workers, worker'[w].pc \in ReportPCs, worker'[w].want \in Results
      PROVE  IfHeld(worker[w].job, worker[w].token)'
  <2>1. ASSUME worker[w].pc \in ReportPCs, worker'[w].want = worker[w].want,
               worker'[w].job = worker[w].job, worker'[w].token = worker[w].token
        PROVE  IfHeld(worker[w].job, worker[w].token)'
    <3>1. PICK t \in Tenants, k \in Nat : t = worker[w].job /\ k = worker[w].token /\ k <= tokens
      BY <1>0, <2>1 DEF Local, Assigned
    <3>2. IfHeld(t, k)
      BY <1>0, <1>4, <2>1, <3>1 DEF WorkerRuns
    <3>3. IfHeld(t, k)'
      BY <1>1, <3>1, <3>2
    <3>. QED  BY <2>1, <3>1, <3>3 DEF IfHeld, Leased, State
  <2>2. ASSUME CheckLease(w), NEW pc, worker'[w] = [worker[w] EXCEPT !.pc = pc]
        PROVE  IfHeld(worker[w].job, worker[w].token)'
    <3>1. worker[w].pc \in ReportPCs
      BY <2>2 DEF CheckLease, At, ReportPCs
    <3>2. worker'[w].want = worker[w].want /\ worker'[w].job = worker[w].job
          /\ worker'[w].token = worker[w].token
      BY <1>0, <2>2 DEF Local
    <3>. QED  BY <2>1, <3>1, <3>2
  <2>3. ASSUME NEW n \in Nodes, SendReport(w, n)
        PROVE  IfHeld(worker[w].job, worker[w].token)'
    <3>1. worker'[w] = Handler("lease", n, agents[n].job, agents[n].token, Reported(agents[n]))
      BY <1>0, <2>3 DEF SendReport, Report, Begin, TypeOK
    <3>2. worker'[w].job = agents[n].job /\ worker'[w].token = agents[n].token
          /\ worker'[w].want = Reported(agents[n])
      BY <3>1 DEF Handler
    <3>3. agents[n].phase = "working"
      <4>1. agents[n].result # None
        BY <1>4, <3>2 DEF Reported, Results
      <4>. QED  BY <1>0, <2>3, <4>1 DEF AgentRuns, SendReport, Report
    <3>4. PICK t \in Tenants, k \in Nat : t = agents[n].job /\ k = agents[n].token /\ k <= tokens
      BY <1>0, <3>3 DEF Agent
    <3>5. IfHeld(t, k)
      BY <1>0, <3>3, <3>4 DEF AgentRuns
    <3>6. IfHeld(t, k)'
      BY <1>1, <3>4, <3>5
    <3>. QED  BY <3>2, <3>4, <3>6 DEF IfHeld, Leased, State
  <2>. QED  BY <1>0, <1>4, <2>1, <2>2, <2>3 DEF WorkerMoves
<1>5. ASSUME NEW w \in Workers, worker'[w].pc \in {"failed", "validated"}
      PROVE  State(worker[w].job)' = "running"
  <2>1. CASE worker'[w] = worker[w]
    <3>1. jobs' = jobs /\ State(worker[w].job) = "running"
      BY <1>0, <1>5, <2>1, EndWaits DEF WorkerRuns
    <3>. QED  BY <2>1, <3>1 DEF State
  <2>2. ASSUME CheckLease(w), NEW pc, worker'[w] = [worker[w] EXCEPT !.pc = pc]
        PROVE  State(worker[w].job)' = "running"
    <3>1. /\ worker'[w].pc = pc /\ worker'[w].want = worker[w].want
          /\ worker'[w].job = worker[w].job /\ jobs' = jobs
      BY <1>0, <2>2 DEF Local, CheckLease, tables, rows
    <3>2. worker'[w].want = worker'[w].pc
      BY <1>0, <1>5 DEF Local, Assigned
    <3>3. PICK t \in Tenants : t = worker[w].job
      BY <1>0, <2>2 DEF CheckLease, At, Local, Assigned, ReportPCs
    <3>4. leases[t].token = worker[w].token /\ leases[t].live
      <4>1. ~Goto(w, "replay") /\ ~Reject(w)
        <5>1. Goto(w, "replay") => worker'[w].pc = "replay"
          BY <1>0 DEF Goto, TypeOK, Local
        <5>2. Reject(w) => worker'[w].pc = "idle"
          BY <1>0 DEF Reject, Finish, TypeOK, Idle, Handler
        <5>. QED  BY <1>5, <5>1, <5>2
      <4>. QED  BY <2>2, <3>3, <4>1 DEF CheckLease
    <3>5. IfHeld(t, worker[w].token)
      <4>1. worker[w].want \in Results /\ worker[w].pc \in ReportPCs
        BY <1>5, <2>2, <3>1, <3>2 DEF Results, CheckLease, At, ReportPCs
      <4>. QED  BY <1>0, <3>3, <4>1 DEF WorkerRuns
    <3>. QED  BY <3>1, <3>3, <3>4, <3>5 DEF IfHeld, LiveHasToken, State
  <2>3. ASSUME NEW n \in Nodes, SendReport(w, n)
        PROVE  FALSE
    BY <1>0, <1>5, <2>3 DEF SendReport, Report, Begin, Handler, TypeOK
  <2>. QED  BY <1>0, <1>5, <2>1, <2>2, <2>3 DEF WorkerMoves, ReportPCs
<1>. QED
  <2>1. \A n \in Nodes : AgentRuns(agents[n])'
    BY <1>2, <1>3 DEF AgentRuns, Announces, IfHeld, Leased, State
  <2>2. \A w \in Workers : WorkerRuns(worker[w])'
    BY <1>4, <1>5 DEF WorkerRuns, IfHeld, Leased, State
  <2>. QED  BY <2>1, <2>2 DEF RunsInv

(* A step about one restore, as a reader of the tables sees it. *)
LEMMA Shown ==
  ASSUME NEW t \in Tenants,
         \A u \in Tenants : u # t =>
           /\ jobs'[u].state = jobs[u].state /\ tenants'[u] = tenants[u] /\ building'[u] = building[u]
  PROVE  /\ restores' = [restores EXCEPT ![t] = jobs'[t].state]
         /\ statuses' = [statuses EXCEPT ![t] = tenants'[t].status]
         /\ databases' = [databases EXCEPT ![t] = tenants'[t].db]
         /\ building'[t] # None => taken' = taken \cup {t}
         /\ building'[t] = None => taken' = taken \ {t}
         /\ jobs'[t].state = jobs[t].state => UNCHANGED restores
         /\ tenants'[t].status = tenants[t].status => UNCHANGED statuses
         /\ tenants'[t].db = tenants[t].db => UNCHANGED databases
         /\ building'[t] = building[t] => UNCHANGED taken
         /\ restores[t] = jobs[t].state /\ statuses[t] = tenants[t].status
         /\ databases[t] = tenants[t].db /\ (t \in taken <=> building[t] # None)
<1>1. restores' = [restores EXCEPT ![t] = jobs'[t].state]
  BY DEF restores
<1>2. statuses' = [statuses EXCEPT ![t] = tenants'[t].status]
  BY DEF statuses
<1>3. databases' = [databases EXCEPT ![t] = tenants'[t].db]
  BY DEF databases
<1>4. /\ building'[t] # None => taken' = taken \cup {t}
      /\ building'[t] = None => taken' = taken \ {t}
      /\ building'[t] = building[t] => UNCHANGED taken
  BY DEF taken
<1>5. /\ jobs'[t].state = jobs[t].state => UNCHANGED restores
      /\ tenants'[t].status = tenants[t].status => UNCHANGED statuses
      /\ tenants'[t].db = tenants[t].db => UNCHANGED databases
  BY DEF restores, statuses, databases
<1>6. /\ restores[t] = jobs[t].state /\ statuses[t] = tenants[t].status
      /\ databases[t] = tenants[t].db /\ (t \in taken <=> building[t] # None)
  BY DEF restores, statuses, databases, taken
<1>. QED  BY <1>1, <1>2, <1>3, <1>4, <1>5, <1>6

(* What the abstract specification lets the tables do. *)
Promised == [Promise!Next]_(Promise!vars)

LEMMA Unseen == UNCHANGED <<jobs, tenants, identity, building>> => Promised
BY DEF Promised, Promise!vars, restores, statuses, databases, taken

LEMMA AdminPromised ==
  ASSUME TablesInv, NEW w \in Workers, CreateCommit(w) \/ TakeCommit(w) \/ BuildCommit(w)
  PROVE  Promised
<1>a. PICK t \in Tenants, n \in Nodes : t = worker[w].job /\ n = worker[w].node
  BY DEF TablesInv, DoneInv, TypeOK, CreateCommit, TakeCommit, BuildCommit, At, Local, Assigned
<1>0. /\ TypeOK /\ n # None /\ RowOk(t) /\ StillSo(worker[w])
      /\ jobs[t] \in JobRow /\ tenants[t] \in TenantRow
      /\ \A u \in Tenants : u # t =>
           /\ jobs'[u].state = jobs[u].state /\ tenants'[u] = tenants[u] /\ building'[u] = building[u]
      /\ UNCHANGED identity
  <2>1. TypeOK /\ n # None /\ RowOk(t) /\ StillSo(worker[w])
    BY RuntimeAssumption DEF TablesInv, DoneInv
  <2>2. \A u \in Tenants : u # t =>
          /\ jobs'[u].state = jobs[u].state /\ tenants'[u] = tenants[u] /\ building'[u] = building[u]
    BY <1>a, <2>1 DEF CreateCommit, TakeCommit, BuildCommit, TypeOK
  <2>3. UNCHANGED identity
    BY DEF CreateCommit, TakeCommit, BuildCommit
  <2>. QED  BY <2>1, <2>2, <2>3 DEF TypeOK
<1>1. CASE CreateCommit(w)
  <2>1. CASE State(t) # "absent"
    BY <1>a, <1>1, <2>1, Unseen DEF CreateCommit
  <2>2. CASE State(t) = "absent"
    <3>1. tenants[t] = Tenant("pending", None, None)
      BY <1>0, <1>a, <1>1 DEF CreateCommit, At, StillSo, Eligible
    <3>2. /\ jobs'[t].state = "queued" /\ building'[t] = building[t]
          /\ tenants'[t] = Tenant("provisioning", n, "restored")
      BY <1>0, <1>a, <1>1, <2>2, <3>1 DEF CreateCommit, TakenUp, Eligible, TypeOK
    <3>3. /\ tenants[t].status = "pending" /\ tenants[t].db = None
          /\ tenants'[t].status = "provisioning" /\ tenants'[t].db = "restored"
      BY <3>1, <3>2 DEF Tenant
    <3>4. Promise!Queue(t)
      BY <1>0, <2>2, <3>2, <3>3, Shown DEF Promise!Queue, State
    <3>. QED  BY <3>4 DEF Promised, Promise!Next
  <2>. QED  BY <2>1, <2>2
<1>2. CASE TakeCommit(w)
  <2>1. tenants[t].status \in {"pending", "failed"} /\ building[t] = None
    BY <1>0, <1>a, <1>2 DEF TakeCommit, At, StillSo
  <2>2. State(t) \in {"absent", "failed"}
    BY <1>0, <2>1 DEF RowOk, Tenant, Open, State, JobRow
  <2>3. /\ tenants'[t].status = "provisioning" /\ tenants'[t].db = tenants[t].db
        /\ building'[t] # None /\ jobs'[t] = jobs[t]
    BY <1>0, <1>a, <1>2 DEF TakeCommit, TypeOK, TenantRow
  <2>4. Promise!Take(t)
    BY <1>0, <2>1, <2>2, <2>3, Shown DEF Promise!Take, Promise!Free, State
  <2>. QED  BY <2>4 DEF Promised, Promise!Next
<1>3. CASE BuildCommit(w)
  <2>1. building[t] # None /\ building'[t] = None /\ jobs'[t] = jobs[t]
        /\ tenants'[t] = Built(tenants[t], worker[w].want)
    BY <1>0, <1>a, <1>3 DEF BuildCommit, At, StillSo, TypeOK
  <2>2. \/ tenants'[t].status = "ready" /\ tenants'[t].db = "provisioned"
        \/ tenants'[t].status = "failed" /\ tenants'[t].db = tenants[t].db
    BY <1>0, <2>1 DEF Built, TenantRow
  <2>3. Promise!Build(t)
    BY <1>0, <2>1, <2>2, Shown DEF Promise!Build
  <2>. QED  BY <2>3 DEF Promised, Promise!Next
<1>. QED  BY <1>1, <1>2, <1>3

LEMMA ClaimPromised ==
  ASSUME TablesInv, NEW w \in Workers, ClaimStep(w)
  PROVE  Promised
<1>0. TypeOK
  BY DEF TablesInv, DoneInv
<1>1. ASSUME NEW t \in Tenants, NEW from, NEW to,
             jobs'[t].state = to, State(t) \in from,
             \A u \in Tenants : u # t => jobs'[u].state = jobs[u].state,
             UNCHANGED <<tenants, building, identity>>
      PROVE  Promise!Move(t, from, to)
  BY <1>1, Shown DEF Promise!Move, State
<1>2. ASSUME NEW t \in Tenants, ExpireLease(w, t)
      PROVE  Promised
  <2>1. /\ jobs'[t] = Requeued(jobs[t]) /\ UNCHANGED <<tenants, building, identity>>
        /\ jobs[t] \in JobRow
        /\ \A u \in Tenants : u # t => jobs'[u] = jobs[u]
    BY <1>0, <1>2 DEF ExpireLease, TypeOK
  <2>2. CASE InFlight(t)
    <3>1. jobs'[t].state = "queued"
      BY <2>1, <2>2 DEF Requeued, JobRow, InFlight, State
    <3>2. Promise!TryAgain(t)
      BY <1>1, <2>1, <2>2, <3>1 DEF Promise!TryAgain, InFlight
    <3>. QED  BY <3>2 DEF Promised, Promise!Next
  <2>3. CASE ~InFlight(t)
    <3>1. jobs' = jobs
      <4>1. jobs'[t] = jobs[t]
        BY <2>1, <2>3 DEF Requeued, InFlight, State
      <4>. QED  BY <1>0, <1>2, <2>1, <4>1 DEF ExpireLease, TypeOK
    <3>. QED  BY <2>1, <3>1, Unseen
  <2>. QED  BY <2>2, <2>3
<1>3. CASE Dispatch(w) /\ jobs' # jobs
  <2>1. PICK t \in Tenants : t = worker[w].job
    BY <1>0, <1>3 DEF Dispatch, TypeOK, At, Local, Assigned
  <2>2. /\ State(t) = "queued" /\ jobs'[t] = Dispatched(jobs[t]) /\ jobs[t] \in JobRow
        /\ \A u \in Tenants : u # t => jobs'[u] = jobs[u]
        /\ UNCHANGED <<tenants, building, identity>>
    BY <1>0, <1>3, <2>1 DEF Dispatch, TypeOK
  <2>3. jobs'[t].state = "dispatched"
    BY <2>2 DEF Dispatched, JobRow
  <2>4. Promise!Dispatch(t)
    BY <1>1, <2>2, <2>3 DEF Promise!Dispatch
  <2>. QED  BY <2>4 DEF Promised, Promise!Next
<1>. QED  BY <1>2, <1>3, Unseen
          DEF ClaimStep, TakeLease, TakeNothing, Dispatch, LoseClaim, Withdraw, tables, rows

LEMMA ReportPromised ==
  ASSUME TablesInv, RunsInv, NEW w \in Workers, ReportStep(w)
  PROVE  Promised
<1>1. CASE CheckLease(w) \/ Replay(w)
  BY <1>1, Unseen DEF CheckLease, Replay, tables, rows
<1>2. CASE CommitRunning(w) \/ CommitFailed(w) \/ CommitValidated(w)
  <2>a. PICK t \in Tenants, n \in Nodes : t = worker[w].job /\ n = worker[w].node
    BY <1>2 DEF TablesInv, DoneInv, TypeOK, CommitRunning, CommitFailed, CommitValidated, At,
       Local, Assigned, ReportPCs
  <2>0. /\ TypeOK /\ jobs[t] \in JobRow /\ tenants[t] \in TenantRow
        /\ RowOk(t) /\ InFlight(t) /\ UNCHANGED building
        /\ \A u \in Tenants : u # t =>
             /\ jobs'[u].state = jobs[u].state /\ tenants'[u] = tenants[u] /\ building'[u] = building[u]
    <3>1. TypeOK
      BY DEF TablesInv, DoneInv
    <3>2. InFlight(t)
      BY <1>2, <2>a DEF TablesInv, StillSo, CommitRunning, CommitFailed, CommitValidated, At
    <3>3. UNCHANGED building /\ \A u \in Tenants : u # t => jobs'[u] = jobs[u] /\ tenants'[u] = tenants[u]
      BY <1>2, <2>a, <3>1 DEF CommitRunning, CommitFailed, CommitValidated, TypeOK
    <3>. QED  BY <3>1, <3>2, <3>3 DEF TypeOK, TablesInv
  <2>1. tenants[t] = Tenant("provisioning", jobs[t].node, "restored")
    BY <2>0 DEF RowOk, InFlight, Open
  <2>2. CASE CommitRunning(w)
    <3>1. jobs'[t].state = "running" /\ UNCHANGED <<tenants, identity>>
      BY <2>0, <2>2, <2>a DEF CommitRunning, Ended, InFlight, State, JobRow, TypeOK
    <3>2. CASE State(t) = "dispatched"
      <4>1. Promise!Start(t)
        BY <2>0, <3>1, <3>2, Shown DEF Promise!Start, Promise!Move, State
      <4>. QED  BY <4>1 DEF Promised, Promise!Next
    <3>3. CASE State(t) = "running"
      BY <2>0, <3>1, <3>3, Shown DEF Promised, Promise!vars, State
    <3>. QED  BY <2>0, <3>2, <3>3 DEF InFlight
  <2>3. CASE CommitFailed(w)
    <3>1. State(t) = "running"
      BY <2>3, <2>a DEF RunsInv, WorkerRuns, CommitFailed, At
    <3>2. jobs'[t].state = "failed" /\ tenants'[t] = Tenant("failed", None, None) /\ UNCHANGED identity
      BY <2>0, <2>3, <2>a, <3>1 DEF CommitFailed, Ended, AfterFailure, State, JobRow, TypeOK
    <3>3. tenants'[t].status = "failed" /\ tenants'[t].db = None
      BY <3>2 DEF Tenant
    <3>4. Promise!GiveUp(t)
      BY <2>0, <3>1, <3>2, <3>3, Shown DEF Promise!GiveUp, State
    <3>. QED  BY <3>4 DEF Promised, Promise!Next
  <2>4. CASE CommitValidated(w)
    <3>1. State(t) = "running"
      BY <2>4, <2>a DEF RunsInv, WorkerRuns, CommitValidated, At
    <3>2. /\ jobs'[t].state = "validated" /\ identity' = identity \cup {t}
          /\ tenants'[t] = Tenant("ready", n, "restored")
      BY <2>0, <2>4, <2>a, <3>1 DEF CommitValidated, Ended, Materialized, State, JobRow, TypeOK
    <3>3. tenants'[t].status = "ready" /\ tenants'[t].db = tenants[t].db
      BY <2>1, <3>2 DEF Tenant
    <3>4. Promise!Validate(t)
      BY <2>0, <3>1, <3>2, <3>3, Shown DEF Promise!Validate, State
    <3>. QED  BY <3>4 DEF Promised, Promise!Next
  <2>. QED  BY <1>2, <2>2, <2>3, <2>4
<1>. QED  BY <1>1, <1>2 DEF ReportStep

LEMMA PromisedStep == TablesInv /\ RunsInv /\ [Next]_vars => Promised
<1>. SUFFICES ASSUME TablesInv, RunsInv, [Next]_vars PROVE Promised
  OBVIOUS
<1>1. CASE AdminRequest \/ UNCHANGED vars
  BY <1>1, Unseen DEF AdminRequest, CreateRead, TakeRead, BuildReport, RevokeNode, tables, rows, vars
<1>2. ASSUME NEW w \in Workers, WorkerStep(w)
      PROVE  Promised
  BY <1>2, AdminPromised, ClaimPromised, ReportPromised DEF WorkerStep
<1>3. ASSUME NEW w \in Workers, WorkerFails(w)
      PROVE  Promised
  BY <1>3, Unseen DEF WorkerFails, rows
<1>4. ASSUME NEW t \in Tenants, LeaseLapses(t)
      PROVE  Promised
  BY <1>4, Unseen DEF LeaseLapses, rows
<1>5. ASSUME NEW n \in Nodes, AgentRequest(n) \/ CallHelper(n) \/ NodeFault(n)
      PROVE  Promised
  BY <1>5, Unseen DEF AgentRequest, Poll, SendReport, CallHelper, NodeFault, ReplyLost, AgentRestarts,
     DownloadFails, HelperTimesOut, HelperCrashes, tables, rows
<1>6. ASSUME NEW n \in Nodes, HelperStep(n)
      PROVE  Promised
  BY <1>6, Unseen DEF HelperStep, ServeCall, AnswerReplay, AnswerConflict, ExtractFiles, LoadDatabase,
     WriteMarker, PublishFiles, StageFails, Answer, Reach, tables, rows
<1>. QED  BY <1>1, <1>2, <1>3, <1>4, <1>5, <1>6 DEF Next

(* As long as invocations do not overlap, restoring implements             *)
(* TenantRestore: a restore, its tenant and what a cleanup accepts move in *)
(* one step, only as it promises, however the protocol below them fails.   *)
THEOREM RestoreRefines == Spec /\ []Serial => ImplementsTenantRestore
<1>1. Init => Promise!Init
  BY DEF Init, Promise!Init, restores, statuses, databases, taken, NoJob, Tenant
<1>2. Init => LiveHasToken
  BY DEF Init, LiveHasToken, NoLease
<1>3. TablesInv => TypeOK
  BY DEF TablesInv, DoneInv
<1>. QED  BY <1>1, <1>2, <1>3, TablesInit, TablesStep, LiveStep, RunsInit, RunsStep, PromisedStep, PTL
          DEF Spec, ImplementsTenantRestore, Promise!Spec, Promised
=============================================================================
