---------------------------- MODULE BackupProofs ----------------------------
(* Proofs about Backup, for all values of its constants. *)
EXTENDS Backup, TLAPS

LEMMA OpTypes ==
  /\ \A op \in Ops : Family(op) \in Families /\ BackupOf(op) \in Backups
  /\ \A op \in Ops : /\ Family(op) = "backup" <=> op = Dump(BackupOf(op))
                     /\ Family(op) = "upload" <=> op = Upload(BackupOf(op))
  /\ \A b \in Backups : /\ Dump(b) \in Ops /\ Family(Dump(b)) = "backup" /\ BackupOf(Dump(b)) = b
                        /\ Upload(b) \in Ops /\ Family(Upload(b)) = "upload" /\ BackupOf(Upload(b)) = b
  /\ \A b, c \in Backups : Dump(b) # Upload(c)
BY DEF Ops, Families, Family, BackupOf, Dump, Upload

-----------------------------------------------------------------------------
(* Type correctness *)

(* What the agent does with an answer leaves it a well-formed agent. *)
LEMMA AgentTypes ==
  /\ IdleAgent \in Agent
  /\ \A a \in Agent : AfterAccept(a) \in Agent /\ AfterReject(a) \in Agent
  /\ \A op \in Ops, k \in 0..MaxTokens : Claimant(op, k) \in Agent
<1>. USE RuntimeAssumption
<1>1. IdleAgent \in Agent
  BY DEF IdleAgent, Agent
<1>2. ASSUME NEW a \in Agent PROVE AfterAccept(a) \in Agent /\ AfterReject(a) \in Agent
  BY <1>1 DEF AfterAccept, AfterReject, Agent
<1>3. ASSUME NEW op \in Ops, NEW k \in 0..MaxTokens PROVE Claimant(op, k) \in Agent
  BY DEF Claimant, Agent
<1>. QED  BY <1>1, <1>2, <1>3

LEMMA DeliverTypes ==
  ASSUME TypeOK, NEW w \in Workers
  PROVE  /\ \A a \in Agent : Deliver(w, a) => agents' \in [Nodes -> Agent]
         /\ DeliverEach(w, AfterReject) => agents' \in [Nodes -> Agent]
         /\ DeliverEach(w, AfterAccept) => agents' \in [Nodes -> Agent]
BY AgentTypes DEF TypeOK, Deliver, DeliverEach

LEMMA IdleTypes == Idle \in Local /\ NoLease \in LeaseRow
BY RuntimeAssumption DEF Idle, Handler, Local, Assigned, PCs, ClaimPCs, ReportPCs, UploadPCs,
   DumpPCs, NoLease, LeaseRow

LEMMA FinishTypes ==
  ASSUME TypeOK, NEW w \in Workers, Finish(w)
  PROVE  worker' \in [Workers -> Local]
BY IdleTypes DEF TypeOK, Finish

LEMMA RowTypes ==
  /\ \A l \in LeaseRow : Renewed(l) \in LeaseRow
  /\ \A l \in LeaseRow, s \in Results \cup {"running"} : LeaseAfter(l, s) \in LeaseRow
  /\ \A row \in BackupRow : FailedIfInFlight(row) \in BackupRow /\ Dispatched(row) \in BackupRow
  /\ \A row \in BackupRow, k \in 0..MaxTokens : Verified(row, k) \in BackupRow
  /\ \A row \in BackupRow, s \in {"running", "failed", "prepared"} : Advanced(row, s) \in BackupRow
<1>1. \A l \in LeaseRow : Renewed(l) \in LeaseRow
  BY DEF Renewed, LeaseRow
<1>2. \A l \in LeaseRow, s \in Results \cup {"running"} : LeaseAfter(l, s) \in LeaseRow
  BY <1>1, IdleTypes DEF LeaseAfter
<1>3. \A row \in BackupRow : FailedIfInFlight(row) \in BackupRow /\ Dispatched(row) \in BackupRow
  BY DEF FailedIfInFlight, Dispatched, BackupRow, BackupStates
<1>4. \A row \in BackupRow, k \in 0..MaxTokens : Verified(row, k) \in BackupRow
  BY DEF Verified, BackupRow, BackupStates
<1>5. \A row \in BackupRow, s \in {"running", "failed", "prepared"} : Advanced(row, s) \in BackupRow
  BY DEF Advanced, BackupRow, BackupStates
<1>. QED  BY <1>1, <1>2, <1>3, <1>4, <1>5

LEMMA InitType == Init => TypeOK
<1>. SUFFICES ASSUME Init PROVE TypeOK
  OBVIOUS
<1>1. NoBackup \in BackupRow
  BY RuntimeAssumption DEF NoBackup, BackupRow, BackupStates
<1>. QED  BY <1>1, AgentTypes, IdleTypes, RuntimeAssumption DEF Init, TypeOK

(* A handler goes on at one of the calls that may follow. *)
LEMMA GotoTypes ==
  ASSUME NEW l \in Local
  PROVE  /\ l.pc = "expire" => [l EXCEPT !.pc = "next"] \in Local
         /\ l.pc = "source" => \A pc \in {"dispatch", "withdraw"} : [l EXCEPT !.pc = pc] \in Local
         /\ l.pc = "route" /\ l.want \in Understood(TRUE) =>
              \A pc \in {"upload", "replayVerified"} : [l EXCEPT !.pc = pc] \in Local
         /\ l.pc = "route" /\ l.want \in Understood(FALSE) => [l EXCEPT !.pc = "lease"] \in Local
         /\ l.pc = "replayVerified" => [l EXCEPT !.pc = "upload"] \in Local
         /\ l.pc = "upload" => /\ [l EXCEPT !.pc = "discard"] \in Local
                               /\ l.want = "running" => [l EXCEPT !.pc = "extend"] \in Local
                               /\ l.want = "failed" => [l EXCEPT !.pc = "release"] \in Local
                               /\ l.want = "verified" => [l EXCEPT !.pc = "stored"] \in Local
         /\ l.pc = "stored" => [l EXCEPT !.pc = "verify"] \in Local
         /\ l.pc = "lease" => /\ [l EXCEPT !.pc = "state"] \in Local
                              /\ l.want = "prepared" => [l EXCEPT !.pc = "replayPrepared"] \in Local
         /\ l.pc = "state" => /\ l.want = "running" => [l EXCEPT !.pc = "renew"] \in Local
                              /\ [l EXCEPT !.pc = "commit"] \in Local
<1>. USE DEF Local, Assigned, PCs, ClaimPCs, ReportPCs, UploadPCs, DumpPCs
<1>1. l.pc = "expire" => [l EXCEPT !.pc = "next"] \in Local
  OBVIOUS
<1>2. l.pc = "source" => \A pc \in {"dispatch", "withdraw"} : [l EXCEPT !.pc = pc] \in Local
  OBVIOUS
<1>3. l.pc = "route" /\ l.want \in Understood(TRUE) =>
        \A pc \in {"upload", "replayVerified"} : [l EXCEPT !.pc = pc] \in Local
  BY DEF Understood
<1>4. l.pc = "route" /\ l.want \in Understood(FALSE) => [l EXCEPT !.pc = "lease"] \in Local
  BY DEF Understood
<1>5. l.pc = "replayVerified" => [l EXCEPT !.pc = "upload"] \in Local
  OBVIOUS
<1>6. l.pc = "upload" => /\ [l EXCEPT !.pc = "discard"] \in Local
                         /\ l.want = "running" => [l EXCEPT !.pc = "extend"] \in Local
                         /\ l.want = "failed" => [l EXCEPT !.pc = "release"] \in Local
                         /\ l.want = "verified" => [l EXCEPT !.pc = "stored"] \in Local
  OBVIOUS
<1>7. l.pc = "stored" => [l EXCEPT !.pc = "verify"] \in Local
  OBVIOUS
<1>8. l.pc = "lease" => /\ [l EXCEPT !.pc = "state"] \in Local
                        /\ l.want = "prepared" => [l EXCEPT !.pc = "replayPrepared"] \in Local
  OBVIOUS
<1>9. l.pc = "state" => /\ l.want = "running" => [l EXCEPT !.pc = "renew"] \in Local
                        /\ [l EXCEPT !.pc = "commit"] \in Local
  OBVIOUS
<1>. QED  BY <1>1, <1>2, <1>3, <1>4, <1>5, <1>6, <1>7, <1>8, <1>9

(* Every step of a claim. *)
LEMMA ClaimType ==
  ASSUME TypeOK, NEW w \in Workers, ClaimStep(w)
  PROVE  TypeOK'
<1>. USE RuntimeAssumption, BackupAssumption
<1>a. worker[w] \in Local
  BY DEF TypeOK
<1>1. ASSUME NEW op \in Ops, ExpireLease(w, op)
      PROVE  TypeOK'
  <2>1. [worker[w] EXCEPT !.work = @ \ {op}] \in Local
    BY <1>a DEF Local, Assigned
  <2>2. worker' \in [Workers -> Local]
    BY <1>1, <2>1 DEF ExpireLease, TypeOK
  <2>3. backups' \in [Backups -> BackupRow]
    BY <1>1, OpTypes, RowTypes DEF ExpireLease, TypeOK
  <2>4. leases' \in [Ops -> LeaseRow]
    BY <1>1, IdleTypes DEF ExpireLease, TypeOK
  <2>. QED  BY <1>1, <2>2, <2>3, <2>4 DEF ExpireLease, disks, TypeOK
<1>2. ASSUME NEW op \in Ops, TakeLease(w, op)
      PROVE  TypeOK'
  <2>1. tokens + 1 \in 0..MaxTokens
    BY <1>2 DEF TakeLease, Lease, TypeOK
  <2>2. NewLease(tokens + 1) \in LeaseRow
    BY <2>1 DEF NewLease, LeaseRow
  <2>3. [worker[w] EXCEPT !.pc = "source", !.job = op, !.token = tokens + 1] \in Local
    BY <1>a, <1>2, <2>1 DEF TakeLease, At, Local, Assigned, PCs, ClaimPCs, ReportPCs, UploadPCs, DumpPCs
  <2>4. worker' \in [Workers -> Local]
    BY <1>2, <2>3 DEF TakeLease, Lease, TypeOK
  <2>5. leases' \in [Ops -> LeaseRow]
    BY <1>2, <2>2 DEF TakeLease, Lease, TypeOK
  <2>. QED  BY <1>2, <2>1, <2>4, <2>5 DEF TakeLease, Lease, disks, TypeOK
<1>3. ASSUME NextFamily(w)
      PROVE  TypeOK'
  <2>1. Expired("backup", worker[w].node) \in SUBSET Ops
    BY DEF Expired
  <2>2. [worker[w] EXCEPT !.pc = "expire", !.want = "backup",
                          !.work = Expired("backup", worker[w].node)] \in Local
    BY <1>a, <1>3, <2>1 DEF NextFamily, At, Local, Assigned, Families, PCs, ClaimPCs, ReportPCs,
       UploadPCs, DumpPCs
  <2>. QED  BY <1>3, <2>2 DEF NextFamily, tables, disks, TypeOK
<1>4. ASSUME TakeNothing(w)
      PROVE  TypeOK'
  BY <1>4, <1>a, GotoTypes, FinishTypes, DeliverTypes, AgentTypes
     DEF TakeNothing, Goto, At, tables, disks, TypeOK
<1>5. ASSUME ReadSource(w)
      PROVE  TypeOK'
  BY <1>5, <1>a, GotoTypes DEF ReadSource, Goto, At, tables, disks, TypeOK
<1>6. ASSUME Withdraw(w)
      PROVE  TypeOK'
  BY <1>6, FinishTypes, DeliverTypes, AgentTypes, IdleTypes DEF Withdraw, disks, TypeOK
<1>7. ASSUME Dispatch(w)
      PROVE  TypeOK'
  <2>. DEFINE op == worker[w].job
  <2>1. op \in Ops /\ worker[w].token \in 0..MaxTokens
    BY <1>7, <1>a DEF Dispatch, At, Local, Assigned
  <2>2. backups' \in [Backups -> BackupRow]
    BY <1>7, <2>1, OpTypes, RowTypes DEF Dispatch, TypeOK
  <2>3. agents' \in [Nodes -> Agent]
    BY <1>7, <2>1, AgentTypes, DeliverTypes DEF Dispatch
  <2>. QED  BY <1>7, <2>2, <2>3, FinishTypes DEF Dispatch, disks, TypeOK
<1>. QED  BY <1>1, <1>2, <1>3, <1>4, <1>5, <1>6, <1>7 DEF ClaimStep

(* Accepting and refusing a report. *)
LEMMA AnswerTypes ==
  ASSUME TypeOK, NEW w \in Workers
  PROVE  /\ Reject(w) => agents' \in [Nodes -> Agent] /\ worker' \in [Workers -> Local]
         /\ Settle(w) => /\ agents' \in [Nodes -> Agent]
                         /\ worker' \in [Workers -> Local]
                         /\ copies' \in SUBSET Backups
                         /\ objects' = objects
<1>1. Reject(w) => agents' \in [Nodes -> Agent] /\ worker' \in [Workers -> Local]
  BY DeliverTypes, FinishTypes DEF Reject
<1>2. Accept(w) => agents' \in [Nodes -> Agent] /\ worker' \in [Workers -> Local]
  BY DeliverTypes, FinishTypes DEF Accept
<1>3. Settle(w) => copies' \in SUBSET Backups /\ objects' = objects
  BY DEF Settle, TypeOK
<1>. QED  BY <1>1, <1>2, <1>3 DEF Settle

(* What a handler knows of its request while it deals with a report. *)
LEMMA Reporting ==
  ASSUME TypeOK, NEW w \in Workers, worker[w].pc \in ReportPCs
  PROVE  /\ worker[w] \in Local
         /\ worker[w].job \in Ops
         /\ BackupOf(worker[w].job) \in Backups
         /\ worker[w].want \in Results \cup {"running"}
         /\ worker[w].token \in 0..MaxTokens
<1>1. worker[w] \in Local
  BY DEF TypeOK
<1>. QED  BY <1>1, OpTypes DEF Local, Assigned

LEMMA UploadType ==
  ASSUME TypeOK, NEW w \in Workers, UploadReport(w)
  PROVE  TypeOK'
<1>. DEFINE b == BackupOf(worker[w].job)
<1>a. worker[w].pc \in UploadPCs
  BY DEF UploadReport, ReplayVerified, CheckUpload, DiscardLease, ExtendUpload, ReleaseUpload,
         CheckStored, CommitVerified, At, UploadPCs
<1>b. /\ worker[w] \in Local /\ b \in Backups /\ worker[w].want \in Results \cup {"running"}
      /\ worker[w].token \in 0..MaxTokens
  BY <1>a, Reporting DEF ReportPCs
<1>c. Upload(b) \in Ops
  BY <1>b, OpTypes
<1>d. worker[w].want # "prepared"
  BY <1>a, <1>b DEF Local, Assigned
<1>1. CASE ReplayVerified(w)
  BY <1>1, <1>b, AnswerTypes, GotoTypes DEF ReplayVerified, Goto, At, tables, disks, TypeOK
<1>2. CASE CheckUpload(w)
  <2>1. worker' \in [Workers -> Local] /\ agents' \in [Nodes -> Agent]
    BY <1>2, <1>b, <1>d, AnswerTypes, GotoTypes DEF CheckUpload, Goto, At, Results, TypeOK
  <2>. QED  BY <1>2, <2>1 DEF CheckUpload, tables, disks, TypeOK
<1>3. CASE DiscardLease(w)
  BY <1>3, <1>c, IdleTypes, AnswerTypes DEF DiscardLease, disks, TypeOK
<1>4. CASE ExtendUpload(w)
  BY <1>4, <1>c, RowTypes, AnswerTypes DEF ExtendUpload, TypeOK
<1>5. CASE ReleaseUpload(w)
  BY <1>5, <1>c, IdleTypes, AnswerTypes DEF ReleaseUpload, TypeOK
<1>6. CASE CheckStored(w)
  BY <1>6, <1>b, AnswerTypes, GotoTypes DEF CheckStored, Goto, At, tables, disks, TypeOK
<1>7. CASE CommitVerified(w)
  <2>1. backups' \in [Backups -> BackupRow]
    BY <1>7, <1>b, RowTypes DEF CommitVerified, TypeOK
  <2>. QED  BY <1>7, <1>c, <2>1, IdleTypes, AnswerTypes DEF CommitVerified, TypeOK
<1>. QED  BY <1>1, <1>2, <1>3, <1>4, <1>5, <1>6, <1>7 DEF UploadReport

LEMMA DumpType ==
  ASSUME TypeOK, NEW w \in Workers, DumpReport(w) \/ Route(w)
  PROVE  TypeOK'
<1>. DEFINE b == BackupOf(worker[w].job)
<1>a. worker[w].pc \in DumpPCs \cup {"route"}
  BY DEF DumpReport, CheckLease, ReplayPrepared, CheckState, RenewLease, CommitReport, Route,
         At, DumpPCs
<1>b. /\ worker[w] \in Local /\ b \in Backups /\ worker[w].want \in Results \cup {"running"}
  BY <1>a, Reporting DEF ReportPCs
<1>c. Dump(b) \in Ops
  BY <1>b, OpTypes
<1>1. CASE Route(w)
  BY <1>1, <1>b, AnswerTypes, GotoTypes DEF Route, Goto, At, Understood, tables, disks, TypeOK
<1>2. CASE CheckLease(w)
  BY <1>2, <1>b, AnswerTypes, GotoTypes DEF CheckLease, Goto, At, tables, disks, TypeOK
<1>3. CASE ReplayPrepared(w)
  BY <1>3, AnswerTypes DEF ReplayPrepared, tables, disks, TypeOK
<1>4. CASE CheckState(w)
  BY <1>4, <1>b, AnswerTypes, GotoTypes DEF CheckState, Goto, At, tables, disks, TypeOK
<1>5. CASE RenewLease(w)
  BY <1>5, <1>c, RowTypes, AnswerTypes DEF RenewLease, TypeOK
<1>6. CASE CommitReport(w)
  <2>1. worker[w].want \in {"running", "failed", "prepared"}
    BY <1>6, <1>b DEF CommitReport, At, Local, Assigned, DumpPCs, Results
  <2>2. backups' \in [Backups -> BackupRow]
    BY <1>6, <1>b, <2>1, RowTypes DEF CommitReport, TypeOK
  <2>3. leases' \in [Ops -> LeaseRow]
    BY <1>6, <1>b, <1>c, RowTypes DEF CommitReport, TypeOK
  <2>. QED  BY <1>6, <2>2, <2>3, AnswerTypes DEF CommitReport, TypeOK
<1>. QED  BY <1>1, <1>2, <1>3, <1>4, <1>5, <1>6 DEF DumpReport

(* The agents' steps, and those of the admin and the environment. *)
LEMMA AgentType ==
  ASSUME TypeOK, NEW n \in Nodes, AgentRequest(n) \/ AgentFault(n) \/ ExecutorReturns(n)
  PROVE  TypeOK'
<1>. USE RuntimeAssumption, BackupAssumption
<1>a. agents[n] \in Agent
  BY DEF TypeOK
<1>b. \A w \in Workers : [agents[n] EXCEPT !.wait = w] \in Agent
  BY <1>a DEF Agent
<1>1. ASSUME NEW w \in Workers, Poll(w, n)
      PROVE  TypeOK'
  <2>1. Expired("upload", n) \in SUBSET Ops
    BY DEF Expired
  <2>2. [Handler("expire", n, None, 0, "upload") EXCEPT !.work = Expired("upload", n)] \in Local
    BY <2>1 DEF Handler, Local, Assigned, Families, PCs, ClaimPCs, ReportPCs, UploadPCs, DumpPCs
  <2>. QED  BY <1>1, <1>b, <2>2 DEF Poll, Request, Begin, disks, TypeOK
<1>2. ASSUME NEW w \in Workers, SendReport(w, n)
      PROVE  TypeOK'
  <2>1. /\ agents[n].job \in Ops
        /\ agents[n].token \in 0..MaxTokens
        /\ Reported(agents[n]) \in Results \cup {"running"}
    BY <1>a, <1>2 DEF SendReport, Report, Reported, Agent
  <2>2. Handler("route", n, agents[n].job, agents[n].token, Reported(agents[n])) \in Local
    BY <2>1 DEF Handler, Local, Assigned, PCs, ClaimPCs, ReportPCs, UploadPCs, DumpPCs
  <2>. QED  BY <1>2, <1>b, <2>2 DEF SendReport, Report, Begin, disks, TypeOK
<1>3. CASE AgentFault(n)
  BY <1>3, <1>a, AgentTypes DEF AgentFault, ReplyLost, LoseReply, AgentRestarts, Restart, Fault,
     disks, TypeOK
<1>4. ASSUME NEW r \in {"prepared", "failed"}, DumpReturns(n, r)
      PROVE  TypeOK'
  <2>1. /\ [agents[n] EXCEPT !.result = r] \in Agent
        /\ BackupOf(agents[n].job) \in Backups
    BY <1>a, <1>4, OpTypes DEF DumpReturns, Return, Agent, Results
  <2>. QED  BY <1>4, <2>1 DEF DumpReturns, Return, TypeOK
<1>5. ASSUME NEW r \in {"verified", "failed"}, UploadReturns(n, r)
      PROVE  TypeOK'
  <2>1. /\ [agents[n] EXCEPT !.result = r] \in Agent
        /\ BackupOf(agents[n].job) \in Backups
        /\ agents[n].token \in 0..MaxTokens
    BY <1>a, <1>5, OpTypes DEF UploadReturns, Return, Agent, Results
  <2>2. objects' \in SUBSET (Backups \X (0..MaxTokens))
    BY <1>5, <2>1 DEF UploadReturns, TypeOK
  <2>. QED  BY <1>5, <2>1, <2>2 DEF UploadReturns, Return, Fault, TypeOK
<1>. QED  BY <1>1, <1>2, <1>3, <1>4, <1>5 DEF AgentRequest, ExecutorReturns

LEMMA EnvironmentType ==
  ASSUME TypeOK,
         \/ AdminRequest
         \/ \E op \in Ops : LeaseLapses(op)
         \/ \E w \in Workers : WorkerFails(w)
  PROVE  TypeOK'
<1>. USE RuntimeAssumption, BackupAssumption
<1>1. ASSUME NEW b \in Backups, NEW n \in Nodes, CreateBackupJob(b, n)
      PROVE  TypeOK'
  <2>1. [state |-> "queued", node |-> n, version |-> 0] \in BackupRow
    BY DEF BackupRow, BackupStates
  <2>. QED  BY <1>1, <2>1 DEF CreateBackupJob, disks, TypeOK
<1>2. ASSUME NEW n \in Nodes, RevokeNode(n)
      PROVE  TypeOK'
  BY <1>2 DEF RevokeNode, Revoke, Fault, disks, TypeOK
<1>3. ASSUME NEW op \in Ops, LeaseLapses(op)
      PROVE  TypeOK'
  <2>1. [leases[op] EXCEPT !.live = FALSE] \in LeaseRow
    BY DEF TypeOK, LeaseRow
  <2>. QED  BY <1>3, <2>1 DEF LeaseLapses, Lapse, Fault, disks, TypeOK
<1>4. ASSUME NEW w \in Workers, WorkerFails(w)
      PROVE  TypeOK'
  BY <1>4, FinishTypes, DeliverTypes DEF WorkerFails, Abort, Fault, disks, TypeOK
<1>. QED  BY <1>1, <1>2, <1>3, <1>4 DEF AdminRequest

LEMMA StepType == TypeOK /\ [Next]_vars => TypeOK'
<1>. SUFFICES ASSUME TypeOK, [Next]_vars PROVE TypeOK'
  OBVIOUS
<1>1. CASE UNCHANGED vars
  BY <1>1 DEF vars, TypeOK
<1>2. CASE Next
  BY <1>2, ClaimType, UploadType, DumpType, AgentType, EnvironmentType DEF Next, WorkerStep
<1>. QED  BY <1>1, <1>2

(* Every row, lease, handler and agent keeps its type: in particular no    *)
(* handler of a backup reaches a database call with a result that its own  *)
(* parser does not accept.                                                 *)
THEOREM TypeCorrect == Spec => []TypeOK
BY InitType, StepType, PTL DEF Spec

-----------------------------------------------------------------------------
(* The order of states *)

Follows(old, new) == new.state # old.state => new.state \in Successors[old.state]

(* What each UPDATE makes of the state. *)
LEMMA RowStates ==
  /\ \A row \in BackupRow : /\ FailedIfInFlight(row).state =
                                 IF row.state \in {"dispatched", "running"} THEN "failed" ELSE row.state
                            /\ Dispatched(row).state =
                                 IF row.state = "queued" THEN "dispatched" ELSE row.state
  /\ \A row \in BackupRow, k \in 0..MaxTokens :
       Verified(row, k).state = IF row.state = "prepared" THEN "verified" ELSE row.state
  /\ \A row \in BackupRow, s \in {"running", "failed", "prepared"} :
       Advanced(row, s).state = IF row.state \in Precursors[s] THEN s ELSE row.state
<1>1. \A row \in BackupRow : /\ FailedIfInFlight(row).state =
                                  IF row.state \in {"dispatched", "running"} THEN "failed" ELSE row.state
                             /\ Dispatched(row).state =
                                  IF row.state = "queued" THEN "dispatched" ELSE row.state
  BY DEF FailedIfInFlight, Dispatched, BackupRow
<1>2. \A row \in BackupRow, k \in 0..MaxTokens :
        Verified(row, k).state = IF row.state = "prepared" THEN "verified" ELSE row.state
  BY DEF Verified, BackupRow
<1>3. \A row \in BackupRow, s \in {"running", "failed", "prepared"} :
        Advanced(row, s).state = IF row.state \in Precursors[s] THEN s ELSE row.state
  BY DEF Advanced, BackupRow
<1>. QED  BY <1>1, <1>2, <1>3

(* It takes a row to a successor or leaves its state alone. *)
LEMMA RowFollows ==
  /\ \A row \in BackupRow : Follows(row, FailedIfInFlight(row)) /\ Follows(row, Dispatched(row))
  /\ \A row \in BackupRow, k \in 0..MaxTokens : Follows(row, Verified(row, k))
  /\ \A row \in BackupRow, s \in {"running", "failed", "prepared"} : Follows(row, Advanced(row, s))
<1>4. \A row \in BackupRow : row.state \in BackupStates
  BY DEF BackupRow
<1>5. \A row \in BackupRow : Follows(row, FailedIfInFlight(row)) /\ Follows(row, Dispatched(row))
  BY RowStates, <1>4 DEF Follows, Successors
<1>6. \A row \in BackupRow, k \in 0..MaxTokens : Follows(row, Verified(row, k))
  BY RowStates, <1>4 DEF Follows, Successors
<1>7. \A row \in BackupRow, s \in {"running", "failed", "prepared"} : Follows(row, Advanced(row, s))
  <2>. SUFFICES ASSUME NEW row \in BackupRow, NEW s \in {"running", "failed", "prepared"},
                       row.state \in Precursors[s]
                PROVE  s \in Successors[row.state]
    BY RowStates DEF Follows
  <2>. QED  BY <1>4 DEF Successors, Precursors
<1>. QED  BY <1>5, <1>6, <1>7

(* One step changes the rows as their operators do. *)
LEMMA StateStep ==
  ASSUME TypeOK, [Next]_vars
  PROVE  \A b \in Backups : Follows(backups[b], backups'[b])
<1>. SUFFICES ASSUME NEW c \in Backups PROVE Follows(backups[c], backups'[c])
  OBVIOUS
<1>a. backups \in [Backups -> BackupRow]
  BY DEF TypeOK
<1>1. ASSUME backups' = backups
      PROVE  Follows(backups[c], backups'[c])
  BY <1>1 DEF Follows
<1>2. ASSUME NEW b \in Backups, NEW n \in Nodes, CreateBackupJob(b, n)
      PROVE  Follows(backups[c], backups'[c])
  BY <1>2, <1>a DEF CreateBackupJob, Follows, State, Successors
<1>3. ASSUME NEW w \in Workers, NEW op \in Ops, ExpireLease(w, op)
      PROVE  Follows(backups[c], backups'[c])
  BY <1>1, <1>3, <1>a, OpTypes, RowFollows DEF ExpireLease, Follows
<1>4. ASSUME NEW w \in Workers, Dispatch(w)
      PROVE  Follows(backups[c], backups'[c])
  BY <1>1, <1>4, <1>a, RowFollows DEF Dispatch, Follows
<1>5. ASSUME NEW w \in Workers, CommitVerified(w)
      PROVE  Follows(backups[c], backups'[c])
  <2>1. worker[w].token \in 0..MaxTokens
    BY <1>5, Reporting DEF CommitVerified, At, ReportPCs, UploadPCs
  <2>. QED  BY <1>5, <2>1, <1>a, RowFollows DEF CommitVerified, Follows
<1>6. ASSUME NEW w \in Workers, CommitReport(w)
      PROVE  Follows(backups[c], backups'[c])
  <2>1. worker[w].want \in {"running", "failed", "prepared"}
    BY <1>6, Reporting DEF CommitReport, At, ReportPCs, DumpPCs, Local, Assigned, Results
  <2>. QED  BY <1>6, <2>1, <1>a, RowFollows DEF CommitReport, Follows
<1>. QED
  <2>1. CASE UNCHANGED vars
    BY <2>1, <1>1 DEF vars
  <2>2. CASE AdminRequest
    BY <2>2, <1>1, <1>2 DEF AdminRequest, RevokeNode
  <2>3. ASSUME NEW w \in Workers, WorkerStep(w)
        PROVE  Follows(backups[c], backups'[c])
    BY <2>3, <1>1, <1>3, <1>4, <1>5, <1>6
       DEF WorkerStep, ClaimStep, NextFamily, TakeLease, TakeNothing, ReadSource, Withdraw, Route,
           UploadReport, ReplayVerified, CheckUpload, DiscardLease, ExtendUpload, ReleaseUpload,
           CheckStored, DumpReport, CheckLease, ReplayPrepared, CheckState, RenewLease, tables
  <2>4. ASSUME NEW w \in Workers, WorkerFails(w)
        PROVE  Follows(backups[c], backups'[c])
    BY <2>4, <1>1 DEF WorkerFails
  <2>5. ASSUME NEW n \in Nodes, AgentRequest(n) \/ AgentFault(n) \/ ExecutorReturns(n)
        PROVE  Follows(backups[c], backups'[c])
    BY <2>5, <1>1 DEF AgentRequest, Poll, SendReport, AgentFault, ReplyLost, AgentRestarts,
                      ExecutorReturns, DumpReturns, UploadReturns
  <2>6. ASSUME NEW op \in Ops, LeaseLapses(op)
        PROVE  Follows(backups[c], backups'[c])
    BY <2>6, <1>1 DEF LeaseLapses
  <2>. QED  BY <2>1, <2>2, <2>3, <2>4, <2>5, <2>6 DEF Next

(* The guarded UPDATEs of backupOperations.ts and backupUploadOperations.ts*)
(* keep every backup to the order of its states, however many stale        *)
(* invocations still have theirs to run: none is revived, none fails after *)
(* it was prepared, and none is prepared twice.                            *)
THEOREM StatesInOrder == Spec => BackupStepsLegal
<1>1. TypeOK /\ [Next]_vars =>
        [\A b \in Backups :
           backups'[b].state # State(b) => backups'[b].state \in Successors[State(b)]]_vars
  BY StateStep DEF Follows, State
<1>. QED  BY <1>1, TypeCorrect, PTL DEF Spec, BackupStepsLegal

-----------------------------------------------------------------------------
(* Leases and the backups they are on *)

LEMMA InitLease == Init => LeaseInv
<1>. SUFFICES ASSUME Init PROVE LeaseInv
  OBVIOUS
<1>1. \A op \in Ops : ~Leased(op)
  BY DEF Init, Leased, NoLease
<1>2. \A b \in Backups : State(b) = "absent"
  BY DEF Init, State, NoBackup
<1>3. \A w \in Workers : worker[w].pc = "idle" /\ worker[w].work = {}
  BY DEF Init, Idle, Handler
<1>. QED  BY <1>1, <1>2, <1>3, OpTypes
          DEF LeaseInv, LeaseFollowsState, InFlightHasLease, InFlight, ClaimInv, Claims

(* What LeaseInv asks of the local state l that a step gives worker w. *)
Steady(w, l) ==
  /\ l.pc \in {"source", "dispatch"} =>
       worker[w].pc \in {"source", "dispatch"} /\ l.job = worker[w].job
  /\ l.pc = "withdraw" => Family(l.job) = "upload"
  /\ \A b \in Backups : Dump(b) \in l.work => Begun(b)
  /\ l.pc = "commit" =>
       LET b == BackupOf(l.job) IN
       /\ Begun(b)
       /\ l.want = "prepared" => State(b) # "dispatched"

LEMMA IdleSteady == \A w \in Workers : Steady(w, Idle)
BY DEF Steady, Idle, Handler

(* A step of one handler that neither takes nor deletes a lease. *)
LEMMA Move ==
  ASSUME TypeOK, LeaseInv, NEW w \in Workers, NEW l, Steady(w, l),
         worker' = [worker EXCEPT ![w] = l],
         backups' = backups,
         \A op \in Ops : leases'[op].token = leases[op].token
  PROVE  LeaseInv'
<1>a. \A v \in Workers : worker'[v] = IF v = w THEN l ELSE worker[v]
  BY DEF TypeOK
<1>b. \A b \in Backups : State(b)' = State(b) /\ (Leased(Dump(b))' <=> Leased(Dump(b)))
                         /\ (Leased(Upload(b))' <=> Leased(Upload(b)))
  BY OpTypes DEF State, Leased
<1>1. LeaseFollowsState' /\ InFlightHasLease'
  BY <1>b DEF LeaseInv, LeaseFollowsState, InFlightHasLease, InFlight
<1>2. \A v \in Workers, b \in Backups : Claims(v, b)' => Claims(v, b)
  BY <1>a DEF Claims, Steady
<1>3. ClaimInv'
  <2>1. /\ \A v \in Workers, b \in Backups : Claims(v, b)' => State(b)' = "queued" /\ Leased(Dump(b))'
        /\ \A u, v \in Workers, b \in Backups : Claims(u, b)' /\ Claims(v, b)' => u = v
    BY <1>2, <1>b DEF LeaseInv, ClaimInv
  <2>2. \A v \in Workers : worker'[v].pc = "withdraw" => Family(worker'[v].job) = "upload"
    BY <1>a DEF LeaseInv, ClaimInv, Steady
  <2>3. \A v \in Workers, b \in Backups : Dump(b) \in worker'[v].work => Begun(b)'
    BY <1>a, <1>b DEF LeaseInv, ClaimInv, Steady, Begun
  <2>4. ASSUME NEW v \in Workers
        PROVE  (worker[v].pc = "commit" =>
                  LET b == BackupOf(worker[v].job) IN
                  /\ Begun(b)
                  /\ worker[v].want = "prepared" => State(b) # "dispatched")'
    BY <1>a DEF LeaseInv, ClaimInv, Steady, Begun, State
  <2>. QED  BY <2>1, <2>2, <2>3, <2>4 DEF ClaimInv
<1>. QED  BY <1>1, <1>3 DEF LeaseInv

(* A step that no handler takes. *)
LEMMA Elsewhere ==
  ASSUME LeaseInv, worker' = worker, backups' = backups,
         \A op \in Ops : leases'[op].token = leases[op].token
  PROVE  LeaseInv'
<1>b. \A b \in Backups : State(b)' = State(b) /\ (Leased(Dump(b))' <=> Leased(Dump(b)))
                         /\ (Leased(Upload(b))' <=> Leased(Upload(b)))
  BY OpTypes DEF State, Leased
<1>. QED  BY <1>b DEF LeaseInv, LeaseFollowsState, InFlightHasLease, InFlight, ClaimInv, Claims,
                     Begun, State

(* What a backup went through cannot be undone. *)
LEMMA NoWayBack ==
  ASSUME TypeOK, [Next]_vars, NEW b \in Backups, Begun(b)
  PROVE  Begun(b)' /\ (State(b) # "dispatched" => State(b)' # "dispatched")
<1>1. Follows(backups[b], backups'[b]) /\ State(b) \in BackupStates
  BY StateStep DEF TypeOK, BackupRow, State
<1>. QED  BY <1>1 DEF Follows, Successors, Begun, State, BackupStates

(* A step that changes tables, ends a handler or lets it go on with its    *)
(* list of expired leases, and keeps what the claims of others rely on.    *)
LEMMA Write ==
  ASSUME TypeOK, LeaseInv, [Next]_vars, NEW w \in Workers, NEW l,
         worker' = [worker EXCEPT ![w] = l],
         l.pc \in {"idle", "expire"}, l.work \subseteq worker[w].work,
         LeaseFollowsState', InFlightHasLease',
         \A v \in Workers \ {w}, b \in Backups :
           Claims(v, b) => State(b)' = "queued" /\ Leased(Dump(b))'
  PROVE  LeaseInv'
<1>a. \A v \in Workers : worker'[v] = IF v = w THEN l ELSE worker[v]
  BY DEF TypeOK
<1>1. \A v \in Workers, b \in Backups : Claims(v, b)' => v # w /\ Claims(v, b)
  BY <1>a DEF Claims
<1>2. /\ \A v \in Workers, b \in Backups : Claims(v, b)' => State(b)' = "queued" /\ Leased(Dump(b))'
      /\ \A u, v \in Workers, b \in Backups : Claims(u, b)' /\ Claims(v, b)' => u = v
  BY <1>1 DEF LeaseInv, ClaimInv
<1>3. \A v \in Workers : worker'[v].pc = "withdraw" => Family(worker'[v].job) = "upload"
  BY <1>a DEF LeaseInv, ClaimInv
<1>4. \A v \in Workers, b \in Backups : Dump(b) \in worker'[v].work => Begun(b)'
  <2>1. \A v \in Workers : worker'[v].work \subseteq worker[v].work
    BY <1>a
  <2>. QED  BY <2>1, NoWayBack DEF LeaseInv, ClaimInv
<1>5. ASSUME NEW v \in Workers
      PROVE  (worker[v].pc = "commit" =>
                LET b == BackupOf(worker[v].job) IN
                /\ Begun(b)
                /\ worker[v].want = "prepared" => State(b) # "dispatched")'
  <2>. SUFFICES ASSUME worker'[v].pc = "commit"
                PROVE  (LET b == BackupOf(worker[v].job) IN
                        /\ Begun(b)
                        /\ worker[v].want = "prepared" => State(b) # "dispatched")'
    OBVIOUS
  <2>1. worker'[v] = worker[v] /\ worker[v].pc = "commit"
    BY <1>a
  <2>2. BackupOf(worker[v].job) \in Backups
    BY <2>1, Reporting DEF ReportPCs, DumpPCs
  <2>3. /\ Begun(BackupOf(worker[v].job))
        /\ worker[v].want = "prepared" => State(BackupOf(worker[v].job)) # "dispatched"
    BY <2>1 DEF LeaseInv, ClaimInv
  <2>4. \A b \in Backups : b = BackupOf(worker[v].job) =>
          Begun(b)' /\ (worker[v].want = "prepared" => State(b)' # "dispatched")
    BY <2>2, <2>3, NoWayBack
  <2>. QED  BY <2>1, <2>2, <2>4 DEF Begun, State
<1>. QED  BY <1>2, <1>3, <1>4, <1>5 DEF LeaseInv, ClaimInv

LEMMA CreateLease ==
  ASSUME TypeOK, LeaseInv, [Next]_vars, NEW c \in Backups, NEW n \in Nodes, CreateBackupJob(c, n)
  PROVE  LeaseInv'
<1>1. /\ worker' = worker /\ leases' = leases /\ State(c) = "absent"
      /\ \A b \in Backups : State(b)' = IF b = c THEN "queued" ELSE State(b)
  BY DEF CreateBackupJob, State, TypeOK
<1>2. ~Leased(Dump(c)) /\ ~Leased(Upload(c))
  BY <1>1 DEF LeaseInv, LeaseFollowsState
<1>3. LeaseFollowsState' /\ InFlightHasLease'
  BY <1>1, <1>2 DEF LeaseInv, LeaseFollowsState, InFlightHasLease, InFlight, Leased
<1>4. /\ \A v \in Workers, b \in Backups : Claims(v, b)' => State(b)' = "queued" /\ Leased(Dump(b))'
      /\ \A u, v \in Workers, b \in Backups : Claims(u, b)' /\ Claims(v, b)' => u = v
      /\ \A v \in Workers : worker'[v].pc = "withdraw" => Family(worker'[v].job) = "upload"
      /\ \A v \in Workers, b \in Backups : Dump(b) \in worker'[v].work => Begun(b)'
  BY <1>1, NoWayBack DEF LeaseInv, ClaimInv, Claims, Leased
<1>5. ASSUME NEW v \in Workers
      PROVE  (worker[v].pc = "commit" =>
                LET b == BackupOf(worker[v].job) IN
                /\ Begun(b)
                /\ worker[v].want = "prepared" => State(b) # "dispatched")'
  <2>1. worker[v].pc = "commit" => BackupOf(worker[v].job) \in Backups
    BY Reporting DEF ReportPCs, DumpPCs
  <2>2. \A b \in Backups : worker[v].pc = "commit" /\ b = BackupOf(worker[v].job) =>
          Begun(b)' /\ (worker[v].want = "prepared" => State(b)' # "dispatched")
    BY NoWayBack DEF LeaseInv, ClaimInv
  <2>. QED  BY <1>1, <2>1, <2>2 DEF Begun, State
<1>. QED  BY <1>3, <1>4, <1>5 DEF LeaseInv, ClaimInv

(* Every step of a claim. *)
LEMMA ClaimLease ==
  ASSUME TypeOK, LeaseInv, [Next]_vars, NEW w \in Workers, ClaimStep(w)
  PROVE  LeaseInv'
<1>. USE OpTypes
<1>a. /\ worker \in [Workers -> Local] /\ leases \in [Ops -> LeaseRow]
      /\ backups \in [Backups -> BackupRow]
  BY DEF TypeOK
<1>b. \A b \in Backups : worker[w].job = Dump(b) => BackupOf(worker[w].job) = b
  OBVIOUS
<1>1. ASSUME NEW op \in Ops, ExpireLease(w, op)
      PROVE  LeaseInv'
  <2>. DEFINE l == [worker[w] EXCEPT !.work = @ \ {op}]
  <2>1. worker' = [worker EXCEPT ![w] = l] /\ l.pc = "expire" /\ l.work \subseteq worker[w].work
    BY <1>1, <1>a DEF ExpireLease, At, Local
  <2>2. /\ \A o \in Ops : leases'[o] = IF o = op THEN NoLease ELSE leases[o]
        /\ Family(op) = "backup" => op = Dump(BackupOf(op)) /\ Begun(BackupOf(op))
        /\ Family(op) = "upload" => op = Upload(BackupOf(op))
    BY <1>1, <1>a DEF ExpireLease, LeaseInv, ClaimInv
  <2>3. \A b \in Backups :
          State(b)' = IF op = Dump(b) /\ InFlight(b) THEN "failed" ELSE State(b)
    BY <1>1, <1>a, <2>2 DEF ExpireLease, FailedIfInFlight, State, InFlight, BackupRow
  <2>4. LeaseFollowsState' /\ InFlightHasLease'
    BY <2>2, <2>3 DEF LeaseInv, LeaseFollowsState, InFlightHasLease, InFlight, Leased, NoLease
  <2>5. \A v \in Workers, b \in Backups : Claims(v, b) => State(b)' = "queued" /\ Leased(Dump(b))'
    BY <2>2, <2>3 DEF LeaseInv, ClaimInv, Leased, InFlight, Begun
  <2>. QED  BY <2>1, <2>4, <2>5, Write
<1>2. ASSUME NEW op \in Ops, TakeLease(w, op)
      PROVE  LeaseInv'
  <2>1. /\ ~Leased(op) /\ State(BackupOf(op)) = Source[Family(op)]
        /\ \A o \in Ops : Leased(o)' <=> o = op \/ Leased(o)
        /\ \A v \in Workers : worker'[v] =
             IF v = w THEN [worker[w] EXCEPT !.pc = "source", !.job = op, !.token = tokens + 1]
             ELSE worker[v]
        /\ backups' = backups
    BY <1>2, <1>a DEF TakeLease, Lease, Unleased, Leased, NewLease, TypeOK
  <2>2. worker'[w].pc = "source" /\ worker'[w].job = op /\ worker'[w].work = {}
    <3>1. worker[w] \in Local /\ worker[w].work = {}
      BY <1>2, <1>a DEF TakeLease
    <3>2. \A l \in Local :
            LET m == [l EXCEPT !.pc = "source", !.job = op, !.token = tokens + 1] IN
            m.pc = "source" /\ m.job = op /\ m.work = l.work
      BY DEF Local
    <3>. QED  BY <2>1, <3>1, <3>2
  <2>3. \A b \in Backups : State(b)' = State(b) /\ (op = Dump(b) => State(b) = "queued")
                           /\ (op = Upload(b) => State(b) = "prepared")
    BY <2>1 DEF Source, State
  <2>4. LeaseFollowsState' /\ InFlightHasLease'
    BY <2>1, <2>3 DEF LeaseInv, LeaseFollowsState, InFlightHasLease, InFlight
  <2>5. \A v \in Workers, b \in Backups : Claims(v, b)' => Claims(v, b) \/ (v = w /\ op = Dump(b))
    BY <2>1, <2>2 DEF Claims
  <2>6. \A v \in Workers, b \in Backups : Claims(v, b) => op # Dump(b)
    BY <2>1 DEF LeaseInv, ClaimInv
  <2>7. /\ \A v \in Workers, b \in Backups : Claims(v, b)' => State(b)' = "queued" /\ Leased(Dump(b))'
        /\ \A u, v \in Workers, b \in Backups : Claims(u, b)' /\ Claims(v, b)' => u = v
    BY <2>1, <2>3, <2>5, <2>6 DEF LeaseInv, ClaimInv
  <2>8. /\ \A v \in Workers : worker'[v].pc = "withdraw" => Family(worker'[v].job) = "upload"
        /\ \A v \in Workers, b \in Backups : Dump(b) \in worker'[v].work => Begun(b)'
    BY <2>1, <2>2, <2>3 DEF LeaseInv, ClaimInv, Begun
  <2>9. ASSUME NEW v \in Workers
        PROVE  (worker[v].pc = "commit" =>
                  LET b == BackupOf(worker[v].job) IN
                  /\ Begun(b)
                  /\ worker[v].want = "prepared" => State(b) # "dispatched")'
    BY <2>1, <2>2 DEF LeaseInv, ClaimInv, Begun, State
  <2>. QED  BY <2>4, <2>7, <2>8, <2>9 DEF LeaseInv, ClaimInv
<1>3. ASSUME NextFamily(w)
      PROVE  LeaseInv'
  <2>. DEFINE l == [worker[w] EXCEPT !.pc = "expire", !.want = "backup",
                                     !.work = Expired("backup", worker[w].node)]
  <2>1. \A b \in Backups : Dump(b) \in Expired("backup", worker[w].node) => Begun(b)
    BY DEF Expired, InFlight, Begun
  <2>2. Steady(w, l)
    BY <1>a, <2>1 DEF Steady, Local
  <2>. QED  BY <1>3, <2>2, Move DEF NextFamily, tables
<1>4. ASSUME TakeNothing(w)
      PROVE  LeaseInv'
  <2>. DEFINE l == IF worker[w].want = "upload" THEN [worker[w] EXCEPT !.pc = "next"] ELSE Idle
  <2>1. Steady(w, [worker[w] EXCEPT !.pc = "next"])
    BY <1>a DEF Steady, Local, LeaseInv, ClaimInv
  <2>2. worker' = [worker EXCEPT ![w] = l]
    BY <1>4, <1>a DEF TakeNothing, Goto, Finish
  <2>. QED  BY <1>4, <2>1, <2>2, IdleSteady, Move DEF TakeNothing, tables
<1>5. ASSUME ReadSource(w)
      PROVE  LeaseInv'
  <2>. DEFINE next == IF State(BackupOf(worker[w].job)) = Source[Family(worker[w].job)]
                      THEN "dispatch" ELSE "withdraw"
              l == [worker[w] EXCEPT !.pc = next]
  <2>1. worker[w].job \in Ops
    BY <1>5, <1>a DEF ReadSource, At, Local, Assigned
  <2>2. Family(worker[w].job) = "backup" => next = "dispatch"
    BY <1>5, <2>1 DEF ReadSource, At, LeaseInv, ClaimInv, Claims, Source
  <2>3. Steady(w, l)
    BY <1>5, <1>a, <2>1, <2>2 DEF ReadSource, At, Steady, Local, LeaseInv, ClaimInv, Families
  <2>. QED  BY <1>5, <1>a, <2>3, Move DEF ReadSource, Goto, tables
<1>6. ASSUME Withdraw(w)
      PROVE  LeaseInv'
  <2>1. worker[w].job \in Ops /\ Family(worker[w].job) = "upload"
    BY <1>6, <1>a DEF Withdraw, At, Local, Assigned, LeaseInv, ClaimInv
  <2>2. /\ \A b \in Backups : leases'[Dump(b)] = leases[Dump(b)] /\ State(b)' = State(b)
        /\ \A b \in Backups : leases'[Upload(b)] \in {leases[Upload(b)], NoLease}
    BY <1>6, <1>a, <2>1 DEF Withdraw, State
  <2>3. LeaseFollowsState' /\ InFlightHasLease'
    BY <2>2 DEF LeaseInv, LeaseFollowsState, InFlightHasLease, InFlight, Leased, NoLease
  <2>4. \A v \in Workers, b \in Backups : Claims(v, b) => State(b)' = "queued" /\ Leased(Dump(b))'
    BY <2>2 DEF LeaseInv, ClaimInv, Leased
  <2>. QED  BY <1>6, <2>3, <2>4, Write DEF Withdraw, Finish, Idle, Handler
<1>7. ASSUME Dispatch(w)
      PROVE  LeaseInv'
  <2>. DEFINE op == worker[w].job
  <2>1. op \in Ops
    BY <1>7, <1>a DEF Dispatch, At, Local, Assigned
  <2>2. /\ leases' = leases
        /\ \A b \in Backups :
             State(b)' = IF op = Dump(b) /\ State(b) = "queued" THEN "dispatched" ELSE State(b)
    BY <1>7, <1>a, <2>1 DEF Dispatch, Dispatched, State, BackupRow
  <2>3. LeaseFollowsState'
    BY <2>2 DEF LeaseInv, LeaseFollowsState, Leased
  <2>4. InFlightHasLease'
    BY <1>7, <2>2 DEF LeaseInv, InFlightHasLease, InFlight, ClaimInv, Claims, Leased, Dispatch, At
  <2>5. \A v \in Workers \ {w}, b \in Backups :
          Claims(v, b) => State(b)' = "queued" /\ Leased(Dump(b))'
    BY <1>7, <2>2 DEF LeaseInv, ClaimInv, Claims, Leased, Dispatch, At
  <2>. QED  BY <1>7, <2>3, <2>4, <2>5, Write DEF Dispatch, Finish, Idle, Handler
<1>. QED  BY <1>1, <1>2, <1>3, <1>4, <1>5, <1>6, <1>7 DEF ClaimStep

(* An answered request leaves no claim behind. *)
LEMMA Answered ==
  ASSUME NEW w \in Workers, Reject(w) \/ Accept(w) \/ Settle(w)
  PROVE  worker' = [worker EXCEPT ![w] = Idle] /\ Idle.pc = "idle" /\ Idle.work = {}
BY DEF Reject, Accept, Settle, Finish, Idle, Handler

(* Every step of an upload's report. *)
LEMMA UploadLease ==
  ASSUME TypeOK, LeaseInv, [Next]_vars, NEW w \in Workers, UploadReport(w)
  PROVE  LeaseInv'
<1>. USE OpTypes
<1>. DEFINE b == BackupOf(worker[w].job)
<1>a. /\ worker \in [Workers -> Local] /\ leases \in [Ops -> LeaseRow]
      /\ backups \in [Backups -> BackupRow]
  BY DEF TypeOK
<1>b. worker[w] \in Local /\ b \in Backups /\ worker[w].pc \in UploadPCs
  <2>1. worker[w].pc \in UploadPCs
    BY DEF UploadReport, ReplayVerified, CheckUpload, DiscardLease, ExtendUpload, ReleaseUpload,
           CheckStored, CommitVerified, At, UploadPCs
  <2>. QED  BY <2>1, Reporting DEF ReportPCs
<1>c. \A pc \in {"upload", "discard", "extend", "release", "stored", "verify"} :
        Steady(w, [worker[w] EXCEPT !.pc = pc])
  BY <1>b DEF Steady, Local, LeaseInv, ClaimInv
<1>d. CASE backups' = backups /\ leases' = leases
  <2>1. \/ Reject(w) \/ Accept(w)
        \/ \E pc \in {"upload", "discard", "extend", "release", "stored", "verify"} : Goto(w, pc)
    BY <1>d DEF UploadReport, ReplayVerified, CheckUpload, DiscardLease, ExtendUpload,
       ReleaseUpload, CheckStored, CommitVerified, Settle
  <2>. QED  BY <1>a, <1>c, <1>d, <2>1, Answered, IdleSteady, Move DEF Goto
<1>1. CASE ReplayVerified(w) \/ CheckUpload(w) \/ CheckStored(w)
  BY <1>1, <1>d DEF ReplayVerified, CheckUpload, CheckStored, tables
<1>2. CASE ExtendUpload(w)
  <2>1. \A op \in Ops : leases'[op].token = leases[op].token
    BY <1>2, <1>a, <1>b DEF ExtendUpload, Renewed, LeaseRow
  <2>. QED  BY <1>2, <2>1, Answered, IdleSteady, Move DEF ExtendUpload
<1>3. CASE DiscardLease(w) \/ ReleaseUpload(w) \/ CommitVerified(w)
  <2>1. /\ \A c \in Backups : leases'[Dump(c)] = leases[Dump(c)]
        /\ \A c \in Backups : leases'[Upload(c)] = IF c = b THEN NoLease ELSE leases[Upload(c)]
    <3>1. \A c \in Backups : Upload(c) = Upload(b) <=> c = b
      BY DEF Upload
    <3>. QED  BY <1>3, <1>a, <1>b, <3>1 DEF DiscardLease, ReleaseUpload, CommitVerified
  <2>2. \A c \in Backups : \/ State(c)' = State(c)
                           \/ c = b /\ State(c) = "prepared" /\ State(c)' = "verified"
    <3>1. worker[w].token \in 0..MaxTokens
      BY <1>b, Reporting DEF ReportPCs
    <3>. QED  BY <1>3, <1>a, <1>b, <3>1, RowStates
              DEF DiscardLease, ReleaseUpload, CommitVerified, State
  <2>3. LeaseFollowsState' /\ InFlightHasLease'
    BY <2>1, <2>2 DEF LeaseInv, LeaseFollowsState, InFlightHasLease, InFlight, Leased, NoLease
  <2>4. \A v \in Workers, c \in Backups : Claims(v, c) => State(c)' = "queued" /\ Leased(Dump(c))'
    BY <2>1, <2>2 DEF LeaseInv, ClaimInv, Leased
  <2>. QED  BY <1>3, <2>3, <2>4, Answered, Write DEF DiscardLease, ReleaseUpload, CommitVerified
<1>. QED  BY <1>1, <1>2, <1>3 DEF UploadReport

(* Every step of a dump's report. *)
LEMMA DumpLease ==
  ASSUME TypeOK, LeaseInv, [Next]_vars, NEW w \in Workers, DumpReport(w) \/ Route(w)
  PROVE  LeaseInv'
<1>. USE OpTypes
<1>a. /\ worker \in [Workers -> Local] /\ leases \in [Ops -> LeaseRow]
      /\ backups \in [Backups -> BackupRow]
  BY DEF TypeOK
<1>p. /\ worker[w].pc \in DumpPCs \cup {"route"}
      /\ BackupOf(worker[w].job) \in Backups /\ worker[w].want \in Results \cup {"running"}
  <2>1. worker[w].pc \in DumpPCs \cup {"route"}
    BY DEF DumpReport, CheckLease, ReplayPrepared, CheckState, RenewLease, CommitReport, Route,
           At, DumpPCs
  <2>. QED  BY <2>1, Reporting DEF ReportPCs
<1>q. PICK b \in Backups, want \in Results \cup {"running"} :
        b = BackupOf(worker[w].job) /\ want = worker[w].want
  BY <1>p
<1>b. worker[w] \in Local
  BY <1>a
<1>c. \A pc \in {"upload", "replayVerified", "lease", "state", "replayPrepared", "renew"} :
        Steady(w, [worker[w] EXCEPT !.pc = pc])
  BY <1>b, <1>p DEF Steady, Local, LeaseInv, ClaimInv
<1>d. ASSUME leases' = leases, backups' = backups,
             \/ Reject(w) \/ Accept(w)
             \/ \E pc \in {"upload", "replayVerified", "lease", "state", "replayPrepared", "renew"} :
                  Goto(w, pc)
      PROVE  LeaseInv'
  BY <1>a, <1>c, <1>d, Answered, IdleSteady, Move DEF Goto
<1>1. CASE Route(w) \/ CheckLease(w) \/ ReplayPrepared(w)
  BY <1>1, <1>d DEF Route, CheckLease, ReplayPrepared, Settle, tables
<1>2. CASE CheckState(w)
  <2>1. CASE Goto(w, "commit")
    <3>1. State(b) \in Precursors[want]
      BY <1>2, <1>q, <2>1, <1>a DEF CheckState, Goto, Reject, Finish, Idle, Handler, Local
    <3>2. Begun(b) /\ (want = "prepared" => State(b) # "dispatched")
      <4>1. want \in {"running", "prepared", "failed"}
        BY <1>2, <1>p, <1>q, <1>b DEF CheckState, At, Local, Assigned, DumpPCs, Results
      <4>. QED  BY <3>1, <4>1 DEF Precursors, Begun
    <3>3. Steady(w, [worker[w] EXCEPT !.pc = "commit"])
      BY <1>p, <1>q, <1>b, <3>2 DEF Steady, Local, LeaseInv, ClaimInv
    <3>. QED  BY <1>2, <2>1, <3>3, Move DEF CheckState, Goto, tables
  <2>2. CASE Goto(w, "renew") \/ Reject(w)
    BY <1>2, <2>2, <1>d DEF CheckState, tables
  <2>. QED  BY <1>2, <2>1, <2>2 DEF CheckState
<1>3. CASE RenewLease(w)
  <2>1. \A op \in Ops : leases'[op].token = leases[op].token
    BY <1>3, <1>a, <1>p, <1>q, <1>b DEF RenewLease, Renewed, LeaseRow
  <2>. QED  BY <1>3, <2>1, Answered, IdleSteady, Move DEF RenewLease
<1>4. CASE CommitReport(w)
  <2>1. Begun(b) /\ (want = "prepared" => State(b) # "dispatched")
    BY <1>4, <1>q DEF CommitReport, At, LeaseInv, ClaimInv
  <2>2. want \in {"running", "prepared", "failed"}
    BY <1>4, <1>p, <1>q, <1>b DEF CommitReport, At, Local, Assigned, DumpPCs, Results
  <2>3. /\ \A c \in Backups : leases'[Upload(c)] = leases[Upload(c)]
        /\ \A c \in Backups : c # b => leases'[Dump(c)] = leases[Dump(c)]
        /\ leases'[Dump(b)] = LeaseAfter(leases[Dump(b)], want)
    <3>1. \A c \in Backups : Dump(c) = Dump(b) <=> c = b
      BY DEF Dump
    <3>. QED  BY <1>4, <1>a, <1>p, <1>q, <1>b, <3>1 DEF CommitReport
  <2>4. /\ \A c \in Backups : c # b => State(c)' = State(c)
        /\ State(b)' = IF State(b) \in Precursors[want] THEN want ELSE State(b)
    BY <1>4, <1>a, <1>q, <2>2, RowStates DEF CommitReport, State
  <2>5. Leased(Dump(b))' <=> want = "running" /\ Leased(Dump(b))
    <3>1. \A lease \in LeaseRow :
            (LeaseAfter(lease, want).token # 0 <=> want = "running" /\ lease.token # 0)
      BY DEF LeaseAfter, Renewed, NoLease, LeaseRow
    <3>. QED  BY <1>a, <1>p, <1>q, <1>b, <2>3, <3>1 DEF Leased
  <2>6. LeaseFollowsState' /\ InFlightHasLease'
    <3>1. \A c \in Backups : c # b =>
            /\ Leased(Dump(c))' => State(c)' \in {"queued", "dispatched", "running"}
            /\ Leased(Upload(c))' => State(c)' = "prepared"
            /\ InFlight(c)' => Leased(Dump(c))'
      BY <2>3, <2>4 DEF LeaseInv, LeaseFollowsState, InFlightHasLease, InFlight, Leased
    <3>2. Leased(Dump(b))' => State(b)' \in {"queued", "dispatched", "running"}
      BY <1>p, <1>q, <1>b, <2>4, <2>5 DEF LeaseInv, LeaseFollowsState
    <3>3. Leased(Upload(b))' => State(b)' = "prepared"
      BY <1>p, <1>q, <1>b, <2>2, <2>3, <2>4 DEF LeaseInv, LeaseFollowsState, Leased, Precursors
    <3>4. InFlight(b)' => Leased(Dump(b))'
      BY <1>p, <1>q, <1>b, <2>1, <2>2, <2>4, <2>5 DEF LeaseInv, InFlightHasLease, InFlight, Precursors
    <3>. QED  BY <3>1, <3>2, <3>3, <3>4 DEF LeaseFollowsState, InFlightHasLease
  <2>7. \A v \in Workers, c \in Backups : Claims(v, c) => State(c)' = "queued" /\ Leased(Dump(c))'
    BY <2>1, <2>3, <2>4 DEF LeaseInv, ClaimInv, Leased, Begun
  <2>. QED  BY <1>4, <2>6, <2>7, Answered, Write DEF CommitReport
<1>. QED  BY <1>1, <1>2, <1>3, <1>4 DEF DumpReport

(* The steps of the agents, the admin and the environment. *)
LEMMA OtherLease ==
  ASSUME TypeOK, LeaseInv, [Next]_vars,
         \/ AdminRequest
         \/ \E w \in Workers : WorkerFails(w)
         \/ \E n \in Nodes : AgentRequest(n) \/ AgentFault(n) \/ ExecutorReturns(n)
         \/ \E op \in Ops : LeaseLapses(op)
  PROVE  LeaseInv'
<1>. USE OpTypes
<1>a. worker \in [Workers -> Local] /\ leases \in [Ops -> LeaseRow]
  BY DEF TypeOK
<1>1. CASE AdminRequest
  BY <1>1, CreateLease, Elsewhere DEF AdminRequest, RevokeNode, Revoke
<1>2. ASSUME NEW w \in Workers, WorkerFails(w)
      PROVE  LeaseInv'
  BY <1>2, IdleSteady, Move DEF WorkerFails, Abort, Finish
<1>3. ASSUME NEW n \in Nodes, NEW w \in Workers, Poll(w, n)
      PROVE  LeaseInv'
  <2>. DEFINE l == [Handler("expire", n, None, 0, "upload") EXCEPT !.work = Expired("upload", n)]
  <2>1. Steady(w, l)
    BY DEF Steady, Handler, Expired
  <2>. QED  BY <1>3, <2>1, Move DEF Poll, Request, Begin
<1>4. ASSUME NEW n \in Nodes, NEW w \in Workers, SendReport(w, n)
      PROVE  LeaseInv'
  <2>1. \A job, token, want : Steady(w, Handler("route", n, job, token, want))
    BY DEF Steady, Handler
  <2>. QED  BY <1>4, <2>1, Move DEF SendReport, Report, Begin
<1>5. ASSUME NEW n \in Nodes, AgentFault(n) \/ ExecutorReturns(n)
      PROVE  LeaseInv'
  BY <1>5, Elsewhere DEF AgentFault, ReplyLost, LoseReply, AgentRestarts, Restart, ExecutorReturns,
     DumpReturns, UploadReturns, Return
<1>6. ASSUME NEW op \in Ops, LeaseLapses(op)
      PROVE  LeaseInv'
  <2>1. \A o \in Ops : leases'[o].token = leases[o].token
    BY <1>6, <1>a DEF LeaseLapses, Lapse, LeaseRow
  <2>. QED  BY <1>6, <2>1, Elsewhere DEF LeaseLapses, Lapse
<1>. QED  BY <1>1, <1>2, <1>3, <1>4, <1>5, <1>6 DEF AgentRequest

LEMMA LeaseStep == TypeOK /\ LeaseInv /\ [Next]_vars => LeaseInv'
<1>. SUFFICES ASSUME TypeOK, LeaseInv, [Next]_vars PROVE LeaseInv'
  OBVIOUS
<1>1. CASE UNCHANGED vars
  BY <1>1, Elsewhere DEF vars
<1>2. CASE Next
  BY <1>2, ClaimLease, UploadLease, DumpLease, OtherLease DEF Next, WorkerStep
<1>. QED  BY <1>1, <1>2

LEMMA LeaseInvariant == Spec => [](TypeOK /\ LeaseInv)
<1>1. TypeOK /\ LeaseInv /\ [Next]_vars => (TypeOK /\ LeaseInv)'
  BY StepType, LeaseStep
<1>. QED  BY InitType, InitLease, <1>1, PTL DEF Spec

(* A lease stands only while the backup is in the phase that the lease is  *)
(* for, so a report accepted under a live lease concerns that phase.       *)
THEOREM LeasesFollowStates == Spec => []LeaseFollowsState
BY LeaseInvariant, PTL DEF LeaseInv

(* No dump in flight is out of reach: the lease whose expiry would end it  *)
(* is there for as long as it runs.                                        *)
THEOREM InFlightLeased == Spec => []InFlightHasLease
BY LeaseInvariant, PTL DEF LeaseInv

-----------------------------------------------------------------------------
(* Copies and objects *)

LEMMA InitCopy == Init => CopyInv
<1>. SUFFICES ASSUME Init PROVE CopyInv
  OBVIOUS
<1>1. \A b \in Backups : State(b) = "absent"
  BY DEF Init, State, NoBackup
<1>2. \A w \in Workers : worker[w].pc = "idle"
  BY DEF Init, Idle, Handler
<1>3. \A n \in Nodes : agents[n].phase = "idle" /\ agents[n].result = None /\ agents[n].wait \notin Workers
  BY RuntimeAssumption DEF Init, IdleAgent
<1>. QED  BY <1>1, <1>2, <1>3
          DEF CopyInv, VerifiedIsStored, PreparedHasCopy, AgentsTruthful, Truthful, ReportsTruthful,
              AwaitInv, VerifyInv, ReportPCs, UploadPCs, DumpPCs

(* Only the agent that waits for the handler of its own "verified" purges. *)
LEMMA Purge ==
  ASSUME TypeOK, CopyInv, NEW w \in Workers, Settle(w), NEW b \in Backups,
         b \in copies, b \notin copies'
  PROVE  worker[w].want = "verified" /\ worker[w].job = Upload(b)
<1>1. b \in Purgeable(w)
  BY DEF Settle
<1>2. PICK n \in Nodes :
        AwaitedBy(w, n) /\ agents[n].result = "verified" /\ agents[n].job = Upload(b)
  BY <1>1 DEF Purgeable
<1>3. agents[n].phase = "working"
  BY <1>2, BackupAssumption DEF CopyInv, AgentsTruthful, Truthful
<1>4. Awaits(agents[n], worker[w])
  BY <1>2 DEF AwaitedBy, CopyInv, AwaitInv
<1>. QED  BY <1>2, <1>3, <1>4, BackupAssumption DEF Awaits, Reported

(* Objects stay, and a copy stays until its backup is verified. *)
LEMMA CopiesStay ==
  ASSUME TypeOK, CopyInv, [Next]_vars
  PROVE  /\ objects \subseteq objects'
         /\ \A b \in Backups : b \in copies => b \in copies' \/ State(b)' = "verified"
<1>. DEFINE Stay == /\ objects \subseteq objects'
                    /\ \A b \in Backups : b \in copies => b \in copies' \/ State(b)' = "verified"
<1>1. ASSUME UNCHANGED disks
      PROVE  Stay
  BY <1>1 DEF disks
<1>2. ASSUME NEW w \in Workers, Settle(w), worker[w].want # "verified"
      PROVE  Stay
  BY <1>2, Purge DEF Settle
<1>3. ASSUME NEW w \in Workers, UploadReport(w)
      PROVE  Stay
  <2>1. CASE ReplayVerified(w)
    <3>1. CASE SameVerified(w)
      <4>1. \A b \in Backups : worker[w].job = Upload(b) => State(b) = "verified"
        BY <3>1, OpTypes DEF SameVerified
      <4>. QED  BY <2>1, <3>1, <4>1, Purge DEF ReplayVerified, Settle, State, tables
    <3>2. CASE ~SameVerified(w)
      BY <2>1, <3>2, <1>1 DEF ReplayVerified
    <3>. QED  BY <3>1, <3>2
  <2>2. CASE CommitVerified(w)
    <3>. DEFINE b == BackupOf(worker[w].job)
    <3>1. b \in Backups /\ worker[w].token \in 0..MaxTokens
      BY <2>2, Reporting DEF CommitVerified, At, ReportPCs, UploadPCs
    <3>2. State(b) \in {"prepared", "verified"}
      BY <2>2 DEF CommitVerified, At, CopyInv, VerifyInv
    <3>3. backups'[b].state = "verified"
      BY <2>2, <3>1, <3>2, RowStates DEF CommitVerified, State, TypeOK
    <3>4. \A c \in Backups : worker[w].job = Upload(c) => State(c)' = "verified"
      BY <3>3, OpTypes DEF State
    <3>. QED  BY <2>2, <3>4, Purge DEF CommitVerified, Settle
  <2>3. CASE ExtendUpload(w) \/ ReleaseUpload(w)
    <3>1. worker[w].want # "verified" /\ Settle(w)
      BY <2>3 DEF ExtendUpload, ReleaseUpload, At, TypeOK, Local, Assigned
    <3>. QED  BY <3>1, <1>2
  <2>4. CASE CheckUpload(w) \/ DiscardLease(w) \/ CheckStored(w)
    BY <2>4, <1>1 DEF CheckUpload, DiscardLease, CheckStored
  <2>. QED  BY <1>3, <2>1, <2>2, <2>3, <2>4 DEF UploadReport
<1>4. ASSUME NEW w \in Workers, DumpReport(w)
      PROVE  Stay
  <2>1. worker[w].want # "verified"
    BY <1>4 DEF DumpReport, CheckLease, ReplayPrepared, CheckState, RenewLease, CommitReport, At,
       TypeOK, Local, Assigned, DumpPCs
  <2>2. UNCHANGED disks \/ Settle(w)
    BY <1>4 DEF DumpReport, CheckLease, ReplayPrepared, CheckState, RenewLease, CommitReport
  <2>. QED  BY <2>1, <2>2, <1>1, <1>2
<1>5. ASSUME NEW w \in Workers, ClaimStep(w) \/ Route(w)
      PROVE  Stay
  BY <1>5, <1>1 DEF ClaimStep, ExpireLease, NextFamily, TakeLease, TakeNothing, ReadSource, Withdraw,
     Dispatch, Route
<1>6. ASSUME NEW n \in Nodes, AgentRequest(n) \/ AgentFault(n)
      PROVE  Stay
  BY <1>6, <1>1 DEF AgentRequest, Poll, SendReport, AgentFault, ReplyLost, AgentRestarts
<1>7. ASSUME NEW n \in Nodes, ExecutorReturns(n)
      PROVE  Stay
  BY <1>7 DEF ExecutorReturns, DumpReturns, UploadReturns
<1>8. CASE AdminRequest \/ (\E op \in Ops : LeaseLapses(op)) \/ \E w \in Workers : WorkerFails(w)
  BY <1>8, <1>1 DEF AdminRequest, CreateBackupJob, RevokeNode, LeaseLapses, WorkerFails
<1>9. CASE UNCHANGED vars
  BY <1>9, <1>1 DEF vars, disks
<1>. QED  BY <1>3, <1>4, <1>5, <1>6, <1>7, <1>8, <1>9 DEF Next, WorkerStep

(* Once true, a result stays true. *)
LEMMA TruthStays ==
  ASSUME TypeOK, CopyInv, [Next]_vars, NEW r, NEW b \in Backups, NEW k, TrueResult(r, b, k)
  PROVE  /\ r = "prepared" => b \in copies' \/ State(b)' = "verified"
         /\ r = "verified" => <<b, k>> \in objects'
<1>1. State(b) = "verified" => State(b)' = "verified"
  BY StateStep DEF Follows, Successors, State
<1>. QED  BY <1>1, CopiesStay DEF TrueResult, Kept

(* The steps that change backup rows, and how. *)
LEMMA RowSteps ==
  ASSUME TypeOK, [Next]_vars, NEW b \in Backups, backups'[b] # backups[b]
  PROVE  \/ State(b)' \notin {"prepared", "verified"}
         \/ /\ State(b)' = State(b) /\ backups'[b].version = backups[b].version
         \/ \E w \in Workers : CommitVerified(w) /\ b = BackupOf(worker[w].job)
         \/ \E w \in Workers : /\ CommitReport(w) /\ b = BackupOf(worker[w].job)
                               /\ worker[w].want = "prepared" /\ State(b) = "running"
<1>. DEFINE Goal == \/ State(b)' \notin {"prepared", "verified"}
                    \/ /\ State(b)' = State(b) /\ backups'[b].version = backups[b].version
                    \/ \E w \in Workers : CommitVerified(w) /\ b = BackupOf(worker[w].job)
                    \/ \E w \in Workers : /\ CommitReport(w) /\ b = BackupOf(worker[w].job)
                                          /\ worker[w].want = "prepared" /\ State(b) = "running"
<1>a. backups \in [Backups -> BackupRow]
  BY DEF TypeOK
<1>b. \A row \in BackupRow : /\ FailedIfInFlight(row) = row \/ FailedIfInFlight(row).state = "failed"
                             /\ Dispatched(row) = row \/ Dispatched(row).state = "dispatched"
  BY DEF FailedIfInFlight, Dispatched, BackupRow
<1>1. ASSUME NEW c \in Backups, NEW n \in Nodes, CreateBackupJob(c, n)
      PROVE  Goal
  BY <1>1, <1>a DEF CreateBackupJob, State
<1>2. ASSUME NEW w \in Workers, NEW op \in Ops, ExpireLease(w, op)
      PROVE  Goal
  BY <1>2, <1>a, <1>b, OpTypes DEF ExpireLease, State
<1>3. ASSUME NEW w \in Workers, Dispatch(w)
      PROVE  Goal
  BY <1>3, <1>a, <1>b, OpTypes DEF Dispatch, State
<1>4. ASSUME NEW w \in Workers, CommitVerified(w)
      PROVE  Goal
  BY <1>4, <1>a DEF CommitVerified
<1>5. ASSUME NEW w \in Workers, CommitReport(w)
      PROVE  Goal
  <2>1. worker[w].want \in {"running", "failed", "prepared"}
    BY <1>5, Reporting DEF CommitReport, At, ReportPCs, DumpPCs, Local, Assigned, Results
  <2>2. \A row \in BackupRow : Advanced(row, "prepared") = row \/ row.state = "running"
    BY DEF Advanced, Precursors
  <2>3. b = BackupOf(worker[w].job)
    BY <1>5, <1>a DEF CommitReport
  <2>4. backups'[b] = Advanced(backups[b], worker[w].want)
    BY <1>5, <1>a, <2>3 DEF CommitReport
  <2>5. CASE worker[w].want = "prepared"
    BY <1>5, <1>a, <2>2, <2>3, <2>4, <2>5 DEF State
  <2>6. CASE worker[w].want \in {"running", "failed"}
    <3>1. \A row \in BackupRow, s \in {"running", "failed"} :
            Advanced(row, s) = row \/ Advanced(row, s).state = s
      BY DEF Advanced, BackupRow
    <3>. QED  BY <1>a, <2>4, <2>6, <3>1 DEF State
  <2>. QED  BY <2>1, <2>5, <2>6
<1>. QED
  <2>1. CASE UNCHANGED vars
    BY <2>1 DEF vars
  <2>2. CASE AdminRequest
    BY <2>2, <1>1 DEF AdminRequest, RevokeNode
  <2>3. ASSUME NEW w \in Workers, WorkerStep(w)
        PROVE  Goal
    BY <2>3, <1>2, <1>3, <1>4, <1>5
       DEF WorkerStep, ClaimStep, NextFamily, TakeLease, TakeNothing, ReadSource, Withdraw, Route,
           UploadReport, ReplayVerified, CheckUpload, DiscardLease, ExtendUpload, ReleaseUpload,
           CheckStored, DumpReport, CheckLease, ReplayPrepared, CheckState, RenewLease, tables
  <2>4. ASSUME NEW w \in Workers, WorkerFails(w)
        PROVE  Goal
    BY <2>4 DEF WorkerFails
  <2>5. ASSUME NEW n \in Nodes, AgentRequest(n) \/ AgentFault(n) \/ ExecutorReturns(n)
        PROVE  Goal
    BY <2>5 DEF AgentRequest, Poll, SendReport, AgentFault, ReplyLost, AgentRestarts,
                ExecutorReturns, DumpReturns, UploadReturns
  <2>6. ASSUME NEW op \in Ops, LeaseLapses(op)
        PROVE  Goal
    BY <2>6 DEF LeaseLapses
  <2>. QED  BY <2>1, <2>2, <2>3, <2>4, <2>5, <2>6 DEF Next

LEMMA StoredStep ==
  ASSUME TypeOK, CopyInv, [Next]_vars
  PROVE  VerifiedIsStored' /\ PreparedHasCopy'
<1>a. backups \in [Backups -> BackupRow]
  BY DEF TypeOK
<1>1. ASSUME NEW b \in Backups, NEW w \in Workers, CommitVerified(w), b = BackupOf(worker[w].job)
      PROVE  backups'[b].state = "verified" /\ <<b, backups'[b].version>> \in objects'
  <2>1. worker[w].pc = "verify" /\ worker[w].token \in 0..MaxTokens /\ worker[w].want = "verified"
    BY <1>1, Reporting DEF CommitVerified, At, ReportPCs, UploadPCs, Local, Assigned
  <2>2. <<b, worker[w].token>> \in objects
    BY <1>1, <2>1 DEF CopyInv, ReportsTruthful, TrueResult, ReportPCs, UploadPCs
  <2>3. \A row \in BackupRow, k \in 0..MaxTokens : Verified(row, k).version = k
    BY DEF Verified, BackupRow
  <2>4. backups'[b] = Verified(backups[b], worker[w].token)
    BY <1>1, <1>a DEF CommitVerified
  <2>5. State(b) \in {"prepared", "verified"}
    BY <1>1, <2>1 DEF CopyInv, VerifyInv
  <2>. QED  BY <1>a, <2>1, <2>2, <2>3, <2>4, <2>5, CopiesStay, RowStates DEF State
<1>2. ASSUME NEW b \in Backups, NEW w \in Workers, CommitReport(w), b = BackupOf(worker[w].job),
             worker[w].want = "prepared", State(b) = "running"
      PROVE  State(b)' = "prepared" /\ b \in copies'
  <2>1. Kept(b)
    BY <1>2 DEF CommitReport, At, CopyInv, ReportsTruthful, TrueResult, ReportPCs, DumpPCs
  <2>2. State(b)' = "prepared"
    <3>1. backups'[b] = Advanced(backups[b], "prepared")
      BY <1>2, <1>a DEF CommitReport
    <3>. QED  BY <1>2, <1>a, <3>1, RowStates DEF State, Precursors
  <2>. QED  BY <1>2, <2>1, <2>2, CopiesStay DEF Kept
<1>. SUFFICES ASSUME NEW b \in Backups
              PROVE  /\ State(b)' = "verified" => <<b, backups'[b].version>> \in objects'
                     /\ State(b)' = "prepared" => b \in copies'
  BY DEF VerifiedIsStored, PreparedHasCopy
<1>3. CASE State(b)' = State(b) /\ backups'[b].version = backups[b].version
  BY <1>3, CopiesStay DEF CopyInv, VerifiedIsStored, PreparedHasCopy
<1>. QED  BY <1>1, <1>2, <1>3, RowSteps DEF State

(* A step of a handler either goes on with the same request ... *)
Continues(l, m) ==
  /\ m.node = l.node
  /\ \/ l.pc \in ClaimPCs /\ m.pc \in ClaimPCs
     \/ /\ l.pc \in ReportPCs /\ m.pc \in ReportPCs
        /\ m.job = l.job /\ m.token = l.token /\ m.want = l.want

GoesOn(w) ==
  /\ agents' = agents
  /\ \E m : /\ worker' = [worker EXCEPT ![w] = m]
            /\ Continues(worker[w], m)
            /\ m.pc = "verify" => State(BackupOf(m.job)) = "prepared"

(* ... or answers it. *)
Answers(w) ==
  /\ Finish(w)
  /\ \/ DeliverEach(w, AfterReject) \/ DeliverEach(w, AfterAccept)
     \/ Deliver(w, IdleAgent)
     \/ \E op \in Ops, k \in 0..MaxTokens : Deliver(w, Claimant(op, k))

LEMMA HandlerSteps ==
  ASSUME TypeOK, NEW w \in Workers, WorkerStep(w) \/ WorkerFails(w)
  PROVE  GoesOn(w) \/ Answers(w)
<1>a. worker \in [Workers -> Local] /\ worker[w] \in Local
  BY DEF TypeOK
<1>b. \A l \in Local, pc \in ReportPCs : l.pc \in ReportPCs =>
        Continues(l, [l EXCEPT !.pc = pc]) /\ [l EXCEPT !.pc = pc].pc = pc
        /\ [l EXCEPT !.pc = pc].job = l.job
  BY DEF Continues, Local
<1>c. ASSUME NEW pc \in ReportPCs, worker[w].pc \in ReportPCs, Goto(w, pc), agents' = agents,
             pc = "verify" => State(BackupOf(worker[w].job)) = "prepared"
      PROVE  GoesOn(w)
  <2>. DEFINE m == [worker[w] EXCEPT !.pc = pc]
  <2>1. worker' = [worker EXCEPT ![w] = m]
    BY <1>a, <1>c DEF Goto
  <2>2. Continues(worker[w], m) /\ m.pc = pc /\ m.job = worker[w].job
    BY <1>a, <1>b, <1>c
  <2>3. m.pc = "verify" => State(BackupOf(m.job)) = "prepared"
    BY <1>c, <2>2
  <2>. QED  BY <1>c, <2>1, <2>2, <2>3 DEF GoesOn
<1>d. ASSUME NEW m, worker' = [worker EXCEPT ![w] = m], agents' = agents,
             worker[w].pc \in ClaimPCs, m.pc \in ClaimPCs, m.node = worker[w].node
      PROVE  GoesOn(w)
  BY <1>d DEF GoesOn, Continues, ClaimPCs
<1>e. Reject(w) \/ Accept(w) \/ Settle(w) => Answers(w)
  BY DEF Reject, Accept, Settle, Answers
<1>f. \A l \in Local, pc \in ClaimPCs :
        [l EXCEPT !.pc = pc].pc = pc /\ [l EXCEPT !.pc = pc].node = l.node
  BY DEF Local
<1>1. CASE UploadReport(w) \/ DumpReport(w) \/ Route(w)
  <2>1. worker[w].pc \in ReportPCs
    BY <1>1 DEF UploadReport, ReplayVerified, CheckUpload, DiscardLease, ExtendUpload, ReleaseUpload,
       CheckStored, CommitVerified, DumpReport, CheckLease, ReplayPrepared, CheckState, RenewLease,
       CommitReport, Route, At, ReportPCs, UploadPCs, DumpPCs
  <2>2. \/ Reject(w) \/ Settle(w)
        \/ \E pc \in ReportPCs : /\ Goto(w, pc) /\ agents' = agents
                                 /\ pc = "verify" => State(BackupOf(worker[w].job)) = "prepared"
    <3>1. CASE UploadReport(w)
      BY <3>1 DEF UploadReport, ReplayVerified, CheckUpload, DiscardLease, ExtendUpload,
         ReleaseUpload, CheckStored, CommitVerified, ReportPCs, UploadPCs
    <3>2. CASE DumpReport(w)
      BY <3>2 DEF DumpReport, CheckLease, ReplayPrepared, CheckState, RenewLease, CommitReport,
         ReportPCs, DumpPCs
    <3>3. CASE Route(w)
      BY <3>3 DEF Route, ReportPCs, UploadPCs, DumpPCs
    <3>. QED  BY <1>1, <3>1, <3>2, <3>3
  <2>. QED  BY <2>1, <2>2, <1>c, <1>e
<1>2. ASSUME NEW op \in Ops, ExpireLease(w, op)
      PROVE  GoesOn(w)
  <2>. DEFINE m == [worker[w] EXCEPT !.work = @ \ {op}]
  <2>1. worker' = [worker EXCEPT ![w] = m] /\ m.pc = worker[w].pc /\ m.node = worker[w].node
    BY <1>2, <1>a DEF ExpireLease, Local
  <2>. QED  BY <1>2, <1>d, <2>1 DEF ExpireLease, At, ClaimPCs
<1>3. ASSUME NEW op \in Ops, TakeLease(w, op)
      PROVE  GoesOn(w)
  <2>. DEFINE m == [worker[w] EXCEPT !.pc = "source", !.job = op, !.token = tokens + 1]
  <2>1. m.pc = "source" /\ m.node = worker[w].node
    <3>1. \A l \in Local : LET k == [l EXCEPT !.pc = "source", !.job = op, !.token = tokens + 1] IN
                           k.pc = "source" /\ k.node = l.node
      BY DEF Local
    <3>. QED  BY <1>a, <3>1
  <2>. QED  BY <1>3, <1>a, <1>d, <2>1 DEF TakeLease, Lease, At, ClaimPCs
<1>4. ASSUME NextFamily(w)
      PROVE  GoesOn(w)
  <2>. DEFINE S == Expired("backup", worker[w].node)
              m == [worker[w] EXCEPT !.pc = "expire", !.want = "backup", !.work = S]
  <2>1. m.pc = "expire" /\ m.node = worker[w].node
    <3>1. \A l \in Local : \A T : LET k == [l EXCEPT !.pc = "expire", !.want = "backup", !.work = T] IN
                              k.pc = "expire" /\ k.node = l.node
      BY DEF Local
    <3>. QED  BY <1>a, <3>1
  <2>. QED  BY <1>4, <1>a, <1>d, <2>1 DEF NextFamily, At, ClaimPCs
<1>5. ASSUME TakeNothing(w)
      PROVE  GoesOn(w) \/ Answers(w)
  <2>1. CASE Goto(w, "next") /\ UNCHANGED agents
    BY <1>5, <2>1, <1>a, <1>d, <1>f DEF TakeNothing, Goto, At, ClaimPCs
  <2>. QED  BY <1>5, <2>1 DEF TakeNothing, Answers
<1>6. ASSUME ReadSource(w)
      PROVE  GoesOn(w)
  BY <1>6, <1>a, <1>d, <1>f DEF ReadSource, Goto, At, ClaimPCs
<1>7. CASE Withdraw(w)
  BY <1>7 DEF Withdraw, Answers
<1>8. CASE Dispatch(w)
  <2>1. worker[w].job \in Ops /\ worker[w].token \in 0..MaxTokens
    BY <1>8, <1>a DEF Dispatch, At, Local, Assigned
  <2>. QED  BY <1>8, <2>1 DEF Dispatch, Answers
<1>9. CASE WorkerFails(w)
  BY <1>9 DEF WorkerFails, Abort, Answers
<1>. QED  BY <1>1, <1>2, <1>3, <1>4, <1>5, <1>6, <1>7, <1>8, <1>9 DEF WorkerStep, ClaimStep

(* What an answer, and the loss of one, leave of an agent. *)
LEMMA AgentAfter ==
  ASSUME NEW a \in Agent
  PROVE  /\ AfterReject(a).wait = None /\ AfterAccept(a).wait = None
         /\ Truthful(a) => Truthful(AfterReject(a)) /\ Truthful(AfterAccept(a))
<1>1. IdleAgent.wait = None /\ Truthful(IdleAgent)
  BY DEF IdleAgent, Truthful
<1>2. AfterReject(a).wait = None /\ (Truthful(a) => Truthful(AfterReject(a)))
  BY <1>1 DEF AfterReject, Truthful, Agent
<1>3. AfterAccept(a).wait = None /\ (Truthful(a) => Truthful(AfterAccept(a)))
  <2>1. CASE a.phase = "starting"
    <3>1. \A b \in Agent : LET c == [b EXCEPT !.phase = "working", !.wait = None] IN
            c.phase = "working" /\ c.wait = None /\ c.result = b.result /\ c.job = b.job /\ c.token = b.token
      BY DEF Agent
    <3>. QED  BY <2>1, <3>1 DEF AfterAccept, Truthful
  <2>2. CASE a.phase # "starting"
    BY <1>1, <2>2 DEF AfterAccept, Truthful, Agent
  <2>. QED  BY <2>1, <2>2
<1>. QED  BY <1>2, <1>3

(* An answer reaches the agents that wait for it, and they wait no longer. *)
LEMMA AnswerReaches ==
  ASSUME TypeOK, NEW w \in Workers, Answers(w), NEW n \in Nodes
  PROVE  /\ AwaitedBy(w, n) => agents'[n].wait = None
         /\ ~AwaitedBy(w, n) => agents'[n] = agents[n]
         /\ Truthful(agents[n]) => Truthful(agents'[n])
<1>1. agents[n] \in Agent
  BY DEF TypeOK
<1>2. IdleAgent.wait = None /\ Truthful(IdleAgent)
  BY DEF IdleAgent, Truthful
<1>3. ASSUME NEW op \in Ops, NEW k
      PROVE  Claimant(op, k).wait = None /\ Truthful(Claimant(op, k))
  BY BackupAssumption DEF Claimant, Truthful, TrueResult
<1>. QED  BY <1>1, <1>2, <1>3, AgentAfter DEF Answers, Deliver, DeliverEach

(* The two requests of an agent. *)
LEMMA RequestSteps ==
  ASSUME TypeOK, NEW n \in Nodes, NEW w \in Workers, Poll(w, n) \/ SendReport(w, n)
  PROVE  \E l : /\ worker[w].pc = "idle" /\ worker' = [worker EXCEPT ![w] = l]
                /\ agents' = [agents EXCEPT ![n].wait = w]
                /\ l.node = n /\ Awaits(agents[n], l) /\ l.pc # "verify"
                /\ l.pc \in ReportPCs => /\ agents[n].phase # "idle"
                                         /\ l.job = agents[n].job /\ l.token = agents[n].token
                                         /\ l.want = Reported(agents[n])
<1>. USE DEF ClaimPCs, ReportPCs, UploadPCs, DumpPCs, Handler
<1>1. CASE Poll(w, n)
  <2>. DEFINE l == [Handler("expire", n, None, 0, "upload") EXCEPT !.work = Expired("upload", n)]
  <2>1. l.pc = "expire" /\ l.node = n
    OBVIOUS
  <2>2. /\ worker[w].pc = "idle" /\ worker' = [worker EXCEPT ![w] = l]
        /\ agents' = [agents EXCEPT ![n].wait = w]
    BY <1>1 DEF Poll, Request, Begin, Idle
  <2>3. Awaits(agents[n], l)
    BY <1>1, <2>1 DEF Poll, Request, IdleAgent, Awaits
  <2>. QED  BY <2>1, <2>2, <2>3
<1>2. CASE SendReport(w, n)
  <2>. DEFINE a == agents[n]
              l == Handler("route", n, a.job, a.token, Reported(a))
  <2>1. l.pc = "route" /\ l.node = n /\ l.job = a.job /\ l.token = a.token /\ l.want = Reported(a)
    OBVIOUS
  <2>2. a.phase # "idle"
    BY <1>2 DEF SendReport, Report
  <2>3. /\ worker[w].pc = "idle" /\ worker' = [worker EXCEPT ![w] = l]
        /\ agents' = [agents EXCEPT ![n].wait = w]
    BY <1>2 DEF SendReport, Report, Begin, Idle
  <2>4. Awaits(agents[n], l)
    BY <2>1, <2>2 DEF Awaits
  <2>. QED  BY <2>1, <2>2, <2>3, <2>4
<1>. QED  BY <1>1, <1>2

(* Steps of an agent that is not waiting, or gives up waiting. *)
LEMMA AgentSteps ==
  ASSUME TypeOK, NEW n \in Nodes, AgentFault(n) \/ ExecutorReturns(n)
  PROVE  /\ worker' = worker
         /\ \A m \in Nodes \ {n} : agents'[m] = agents[m]
         /\ agents'[n].wait = None
<1>1. agents \in [Nodes -> Agent] /\ agents[n] \in Agent
  BY DEF TypeOK
<1>2. CASE AgentFault(n)
  BY <1>1, <1>2, AgentAfter
     DEF AgentFault, ReplyLost, LoseReply, AgentRestarts, Restart, IdleAgent
<1>3. CASE ExecutorReturns(n)
  <2>1. PICK r : Return(n, r)
    BY <1>3 DEF ExecutorReturns, DumpReturns, UploadReturns
  <2>2. [agents[n] EXCEPT !.result = r].wait = agents[n].wait
    BY <1>1 DEF Agent
  <2>. QED  BY <1>1, <2>1, <2>2 DEF Return
<1>. QED  BY <1>2, <1>3

LEMMA OtherSteps ==
  ASSUME AdminRequest \/ (\E op \in Ops : LeaseLapses(op)) \/ UNCHANGED vars
  PROVE  worker' = worker /\ agents' = agents
BY DEF AdminRequest, CreateBackupJob, RevokeNode, Revoke, LeaseLapses, Lapse, vars

LEMMA AwaitStep ==
  ASSUME TypeOK, AwaitInv, [Next]_vars
  PROVE  AwaitInv'
<1>a. worker \in [Workers -> Local] /\ agents \in [Nodes -> Agent]
  BY DEF TypeOK
<1>1. ASSUME NEW w \in Workers, GoesOn(w)
      PROVE  AwaitInv'
  BY <1>1, <1>a DEF GoesOn, Continues, AwaitInv, Awaits, ClaimPCs, ReportPCs, UploadPCs, DumpPCs
<1>2. ASSUME NEW w \in Workers, Answers(w)
      PROVE  AwaitInv'
  <2>. SUFFICES ASSUME NEW n \in Nodes, NEW v \in Workers, agents'[n].wait = v
                PROVE  worker'[v].node = n /\ Awaits(agents'[n], worker'[v])
    BY DEF AwaitInv, Awaits
  <2>1. ~AwaitedBy(w, n) /\ agents'[n] = agents[n]
    BY <1>2, AnswerReaches, RuntimeAssumption
  <2>2. v # w
    BY <2>1 DEF AwaitedBy, AwaitInv
  <2>3. worker'[v] = worker[v]
    BY <1>2, <1>a, <2>2 DEF Answers, Finish
  <2>. QED  BY <2>1, <2>3 DEF AwaitInv
<1>3. ASSUME NEW n \in Nodes, NEW w \in Workers, Poll(w, n) \/ SendReport(w, n)
      PROVE  AwaitInv'
  <2>1. PICK l : /\ worker[w].pc = "idle" /\ worker' = [worker EXCEPT ![w] = l]
                 /\ agents' = [agents EXCEPT ![n].wait = w]
                 /\ l.node = n /\ Awaits(agents[n], l)
    BY <1>3, RequestSteps
  <2>2. \A m \in Nodes : agents[m].wait # w
    BY <2>1 DEF AwaitInv, Awaits, ClaimPCs, ReportPCs, UploadPCs, DumpPCs
  <2>3. Awaits([agents[n] EXCEPT !.wait = w], l)
    BY <2>1, <1>a DEF Awaits, Reported, Agent
  <2>4. \A m \in Nodes, v \in Workers : agents'[m].wait = v =>
          (m = n /\ v = w) \/ (m # n /\ v # w /\ agents'[m] = agents[m])
    BY <1>a, <2>1, <2>2 DEF Agent
  <2>. QED  BY <1>a, <2>1, <2>3, <2>4 DEF AwaitInv
<1>4. ASSUME NEW n \in Nodes, AgentFault(n) \/ ExecutorReturns(n)
      PROVE  AwaitInv'
  BY <1>4, AgentSteps, RuntimeAssumption DEF AwaitInv, Awaits
<1>5. CASE AdminRequest \/ (\E op \in Ops : LeaseLapses(op)) \/ UNCHANGED vars
  BY <1>5, OtherSteps DEF AwaitInv, Awaits
<1>. QED  BY <1>1, <1>2, <1>3, <1>4, <1>5, HandlerSteps DEF Next, AgentRequest

LEMMA VerifyStep ==
  ASSUME TypeOK, VerifyInv, [Next]_vars
  PROVE  VerifyInv'
<1>a. worker \in [Workers -> Local]
  BY DEF TypeOK
<1>b. \A b \in Backups : State(b) \in {"prepared", "verified"} =>
        State(b)' \in {"prepared", "verified"}
  BY StateStep DEF Follows, Successors, State
<1>. SUFFICES ASSUME NEW v \in Workers, worker'[v].pc = "verify"
              PROVE  \E b \in Backups : /\ b = BackupOf(worker'[v].job)
                                        /\ State(b) \in {"prepared", "verified"}
  BY <1>b DEF VerifyInv, State
<1>1. CASE worker'[v] = worker[v]
  BY <1>1, Reporting DEF VerifyInv, ReportPCs, UploadPCs
<1>2. ASSUME NEW w \in Workers, GoesOn(w), worker'[v] # worker[v]
      PROVE  \E b \in Backups : /\ b = BackupOf(worker'[v].job)
                                /\ State(b) \in {"prepared", "verified"}
  <2>1. PICK m : /\ worker' = [worker EXCEPT ![w] = m]
                 /\ Continues(worker[w], m)
                 /\ m.pc = "verify" => State(BackupOf(m.job)) = "prepared"
    BY <1>2 DEF GoesOn
  <2>2. v = w /\ worker'[v] = m
    BY <1>2, <1>a, <2>1
  <2>3. worker[v].pc \in ReportPCs /\ m.job = worker[v].job
    BY <2>1, <2>2 DEF Continues, ClaimPCs
  <2>. QED  BY <2>1, <2>2, <2>3, Reporting
<1>3. ASSUME NEW w \in Workers, Answers(w)
      PROVE  worker'[v] = worker[v]
  BY <1>3, <1>a DEF Answers, Finish, Idle, Handler
<1>4. ASSUME NEW n \in Nodes, NEW w \in Workers, Poll(w, n) \/ SendReport(w, n)
      PROVE  worker'[v] = worker[v]
  BY <1>4, <1>a, RequestSteps
<1>5. ASSUME NEW n \in Nodes, AgentFault(n) \/ ExecutorReturns(n)
      PROVE  worker'[v] = worker[v]
  BY <1>5, AgentSteps
<1>6. CASE AdminRequest \/ (\E op \in Ops : LeaseLapses(op)) \/ UNCHANGED vars
  BY <1>6, <1>1, OtherSteps
<1>. QED  BY <1>1, <1>2, <1>3, <1>4, <1>5, <1>6, HandlerSteps DEF Next, AgentRequest

LEMMA ReportsStep ==
  ASSUME TypeOK, CopyInv, [Next]_vars
  PROVE  ReportsTruthful'
<1>a. worker \in [Workers -> Local] /\ agents \in [Nodes -> Agent]
  BY DEF TypeOK
<1>. SUFFICES ASSUME NEW v \in Workers, worker'[v].pc \in ReportPCs
              PROVE  TrueResult(worker[v].want, BackupOf(worker[v].job), worker[v].token)'
  BY DEF ReportsTruthful
<1>0. ASSUME NEW b \in Backups, b = BackupOf(worker'[v].job),
             TrueResult(worker'[v].want, b, worker'[v].token)
      PROVE  TrueResult(worker[v].want, BackupOf(worker[v].job), worker[v].token)'
  <2>1. PICK r, k : r = worker'[v].want /\ k = worker'[v].token
    OBVIOUS
  <2>2. /\ r = "prepared" => b \in copies' \/ State(b)' = "verified"
        /\ r = "verified" => <<b, k>> \in objects'
    BY <1>0, <2>1, TruthStays
  <2>. QED  BY <1>0, <2>1, <2>2 DEF TrueResult, Kept, State
<1>. SUFFICES \E b \in Backups : /\ b = BackupOf(worker'[v].job)
                                 /\ TrueResult(worker'[v].want, b, worker'[v].token)
  BY <1>0
<1>1. CASE worker'[v] = worker[v]
  BY <1>1, Reporting DEF CopyInv, ReportsTruthful
<1>2. ASSUME NEW w \in Workers, GoesOn(w), worker'[v] # worker[v]
      PROVE  \E b \in Backups :
               /\ b = BackupOf(worker'[v].job)
               /\ TrueResult(worker'[v].want, b, worker'[v].token)
  <2>1. PICK m : worker' = [worker EXCEPT ![w] = m] /\ Continues(worker[w], m)
    BY <1>2 DEF GoesOn
  <2>2. v = w /\ worker'[v] = m
    BY <1>2, <1>a, <2>1
  <2>3. /\ worker[v].pc \in ReportPCs
        /\ m.job = worker[v].job /\ m.token = worker[v].token /\ m.want = worker[v].want
    BY <2>1, <2>2 DEF Continues, ClaimPCs, ReportPCs, UploadPCs, DumpPCs
  <2>. QED  BY <2>2, <2>3, Reporting DEF CopyInv, ReportsTruthful
<1>3. ASSUME NEW w \in Workers, Answers(w)
      PROVE  worker'[v] = worker[v]
  BY <1>3, <1>a DEF Answers, Finish, Idle, Handler, ReportPCs, UploadPCs, DumpPCs
<1>4. ASSUME NEW n \in Nodes, NEW w \in Workers, Poll(w, n) \/ SendReport(w, n), worker'[v] # worker[v]
      PROVE  \E b \in Backups :
               /\ b = BackupOf(worker'[v].job)
               /\ TrueResult(worker'[v].want, b, worker'[v].token)
  <2>1. PICK l : /\ worker' = [worker EXCEPT ![w] = l]
                 /\ l.pc \in ReportPCs => /\ agents[n].phase # "idle"
                                          /\ l.job = agents[n].job /\ l.token = agents[n].token
                                          /\ l.want = Reported(agents[n])
    BY <1>4, RequestSteps
  <2>2. v = w /\ worker'[v] = l
    BY <1>4, <1>a, <2>1
  <2>3. agents[n].phase # "idle" /\ agents[n].job \in Ops
    BY <1>a, <2>1, <2>2 DEF Agent
  <2>4. TrueResult(l.want, BackupOf(agents[n].job), agents[n].token)
    BY <2>1, <2>2, <2>3 DEF CopyInv, AgentsTruthful, Truthful, TrueResult, Reported
  <2>. QED  BY <2>1, <2>2, <2>3, <2>4, OpTypes
<1>5. ASSUME NEW n \in Nodes, AgentFault(n) \/ ExecutorReturns(n)
      PROVE  worker'[v] = worker[v]
  BY <1>5, AgentSteps
<1>6. CASE AdminRequest \/ (\E op \in Ops : LeaseLapses(op)) \/ UNCHANGED vars
  BY <1>6, <1>1, OtherSteps
<1>. QED  BY <1>1, <1>2, <1>3, <1>4, <1>5, <1>6, HandlerSteps DEF Next, AgentRequest

LEMMA AgentsStep ==
  ASSUME TypeOK, CopyInv, [Next]_vars
  PROVE  AgentsTruthful'
<1>a. agents \in [Nodes -> Agent] /\ agents' \in [Nodes -> Agent]
  BY StepType DEF TypeOK
<1>. SUFFICES ASSUME NEW n \in Nodes PROVE Truthful(agents[n])'
  BY DEF AgentsTruthful
<1>b. Truthful(agents[n])
  BY DEF CopyInv, AgentsTruthful
<1>0. ASSUME Truthful(agents'[n])
      PROVE  Truthful(agents[n])'
  <2>1. CASE agents'[n].phase = "idle"
    BY <1>0, <2>1 DEF Truthful
  <2>2. CASE agents'[n].phase # "idle"
    <3>1. BackupOf(agents'[n].job) \in Backups
      BY <1>a, <2>2, OpTypes DEF Agent
    <3>2. PICK b, r, k :
            /\ b \in Backups /\ b = BackupOf(agents'[n].job) /\ r = agents'[n].result /\ k = agents'[n].token
            /\ TrueResult(r, b, k)
      BY <1>0, <2>2, <3>1 DEF Truthful
    <3>3. /\ r = "prepared" => b \in copies' \/ State(b)' = "verified"
          /\ r = "verified" => <<b, k>> \in objects'
      BY <3>2, TruthStays
    <3>. QED  BY <1>0, <3>2, <3>3 DEF Truthful, TrueResult, Kept, State
  <2>. QED  BY <2>1, <2>2
<1>1. CASE agents'[n] = agents[n]
  BY <1>0, <1>1, <1>b
<1>2. ASSUME NEW w \in Workers, GoesOn(w)
      PROVE  agents'[n] = agents[n]
  BY <1>2 DEF GoesOn
<1>3. ASSUME NEW w \in Workers, Answers(w)
      PROVE  Truthful(agents[n])'
  BY <1>0, <1>3, <1>b, AnswerReaches
<1>4. ASSUME NEW m \in Nodes, NEW w \in Workers, Poll(w, m) \/ SendReport(w, m)
      PROVE  Truthful(agents[n])'
  <2>1. agents' = [agents EXCEPT ![m].wait = w]
    BY <1>4, RequestSteps
  <2>2. Truthful(agents'[n])
    BY <1>a, <1>b, <2>1 DEF Truthful, Agent
  <2>. QED  BY <1>0, <2>2
<1>5. ASSUME NEW m \in Nodes, AgentFault(m)
      PROVE  Truthful(agents[n])'
  <2>1. Truthful(IdleAgent)
    BY DEF Truthful, IdleAgent
  <2>2. agents'[n] \in {agents[n], IdleAgent, AfterReject(agents[n])}
    BY <1>5, <1>a DEF AgentFault, ReplyLost, LoseReply, AgentRestarts, Restart
  <2>. QED  BY <1>0, <1>a, <1>b, <2>1, <2>2, AgentAfter
<1>6. ASSUME NEW m \in Nodes, ExecutorReturns(m)
      PROVE  Truthful(agents[n])'
  <2>1. CASE m # n
    BY <1>1, <1>6, <2>1, AgentSteps
  <2>2. CASE m = n
    <3>1. PICK r : /\ Return(n, r)
                   /\ \/ DumpReturns(n, r) /\ r \in {"prepared", "failed"}
                      \/ UploadReturns(n, r) /\ r \in {"verified", "failed"}
      BY <1>6, <2>2 DEF ExecutorReturns, DumpReturns, UploadReturns
    <3>2. /\ agents'[n].phase = "working" /\ agents'[n].result = r
          /\ agents'[n].job = agents[n].job /\ agents'[n].token = agents[n].token
      BY <1>a, <3>1 DEF Return, Agent
    <3>3. PICK b : b = BackupOf(agents[n].job)
      OBVIOUS
    <3>4. /\ r = "prepared" => b \in copies'
          /\ r = "verified" => <<b, agents[n].token>> \in objects'
      <4>1. CASE DumpReturns(n, r) /\ r \in {"prepared", "failed"}
        BY <3>3, <4>1 DEF DumpReturns
      <4>2. CASE UploadReturns(n, r) /\ r \in {"verified", "failed"}
        BY <3>3, <4>2 DEF UploadReturns
      <4>. QED  BY <3>1, <4>1, <4>2
    <3>. QED  BY <3>2, <3>3, <3>4 DEF Truthful, TrueResult, Kept
  <2>. QED  BY <2>1, <2>2
<1>7. CASE AdminRequest \/ (\E op \in Ops : LeaseLapses(op)) \/ UNCHANGED vars
  BY <1>7, <1>1, OtherSteps
<1>. QED  BY <1>1, <1>2, <1>3, <1>4, <1>5, <1>6, <1>7, HandlerSteps DEF Next, AgentRequest

LEMMA CopyInvariant == Spec => [](TypeOK /\ CopyInv)
<1>1. TypeOK /\ CopyInv /\ [Next]_vars => (TypeOK /\ CopyInv)'
  <2>. SUFFICES ASSUME TypeOK, CopyInv, [Next]_vars PROVE TypeOK' /\ CopyInv'
    OBVIOUS
  <2>1. AwaitInv /\ VerifyInv
    BY DEF CopyInv
  <2>2. TypeOK' /\ VerifiedIsStored' /\ PreparedHasCopy'
    BY StepType, StoredStep
  <2>3. AgentsTruthful' /\ ReportsTruthful' /\ AwaitInv' /\ VerifyInv'
    BY <2>1, AgentsStep, ReportsStep, AwaitStep, VerifyStep
  <2>. QED  BY <2>2, <2>3 DEF CopyInv
<1>. QED  BY InitType, InitCopy, <1>1, PTL DEF Spec

(* A verified backup names a version that was read back intact, whichever  *)
(* of several uploads the last commit was for.                             *)
THEOREM VerifiedStored == Spec => []VerifiedIsStored
BY CopyInvariant, PTL DEF CopyInv

(* The files of a prepared backup are not purged, late and lost answers    *)
(* notwithstanding.                                                        *)
THEOREM PreparedKept == Spec => []PreparedHasCopy
BY CopyInvariant, PTL DEF CopyInv
=============================================================================
