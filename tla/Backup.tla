------------------------------- MODULE Backup -------------------------------
(***************************************************************************)
(* The life of a backup: the admin API that queues it (backups.ts), the    *)
(* node API that has an agent dump it (backupOperations.ts) and then upload*)
(* it and read it back (backupUploadOperations.ts), and what the agent does*)
(* with the files (node_agent/backup_service.py, backup_stage_service.py,  *)
(* backup_upload.py, main.py).                                             *)
(*                                                                         *)
(* Both operations of a backup have the backup's id, a lease table each,   *)
(* and one claim request and one result URL that try the upload handler    *)
(* first (app.ts).  An operation is here a (family, backup) pair.  Size and*)
(* checksum of the three artifacts are fixed by the one dump of a backup,  *)
(* and left out; the version that the object store gives to an upload is   *)
(* named by the lease token under which it was put.                        *)
(***************************************************************************)
EXTENDS EdgeRuntime

CONSTANT Backups

Families == {"backup", "upload"}
Ops == Families \X Backups
Family(op) == op[1]
BackupOf(op) == op[2]
Upload(b) == <<"upload", b>>
Dump(b) == <<"backup", b>>

ASSUME BackupAssumption ==
  /\ None \notin Ops
  /\ None \notin {"running", "prepared", "verified", "failed"} \cup Families

VARIABLES
  backups,  \* backup_jobs: state ("absent": no row), node, object version (0: NULL)
  copies,   \* backups whose files are in the work root of their node
  objects   \* history: the (backup, version) pairs put and read back intact

vars == <<backups, leases, nodes, tokens, worker, agents, copies, objects, faults>>
tables == <<backups, leases, nodes, tokens>>
disks == <<copies, objects>>

State(b) == backups[b].state
InFlight(b) == State(b) \in {"dispatched", "running"}

NoBackup == [state |-> "absent", node |-> None, version |-> 0]

Init ==
  /\ backups = [b \in Backups |-> NoBackup]
  /\ leases = [op \in Ops |-> NoLease]
  /\ nodes = [n \in Nodes |-> "active"]
  /\ tokens = 0
  /\ worker = [w \in Workers |-> Idle]
  /\ agents = [n \in Nodes |-> IdleAgent]
  /\ copies = {}
  /\ objects = {}
  /\ faults = 0

-----------------------------------------------------------------------------
(* createBackupJob: a new backup of a tenant that lives on an active node. *)
CreateBackupJob(b, n) ==
  /\ State(b) = "absent"
  /\ Active(n)
  /\ backups' = [backups EXCEPT ![b] = [state |-> "queued", node |-> n, version |-> 0]]
  /\ UNCHANGED <<leases, nodes, tokens, worker, agents, disks, faults>>

-----------------------------------------------------------------------------
(* The claim: the upload handler, then the backup handler.  A worker's     *)
(* `want' is the family whose turn it is.                                  *)

(* Mutant of Expired: uploads, too, are looked for among dumps in flight. *)
Expired_InFlightOnly(family, n) ==
  {op \in Ops : /\ Family(op) = family
                /\ Leased(op) /\ ~leases[op].live
                /\ backups[BackupOf(op)].node = n
                /\ InFlight(BackupOf(op))}

(* The expired leases of a family.  A dump's counts while it is in flight, *)
(* an upload's whatever the state of the backup.                           *)
Expired(family, n) ==
  {op \in Ops : /\ Family(op) = family
                /\ Leased(op) /\ ~leases[op].live
                /\ backups[BackupOf(op)].node = n
                /\ family = "backup" => InFlight(BackupOf(op))}

(* Authentication, and the SELECT of the expired upload leases. *)
Poll(w, n) ==
  /\ Request(w, n, [Handler("expire", n, None, 0, "upload") EXCEPT !.work = Expired("upload", n)])
  /\ UNCHANGED <<backups, disks>>

(* The backup handler begins: its SELECT of expired leases. *)
NextFamily(w) ==
  /\ At(w, "next")
  /\ worker' = [worker EXCEPT ![w] =
       [@ EXCEPT !.pc = "expire", !.want = "backup", !.work = Expired("backup", worker[w].node)]]
  /\ UNCHANGED <<tables, agents, disks, faults>>

(* Mutant of FailedIfInFlight: the lease goes, the backup stays. *)
FailedIfInFlight_Kept(row) == row

FailedIfInFlight(row) ==
  IF row.state \in {"dispatched", "running"} THEN [row EXCEPT !.state = "failed"] ELSE row

(* The batch for one expired lease: it goes, whatever it is by now; the    *)
(* backup fails if it was a dump and is still in flight.                   *)
ExpireLease(w, op) ==
  LET b == BackupOf(op) IN
  /\ At(w, "expire")
  /\ op \in worker[w].work
  /\ leases' = [leases EXCEPT ![op] = NoLease]
  /\ backups' = IF Family(op) = "backup"
                THEN [backups EXCEPT ![b] = FailedIfInFlight(@)] ELSE backups
  /\ worker' = [worker EXCEPT ![w].work = @ \ {op}]
  /\ UNCHANGED <<nodes, tokens, agents, disks, faults>>

(* The state a backup has when the family's operation may be claimed. *)
Source == [backup |-> "queued", upload |-> "prepared"]

Unleased(family, n) ==
  {op \in Ops : /\ Family(op) = family /\ ~Leased(op)
                /\ backups[BackupOf(op)].node = n
                /\ State(BackupOf(op)) = Source[family]}

(* INSERT OR IGNORE ... SELECT, when it finds an operation ... *)
TakeLease(w, op) ==
  /\ At(w, "expire")
  /\ worker[w].work = {}
  /\ op \in Unleased(worker[w].want, worker[w].node)
  /\ Lease(w, op, "source")
  /\ UNCHANGED <<backups, disks>>

(* ... and when it does not.  After the backup handler the agent is told   *)
(* that there is none.                                                     *)
TakeNothing(w) ==
  /\ At(w, "expire")
  /\ worker[w].work = {}
  /\ Unleased(worker[w].want, worker[w].node) = {}
  /\ IF worker[w].want = "upload"
     THEN Goto(w, "next") /\ UNCHANGED agents
     ELSE Deliver(w, IdleAgent) /\ Finish(w)
  /\ UNCHANGED <<tables, disks, faults>>

(* The SELECT of the row after its lease was inserted. *)
ReadSource(w) ==
  LET op == worker[w].job IN
  /\ At(w, "source")
  /\ Goto(w, IF State(BackupOf(op)) = Source[Family(op)] THEN "dispatch" ELSE "withdraw")
  /\ UNCHANGED <<tables, agents, disks, faults>>

Withdraw(w) ==
  /\ At(w, "withdraw")
  /\ leases' = [leases EXCEPT ![worker[w].job] = NoLease]
  /\ Deliver(w, IdleAgent)
  /\ Finish(w)
  /\ UNCHANGED <<backups, nodes, tokens, disks, faults>>

Dispatched(row) == IF row.state = "queued" THEN [row EXCEPT !.state = "dispatched"] ELSE row

(* The dispatch batch, and the response.  An upload leaves the state alone.*)
Dispatch(w) ==
  LET op == worker[w].job
      b == BackupOf(op)
  IN
  /\ At(w, "dispatch")
  /\ backups' = IF Family(op) = "backup"
                THEN [backups EXCEPT ![b] = Dispatched(@)] ELSE backups
  /\ Deliver(w, Claimant(op, worker[w].token))
  /\ Finish(w)
  /\ UNCHANGED <<leases, nodes, tokens, disks, faults>>

-----------------------------------------------------------------------------
(* A report: which handler takes it *)

SendReport(w, n) == Report(w, n, "route") /\ UNCHANGED <<backups, disks>>

(* Mutant of Understood: the upload handler takes "prepared" too. *)
Understood_Prepared(upload) ==
  {"running", "failed"} \cup IF upload THEN {"verified", "prepared"} ELSE {"prepared"}

(* The results that the upload handler, or the backup handler, parses. *)
Understood(upload) ==
  {"running", "failed"} \cup IF upload THEN {"verified"} ELSE {"prepared"}

(* reportBackupUploadResult takes the report when an upload lease exists or*)
(* the backup is verified, and leaves it to reportBackupResult otherwise.  *)
(* (A verified backup has no upload lease and stays verified, so that the  *)
(* two reads may be taken as one.)                                         *)
Route(w) ==
  LET b == BackupOf(worker[w].job)
      upload == Leased(Upload(b)) \/ State(b) = "verified"
      next == IF Leased(Upload(b)) THEN "upload" ELSE IF upload THEN "replayVerified" ELSE "lease"
  IN
  /\ At(w, "route")
  /\ IF worker[w].want \in Understood(upload)
     THEN Goto(w, next) /\ UNCHANGED agents
     ELSE Reject(w)
  /\ UNCHANGED <<tables, disks, faults>>

(* Mutant of Purgeable: the copy goes with the first accepted result. *)
Purgeable_AnyResult(w) ==
  {b \in Backups : \E n \in Nodes :
     AwaitedBy(w, n) /\ agents[n].result # None /\ agents[n].job = Upload(b)}

(* The local files that the agent purges once its "verified" is accepted.  *)
Purgeable(w) ==
  {b \in Backups : \E n \in Nodes :
     AwaitedBy(w, n) /\ agents[n].result = "verified" /\ agents[n].job = Upload(b)}

(* The report is accepted; a purge that fails is only logged. *)
Settle(w) ==
  /\ Accept(w)
  /\ \E gone \in {{}, Purgeable(w)} : copies' = copies \ gone
  /\ UNCHANGED objects

-----------------------------------------------------------------------------
(* reportBackupUploadResult *)

(* Mutant of SameVerified: the report of a verified backup is refused. *)
SameVerified_Never(w) == FALSE

(* verifiedReplayMatches: this very upload is the one on record. *)
SameVerified(w) ==
  /\ worker[w].want = "verified"
  /\ State(BackupOf(worker[w].job)) = "verified"
  /\ backups[BackupOf(worker[w].job)].version = worker[w].token

ReplayVerified(w) ==
  /\ At(w, "replayVerified")
  /\ IF SameVerified(w)
     THEN Settle(w)
     ELSE Goto(w, "upload") /\ UNCHANGED <<agents, disks>>
  /\ UNCHANGED <<tables, faults>>

(* The lease with this token; what comes next depends on the result. *)
CheckUpload(w) ==
  LET l == leases[Upload(BackupOf(worker[w].job))]
      next == IF ~l.live THEN "discard"
              ELSE IF worker[w].want = "running" THEN "extend"
              ELSE IF worker[w].want = "failed" THEN "release" ELSE "stored"
  IN
  /\ At(w, "upload")
  /\ IF l.token = worker[w].token
     THEN Goto(w, next) /\ UNCHANGED agents
     ELSE Reject(w)
  /\ UNCHANGED <<tables, disks, faults>>

(* An expired lease is deleted, 409. *)
DiscardLease(w) ==
  /\ At(w, "discard")
  /\ leases' = [leases EXCEPT ![Upload(BackupOf(worker[w].job))] = NoLease]
  /\ Reject(w)
  /\ UNCHANGED <<backups, nodes, tokens, disks, faults>>

(* "running" extends the lease. *)
ExtendUpload(w) ==
  /\ At(w, "extend")
  /\ leases' = [leases EXCEPT ![Upload(BackupOf(worker[w].job))] = Renewed(@)]
  /\ Settle(w)
  /\ UNCHANGED <<backups, nodes, tokens, faults>>

(* "failed": the lease goes, the backup stays prepared for another upload. *)
ReleaseUpload(w) ==
  /\ At(w, "release")
  /\ leases' = [leases EXCEPT ![Upload(BackupOf(worker[w].job))] = NoLease]
  /\ Settle(w)
  /\ UNCHANGED <<backups, nodes, tokens, faults>>

(* "verified": the backup must be prepared when it is read ... *)
CheckStored(w) ==
  /\ At(w, "stored")
  /\ IF State(BackupOf(worker[w].job)) = "prepared"
     THEN Goto(w, "verify") /\ UNCHANGED agents
     ELSE Reject(w)
  /\ UNCHANGED <<tables, disks, faults>>

(* Mutant of Verified: the artifact rows are not updated. *)
Verified_NoVersion(row, token) ==
  [row EXCEPT !.state = IF @ = "prepared" THEN "verified" ELSE @]

(* ... and the batch, whose artifact rows are updated in any state.  *)
Verified(row, token) ==
  [row EXCEPT !.version = token, !.state = IF @ = "prepared" THEN "verified" ELSE @]

CommitVerified(w) ==
  LET b == BackupOf(worker[w].job) IN
  /\ At(w, "verify")
  /\ backups' = [backups EXCEPT ![b] = Verified(@, worker[w].token)]
  /\ leases' = [leases EXCEPT ![Upload(b)] = NoLease]
  /\ Settle(w)
  /\ UNCHANGED <<nodes, tokens, faults>>

-----------------------------------------------------------------------------
(* reportBackupResult *)

CheckLease(w) ==
  LET l == leases[Dump(BackupOf(worker[w].job))] IN
  /\ At(w, "lease")
  /\ IF l.token = worker[w].token /\ l.live
     THEN Goto(w, "state") /\ UNCHANGED agents
     ELSE IF worker[w].want = "prepared"
     THEN Goto(w, "replayPrepared") /\ UNCHANGED agents
     ELSE Reject(w)
  /\ UNCHANGED <<tables, disks, faults>>

(* preparedReplayMatches: the artifacts on record are those reported.  *)
SamePrepared(b) == State(b) = "prepared"

ReplayPrepared(w) ==
  /\ At(w, "replayPrepared")
  /\ IF SamePrepared(BackupOf(worker[w].job))
     THEN Settle(w)
     ELSE Reject(w) /\ UNCHANGED disks
  /\ UNCHANGED <<tables, faults>>

(* The states a reported result may follow. *)
Precursors == [running  |-> {"dispatched"},
               prepared |-> {"running"},
               failed   |-> {"dispatched", "running"}]

CheckState(w) ==
  LET s == State(BackupOf(worker[w].job))
      want == worker[w].want
      renewal == s = "running" /\ want = "running"
  IN
  /\ At(w, "state")
  /\ IF renewal \/ s \in Precursors[want]
     THEN Goto(w, IF renewal THEN "renew" ELSE "commit") /\ UNCHANGED agents
     ELSE Reject(w)
  /\ UNCHANGED <<tables, disks, faults>>

RenewLease(w) ==
  /\ At(w, "renew")
  /\ leases' = [leases EXCEPT ![Dump(BackupOf(worker[w].job))] = Renewed(@)]
  /\ Settle(w)
  /\ UNCHANGED <<backups, nodes, tokens, faults>>

(* Mutant of Advanced: the state read before is trusted. *)
Advanced_Unguarded(row, want) == [row EXCEPT !.state = want]

(* Every UPDATE of the report's batch asks again for the state it expects. *)
Advanced(row, want) ==
  IF row.state \in Precursors[want] THEN [row EXCEPT !.state = want] ELSE row

(* Mutant of LeaseAfter: a failed dump keeps its lease. *)
LeaseAfter_KeptOnFailure(l, want) == IF want = "prepared" THEN NoLease ELSE Renewed(l)

LeaseAfter(l, want) == IF want = "running" THEN Renewed(l) ELSE NoLease

CommitReport(w) ==
  LET b == BackupOf(worker[w].job)
      want == worker[w].want
  IN
  /\ At(w, "commit")
  /\ backups' = [backups EXCEPT ![b] = Advanced(@, want)]
  /\ leases' = [leases EXCEPT ![Dump(b)] = LeaseAfter(@, want)]
  /\ Settle(w)
  /\ UNCHANGED <<nodes, tokens, faults>>

-----------------------------------------------------------------------------
(* The agent's executors, and the environment *)

(* The dump is left in the work root, or removed again when it fails. *)
DumpReturns(n, r) ==
  /\ Family(agents[n].job) = "backup"
  /\ Return(n, r)
  /\ copies' = IF r = "prepared" THEN copies \cup {BackupOf(agents[n].job)} ELSE copies
  /\ UNCHANGED <<backups, objects, faults>>

(* The upload needs the local files; with them, it fails only when the     *)
(* object store does.                                                      *)
UploadReturns(n, r) ==
  LET a == agents[n]
      b == BackupOf(a.job)
  IN
  /\ Family(a.job) = "upload"
  /\ Return(n, r)
  /\ r = "verified" => b \in copies
  /\ objects' = IF r = "verified" THEN objects \cup {<<b, a.token>>} ELSE objects
  /\ IF r = "failed" /\ b \in copies THEN Fault ELSE UNCHANGED faults
  /\ UNCHANGED <<backups, copies>>

ExecutorReturns(n) ==
  /\ agents[n].phase = "working"
  /\ \/ \E r \in {"prepared", "failed"} : DumpReturns(n, r)
     \/ \E r \in {"verified", "failed"} : UploadReturns(n, r)

LeaseLapses(op) == Lapse(op) /\ UNCHANGED <<backups, disks>>

WorkerFails(w) == Abort(w) /\ UNCHANGED <<backups, disks>>

ReplyLost(n) == LoseReply(n) /\ UNCHANGED <<backups, disks>>

AgentRestarts(n) == Restart(n) /\ UNCHANGED <<backups, disks>>

RevokeNode(n) == Revoke(n) /\ UNCHANGED <<backups, disks>>

-----------------------------------------------------------------------------
AdminRequest ==
  \/ \E b \in Backups, n \in Nodes : CreateBackupJob(b, n)
  \/ \E n \in Nodes : RevokeNode(n)

ClaimStep(w) ==
  \/ \E op \in Ops : ExpireLease(w, op) \/ TakeLease(w, op)
  \/ NextFamily(w) \/ TakeNothing(w) \/ ReadSource(w) \/ Withdraw(w) \/ Dispatch(w)

UploadReport(w) ==
  \/ ReplayVerified(w) \/ CheckUpload(w) \/ DiscardLease(w) \/ ExtendUpload(w)
  \/ ReleaseUpload(w) \/ CheckStored(w) \/ CommitVerified(w)

DumpReport(w) ==
  \/ CheckLease(w) \/ ReplayPrepared(w) \/ CheckState(w) \/ RenewLease(w) \/ CommitReport(w)

WorkerStep(w) ==
  ClaimStep(w) \/ Route(w) \/ UploadReport(w) \/ DumpReport(w)

AgentRequest(n) == \E w \in Workers : Poll(w, n) \/ SendReport(w, n)

AgentFault(n) == ReplyLost(n) \/ AgentRestarts(n)

Next ==
  \/ AdminRequest
  \/ \E w \in Workers : WorkerStep(w) \/ WorkerFails(w)
  \/ \E n \in Nodes : AgentRequest(n) \/ AgentFault(n) \/ ExecutorReturns(n)
  \/ \E op \in Ops : LeaseLapses(op)

Spec == Init /\ [][Next]_vars

(* Fairness, as in Provisioning. *)
Fairness ==
  /\ \A w \in Workers : WF_vars(WorkerStep(w))
  /\ \A n \in Nodes : SF_vars(AgentRequest(n)) /\ SF_vars(ExecutorReturns(n))
  /\ \A op \in Ops : WF_vars(LeaseLapses(op) /\ UNCHANGED faults)

FairSpec == Spec /\ Fairness

-----------------------------------------------------------------------------
(* Type invariant *)

BackupStates ==
  {"absent", "queued", "dispatched", "running", "prepared", "verified", "failed"}
BackupRow == [state : BackupStates, node : Nodes \cup {None}, version : 0..MaxTokens]
LeaseRow == [token : 0..MaxTokens, live : BOOLEAN]

Results == {"prepared", "verified", "failed"}
ClaimPCs == {"expire", "next", "source", "withdraw", "dispatch"}
UploadPCs == {"replayVerified", "upload", "discard", "extend", "release", "stored", "verify"}
DumpPCs == {"lease", "replayPrepared", "state", "renew", "commit"}
ReportPCs == {"route"} \cup UploadPCs \cup DumpPCs
PCs == {"idle"} \cup ClaimPCs \cup ReportPCs

Assigned(l) ==
  /\ l.pc # "idle" => l.node \in Nodes
  /\ l.pc \in {"source", "withdraw", "dispatch"} \cup ReportPCs => l.job \in Ops
  /\ l.pc \in {"expire", "next"} => l.want \in Families
  /\ l.pc \in ReportPCs => l.want \in Results \cup {"running"}
  /\ l.pc \in DumpPCs => l.want # "verified"
  /\ l.pc \in UploadPCs => l.want # "prepared"
  /\ l.pc \in {"extend", "renew"} => l.want = "running"
  /\ l.pc = "release" => l.want = "failed"
  /\ l.pc \in {"stored", "verify"} => l.want = "verified"
  /\ l.pc = "replayPrepared" => l.want = "prepared"
Local == {l \in [pc : PCs, node : Nodes \cup {None}, job : Ops \cup {None},
                 token : 0..MaxTokens, want : Results \cup Families \cup {"running", None},
                 seen : {"absent"}, work : SUBSET Ops] : Assigned(l)}
Agent == {a \in [phase : {"idle", "starting", "working"}, job : Ops \cup {None},
                 token : 0..MaxTokens, result : Results \cup {None},
                 wait : Workers \cup {None}] : a.phase # "idle" => a.job \in Ops}

TypeOK ==
  /\ backups \in [Backups -> BackupRow]
  /\ leases \in [Ops -> LeaseRow]
  /\ nodes \in [Nodes -> {"active", "revoked"}]
  /\ tokens \in 0..MaxTokens
  /\ worker \in [Workers -> Local]
  /\ agents \in [Nodes -> Agent]
  /\ copies \in SUBSET Backups
  /\ objects \in SUBSET (Backups \X (0..MaxTokens))
  /\ faults \in 0..MaxFaults

-----------------------------------------------------------------------------
(* Safety, whatever the number of invocations in flight *)

(* A dump has a lease only while it is open, and an upload only while the  *)
(* backup is prepared: no agent reports with a standing lease on a backup  *)
(* that has moved on.                                                      *)
LeaseFollowsState ==
  \A b \in Backups :
    /\ Leased(Dump(b)) => State(b) \in {"queued", "dispatched", "running"}
    /\ Leased(Upload(b)) => State(b) = "prepared"

(* A dump in flight has a lease, so that its agent's reports or the expiry *)
(* of the lease can end it.  Provisioning cannot promise as much.          *)
InFlightHasLease == \A b \in Backups : InFlight(b) => Leased(Dump(b))

(* The object version of a verified backup is one that an upload of this   *)
(* backup put into the store and read back: what a restore will fetch.     *)
VerifiedIsStored ==
  \A b \in Backups : State(b) = "verified" => <<b, backups[b].version>> \in objects

(* The only copy of a prepared backup, on the disk of its node, is still   *)
(* there: it is purged after the backup is verified and never before.      *)
PreparedHasCopy == \A b \in Backups : State(b) = "prepared" => b \in copies

(* Strengthening of InFlightHasLease: whoever claims a dump is alone with  *)
(* it, and what an expiry or a report is about to write is not behind the  *)
(* state of the backup.                                                    *)
Claims(w, b) == worker[w].pc \in {"source", "dispatch"} /\ worker[w].job = Dump(b)
Begun(b) == State(b) \notin {"absent", "queued"}

ClaimInv ==
  /\ \A w \in Workers, b \in Backups : Claims(w, b) => State(b) = "queued" /\ Leased(Dump(b))
  /\ \A v, w \in Workers, b \in Backups : Claims(v, b) /\ Claims(w, b) => v = w
  /\ \A w \in Workers : worker[w].pc = "withdraw" => Family(worker[w].job) = "upload"
  /\ \A w \in Workers, b \in Backups : Dump(b) \in worker[w].work => Begun(b)
  /\ \A w \in Workers : worker[w].pc = "commit" =>
       LET b == BackupOf(worker[w].job) IN
       /\ Begun(b)
       /\ worker[w].want = "prepared" => State(b) # "dispatched"

LeaseInv == LeaseFollowsState /\ InFlightHasLease /\ ClaimInv

(* Strengthening of PreparedHasCopy and VerifiedIsStored: a result is true *)
(* from the executor to the report's last statement, an agent waits for the*)
(* report of its own result, and only a prepared backup is to be verified. *)
Kept(b) == b \in copies \/ State(b) = "verified"

TrueResult(r, b, token) ==
  /\ r = "prepared" => Kept(b)
  /\ r = "verified" => <<b, token>> \in objects

Awaits(a, l) ==
  IF a.phase = "idle" THEN l.pc \in ClaimPCs
  ELSE l.pc \in ReportPCs /\ l.job = a.job /\ l.token = a.token /\ l.want = Reported(a)

Truthful(a) ==
  /\ a.phase # "idle" => TrueResult(a.result, BackupOf(a.job), a.token)
  /\ a.phase # "working" => a.result = None

AgentsTruthful == \A n \in Nodes : Truthful(agents[n])

ReportsTruthful ==
  \A w \in Workers : worker[w].pc \in ReportPCs =>
    TrueResult(worker[w].want, BackupOf(worker[w].job), worker[w].token)

AwaitInv ==
  \A n \in Nodes, w \in Workers : agents[n].wait = w =>
    worker[w].node = n /\ Awaits(agents[n], worker[w])

VerifyInv ==
  \A w \in Workers : worker[w].pc = "verify" =>
    State(BackupOf(worker[w].job)) \in {"prepared", "verified"}

CopyInv ==
  /\ VerifiedIsStored /\ PreparedHasCopy
  /\ AgentsTruthful /\ ReportsTruthful
  /\ AwaitInv /\ VerifyInv

(* A backup moves along queued, dispatched, running, prepared, verified, or*)
(* fails while it is in flight; it never fails after it was prepared.      *)
Successors == [absent     |-> {"queued"},
               queued     |-> {"dispatched"},
               dispatched |-> {"running", "failed"},
               running    |-> {"prepared", "failed"},
               prepared   |-> {"verified"},
               verified   |-> {},
               failed     |-> {}]

BackupStepsLegal ==
  [][\A b \in Backups :
       backups'[b].state # State(b) => backups'[b].state \in Successors[State(b)]]_vars

-----------------------------------------------------------------------------
(* Liveness *)

OnActive(b) == backups[b].node \in ActiveNodes

(* Whatever becomes of an upload (failed, aborted, lease lapsed, agent     *)
(* restarted), a prepared backup on an active node whose agent keeps       *)
(* polling is uploaded again until it is verified.                         *)
PreparedIsVerified ==
  (\A n \in Nodes : []<>(agents[n] = IdleAgent)) =>
    \A b \in Backups : State(b) = "prepared" ~> State(b) = "verified" \/ ~OnActive(b)

(* An agent whose result is on record, though the answer was lost, gets an *)
(* answer that sets it free: the replays of "prepared" and "verified".     *)
(* With invocations that overlap this fails: a poll that the agent gave up *)
(* on may still lease the upload, and the repeated "prepared" then goes to *)
(* the handler of uploads, which refuses it every time.                    *)
Recorded(a) ==
  LET b == BackupOf(a.job) IN
  /\ a.phase = "working"
  /\ \/ a.result = "prepared" /\ State(b) = "prepared"
     \/ a.result = "verified" /\ State(b) = "verified" /\ backups[b].version = a.token

Serial == \A v, w \in Workers : At(v, "idle") \/ At(w, "idle") \/ v = w

RecordedIsSettled ==
  []Serial =>
    \A n \in Nodes : Recorded(agents[n]) ~> agents[n] = IdleAgent \/ ~Active(n)
=============================================================================
