------------------------------- MODULE Restore -------------------------------
(***************************************************************************)
(* A restore of a verified backup into a disposable test tenant: the admin *)
(* API that queues it (restores.ts), the node API that leases it to the    *)
(* agent of the backup's node (restoreOperations.ts), the agent's executor *)
(* (node_agent/restore_operation.py) and the engine of the local helper    *)
(* (node_agent/restore_service.py, provisioner_service.py).                *)
(*                                                                         *)
(* The name of the target database is a function of the target tenant and  *)
(* UNIQUE, so that a tenant is the target of at most one restore for ever; *)
(* the restore is named by that tenant.  A verified backup stays verified  *)
(* and keeps its artifacts (module Backup): the claim always finds them.   *)
(*                                                                         *)
(* A provisioning job may take the same tenant; it is two requests here and*)
(* the subject of Provisioning.                                            *)
(***************************************************************************)
EXTENDS EdgeRuntime

CONSTANTS
  Tenants,
  MaxAttempt    \* restore_jobs.attempt: the schema's CHECK

ASSUME RestoreAssumption ==
  /\ MaxAttempt \in Nat
  /\ None \notin Tenants
  /\ None \notin {"running", "validated", "failed", "ready", "restored", "provisioned"}

VARIABLES
  jobs,      \* restore_jobs: state ("absent": no row), node, attempt
  tenants,   \* tenants: status, node, the database it is given
  identity,  \* tenants whose restore has its provisioning_jobs row
  building,  \* the node where a provisioning job builds the tenant (None: no such job)
  disk,      \* the target database (its marker) and directories, on the restore's node
  calls,     \* requests that wait on the helper's socket: <<restore, still awaited>>
  helper     \* the request each node's helper serves

vars == <<jobs, tenants, identity, building, leases, nodes, tokens, worker, agents,
          disk, calls, helper, faults>>
rows == <<jobs, tenants, identity>>
tables == <<rows, building, leases, nodes, tokens>>
local == <<disk, calls, helper>>

State(t) == jobs[t].state
InFlight(t) == State(t) \in {"dispatched", "running"}

NoJob == [state |-> "absent", node |-> None, attempt |-> 0]
Tenant(status, n, db) == [status |-> status, node |-> n, db |-> db]
NoCall == [job |-> None, stage |-> "idle", heard |-> FALSE]
EmptyDisk == [db |-> "none", staging |-> FALSE, files |-> FALSE]

Init ==
  /\ jobs = [t \in Tenants |-> NoJob]
  /\ tenants = [t \in Tenants |-> Tenant("pending", None, None)]
  /\ identity = {}
  /\ building = [t \in Tenants |-> None]
  /\ leases = [t \in Tenants |-> NoLease]
  /\ nodes = [n \in Nodes |-> "active"]
  /\ tokens = 0
  /\ worker = [w \in Workers |-> Idle]
  /\ agents = [n \in Nodes |-> IdleAgent]
  /\ disk = [t \in Tenants |-> EmptyDisk]
  /\ calls = [n \in Nodes |-> {}]
  /\ helper = [n \in Nodes |-> NoCall]
  /\ faults = 0

-----------------------------------------------------------------------------
(* The admin API *)

(* Mutant of Eligible: a tenant that is being provisioned will do. *)
Eligible_Taken(t) == tenants[t].status \in {"pending", "provisioning"}

(* restoreEligibility: a pending tenant, nothing on it yet. *)
Eligible(t) == tenants[t] = Tenant("pending", None, None)

(* createRestoreJob up to its batch; n is the node of the backup. *)
CreateRead(w, t, n) ==
  /\ Eligible(t)
  /\ Active(n)
  /\ Begin(w, Handler("create", n, t, 0, None))
  /\ UNCHANGED <<tables, agents, local, faults>>

(* The tenant's UPDATE asks again what was read ... *)
TakenUp(t, n) == IF Eligible(t) THEN Tenant("provisioning", n, "restored") ELSE tenants[t]

(* ... but the INSERT before it does not; UNIQUE aborts it only when there *)
(* is a restore of this tenant already.                                    *)
CreateCommit(w) ==
  LET t == worker[w].job
      n == worker[w].node
  IN
  /\ At(w, "create")
  /\ Finish(w)
  /\ IF State(t) = "absent"
     THEN /\ jobs' = [jobs EXCEPT ![t] = [state |-> "queued", node |-> n, attempt |-> 0]]
          /\ tenants' = [tenants EXCEPT ![t] = TakenUp(t, n)]
     ELSE UNCHANGED <<jobs, tenants>>
  /\ UNCHANGED <<identity, building, leases, nodes, tokens, agents, local, faults>>

-----------------------------------------------------------------------------
(* A provisioning job of the same tenant *)

(* createProvisioningJob: the reads, of a pending or failed tenant ... *)
TakeRead(w, t, n) ==
  /\ tenants[t].status \in {"pending", "failed"}
  /\ Active(n)
  /\ building[t] = None
  /\ Begin(w, Handler("take", n, t, 0, None))
  /\ UNCHANGED <<tables, agents, local, faults>>

(* ... and the batch, whose UPDATE of the tenant asks for nothing. *)
TakeCommit(w) ==
  LET t == worker[w].job
      n == worker[w].node
  IN
  /\ At(w, "take")
  /\ Finish(w)
  /\ building' = [building EXCEPT ![t] = n]
  /\ tenants' = [tenants EXCEPT ![t] = [@ EXCEPT !.status = "provisioning", !.node = n]]
  /\ UNCHANGED <<jobs, identity, leases, nodes, tokens, agents, local, faults>>

(* The report of the job's result r, which writes the tenant in any state. *)
BuildReport(w, t, r) ==
  /\ building[t] # None
  /\ Begin(w, Handler("built", building[t], t, 0, r))
  /\ UNCHANGED <<tables, agents, local, faults>>

Built(row, r) ==
  IF r = "ready" THEN [row EXCEPT !.status = "ready", !.db = "provisioned"]
  ELSE [row EXCEPT !.status = "failed"]

BuildCommit(w) ==
  LET t == worker[w].job IN
  /\ At(w, "built")
  /\ Finish(w)
  /\ building' = [building EXCEPT ![t] = None]
  /\ tenants' = [tenants EXCEPT ![t] = Built(@, worker[w].want)]
  /\ UNCHANGED <<jobs, identity, leases, nodes, tokens, agents, local, faults>>

-----------------------------------------------------------------------------
(* claimRestore.  It is the first handler that a poll reaches. *)

(* Mutant of Expired: only the leases of restores that run are looked for. *)
Expired_RunningOnly(n) ==
  {t \in Tenants : jobs[t].node = n /\ Leased(t) /\ ~leases[t].live /\ State(t) = "running"}

(* All expired leases of the node, whatever the state of their restores. *)
Expired(n) == {t \in Tenants : jobs[t].node = n /\ Leased(t) /\ ~leases[t].live}

Poll(w, n) ==
  /\ Request(w, n, [Handler("expire", n, None, 0, None) EXCEPT !.work = Expired(n)])
  /\ UNCHANGED <<rows, building, local>>

Requeued(row) == IF row.state \in {"dispatched", "running"} THEN [row EXCEPT !.state = "queued"] ELSE row

(* The batch for one expired lease: it goes, whatever it is by now, and a  *)
(* restore in flight is tried again.  The tenant is not touched.           *)
ExpireLease(w, t) ==
  /\ At(w, "expire")
  /\ t \in worker[w].work
  /\ worker' = [worker EXCEPT ![w].work = @ \ {t}]
  /\ leases' = [leases EXCEPT ![t] = NoLease]
  /\ jobs' = [jobs EXCEPT ![t] = Requeued(@)]
  /\ UNCHANGED <<tenants, identity, building, nodes, tokens, agents, local, faults>>

Unleased(n) == {t \in Tenants : jobs[t].node = n /\ State(t) = "queued" /\ ~Leased(t)}

TakeLease(w, t) ==
  /\ At(w, "expire")
  /\ worker[w].work = {}
  /\ t \in Unleased(worker[w].node)
  /\ Lease(w, t, "dispatch")
  /\ UNCHANGED <<rows, building, local>>

(* Nothing to restore: the request goes on to the handlers of the other    *)
(* families, which have nothing here.                                      *)
TakeNothing(w) ==
  /\ At(w, "expire")
  /\ worker[w].work = {}
  /\ Unleased(worker[w].node) = {}
  /\ Deliver(w, IdleAgent)
  /\ Finish(w)
  /\ UNCHANGED <<tables, local, faults>>

Dispatched(row) == [row EXCEPT !.state = "dispatched", !.attempt = @ + 1]

(* The UPDATE of a queued restore; its CHECK throws at the last attempt,   *)
(* and the lease stays behind.                                             *)
Dispatch(w) ==
  LET t == worker[w].job IN
  /\ At(w, "dispatch")
  /\ State(t) = "queued"
  /\ IF jobs[t].attempt = MaxAttempt
     THEN Deliver(w, IdleAgent) /\ UNCHANGED jobs
     ELSE Deliver(w, Claimant(t, worker[w].token)) /\ jobs' = [jobs EXCEPT ![t] = Dispatched(@)]
  /\ Finish(w)
  /\ UNCHANGED <<tenants, identity, building, leases, nodes, tokens, local, faults>>

(* Not queued any more: the lease is deleted, 409. *)
LoseClaim(w) ==
  /\ At(w, "dispatch")
  /\ State(worker[w].job) # "queued"
  /\ Goto(w, "withdraw")
  /\ UNCHANGED <<tables, agents, local, faults>>

Withdraw(w) ==
  /\ At(w, "withdraw")
  /\ leases' = [leases EXCEPT ![worker[w].job] = NoLease]
  /\ Deliver(w, IdleAgent)
  /\ Finish(w)
  /\ UNCHANGED <<rows, building, nodes, tokens, local, faults>>

-----------------------------------------------------------------------------
(* reportRestoreResult *)

SendReport(w, n) == Report(w, n, "lease") /\ UNCHANGED <<rows, building, local>>

(* The SELECT of the lease.  Without one, the repeated report of a         *)
(* validated restore is looked at; no other repeated report is accepted.   *)
CheckLease(w) ==
  LET l == leases[worker[w].job]
      replay == l.token = 0 /\ worker[w].want = "validated"
  IN
  /\ At(w, "lease")
  /\ IF replay THEN Goto(w, "replay") /\ UNCHANGED agents
     ELSE IF l.token = worker[w].token /\ l.live
     THEN Goto(w, worker[w].want) /\ UNCHANGED agents
     ELSE Reject(w)
  /\ UNCHANGED <<tables, local, faults>>

(* Mutant of SameValidated: the repeated report is refused. *)
SameValidated_Never(t) == FALSE

(* validatedReplayMatches *)
SameValidated(t) == State(t) = "validated"

Replay(w) ==
  /\ At(w, "replay")
  /\ IF SameValidated(worker[w].job) THEN Accept(w) ELSE Reject(w)
  /\ UNCHANGED <<tables, local, faults>>

(* Mutant of Ended: "restored", which the schema allows and nothing leaves. *)
Ended_Restored(row, s) ==
  IF row.state \in {"dispatched", "running"}
  THEN [row EXCEPT !.state = IF s = "validated" THEN "restored" ELSE s] ELSE row

(* The UPDATE of a restore in flight. *)
Ended(row, s) == IF row.state \in {"dispatched", "running"} THEN [row EXCEPT !.state = s] ELSE row

(* "running" extends the lease. *)
CommitRunning(w) ==
  LET t == worker[w].job IN
  /\ At(w, "running")
  /\ leases' = [leases EXCEPT ![t] = Renewed(@)]
  /\ jobs' = [jobs EXCEPT ![t] = Ended(@, "running")]
  /\ Accept(w)
  /\ UNCHANGED <<tenants, identity, building, nodes, tokens, local, faults>>

(* Mutant of LeaseAfterFailure: the lease of a failed restore is kept. *)
LeaseAfterFailure_Kept(l) == Renewed(l)

LeaseAfterFailure(l) == NoLease

AfterFailure(row) == Tenant("failed", None, None)

(* "failed": the tenant is written in any state, as it is below. *)
CommitFailed(w) ==
  LET t == worker[w].job IN
  /\ At(w, "failed")
  /\ leases' = [leases EXCEPT ![t] = LeaseAfterFailure(@)]
  /\ jobs' = [jobs EXCEPT ![t] = Ended(@, "failed")]
  /\ tenants' = [tenants EXCEPT ![t] = AfterFailure(@)]
  /\ Accept(w)
  /\ UNCHANGED <<identity, building, nodes, tokens, local, faults>>

(* trg_restore_materialize_cleanup_identity: the provisioning_jobs row that*)
(* lets the tenant be backed up and cleaned, when the state really changes.*)
Materialized(t) == IF InFlight(t) THEN identity \cup {t} ELSE identity

CommitValidated(w) ==
  LET t == worker[w].job IN
  /\ At(w, "validated")
  /\ leases' = [leases EXCEPT ![t] = NoLease]
  /\ jobs' = [jobs EXCEPT ![t] = Ended(@, "validated")]
  /\ identity' = Materialized(t)
  /\ tenants' = [tenants EXCEPT ![t] = Tenant("ready", worker[w].node, "restored")]
  /\ Accept(w)
  /\ UNCHANGED <<building, nodes, tokens, local, faults>>

-----------------------------------------------------------------------------
(* The agent's executor *)

Asked(n) == helper[n].heard \/ \E t \in Tenants : <<t, TRUE>> \in calls[n]
Executing(n) == agents[n].phase = "working" /\ agents[n].result = None

(* The artifacts are downloaded into a fresh directory, and the helper is  *)
(* asked over its socket, where the request waits its turn.                *)
CallHelper(n) ==
  /\ Executing(n)
  /\ ~Asked(n)
  /\ calls' = [calls EXCEPT ![n] = @ \cup {<<agents[n].job, TRUE>>}]
  /\ UNCHANGED <<tables, worker, agents, disk, helper, faults>>

(* The download fails. *)
DownloadFails(n) ==
  /\ Executing(n)
  /\ ~Asked(n)
  /\ Fault
  /\ Return(n, "failed")
  /\ UNCHANGED <<rows, building, local>>

(* Nobody waits for the helper any more: what it does is not stopped, and  *)
(* the requests that wait are served all the same.                         *)
Unheard(n) ==
  /\ helper' = [helper EXCEPT ![n].heard = FALSE]
  /\ calls' = [calls EXCEPT ![n] = {<<c[1], FALSE>> : c \in @}]

(* provisioner_timeout_seconds is over: local_provisioner_unavailable. *)
HelperTimesOut(n) ==
  /\ Executing(n)
  /\ Asked(n)
  /\ Fault
  /\ Return(n, "failed")
  /\ Unheard(n)
  /\ UNCHANGED <<rows, building, disk>>

-----------------------------------------------------------------------------
(* The helper, which serves one request at a time, and RestoreEngine *)

ServeCall(n, c) ==
  /\ helper[n] = NoCall
  /\ c \in calls[n]
  /\ calls' = [calls EXCEPT ![n] = @ \ {c}]
  /\ helper' = [helper EXCEPT ![n] = [job |-> c[1], stage |-> "called", heard |-> c[2]]]
  /\ UNCHANGED <<tables, worker, agents, disk, faults>>

(* The helper answers r; d is what it has left on the disk. *)
Answer(n, r, d) ==
  /\ IF helper[n].heard THEN Return(n, r) ELSE UNCHANGED <<leases, nodes, tokens, worker, agents>>
  /\ helper' = [helper EXCEPT ![n] = NoCall]
  /\ disk' = [disk EXCEPT ![helper[n].job] = d]
  /\ UNCHANGED <<rows, building, calls>>

Reach(n, stage, d) ==
  /\ helper' = [helper EXCEPT ![n].stage = stage]
  /\ disk' = [disk EXCEPT ![helper[n].job] = d]
  /\ UNCHANGED <<tables, worker, agents, calls, faults>>

Restored(d) == d.db = "target" /\ d.files

(* _validated_replay: the restore was done before. *)
AnswerReplay(n) ==
  /\ helper[n].stage = "called"
  /\ Restored(disk[helper[n].job])
  /\ Answer(n, "validated", disk[helper[n].job])
  /\ UNCHANGED faults

(* Anything else that is there is a conflict, and is left as it is: the    *)
(* residue of a helper that crashed makes every later attempt fail.        *)
AnswerConflict(n) ==
  LET d == disk[helper[n].job] IN
  /\ helper[n].stage = "called"
  /\ ~Restored(d)
  /\ d # EmptyDisk
  /\ Answer(n, "failed", d)
  /\ UNCHANGED faults

(* The files are extracted into a staging directory ... *)
ExtractFiles(n) ==
  /\ helper[n].stage = "called"
  /\ disk[helper[n].job] = EmptyDisk
  /\ Reach(n, "staged", [EmptyDisk EXCEPT !.staging = TRUE])

(* ... the database is created from the dump, whose marker is the source's,*)
LoadDatabase(n) ==
  /\ helper[n].stage = "staged"
  /\ Reach(n, "loaded", [disk[helper[n].job] EXCEPT !.db = "foreign"])

(* it gets the target's marker once it is found sound, *)
WriteMarker(n) ==
  /\ helper[n].stage = "loaded"
  /\ Reach(n, "marked", [disk[helper[n].job] EXCEPT !.db = "target"])

(* Mutant of Published: the staging directory is copied after the answer. *)
Published_Later(d) == d

Published(d) == [d EXCEPT !.staging = FALSE, !.files = TRUE]

(* and the staging directory is renamed. *)
PublishFiles(n) ==
  /\ helper[n].stage = "marked"
  /\ Answer(n, "validated", Published(disk[helper[n].job]))
  /\ UNCHANGED faults

(* A stage fails: the database is dropped, its files removed.  Whether the *)
(* drop succeeds is not looked at.                                         *)
StageFails(n) ==
  LET d == disk[helper[n].job] IN
  /\ helper[n].stage \in {"staged", "loaded", "marked"}
  /\ \/ Answer(n, "failed", EmptyDisk) /\ UNCHANGED faults
     \/ d.db # "none" /\ Answer(n, "failed", [d EXCEPT !.staging = FALSE]) /\ Fault

(* The helper's process dies, and with it the requests on its socket. *)
HelperCrashes(n) ==
  /\ helper[n] # NoCall
  /\ Fault
  /\ IF Asked(n) THEN Return(n, "failed") ELSE UNCHANGED <<leases, nodes, tokens, worker, agents>>
  /\ helper' = [helper EXCEPT ![n] = NoCall]
  /\ calls' = [calls EXCEPT ![n] = {}]
  /\ UNCHANGED <<rows, building, disk>>

-----------------------------------------------------------------------------
(* The environment *)

LeaseLapses(t) == Lapse(t) /\ UNCHANGED <<rows, building, local>>

WorkerFails(w) == Abort(w) /\ UNCHANGED <<rows, building, local>>

ReplyLost(n) == LoseReply(n) /\ UNCHANGED <<rows, building, local>>

AgentRestarts(n) == Restart(n) /\ Unheard(n) /\ UNCHANGED <<rows, building, disk>>

RevokeNode(n) == Revoke(n) /\ UNCHANGED <<rows, building, local>>

-----------------------------------------------------------------------------
AdminRequest ==
  \/ \E w \in Workers, t \in Tenants, n \in Nodes : CreateRead(w, t, n)
  \/ \E w \in Workers, t \in Tenants, n \in Nodes : TakeRead(w, t, n)
  \/ \E w \in Workers, t \in Tenants : \E r \in {"ready", "failed"} : BuildReport(w, t, r)
  \/ \E n \in Nodes : RevokeNode(n)

ClaimStep(w) ==
  \/ \E t \in Tenants : ExpireLease(w, t) \/ TakeLease(w, t)
  \/ TakeNothing(w) \/ Dispatch(w) \/ LoseClaim(w) \/ Withdraw(w)

ReportStep(w) ==
  CheckLease(w) \/ Replay(w) \/ CommitRunning(w) \/ CommitFailed(w) \/ CommitValidated(w)

WorkerStep(w) == CreateCommit(w) \/ TakeCommit(w) \/ BuildCommit(w) \/ ClaimStep(w) \/ ReportStep(w)

AgentRequest(n) == \E w \in Workers : Poll(w, n) \/ SendReport(w, n)

HelperStep(n) ==
  \/ \E c \in calls[n] : ServeCall(n, c)
  \/ AnswerReplay(n) \/ AnswerConflict(n) \/ ExtractFiles(n) \/ LoadDatabase(n)
  \/ WriteMarker(n) \/ PublishFiles(n) \/ StageFails(n)

NodeFault(n) ==
  ReplyLost(n) \/ AgentRestarts(n) \/ DownloadFails(n) \/ HelperTimesOut(n) \/ HelperCrashes(n)

Next ==
  \/ AdminRequest
  \/ \E t \in Tenants : LeaseLapses(t)
  \/ \E w \in Workers : WorkerStep(w) \/ WorkerFails(w)
  \/ \E n \in Nodes : AgentRequest(n) \/ CallHelper(n) \/ HelperStep(n) \/ NodeFault(n)

Spec == Init /\ [][Next]_vars

(* Fairness, as in Provisioning: a handler that started goes on, the main  *)
(* loop polls and reports, the helper serves its socket, time passes.      *)
Fairness ==
  /\ \A w \in Workers : WF_vars(WorkerStep(w))
  /\ \A n \in Nodes : SF_vars(AgentRequest(n)) /\ WF_vars(CallHelper(n)) /\ SF_vars(HelperStep(n))
  /\ \A t \in Tenants : WF_vars(LeaseLapses(t) /\ UNCHANGED faults)

FairSpec == Spec /\ Fairness

-----------------------------------------------------------------------------
(* Type invariant *)

Marks == {"none", "foreign", "target"}
JobRow == [state : {"absent", "queued", "dispatched", "running", "validated", "failed"},
           node : Nodes \cup {None}, attempt : 0..MaxAttempt]
TenantRow == [status : {"pending", "provisioning", "ready", "failed"},
              node : Nodes \cup {None}, db : {"restored", "provisioned", None}]
LeaseRow == [token : 0..MaxTokens, live : BOOLEAN]
Disk == [db : Marks, staging : BOOLEAN, files : BOOLEAN]
Stages == {"called", "staged", "loaded", "marked"}
Call == {h \in [job : Tenants \cup {None}, stage : {"idle"} \cup Stages, heard : BOOLEAN] :
           h # NoCall => h.job \in Tenants /\ h.stage \in Stages}

Results == {"validated", "failed"}
ClaimPCs == {"expire", "dispatch", "withdraw"}
ReportPCs == {"lease", "replay", "running", "failed", "validated"}
PCs == {"idle", "create", "take", "built"} \cup ClaimPCs \cup ReportPCs

Assigned(l) ==
  /\ l.pc # "idle" => l.node \in Nodes
  /\ l.pc \in {"create", "take", "built", "dispatch", "withdraw"} \cup ReportPCs => l.job \in Tenants
  /\ l.pc \in ReportPCs => l.want \in Results \cup {"running"}
  /\ l.pc \in {"running", "failed", "validated"} => l.want = l.pc
  /\ l.pc = "replay" => l.want = "validated"
Local == {l \in [pc : PCs, node : Nodes \cup {None}, job : Tenants \cup {None},
                 token : 0..MaxTokens, want : Results \cup {"running", "ready", None},
                 seen : {"absent"}, work : SUBSET Tenants] : Assigned(l)}
Agent == {a \in [phase : {"idle", "starting", "working"}, job : Tenants \cup {None},
                 token : 0..MaxTokens, result : Results \cup {None},
                 wait : Workers \cup {None}] : a.phase # "idle" => a.job \in Tenants}

TypeOK ==
  /\ jobs \in [Tenants -> JobRow]
  /\ tenants \in [Tenants -> TenantRow]
  /\ identity \in SUBSET Tenants
  /\ building \in [Tenants -> Nodes \cup {None}]
  /\ leases \in [Tenants -> LeaseRow]
  /\ nodes \in [Nodes -> {"active", "revoked"}]
  /\ tokens \in 0..MaxTokens
  /\ worker \in [Workers -> Local]
  /\ agents \in [Nodes -> Agent]
  /\ disk \in [Tenants -> Disk]
  /\ calls \in [Nodes -> SUBSET (Tenants \X BOOLEAN)]
  /\ helper \in [Nodes -> Call]
  /\ faults \in 0..MaxFaults

-----------------------------------------------------------------------------
(* Safety, whatever the number of invocations in flight *)

(* No agent reports with a standing lease on a restore that has ended.  *)
LeaseOnOpenJob ==
  \A t \in Tenants : Leased(t) => State(t) \in {"queued", "dispatched", "running"}

(* A restore is validated only when the target database, under its own     *)
(* marker, and its files are in place, and nothing that is still under way *)
(* for this restore (a request no agent waits for, a second attempt after  *)
(* the lease of the first has lapsed) takes them away again.               *)
ValidatedMeansRestored ==
  \A t \in Tenants : State(t) = "validated" => disk[t].db = "target" /\ disk[t].files

-----------------------------------------------------------------------------
(* Safety while invocations do not overlap *)

Serial == \A v, w \in Workers : At(v, "idle") \/ At(w, "idle") \/ v = w

(* A restore in flight has a lease, so that a report or the expiry ends it.*)
InFlightHasLease == \A t \in Tenants : InFlight(t) => Leased(t)

(* The tenant's row is the shadow of its restore: taken while the restore  *)
(* is open, ready with the restored database when it is validated, and     *)
(* free of the database when it has failed.                                *)
TenantFollowsRestore ==
  \A t \in Tenants :
    /\ State(t) \in {"queued", "dispatched", "running"} =>
         tenants[t] = Tenant("provisioning", jobs[t].node, "restored")
    /\ State(t) = "validated" => tenants[t] = Tenant("ready", jobs[t].node, "restored")
    /\ State(t) = "failed" => tenants[t].db # "restored"

(* A restored tenant has the provisioning_jobs row under the restore's id, *)
(* which is the marker of its database: without it no cleanup and no backup*)
(* of the tenant can be asked for.                                         *)
RestoredCanBeCleaned ==
  \A t \in Tenants :
    tenants[t].status = "ready" /\ tenants[t].db = "restored" => t \in identity

(* A tenant belongs to one of them: what a provisioning job has, or has    *)
(* made ready, no restore is about to write to.                            *)
OneOwner ==
  \A t \in Tenants :
    building[t] # None \/ tenants[t].db = "provisioned" => State(t) \in {"absent", "failed"}

(* The tables agree about a restore and its tenant, in every behaviour     *)
(* without overlap.                                                        *)
SerialTables ==
  []Serial => [](InFlightHasLease /\ TenantFollowsRestore /\ RestoredCanBeCleaned /\ OneOwner)

(* What a reader of the tables sees of restores, tenants and the jobs that *)
(* compete for them.                                                       *)
restores  == [t \in Tenants |-> jobs[t].state]
statuses  == [t \in Tenants |-> tenants[t].status]
databases == [t \in Tenants |-> tenants[t].db]
taken     == {t \in Tenants : building[t] # None}

Promise == INSTANCE TenantRestore WITH Nothing <- None, restore <- restores, status <- statuses,
                                       database <- databases, cleanable <- identity

(* Invocations that do not overlap implement the abstract specification: a *)
(* restore and its tenant move together, a restore ends only after it was  *)
(* reported to run, and a restore and a provisioning job never have one    *)
(* tenant, whatever lapses, restarts, gets lost or is tried again.         *)
ImplementsTenantRestore == Promise!Spec

-----------------------------------------------------------------------------
(* Liveness *)

Open(t) == State(t) \in {"queued", "dispatched", "running"}

(* While invocations do not overlap, a restore ends whatever happens to the*)
(* agent, the helper or a reply: its lease lapses and the next poll tries  *)
(* again, until the node is revoked or the attempts are used up.  The agent*)
(* is assumed to come free again and again; one whose terminal report comes*)
(* too late repeats it for ever.                                           *)
RestoreResolvesIfPolled ==
  (\A n \in Nodes : []<>(agents[n] = IdleAgent)) /\ []Serial =>
    \A t \in Tenants :
      Open(t) ~> ~Open(t) \/ jobs[t].node \notin ActiveNodes \/ jobs[t].attempt = MaxAttempt

(* An agent whose "validated" is on record, though the answer was lost, is *)
(* set free by the replay, also when invocations overlap.                  *)
RecordedIsSettled ==
  \A n \in Nodes :
    (agents[n].result = "validated" /\ State(agents[n].job) = "validated")
      ~> agents[n] = IdleAgent \/ ~Active(n)
=============================================================================
