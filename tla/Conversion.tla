----------------------------- MODULE Conversion -----------------------------
(***************************************************************************)
(* The conversion of a trial into a production tenant: the request and its *)
(* approval (trialConversion.ts), the placement of the production job      *)
(* (productionPlacement.ts) and the reconcilers that carry the job's       *)
(* outcome back (trialConversionReconcile.ts), after each report (app.ts)  *)
(* and from the cron.                                                      *)
(*                                                                         *)
(* A member of Workers is a slot for one invocation, suspended at its      *)
(* database calls as in EdgeRuntime.  Leases are left out: a report or an  *)
(* expiry may come whenever the job is in flight, and is committed later,  *)
(* whatever has become of the job meanwhile.                               *)
(* The helper of this commit refuses production, so that today every       *)
(* production job fails; the control plane handles both outcomes, and so   *)
(* does the model.  The gate of the placement is open.                     *)
(*                                                                         *)
(* Conversions are named by their request_key, production tenants by their *)
(* slug; both are UNIQUE.                                                  *)
(***************************************************************************)
EXTENDS Naturals, FiniteSets

CONSTANTS
  Trials,       \* trial tenants
  Requests,     \* request keys
  Slugs,        \* production slugs an admin may choose
  Nodes,        \* active nodes of the production pool
  Workers,      \* concurrent invocations
  None,         \* SQL NULL
  MaxExtras     \* bound: retries, direct jobs and invocations that stop half-way

ASSUME ConversionAssumption ==
  /\ MaxExtras \in Nat
  /\ None \notin Trials \cup Requests \cup Slugs \cup Nodes

VARIABLES
  conversions,  \* trial_conversion_requests: state ("absent": no row), trial, mode, target
  targets,      \* production tenants: status, node, the conversion that made them
  jobs,         \* provisioning_jobs: the one that the conversion of a slug waits for
  direct,       \* the slugs that have a provisioning job of their own besides
  worker,       \* the local state of each invocation
  built,        \* history: the slugs whose job in jobs was reported ready
  extras        \* retries, direct jobs and stopped invocations so far

vars == <<conversions, targets, jobs, direct, worker, built, extras>>

(* The state of the job that the conversion waits for. *)
Production(s) == jobs[s].state

NoConversion == [state |-> "absent", trial |-> None, mode |-> None, target |-> None]
NoTarget == [status |-> "absent", node |-> None, origin |-> None]
NoJob == [state |-> "absent", node |-> None]
Handler(pc, r, s, n, want) ==
  [pc |-> pc, request |-> r, slug |-> s, node |-> n, want |-> want, trial |-> None, work |-> {}]
Idle == Handler("idle", None, None, None, None)
Reconciler(slugs) ==
  IF slugs = {} THEN Idle ELSE [Handler("list", None, None, None, None) EXCEPT !.work = slugs]

At(w, pc) == worker[w].pc = pc
Begin(w, local) == At(w, "idle") /\ worker' = [worker EXCEPT ![w] = local]
Finish(w) == worker' = [worker EXCEPT ![w] = Idle]

Extra == extras < MaxExtras /\ extras' = extras + 1

Init ==
  /\ conversions = [r \in Requests |-> NoConversion]
  /\ targets = [s \in Slugs |-> NoTarget]
  /\ jobs = [s \in Slugs |-> NoJob]
  /\ direct = {}
  /\ worker = [w \in Workers |-> Idle]
  /\ built = {}
  /\ extras = 0

-----------------------------------------------------------------------------
(* createConversion *)

(* Mutant of ActiveStates: a trial that was converted may be converted again. *)
ActiveStates_NotReady == {"requested", "approved", "provisioning"}

(* The states of the unique index idx_trial_conversion_one_active. *)
ActiveStates == {"requested", "approved", "provisioning", "ready"}

Converting(t) ==
  \E r \in Requests : conversions[r].trial = t /\ conversions[r].state \in ActiveStates

(* The trial is in a state that allows the mode: its own life, the subject *)
(* of Decommission, may be anywhere.                                       *)
CreateRead(w, r, t, mode) ==
  /\ conversions[r].state = "absent"
  /\ ~Converting(t)
  /\ Begin(w, [Handler("create", r, None, None, mode) EXCEPT !.trial = t])
  /\ UNCHANGED <<conversions, targets, jobs, direct, built, extras>>

(* The INSERT: request_key and the index of active conversions are UNIQUE. *)
CreateCommit(w) ==
  LET r == worker[w].request
      t == worker[w].trial
  IN
  /\ At(w, "create")
  /\ Finish(w)
  /\ conversions' =
       IF conversions[r].state # "absent" \/ Converting(t) THEN conversions
       ELSE [conversions EXCEPT ![r] =
               [state |-> "requested", trial |-> t, mode |-> worker[w].want, target |-> None]]
  /\ UNCHANGED <<targets, jobs, direct, built, extras>>

-----------------------------------------------------------------------------
(* approveCleanProductionConversion *)

(* Mutant of Approvable: an approved conversion is approved once more. *)
Approvable_Again(row) ==
  row.state \in {"requested", "approved"} /\ row.mode = "clean_production"

(* A promotion of the trial's data has no approval at all. *)
Approvable(row) == row.state = "requested" /\ row.mode = "clean_production"

ApproveRead(w, r, s) ==
  /\ Approvable(conversions[r])
  /\ targets[s].status = "absent"
  /\ Begin(w, Handler("approve", r, s, None, None))
  /\ UNCHANGED <<conversions, targets, jobs, direct, built, extras>>

(* Mutant of Approved: the UPDATE relies on the state read before. *)
Approved_Unguarded(row, s) == [row EXCEPT !.state = "approved", !.target = s]

Approved(row, s) ==
  IF row.state = "requested" THEN [row EXCEPT !.state = "approved", !.target = s] ELSE row

(* The batch inserts tenant and job first; only a slug that was taken      *)
(* meanwhile aborts it, a conversion that was approved meanwhile does not. *)
ApproveCommit(w) ==
  LET r == worker[w].request
      s == worker[w].slug
  IN
  /\ At(w, "approve")
  /\ Finish(w)
  /\ IF targets[s].status # "absent" THEN UNCHANGED <<conversions, targets, jobs>>
     ELSE /\ targets' = [targets EXCEPT ![s] = [status |-> "pending", node |-> None, origin |-> r]]
          /\ jobs' = [jobs EXCEPT ![s] = [state |-> "queued", node |-> None]]
          /\ conversions' = [conversions EXCEPT ![r] = Approved(@, s)]
  /\ UNCHANGED <<direct, built, extras>>

-----------------------------------------------------------------------------
(* placeProduction *)

PlaceRead(w, r, n) ==
  LET s == conversions[r].target IN
  /\ conversions[r].mode = "clean_production"
  /\ s # None
  /\ conversions[r].state = "approved"
  /\ jobs[s] = [state |-> "queued", node |-> None]
  /\ targets[s].status = "pending"
  /\ targets[s].node = None
  /\ Begin(w, Handler("place", r, s, n, None))
  /\ UNCHANGED <<conversions, targets, jobs, direct, built, extras>>

Placed(row, n) == IF row.state = "queued" THEN [state |-> "placed", node |-> n] ELSE row

Taken(row, n) == [row EXCEPT !.status = "provisioning", !.node = n]

(* The three UPDATEs of the batch, each with the guard of its own row. *)
PlaceCommit(w) ==
  LET r == worker[w].request
      s == worker[w].slug
      n == worker[w].node
  IN
  /\ At(w, "place")
  /\ Finish(w)
  /\ jobs' = [jobs EXCEPT ![s] = Placed(@, n)]
  /\ targets' = [targets EXCEPT ![s] = IF @.status = "pending" THEN Taken(@, n) ELSE @]
  /\ conversions' = [conversions EXCEPT ![r].state = IF @ = "approved" THEN "provisioning" ELSE @]
  /\ UNCHANGED <<direct, built, extras>>

-----------------------------------------------------------------------------
(* The production job *)

(* createProvisioningJob, with a key of its own, takes any pending or      *)
(* failed tenant, also one whose conversion waits for its placement.  What *)
(* that job does to the tenant's status later is left out: nothing here    *)
(* asks how a tenant fares that is neither new, pending nor failed, and    *)
(* what is said below of statuses is said of tenants without such a job.   *)
DirectRead(w, s, n) ==
  /\ targets[s].status \in {"pending", "failed"}
  /\ s \notin direct
  /\ Extra
  /\ Begin(w, Handler("direct", None, s, n, None))
  /\ UNCHANGED <<conversions, targets, jobs, direct, built>>

DirectCommit(w) ==
  LET s == worker[w].slug IN
  /\ At(w, "direct")
  /\ Finish(w)
  /\ direct' = direct \cup {s}
  /\ targets' = IF s \in direct THEN targets ELSE [targets EXCEPT ![s] = Taken(@, worker[w].node)]
  /\ UNCHANGED <<conversions, jobs, built, extras>>

(* A poll of its node claims the job: the UPDATE repeats the guard. *)
Dispatch(s) ==
  /\ Production(s) \in {"placed", "retrying"}
  /\ jobs' = [jobs EXCEPT ![s].state = "dispatched"]
  /\ UNCHANGED <<conversions, targets, direct, worker, built, extras>>

InFlight(row) == row.state \in {"dispatched", "running"}

(* Or the poll finds that the job's lease has expired ... *)
ExpireRead(w, s) ==
  /\ InFlight(jobs[s])
  /\ Begin(w, Handler("expire", None, s, None, None))
  /\ UNCHANGED <<conversions, targets, jobs, direct, built, extras>>

FailedIfInFlight(row) == IF InFlight(row) THEN [row EXCEPT !.state = "failed"] ELSE row

(* ... and fails it, if it is still in flight, and its tenant in any case. *)
(* Nothing reconciles here.                                                *)
ExpireCommit(w) ==
  LET s == worker[w].slug IN
  /\ At(w, "expire")
  /\ Finish(w)
  /\ jobs' = [jobs EXCEPT ![s] = FailedIfInFlight(@)]
  /\ targets' = [targets EXCEPT ![s].status = "failed"]
  /\ UNCHANGED <<conversions, direct, built, extras>>

Successors(state) ==
  IF state = "dispatched" THEN {"running", "failed"}
  ELSE IF state = "running" THEN {"ready", "failed"} ELSE {}

(* A report is checked against the state of the job ... *)
ReportRead(w, s, to) ==
  /\ to \in Successors(Production(s))
  /\ Begin(w, Handler("report", None, s, None, to))
  /\ UNCHANGED <<conversions, targets, jobs, direct, built, extras>>

(* ... and moves the job and, at the end, its tenant, on no condition.  The*)
(* same invocation then reconciles the job's conversion.                   *)
ReportCommit(w) ==
  LET s == worker[w].slug
      to == worker[w].want
  IN
  /\ At(w, "report")
  /\ worker' = [worker EXCEPT ![w] = Reconciler({s})]
  /\ jobs' = [jobs EXCEPT ![s].state = to]
  /\ targets' = IF to = "running" THEN targets ELSE [targets EXCEPT ![s].status = to]
  /\ built' = IF to = "ready" THEN built \cup {s} ELSE built
  /\ UNCHANGED <<conversions, direct, extras>>

(* A renewal moves the lease only, and is followed by the reconciler, too. *)
Renew(w, s) ==
  /\ Production(s) = "running"
  /\ Begin(w, Reconciler({s}))
  /\ UNCHANGED <<conversions, targets, jobs, direct, built, extras>>

RetryRead(w, s) ==
  /\ Production(s) = "failed"
  /\ Extra
  /\ Begin(w, Handler("retry", None, s, None, None))
  /\ UNCHANGED <<conversions, targets, jobs, direct, built>>

Retried(row) == IF row.state = "failed" THEN [row EXCEPT !.state = "retrying"] ELSE row

(* Only the job's UPDATE asks whether it is still failed. *)
RetryCommit(w) ==
  LET s == worker[w].slug IN
  /\ At(w, "retry")
  /\ Finish(w)
  /\ jobs' = [jobs EXCEPT ![s] = Retried(@)]
  /\ targets' = [targets EXCEPT ![s] = Taken(@, jobs[s].node)]
  /\ UNCHANGED <<conversions, direct, built, extras>>

-----------------------------------------------------------------------------
(* The reconcilers *)

Finished == {"ready", "failed"}

(* conversionStateForProvisioningState *)
StateFor(state) ==
  IF state \in {"placed", "dispatched", "running", "retrying"} THEN "provisioning"
  ELSE IF state \in Finished THEN state ELSE None

(* The join of job, production tenant and conversion. *)
Linked(r, s) ==
  /\ targets[s].origin = r
  /\ conversions[r].target = s
  /\ conversions[r].mode = "clean_production"

Reconcilable(state) == state \in {"approved", "provisioning"}

(* Mutant of Listed: jobs that ended are left to the report that ended them. *)
Listed_Unfinished ==
  {s \in Slugs :
     /\ StateFor(Production(s)) = "provisioning"
     /\ \E r \in Requests : Linked(r, s) /\ Reconcilable(conversions[r].state)}

(* The SELECT of the cron, whose LIMIT of 50 is not reached. *)
Listed ==
  {s \in Slugs :
     /\ StateFor(Production(s)) # None
     /\ \E r \in Requests : Linked(r, s) /\ Reconcilable(conversions[r].state)}

Cron(w) ==
  /\ Listed # {}
  /\ Begin(w, Reconciler(Listed))
  /\ UNCHANGED <<conversions, targets, jobs, direct, built, extras>>

(* getLinkedConversionJob of the next job, and what follows from it. *)
ReconcileRead(w, s) ==
  LET to == StateFor(Production(s))
      due == {r \in Requests : /\ Linked(r, s)
                               /\ Reconcilable(conversions[r].state)
                               /\ to \notin {None, conversions[r].state}}
  IN
  /\ At(w, "list")
  /\ s \in worker[w].work
  /\ \/ \E r \in due : worker' = [worker EXCEPT ![w] =
          [Handler("reconcile", r, s, None, to) EXCEPT !.work = worker[w].work \ {s}]]
     \/ due = {} /\ worker' = [worker EXCEPT ![w] = Reconciler(worker[w].work \ {s})]
  /\ UNCHANGED <<conversions, targets, jobs, direct, built, extras>>

(* Mutant of Reconciled: the UPDATE relies on the state read before. *)
Reconciled_Unguarded(row, s, to) == [row EXCEPT !.state = to]

Reconciled(row, s, to) ==
  IF row.target = s /\ Reconcilable(row.state) THEN [row EXCEPT !.state = to] ELSE row

ReconcileCommit(w) ==
  /\ At(w, "reconcile")
  /\ conversions' = [conversions EXCEPT ![worker[w].request] =
                       Reconciled(@, worker[w].slug, worker[w].want)]
  /\ worker' = [worker EXCEPT ![w] = Reconciler(worker[w].work)]
  /\ UNCHANGED <<targets, jobs, direct, built, extras>>

(* A database call throws, or the isolate is evicted. *)
WorkerFails(w) ==
  /\ worker[w] # Idle
  /\ Extra
  /\ Finish(w)
  /\ UNCHANGED <<conversions, targets, jobs, direct, built>>

-----------------------------------------------------------------------------
Admin(w) ==
  \/ \E r \in Requests, t \in Trials : \E m \in {"clean_production", "promote_trial_data"} :
       CreateRead(w, r, t, m)
  \/ \E r \in Requests, s \in Slugs : ApproveRead(w, r, s)
  \/ \E r \in Requests, n \in Nodes : PlaceRead(w, r, n)
  \/ \E s \in Slugs, n \in Nodes : DirectRead(w, s, n)
  \/ \E s \in Slugs : RetryRead(w, s)

WorkerStep(w) ==
  \/ CreateCommit(w) \/ ApproveCommit(w) \/ PlaceCommit(w)
  \/ DirectCommit(w) \/ RetryCommit(w) \/ ExpireCommit(w) \/ ReportCommit(w)
  \/ \E s \in Slugs : ReconcileRead(w, s)
  \/ ReconcileCommit(w)

AgentRequest(w) ==
  \E s \in Slugs :
    \/ ExpireRead(w, s) \/ Renew(w, s)
    \/ \E to \in {"running"} \cup Finished : ReportRead(w, s, to)

Next ==
  \/ \E s \in Slugs : Dispatch(s)
  \/ \E w \in Workers :
       Admin(w) \/ AgentRequest(w) \/ Cron(w) \/ WorkerStep(w) \/ WorkerFails(w)

Spec == Init /\ [][Next]_vars

(* Fairness: an invocation that has begun goes on, and the cron is         *)
(* triggered again and again.                                              *)
FairSpec ==
  /\ Spec
  /\ \A w \in Workers : WF_vars(WorkerStep(w))
  /\ SF_vars(\E w \in Workers : Cron(w))

-----------------------------------------------------------------------------
(* Type invariant *)

JobStates == {"absent", "queued", "placed", "dispatched", "running", "ready", "failed", "retrying"}
JobRow == [state : JobStates, node : Nodes \cup {None}]
Modes == {"clean_production", "promote_trial_data"}
ConversionRow == [state : ActiveStates \cup {"absent", "failed"}, trial : Trials \cup {None},
                  mode : Modes \cup {None}, target : Slugs \cup {None}]
TargetRow == [status : {"absent", "pending", "provisioning", "ready", "failed"},
              node : Nodes \cup {None}, origin : Requests \cup {None}]
Wants == Modes \cup {"provisioning", "running", "ready", "failed", None}
Assigned(l) ==
  /\ l.pc \in {"create", "approve", "place", "reconcile"} => l.request \in Requests
  /\ l.pc = "create" => l.trial \in Trials /\ l.want \in Modes
  /\ l.pc \in {"approve", "place", "direct", "retry", "expire", "report", "reconcile"}
       => l.slug \in Slugs
  /\ l.pc \in {"place", "direct"} => l.node \in Nodes
  /\ l.pc = "report" => l.want \in {"running"} \cup Finished
  /\ l.pc = "reconcile" => l.want \in {"provisioning"} \cup Finished
PCs == {"idle", "create", "approve", "place", "direct", "retry", "expire", "report", "list",
        "reconcile"}
Local == {l \in [pc : PCs, request : Requests \cup {None}, slug : Slugs \cup {None},
                 node : Nodes \cup {None}, want : Wants, trial : Trials \cup {None},
                 work : SUBSET Slugs] : Assigned(l)}

TypeOK ==
  /\ conversions \in [Requests -> ConversionRow]
  /\ targets \in [Slugs -> TargetRow]
  /\ jobs \in [Slugs -> JobRow]
  /\ direct \in SUBSET Slugs
  /\ worker \in [Workers -> Local]
  /\ built \in SUBSET Slugs
  /\ extras \in 0..MaxExtras

-----------------------------------------------------------------------------
(* Safety, whatever the number of invocations in flight *)

(* A trial has one conversion that is not over, or has succeeded.  The     *)
(* index guarantees it by throwing; it holds here of UPDATEs that do not   *)
(* know the index, so that no reconciler ever throws half-way through.     *)
OneActive ==
  \A q, r \in Requests :
    /\ conversions[q].trial = conversions[r].trial
    /\ conversions[q].state \notin {"absent", "failed"}
    /\ conversions[r].state \notin {"absent", "failed"}
    => q = r

(* The conversion keeps step with its production job: it waits for the     *)
(* placement exactly as long as the job is queued, and is ready only when  *)
(* an agent has reported its job ready.  (A report that comes late may     *)
(* take the job out of "ready" again: see OutcomeStands.)                  *)
ConversionFollowsJob ==
  \A r \in Requests :
    /\ conversions[r].target = None <=> conversions[r].state \in {"absent", "requested"}
    /\ \A s \in Slugs : conversions[r].target = s =>
         /\ targets[s].origin = r
         /\ conversions[r].state = "approved" <=> Production(s) = "queued"
         /\ conversions[r].state = "ready" => s \in built

(* A conversion only moves on, and its target is chosen once. *)
NextStates ==
  [absent |-> {"requested"}, requested |-> {"approved"}, approved |-> {"provisioning"},
   provisioning |-> {"ready", "failed"}, ready |-> {}, failed |-> {}]

ConversionStepsLegal ==
  [][\A r \in Requests :
       LET old == conversions[r]
           new == conversions'[r]
       IN /\ new.state # old.state => new.state \in NextStates[old.state]
          /\ new.target # old.target => old.target = None]_vars

-----------------------------------------------------------------------------
(* Safety while invocations do not overlap *)

Serial == \A v, w \in Workers : At(v, "idle") \/ At(w, "idle") \/ v = w

(* Every production tenant an approval made is the target of its           *)
(* conversion: nothing is built, or waits for ever, that no trial became.  *)
NoOrphan ==
  \A s \in Slugs : targets[s].status # "absent" => conversions[targets[s].origin].target = s

(* The production tenant is where its job is, and fares as its job fares.  *)
StatusFor(state) == IF state = "queued" THEN "pending" ELSE StateFor(state)

TenantFollowsJob ==
  \A s \in Slugs :
    targets[s].status # "absent" /\ s \notin direct =>
      /\ targets[s].status = StatusFor(Production(s))
      /\ targets[s].node = jobs[s].node

(* A conversion that is ready has a job that is.  With an overlap, a report*)
(* that was checked before the job failed and was tried again overwrites   *)
(* the outcome that the conversion has already taken over.                 *)
OutcomeStands ==
  \A r \in Requests, s \in Slugs :
    conversions[r].target = s /\ conversions[r].state = "ready" => Production(s) = "ready"

SerialTargets == []Serial => [](NoOrphan /\ TenantFollowsJob /\ OutcomeStands)

-----------------------------------------------------------------------------
(* Liveness *)

Ended(r) == \E s \in Slugs : conversions[r].target = s /\ Production(s) \in Finished

(* A job that has ended, and is not tried again, has its outcome carried to*)
(* the conversion, though the invocation that ended it, or a cron, stopped *)
(* before it came to that.                                                 *)
OutcomeCarried ==
  \A r \in Requests : Ended(r) ~> conversions[r].state \in Finished \/ ~Ended(r)
=============================================================================
