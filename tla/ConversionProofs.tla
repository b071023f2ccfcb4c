-------------------------- MODULE ConversionProofs --------------------------
(* Proofs about Conversion, for all values of its constants. *)
EXTENDS Conversion, TLAPS

-----------------------------------------------------------------------------
(* Types *)

(* What an invocation has in hand when it begins. *)
LEMMA LocalTypes ==
  /\ Idle \in Local
  /\ \A S \in SUBSET Slugs : Reconciler(S) \in Local
  /\ \A r \in Requests, t \in Trials, m \in Modes :
       [Handler("create", r, None, None, m) EXCEPT !.trial = t] \in Local
  /\ \A r \in Requests, s \in Slugs : Handler("approve", r, s, None, None) \in Local
  /\ \A r \in Requests, s \in Slugs, n \in Nodes : Handler("place", r, s, n, None) \in Local
  /\ \A s \in Slugs, n \in Nodes : Handler("direct", None, s, n, None) \in Local
  /\ \A s \in Slugs, pc \in {"retry", "expire"} : Handler(pc, None, s, None, None) \in Local
  /\ \A s \in Slugs, to \in {"running"} \cup Finished : Handler("report", None, s, None, to) \in Local
  /\ \A r \in Requests, s \in Slugs, to \in {"provisioning"} \cup Finished, S \in SUBSET Slugs :
       [Handler("reconcile", r, s, None, to) EXCEPT !.work = S] \in Local
<1>1. Idle \in Local
  BY DEF Idle, Handler, Local, Assigned, Wants, PCs
<1>2. \A S \in SUBSET Slugs : Reconciler(S) \in Local
  BY <1>1 DEF Reconciler, Handler, Local, Assigned, Wants, PCs
<1>3. \A r \in Requests, t \in Trials, m \in Modes :
        [Handler("create", r, None, None, m) EXCEPT !.trial = t] \in Local
  BY DEF Handler, Local, Assigned, Wants, PCs
<1>4. \A r \in Requests, s \in Slugs : Handler("approve", r, s, None, None) \in Local
  BY DEF Handler, Local, Assigned, Wants, PCs
<1>5. \A r \in Requests, s \in Slugs, n \in Nodes : Handler("place", r, s, n, None) \in Local
  BY DEF Handler, Local, Assigned, Wants, PCs
<1>6. \A s \in Slugs, n \in Nodes : Handler("direct", None, s, n, None) \in Local
  BY DEF Handler, Local, Assigned, Wants, PCs
<1>7. \A s \in Slugs, pc \in {"retry", "expire"} : Handler(pc, None, s, None, None) \in Local
  BY DEF Handler, Local, Assigned, Wants, PCs
<1>8. \A s \in Slugs, to \in {"running"} \cup Finished : Handler("report", None, s, None, to) \in Local
  BY DEF Handler, Local, Assigned, Wants, PCs, Finished
<1>9. \A r \in Requests, s \in Slugs, to \in {"provisioning"} \cup Finished, S \in SUBSET Slugs :
        [Handler("reconcile", r, s, None, to) EXCEPT !.work = S] \in Local
  BY DEF Handler, Local, Assigned, Wants, PCs, Finished
<1>. QED  BY <1>1, <1>2, <1>3, <1>4, <1>5, <1>6, <1>7, <1>8, <1>9

LEMMA WorkerType ==
  ASSUME TypeOK, NEW w \in Workers
  PROVE  /\ Finish(w) => worker' \in [Workers -> Local]
         /\ \A l \in Local : Begin(w, l) => worker' \in [Workers -> Local]
         /\ \A l \in Local : worker' = [worker EXCEPT ![w] = l] => worker' \in [Workers -> Local]
BY LocalTypes DEF TypeOK, Finish, Begin

LEMMA ExtraType ==
  ASSUME TypeOK, Extra
  PROVE  extras' \in 0..MaxExtras
BY ConversionAssumption DEF TypeOK, Extra

(* What the UPDATEs make of a row. *)
LEMMA RowTypes ==
  /\ \A row \in TargetRow, n \in Nodes \cup {None} : Taken(row, n) \in TargetRow
  /\ \A row \in JobRow, n \in Nodes : Placed(row, n) \in JobRow
  /\ \A row \in JobRow : FailedIfInFlight(row) \in JobRow /\ Retried(row) \in JobRow
  /\ \A row \in ConversionRow, s \in Slugs : Approved(row, s) \in ConversionRow
  /\ \A row \in ConversionRow, s \in Slugs, to \in {"provisioning"} \cup Finished :
       Reconciled(row, s, to) \in ConversionRow
<1>1. \A row \in TargetRow, n \in Nodes \cup {None} : Taken(row, n) \in TargetRow
  BY DEF TargetRow, Taken
<1>2. \A row \in JobRow, n \in Nodes : Placed(row, n) \in JobRow
  BY DEF Placed, JobRow, JobStates
<1>3. \A row \in JobRow : FailedIfInFlight(row) \in JobRow /\ Retried(row) \in JobRow
  BY DEF FailedIfInFlight, Retried, JobRow, JobStates
<1>4. \A row \in ConversionRow, s \in Slugs : Approved(row, s) \in ConversionRow
  BY DEF ConversionRow, Approved, ActiveStates
<1>5. \A row \in ConversionRow, s \in Slugs, to \in {"provisioning"} \cup Finished :
        Reconciled(row, s, to) \in ConversionRow
  BY DEF ConversionRow, Reconciled, ActiveStates, Finished
<1>. QED  BY <1>1, <1>2, <1>3, <1>4, <1>5

LEMMA InitType == Init => TypeOK
<1>. SUFFICES ASSUME Init PROVE TypeOK
  OBVIOUS
<1>1. conversions \in [Requests -> ConversionRow] /\ targets \in [Slugs -> TargetRow]
  BY DEF Init, NoConversion, ConversionRow, NoTarget, TargetRow
<1>2. jobs \in [Slugs -> JobRow] /\ direct \in SUBSET Slugs /\ built \in SUBSET Slugs
  BY DEF Init, NoJob, JobRow, JobStates
<1>3. worker \in [Workers -> Local]
  BY LocalTypes DEF Init
<1>4. extras \in 0..MaxExtras
  BY ConversionAssumption DEF Init
<1>. QED  BY <1>1, <1>2, <1>3, <1>4 DEF TypeOK

LEMMA ReadType ==
  ASSUME TypeOK, NEW w \in Workers, Admin(w) \/ AgentRequest(w) \/ Cron(w)
  PROVE  TypeOK'
<1>1. ASSUME NEW r \in Requests, NEW t \in Trials, NEW m \in Modes, CreateRead(w, r, t, m)
      PROVE  TypeOK'
  BY <1>1, LocalTypes, WorkerType DEF CreateRead, TypeOK
<1>2. ASSUME NEW r \in Requests, NEW s \in Slugs, ApproveRead(w, r, s)
      PROVE  TypeOK'
  BY <1>2, LocalTypes, WorkerType DEF ApproveRead, TypeOK
<1>3. ASSUME NEW r \in Requests, NEW n \in Nodes, PlaceRead(w, r, n)
      PROVE  TypeOK'
  <2>1. conversions[r].target \in Slugs
    <3>1. conversions[r].target \in Slugs \cup {None}
      BY DEF TypeOK, ConversionRow
    <3>. QED  BY <1>3, <3>1 DEF PlaceRead
  <2>. QED  BY <1>3, <2>1, LocalTypes, WorkerType DEF PlaceRead, TypeOK
<1>4. ASSUME NEW s \in Slugs, NEW n \in Nodes, DirectRead(w, s, n)
      PROVE  TypeOK'
  BY <1>4, LocalTypes, WorkerType, ExtraType DEF DirectRead, TypeOK
<1>5. ASSUME NEW s \in Slugs, RetryRead(w, s)
      PROVE  TypeOK'
  BY <1>5, LocalTypes, WorkerType, ExtraType DEF RetryRead, TypeOK
<1>6. ASSUME NEW s \in Slugs, ExpireRead(w, s)
      PROVE  TypeOK'
  BY <1>6, LocalTypes, WorkerType DEF ExpireRead, TypeOK
<1>7. ASSUME NEW s \in Slugs, Renew(w, s)
      PROVE  TypeOK'
  BY <1>7, LocalTypes, WorkerType DEF Renew, TypeOK
<1>8. ASSUME NEW s \in Slugs, NEW to \in {"running"} \cup Finished, ReportRead(w, s, to)
      PROVE  TypeOK'
  BY <1>8, LocalTypes, WorkerType DEF ReportRead, TypeOK
<1>9. ASSUME Cron(w)
      PROVE  TypeOK'
  <2>1. Listed \in SUBSET Slugs
    BY DEF Listed
  <2>. QED  BY <1>9, <2>1, LocalTypes, WorkerType DEF Cron, TypeOK
<1>. QED  BY <1>1, <1>2, <1>3, <1>4, <1>5, <1>6, <1>7, <1>8, <1>9 DEF Admin, AgentRequest, Modes

LEMMA CommitType ==
  ASSUME TypeOK, NEW w \in Workers, WorkerStep(w)
  PROVE  TypeOK'
<1>. DEFINE r == worker[w].request
            s == worker[w].slug
            n == worker[w].node
<1>0. worker[w] \in Local
  BY DEF TypeOK
<1>1. CASE CreateCommit(w)
  <2>1. r \in Requests /\ worker[w].trial \in Trials /\ worker[w].want \in Modes
    BY <1>0, <1>1 DEF CreateCommit, At, Local, Assigned
  <2>2. conversions' \in [Requests -> ConversionRow]
    BY <1>1, <2>1 DEF CreateCommit, TypeOK, ConversionRow, ActiveStates
  <2>. QED  BY <1>1, <2>2, WorkerType DEF CreateCommit, TypeOK
<1>2. CASE ApproveCommit(w)
  <2>1. r \in Requests /\ s \in Slugs
    BY <1>0, <1>2 DEF ApproveCommit, At, Local, Assigned
  <2>2. /\ [status |-> "pending", node |-> None, origin |-> r] \in TargetRow
        /\ [state |-> "queued", node |-> None] \in JobRow
        /\ Approved(conversions[r], s) \in ConversionRow
    <3>1. conversions[r] \in ConversionRow
      BY <2>1 DEF TypeOK
    <3>. QED  BY <2>1, <3>1, RowTypes DEF TargetRow, JobRow, JobStates
  <2>3. /\ conversions' \in [Requests -> ConversionRow] /\ targets' \in [Slugs -> TargetRow]
        /\ jobs' \in [Slugs -> JobRow]
    <3>1. CASE targets[s].status # "absent"
      BY <1>2, <3>1 DEF ApproveCommit, TypeOK
    <3>2. CASE targets[s].status = "absent"
      BY <1>2, <2>1, <2>2, <3>2 DEF ApproveCommit, TypeOK
    <3>. QED  BY <3>1, <3>2
  <2>. QED  BY <1>2, <2>3, WorkerType DEF ApproveCommit, TypeOK
<1>3. CASE PlaceCommit(w)
  <2>1. r \in Requests /\ s \in Slugs /\ n \in Nodes
    BY <1>0, <1>3 DEF PlaceCommit, At, Local, Assigned
  <2>2. targets' \in [Slugs -> TargetRow]
    BY <1>3, <2>1, RowTypes DEF PlaceCommit, TypeOK
  <2>3. jobs' \in [Slugs -> JobRow]
    BY <1>3, <2>1, RowTypes DEF PlaceCommit, TypeOK
  <2>4. conversions' \in [Requests -> ConversionRow]
    <3>1. conversions[r] \in ConversionRow
      BY <2>1 DEF TypeOK
    <3>2. [conversions[r] EXCEPT !.state = "provisioning"] \in ConversionRow
      BY <3>1 DEF ConversionRow, ActiveStates
    <3>3. CASE conversions[r].state = "approved"
      <4>1. conversions' = [conversions EXCEPT ![r] = [conversions[r] EXCEPT !.state = "provisioning"]]
        BY <1>3, <3>3 DEF PlaceCommit, TypeOK
      <4>. QED  BY <3>2, <4>1 DEF TypeOK
    <3>4. CASE conversions[r].state # "approved"
      <4>1. conversions' = conversions
        BY <1>3, <2>1, <3>1, <3>4 DEF PlaceCommit, TypeOK, ConversionRow
      <4>. QED  BY <4>1 DEF TypeOK
    <3>. QED  BY <3>3, <3>4
  <2>. QED  BY <1>3, <2>2, <2>3, <2>4, WorkerType DEF PlaceCommit, TypeOK
<1>4. CASE DirectCommit(w)
  <2>1. s \in Slugs /\ n \in Nodes
    BY <1>0, <1>4 DEF DirectCommit, At, Local, Assigned
  <2>2. Taken(targets[s], n) \in TargetRow
    BY <2>1, RowTypes DEF TypeOK
  <2>3. targets' \in [Slugs -> TargetRow] /\ direct' \in SUBSET Slugs
    BY <1>4, <2>1, <2>2 DEF DirectCommit, TypeOK
  <2>. QED  BY <1>4, <2>3, WorkerType DEF DirectCommit, TypeOK
<1>5. CASE RetryCommit(w)
  <2>1. s \in Slugs
    BY <1>0, <1>5 DEF RetryCommit, At, Local, Assigned
  <2>2. jobs[s].node \in Nodes \cup {None}
    BY <2>1 DEF TypeOK, JobRow
  <2>3. targets' \in [Slugs -> TargetRow] /\ jobs' \in [Slugs -> JobRow]
    BY <1>5, <2>1, <2>2, RowTypes DEF RetryCommit, TypeOK
  <2>. QED  BY <1>5, <2>3, WorkerType DEF RetryCommit, TypeOK
<1>6. CASE ExpireCommit(w)
  <2>1. s \in Slugs
    BY <1>0, <1>6 DEF ExpireCommit, At, Local, Assigned
  <2>2. jobs' \in [Slugs -> JobRow]
    BY <1>6, <2>1, RowTypes DEF ExpireCommit, TypeOK
  <2>3. targets' \in [Slugs -> TargetRow]
    BY <1>6, <2>1 DEF ExpireCommit, TypeOK, TargetRow
  <2>. QED  BY <1>6, <2>2, <2>3, WorkerType DEF ExpireCommit, TypeOK
<1>7. CASE ReportCommit(w)
  <2>1. s \in Slugs /\ worker[w].want \in {"running"} \cup Finished
    BY <1>0, <1>7 DEF ReportCommit, At, Local, Assigned
  <2>2. jobs' \in [Slugs -> JobRow]
    BY <1>7, <2>1 DEF ReportCommit, TypeOK, JobRow, JobStates, Finished
  <2>3. targets' \in [Slugs -> TargetRow] /\ built' \in SUBSET Slugs
    BY <1>7, <2>1 DEF ReportCommit, TypeOK, TargetRow, Finished
  <2>4. Reconciler({s}) \in Local
    BY <2>1, LocalTypes
  <2>. QED  BY <1>7, <2>2, <2>3, <2>4, WorkerType DEF ReportCommit, TypeOK
<1>8. ASSUME NEW i \in Slugs, ReconcileRead(w, i)
      PROVE  TypeOK'
  <2>1. StateFor(Production(i)) \in {"provisioning", None} \cup Finished
    BY DEF StateFor
  <2>2. worker[w].work \ {i} \in SUBSET Slugs
    BY <1>0 DEF Local
  <2>3. worker' \in [Workers -> Local]
    <3>1. ASSUME NEW q \in Requests, StateFor(Production(i)) # None,
                 worker' = [worker EXCEPT ![w] =
                   [Handler("reconcile", q, i, None, StateFor(Production(i)))
                      EXCEPT !.work = worker[w].work \ {i}]]
          PROVE  worker' \in [Workers -> Local]
      BY <2>1, <2>2, <3>1, LocalTypes, WorkerType
    <3>2. ASSUME worker' = [worker EXCEPT ![w] = Reconciler(worker[w].work \ {i})]
          PROVE  worker' \in [Workers -> Local]
      BY <2>2, <3>2, LocalTypes, WorkerType
    <3>. QED  BY <1>8, <3>1, <3>2 DEF ReconcileRead
  <2>. QED  BY <1>8, <2>3 DEF ReconcileRead, TypeOK
<1>9. CASE ReconcileCommit(w)
  <2>1. r \in Requests /\ s \in Slugs /\ worker[w].want \in {"provisioning"} \cup Finished
    BY <1>0, <1>9 DEF ReconcileCommit, At, Local, Assigned
  <2>2. conversions' \in [Requests -> ConversionRow]
    BY <1>9, <2>1, RowTypes DEF ReconcileCommit, TypeOK
  <2>3. Reconciler(worker[w].work) \in Local
    BY <1>0, LocalTypes DEF Local
  <2>. QED  BY <1>9, <2>2, <2>3, WorkerType DEF ReconcileCommit, TypeOK
<1>. QED  BY <1>1, <1>2, <1>3, <1>4, <1>5, <1>6, <1>7, <1>8, <1>9 DEF WorkerStep

LEMMA StepType ==
  ASSUME TypeOK, [Next]_vars
  PROVE  TypeOK'
<1>1. ASSUME NEW w \in Workers, WorkerFails(w)
      PROVE  TypeOK'
  BY <1>1, WorkerType, ExtraType DEF WorkerFails, TypeOK
<1>2. ASSUME NEW s \in Slugs, Dispatch(s)
      PROVE  TypeOK'
  <2>1. jobs' \in [Slugs -> JobRow]
    BY <1>2 DEF Dispatch, TypeOK, JobRow, JobStates
  <2>. QED  BY <1>2, <2>1 DEF Dispatch, TypeOK
<1>3. CASE UNCHANGED vars
  BY <1>3 DEF vars, TypeOK
<1>. QED  BY <1>1, <1>2, <1>3, ReadType, CommitType DEF Next

(* Every row and every local variable is well formed. *)
THEOREM TypeCorrect == Spec => []TypeOK
BY InitType, StepType, PTL DEF Spec

-----------------------------------------------------------------------------
(* Conversions and their jobs *)

PastQueue(s) == Production(s) \notin {"absent", "queued"}

(* The tenant that a conversion is linked to exists, and the one of a job. *)
TargetsExist ==
  \A r \in Requests, s \in Slugs : conversions[r].target = s => targets[s].status # "absent"

JobsOwned == \A s \in Slugs : Production(s) # "absent" => targets[s].status # "absent"

(* A job is ready because a report said so, now or in an earlier attempt.  *)
ReadyReported == \A s \in Slugs : Production(s) = "ready" => s \in built

(* A placement under way has in hand the target of its conversion ... *)
PlacesTarget ==
  \A w \in Workers : At(w, "place") => conversions[worker[w].request].target = worker[w].slug

(* ... and so has a reconciler, which has seen the job past its queue, as  *)
(* a report has; a job it has seen ready was reported ready.               *)
ReconcilesTarget ==
  \A w \in Workers : At(w, "reconcile") =>
    /\ conversions[worker[w].request].target = worker[w].slug
    /\ PastQueue(worker[w].slug)
    /\ worker[w].want = "ready" => worker[w].slug \in built

ReportsPlaced == \A w \in Workers : At(w, "report") => PastQueue(worker[w].slug)

LocalsRight == PlacesTarget /\ ReconcilesTarget /\ ReportsPlaced

IInv ==
  /\ TypeOK
  /\ OneActive /\ ConversionFollowsJob
  /\ TargetsExist /\ JobsOwned /\ ReadyReported
  /\ LocalsRight

LEMMA IInvInit == Init => IInv
<1>. SUFFICES ASSUME Init PROVE IInv
  OBVIOUS
<1>1. \A r \in Requests : conversions[r] = NoConversion
  BY DEF Init
<1>2. \A w \in Workers : ~At(w, "place") /\ ~At(w, "reconcile") /\ ~At(w, "report")
  BY DEF Init, Idle, Handler, At
<1>3. OneActive /\ ConversionFollowsJob /\ TargetsExist
  BY <1>1, ConversionAssumption DEF NoConversion, OneActive, ConversionFollowsJob, TargetsExist
<1>4. JobsOwned /\ ReadyReported
  BY DEF Init, NoJob, JobsOwned, ReadyReported, Production
<1>5. LocalsRight
  BY <1>2 DEF LocalsRight, PlacesTarget, ReconcilesTarget, ReportsPlaced
<1>. QED  BY <1>3, <1>4, <1>5, InitType DEF IInv

(* What the steps of a job may do to it, seen from its conversion. *)
JobMoves ==
  /\ \A s \in Slugs :
       /\ Production(s)' = "queued" <=> Production(s) = "queued"
       /\ Production(s)' = "absent" <=> Production(s) = "absent"
       /\ Production(s)' = "ready" => Production(s) = "ready" \/ s \in built'
  /\ built \subseteq built'
TargetStays ==
  \A s \in Slugs :
    /\ targets'[s].origin = targets[s].origin
    /\ targets'[s].status = "absent" => targets[s].status = "absent"

LEMMA JobFrame ==
  ASSUME IInv, TypeOK', conversions' = conversions, JobMoves, TargetStays
  PROVE  OneActive' /\ ConversionFollowsJob' /\ TargetsExist' /\ JobsOwned' /\ ReadyReported'
<1>1. OneActive' /\ TargetsExist'
  BY DEF IInv, OneActive, TargetsExist, TargetStays
<1>2. ConversionFollowsJob'
  BY DEF IInv, ConversionFollowsJob, JobMoves, TargetStays
<1>3. JobsOwned' /\ ReadyReported'
  BY DEF IInv, JobsOwned, ReadyReported, JobMoves, TargetStays
<1>. QED  BY <1>1, <1>2, <1>3

(* ConversionFollowsJob of one conversion. *)
Keeps(r) ==
  /\ conversions[r].target = None <=> conversions[r].state \in {"absent", "requested"}
  /\ \A s \in Slugs : conversions[r].target = s =>
       /\ targets[s].origin = r
       /\ conversions[r].state = "approved" <=> Production(s) = "queued"
       /\ conversions[r].state = "ready" => s \in built

(* The invocations that are in the middle of something stay right. *)
LEMMA LocalFrame ==
  ASSUME IInv, NEW w \in Workers,
         \A v \in Workers : v # w => worker'[v] = worker[v],
         \A r \in Requests : conversions[r].target # None => conversions'[r].target = conversions[r].target,
         \A s \in Slugs : targets[s].status # "absent" => (PastQueue(s) => PastQueue(s)'),
         built \subseteq built',
         worker'[w].pc \notin {"place", "reconcile", "report"}
  PROVE  LocalsRight'
<1>1. ASSUME NEW v \in Workers, worker'[v].pc \in {"place", "reconcile", "report"}
      PROVE  v # w /\ worker'[v] = worker[v] /\ worker[v].slug \in Slugs
  <2>1. v # w /\ worker'[v] = worker[v]
    BY <1>1
  <2>. QED  BY <1>1, <2>1 DEF IInv, TypeOK, Local, Assigned
<1>2. ASSUME NEW v \in Workers, worker'[v].pc \in {"place", "reconcile"}
      PROVE  conversions'[worker[v].request].target = worker[v].slug
  <2>1. worker'[v] = worker[v] /\ worker[v].slug \in Slugs
    BY <1>1, <1>2
  <2>2. worker[v].request \in Requests
    BY <1>2, <2>1 DEF IInv, TypeOK, Local, Assigned
  <2>3. conversions[worker[v].request].target = worker[v].slug
    BY <1>2, <2>1 DEF IInv, LocalsRight, PlacesTarget, ReconcilesTarget, At
  <2>. QED  BY <2>1, <2>2, <2>3, ConversionAssumption
<1>3. ASSUME NEW v \in Workers, worker'[v].pc \in {"reconcile", "report"}
      PROVE  /\ PastQueue(worker[v].slug)'
             /\ worker'[v].pc = "reconcile" /\ worker[v].want = "ready" => worker[v].slug \in built'
  <2>1. worker'[v] = worker[v] /\ worker[v].slug \in Slugs
    BY <1>1, <1>3
  <2>2. /\ PastQueue(worker[v].slug)
        /\ worker'[v].pc = "reconcile" /\ worker[v].want = "ready" => worker[v].slug \in built
    BY <1>3, <2>1 DEF IInv, LocalsRight, ReportsPlaced, ReconcilesTarget, At
  <2>3. targets[worker[v].slug].status # "absent"
    BY <2>1, <2>2 DEF IInv, JobsOwned, PastQueue
  <2>4. jobs'[worker[v].slug].state \notin {"absent", "queued"}
    BY <2>1, <2>2, <2>3 DEF PastQueue, Production
  <2>. QED  BY <2>1, <2>2, <2>4 DEF PastQueue, Production
<1>4. PlacesTarget'
  BY <1>1, <1>2 DEF PlacesTarget, At
<1>5. ReconcilesTarget'
  <2>. SUFFICES ASSUME NEW v \in Workers, At(v, "reconcile")'
                PROVE  /\ (conversions[worker[v].request].target = worker[v].slug)'
                       /\ PastQueue(worker[v].slug)'
                       /\ (worker[v].want = "ready" => worker[v].slug \in built)'
    BY DEF ReconcilesTarget
  <2>1. worker'[v].pc = "reconcile" /\ worker'[v] = worker[v]
    BY <1>1 DEF At
  <2>. QED  BY <1>2, <1>3, <2>1 DEF PastQueue, Production
<1>6. ReportsPlaced'
  BY <1>1, <1>3 DEF ReportsPlaced, PastQueue, Production, At
<1>. QED  BY <1>4, <1>5, <1>6 DEF LocalsRight

(* What the local state of an invocation is after it has begun, ended, or *)
(* gone on to reconcile.                                                   *)
LEMMA NewLocal ==
  ASSUME TypeOK, NEW w \in Workers
  PROVE  /\ \A local : Begin(w, local) => worker'[w] = local
         /\ \A local : Begin(w, local) => \A v \in Workers : v # w => worker'[v] = worker[v]
         /\ \A S : worker' = [worker EXCEPT ![w] = Reconciler(S)] =>
              worker'[w].pc \in {"idle", "list"} /\ \A v \in Workers : v # w => worker'[v] = worker[v]
         /\ Finish(w) => worker'[w].pc = "idle" /\ \A v \in Workers : v # w => worker'[v] = worker[v]
<1>1. \A S : Reconciler(S).pc \in {"idle", "list"}
  BY DEF Reconciler, Idle, Handler
<1>2. Idle.pc = "idle"
  BY DEF Idle, Handler
<1>. QED  BY <1>1, <1>2 DEF TypeOK, Begin, Finish

LEMMA HandlerFields ==
  ASSUME NEW pc, NEW r, NEW s, NEW n, NEW want
  PROVE  /\ Handler(pc, r, s, n, want).pc = pc
         /\ Handler(pc, r, s, n, want).request = r
         /\ Handler(pc, r, s, n, want).slug = s
         /\ Handler(pc, r, s, n, want).want = want
BY DEF Handler

-----------------------------------------------------------------------------
(* The steps that leave conversions alone *)

LEMMA ReadStep ==
  ASSUME IInv, NEW w \in Workers, Admin(w) \/ AgentRequest(w) \/ Cron(w)
  PROVE  IInv' /\ UNCHANGED <<conversions, targets, jobs, direct, built>>
<1>0. TypeOK /\ TypeOK'
  BY ReadType DEF IInv
<1>1. UNCHANGED <<conversions, targets, jobs, direct, built>>
  BY DEF Admin, AgentRequest, Cron, CreateRead, ApproveRead, PlaceRead, DirectRead, RetryRead,
         ExpireRead, Renew, ReportRead
<1>2. OneActive' /\ ConversionFollowsJob' /\ TargetsExist' /\ JobsOwned' /\ ReadyReported'
  BY <1>0, <1>1, JobFrame DEF JobMoves, TargetStays, Production
<1>3. ASSUME NEW r \in Requests, NEW n \in Nodes, PlaceRead(w, r, n)
      PROVE  LocalsRight'
  <2>1. /\ worker'[w] = Handler("place", r, conversions[r].target, n, None)
        /\ \A v \in Workers : v # w => worker'[v] = worker[v]
    BY <1>0, <1>3, NewLocal DEF PlaceRead
  <2>2. /\ worker'[w].pc = "place" /\ worker'[w].request = r
        /\ worker'[w].slug = conversions[r].target
    BY <2>1, HandlerFields
  <2>3. PlacesTarget'
    BY <1>1, <2>1, <2>2 DEF IInv, LocalsRight, PlacesTarget, At
  <2>4. ReconcilesTarget' /\ ReportsPlaced'
    BY <1>1, <2>1, <2>2
       DEF IInv, LocalsRight, ReconcilesTarget, ReportsPlaced, PastQueue, Production, At
  <2>. QED  BY <2>3, <2>4 DEF LocalsRight
<1>4. ASSUME NEW s \in Slugs, NEW to \in {"running"} \cup Finished, ReportRead(w, s, to)
      PROVE  LocalsRight'
  <2>1. /\ worker'[w] = Handler("report", None, s, None, to)
        /\ \A v \in Workers : v # w => worker'[v] = worker[v]
    BY <1>0, <1>4, NewLocal DEF ReportRead
  <2>2. worker'[w].pc = "report" /\ worker'[w].slug = s
    BY <2>1, HandlerFields
  <2>3. PastQueue(s)
    BY <1>4 DEF ReportRead, Successors, PastQueue
  <2>4. PlacesTarget'
    BY <1>1, <2>1, <2>2 DEF IInv, LocalsRight, PlacesTarget, At
  <2>5. ReconcilesTarget' /\ ReportsPlaced'
    BY <1>1, <2>1, <2>2, <2>3
       DEF IInv, LocalsRight, ReconcilesTarget, ReportsPlaced, PastQueue, Production, At
  <2>. QED  BY <2>4, <2>5 DEF LocalsRight
<1>5. ASSUME NEW local, Begin(w, local), local.pc \notin {"place", "reconcile", "report"}
      PROVE  LocalsRight'
  <2>1. worker'[w] = local /\ \A v \in Workers : v # w => worker'[v] = worker[v]
    BY <1>0, <1>5, NewLocal
  <2>. QED  BY <1>1, <1>5, <2>1, LocalFrame DEF PastQueue, Production
<1>6. \/ \E r \in Requests, n \in Nodes : PlaceRead(w, r, n)
      \/ \E s \in Slugs, to \in {"running"} \cup Finished : ReportRead(w, s, to)
      \/ \E local : Begin(w, local) /\ local.pc \notin {"place", "reconcile", "report"}
  <2>0. \A S : Reconciler(S).pc \in {"idle", "list"}
    BY DEF Reconciler, Idle, Handler
  <2>1. ASSUME NEW r \in Requests, NEW t \in Trials, NEW m \in Modes, CreateRead(w, r, t, m)
        PROVE  <1>6
    BY <2>1 DEF CreateRead, Handler
  <2>2. ASSUME NEW r \in Requests, NEW s \in Slugs, ApproveRead(w, r, s)
        PROVE  <1>6
    BY <2>2 DEF ApproveRead, Handler
  <2>3. ASSUME NEW s \in Slugs, NEW n \in Nodes, DirectRead(w, s, n)
        PROVE  <1>6
    BY <2>3 DEF DirectRead, Handler
  <2>4. ASSUME NEW s \in Slugs, RetryRead(w, s) \/ ExpireRead(w, s)
        PROVE  <1>6
    BY <2>4 DEF RetryRead, ExpireRead, Handler
  <2>5. ASSUME Cron(w) \/ \E s \in Slugs : Renew(w, s)
        PROVE  <1>6
    BY <2>0, <2>5 DEF Cron, Renew
  <2>. QED  BY <2>1, <2>2, <2>3, <2>4, <2>5 DEF Admin, AgentRequest, Modes
<1>. QED  BY <1>0, <1>1, <1>2, <1>3, <1>4, <1>5, <1>6 DEF IInv

(* One job gets another row, all others stay. *)
LEMMA JobSet ==
  ASSUME TypeOK, NEW s \in Slugs, NEW row, jobs' = [jobs EXCEPT ![s] = row]
  PROVE  /\ jobs'[s] = row /\ Production(s)' = row.state
         /\ \A i \in Slugs : i # s => jobs'[i] = jobs[i] /\ Production(i)' = Production(i)
BY DEF TypeOK, Production

LEMMA JobStateSet ==
  ASSUME TypeOK, NEW s \in Slugs, NEW to, jobs' = [jobs EXCEPT ![s].state = to]
  PROVE  /\ Production(s)' = to /\ jobs'[s].node = jobs[s].node
         /\ \A i \in Slugs : i # s => jobs'[i] = jobs[i] /\ Production(i)' = Production(i)
BY DEF TypeOK, JobRow, Production

LEMMA DispatchStep ==
  ASSUME IInv, NEW s \in Slugs, Dispatch(s)
  PROVE  IInv'
<1>0. TypeOK /\ TypeOK'
  BY StepType DEF IInv, Next
<1>1. UNCHANGED <<conversions, targets, direct, worker, built>>
  BY DEF Dispatch
<1>2. /\ Production(s) \in {"placed", "retrying"} /\ Production(s)' = "dispatched"
      /\ \A i \in Slugs : i # s => Production(i)' = Production(i)
  BY <1>0, JobStateSet DEF Dispatch
<1>3. JobMoves /\ TargetStays
  BY <1>1, <1>2 DEF JobMoves, TargetStays
<1>4. LocalsRight'
  <2>1. \A i \in Slugs : PastQueue(i) => PastQueue(i)'
    BY <1>2 DEF PastQueue
  <2>2. PlacesTarget'
    BY <1>1 DEF IInv, LocalsRight, PlacesTarget, At
  <2>3. \A w \in Workers : worker[w].pc \in {"reconcile", "report"} => worker[w].slug \in Slugs
    BY <1>0 DEF TypeOK, Local, Assigned
  <2>4. ReconcilesTarget' /\ ReportsPlaced'
    BY <1>1, <2>1, <2>3
       DEF IInv, LocalsRight, ReconcilesTarget, ReportsPlaced, PastQueue, Production, At
  <2>. QED  BY <2>2, <2>4 DEF LocalsRight
<1>. QED  BY <1>0, <1>1, <1>3, <1>4, JobFrame DEF IInv

-----------------------------------------------------------------------------
(* The commits *)

(* The commits that leave conversions alone: of a job of its own, a retry, *)
(* an expiry and a report.                                                 *)
LEMMA JobCommitStep ==
  ASSUME IInv, NEW w \in Workers,
         DirectCommit(w) \/ RetryCommit(w) \/ ExpireCommit(w) \/ ReportCommit(w)
  PROVE  IInv'
<1>a. PICK s \in Slugs : s = worker[w].slug
  BY DEF IInv, TypeOK, DirectCommit, RetryCommit, ExpireCommit, ReportCommit, At, Local, Assigned
<1>0. TypeOK /\ TypeOK' /\ s \in Slugs /\ s = worker[w].slug
  BY <1>a, CommitType DEF IInv, WorkerStep
<1>1. /\ conversions' = conversions
      /\ Finish(w) \/ \E S : worker' = [worker EXCEPT ![w] = Reconciler(S)]
  BY DEF DirectCommit, RetryCommit, ExpireCommit, ReportCommit
<1>2. JobMoves
  <2>1. CASE DirectCommit(w)
    BY <2>1 DEF DirectCommit, JobMoves, Production
  <2>2. CASE RetryCommit(w)
    <3>1. jobs' = [jobs EXCEPT ![s] = Retried(jobs[s])] /\ built' = built
      BY <1>0, <2>2 DEF RetryCommit
    <3>2. /\ Production(s)' = IF Production(s) = "failed" THEN "retrying" ELSE Production(s)
          /\ \A i \in Slugs : i # s => Production(i)' = Production(i)
      BY <1>0, <3>1 DEF TypeOK, JobRow, Retried, Production
    <3>. QED  BY <1>0, <3>1, <3>2 DEF JobMoves
  <2>3. CASE ExpireCommit(w)
    <3>1. jobs' = [jobs EXCEPT ![s] = FailedIfInFlight(jobs[s])] /\ built' = built
      BY <1>0, <2>3 DEF ExpireCommit
    <3>2. /\ Production(s)' = IF Production(s) \in {"dispatched", "running"} THEN "failed"
                              ELSE Production(s)
          /\ \A i \in Slugs : i # s => Production(i)' = Production(i)
      BY <1>0, <3>1 DEF TypeOK, JobRow, FailedIfInFlight, InFlight, Production
    <3>. QED  BY <1>0, <3>1, <3>2 DEF JobMoves
  <2>4. CASE ReportCommit(w)
    <3>1. PICK to \in {"running", "ready", "failed"} : to = worker[w].want
      BY <1>0, <2>4 DEF TypeOK, ReportCommit, At, Local, Assigned, Finished
    <3>2. /\ jobs' = [jobs EXCEPT ![s].state = to]
          /\ built' = IF to = "ready" THEN built \cup {s} ELSE built
      BY <1>0, <2>4, <3>1 DEF ReportCommit
    <3>3. /\ Production(s)' = to
          /\ \A i \in Slugs : i # s => Production(i)' = Production(i)
      BY <1>0, <3>2, JobStateSet
    <3>4. PastQueue(s)
      BY <1>0, <2>4 DEF IInv, LocalsRight, ReportsPlaced, ReportCommit
    <3>. QED  BY <1>0, <3>2, <3>3, <3>4 DEF JobMoves, PastQueue
  <2>. QED  BY <2>1, <2>2, <2>3, <2>4
<1>3. TargetStays
  <2>1. ASSUME NEW n, targets' = [targets EXCEPT ![s] = Taken(targets[s], n)]
        PROVE  TargetStays
    BY <1>0, <2>1 DEF TargetStays, Taken, TypeOK, TargetRow
  <2>2. ASSUME NEW to, to # "absent", targets' = [targets EXCEPT ![s].status = to]
        PROVE  TargetStays
    BY <1>0, <2>2 DEF TargetStays, TypeOK, TargetRow
  <2>3. CASE targets' = targets
    BY <2>3 DEF TargetStays
  <2>4. CASE DirectCommit(w) \/ RetryCommit(w)
    BY <1>0, <2>1, <2>3, <2>4 DEF DirectCommit, RetryCommit
  <2>5. CASE ExpireCommit(w) \/ ReportCommit(w)
    <3>1. CASE ExpireCommit(w)
      BY <1>0, <2>2, <3>1 DEF ExpireCommit
    <3>2. CASE ReportCommit(w)
      <4>1. worker[w].want # "absent"
        BY <1>0, <3>2 DEF TypeOK, ReportCommit, At, Local, Assigned, Finished
      <4>. QED  BY <1>0, <2>2, <2>3, <3>2, <4>1 DEF ReportCommit
    <3>. QED  BY <2>5, <3>1, <3>2
  <2>. QED  BY <2>4, <2>5
<1>4. LocalsRight'
  <2>1. /\ worker'[w].pc \in {"idle", "list"}
        /\ \A v \in Workers : v # w => worker'[v] = worker[v]
    BY <1>0, <1>1, NewLocal
  <2>2. \A i \in Slugs : PastQueue(i) => PastQueue(i)'
    BY <1>2 DEF JobMoves, PastQueue
  <2>. QED  BY <1>1, <1>2, <2>1, <2>2, LocalFrame DEF JobMoves
<1>. QED  BY <1>0, <1>1, <1>2, <1>3, <1>4, JobFrame DEF IInv

LEMMA CreateStep ==
  ASSUME IInv, NEW w \in Workers, CreateCommit(w)
  PROVE  IInv'
<1>. DEFINE r == worker[w].request
            t == worker[w].trial
<1>0. TypeOK /\ TypeOK' /\ r \in Requests /\ t \in Trials
  BY CommitType DEF IInv, WorkerStep, CreateCommit, TypeOK, At, Local, Assigned
<1>1. UNCHANGED <<targets, jobs, built>> /\ Finish(w)
  BY DEF CreateCommit
<1>a. JobMoves /\ TargetStays
  BY <1>1 DEF JobMoves, TargetStays, Production
<1>b. /\ worker'[w].pc \notin {"place", "reconcile", "report"}
      /\ \A v \in Workers : v # w => worker'[v] = worker[v]
  BY <1>0, <1>1, NewLocal
<1>2. CASE conversions' = conversions
  <2>1. LocalsRight'
    BY <1>0, <1>1, <1>2, <1>b, LocalFrame DEF PastQueue, Production
  <2>. QED  BY <1>0, <1>2, <1>a, <2>1, JobFrame DEF IInv
<1>3. CASE conversions' # conversions
  <2>1. conversions[r].state = "absent" /\ ~Converting(t)
    BY <1>3 DEF CreateCommit
  <2>2. /\ conversions'[r].state = "requested" /\ conversions'[r].trial = t
        /\ conversions'[r].target = None
        /\ \A q \in Requests : q # r => conversions'[q] = conversions[q]
    BY <1>0, <1>3 DEF CreateCommit, TypeOK
  <2>3. conversions[r].target = None
    BY <1>0, <2>1 DEF IInv, ConversionFollowsJob
  <2>4. OneActive'
    <3>1. \A q \in Requests : conversions[q].trial = t => conversions[q].state \in {"absent", "failed"}
      BY <1>0, <2>1 DEF Converting, TypeOK, ConversionRow
    <3>. QED  BY <2>2, <3>1 DEF IInv, OneActive
  <2>5. ConversionFollowsJob' /\ TargetsExist'
    <3>1. \A s \in Slugs : s # None
      BY ConversionAssumption
    <3>. QED  BY <1>1, <2>2, <3>1 DEF IInv, ConversionFollowsJob, TargetsExist, Production
  <2>6. \A q \in Requests : conversions[q].target # None => conversions'[q].target = conversions[q].target
    BY <2>2, <2>3
  <2>7. LocalsRight'
    BY <1>0, <1>1, <1>b, <2>6, LocalFrame DEF PastQueue, Production
  <2>8. JobsOwned' /\ ReadyReported'
    BY <1>1 DEF IInv, JobsOwned, ReadyReported, Production
  <2>. QED  BY <1>0, <2>4, <2>5, <2>7, <2>8 DEF IInv
<1>. QED  BY <1>2, <1>3

LEMMA ApproveStep ==
  ASSUME IInv, NEW w \in Workers, ApproveCommit(w)
  PROVE  IInv'
<1>a. PICK r \in Requests, s \in Slugs : r = worker[w].request /\ s = worker[w].slug
  BY DEF IInv, ApproveCommit, TypeOK, At, Local, Assigned
<1>0. /\ TypeOK /\ TypeOK'
      /\ r \in Requests /\ s \in Slugs /\ r = worker[w].request /\ s = worker[w].slug
  BY <1>a, CommitType DEF IInv, WorkerStep
<1>1. Finish(w) /\ built' = built
  BY DEF ApproveCommit
<1>b. /\ worker'[w].pc \notin {"place", "reconcile", "report"}
      /\ \A v \in Workers : v # w => worker'[v] = worker[v]
  BY <1>0, <1>1, NewLocal
<1>2. CASE targets[s].status # "absent"
  <2>0. UNCHANGED <<conversions, targets, jobs>>
    BY <1>0, <1>2 DEF ApproveCommit
  <2>1. JobMoves /\ TargetStays
    BY <1>1, <2>0 DEF JobMoves, TargetStays, Production
  <2>2. LocalsRight'
    BY <1>0, <1>1, <1>b, <2>0, LocalFrame DEF PastQueue, Production
  <2>. QED  BY <1>0, <2>0, <2>1, <2>2, JobFrame DEF IInv
<1>3. CASE targets[s].status = "absent"
  <2>1. \A q \in Requests : conversions[q].target # s
    BY <1>0, <1>3 DEF IInv, TargetsExist
  <2>2. /\ targets'[s].status = "pending" /\ targets'[s].origin = r
        /\ \A i \in Slugs : i # s => targets'[i] = targets[i]
    BY <1>0, <1>3 DEF ApproveCommit, TypeOK
  <2>3. /\ Production(s)' = "queued"
        /\ \A i \in Slugs : i # s => Production(i)' = Production(i)
    <3>. DEFINE row == [state |-> "queued", node |-> None]
    <3>1. jobs' = [jobs EXCEPT ![s] = row]
      BY <1>0, <1>3 DEF ApproveCommit
    <3>2. Production(s)' = row.state /\ \A i \in Slugs : i # s => Production(i)' = Production(i)
      <4>. HIDE DEF row
      <4>. QED  BY <1>0, <3>1, JobSet
    <3>. QED  BY <3>2
  <2>4. /\ conversions'[r] = Approved(conversions[r], s)
        /\ \A q \in Requests : q # r => conversions'[q] = conversions[q]
    BY <1>0, <1>3 DEF ApproveCommit, TypeOK
  <2>5. conversions[r] \in ConversionRow /\ s # None
    BY <1>0, ConversionAssumption DEF TypeOK
  <2>6. /\ conversions[r].state = "requested" => /\ conversions[r].target = None
                                                 /\ conversions'[r].state = "approved"
                                                 /\ conversions'[r].target = s
        /\ conversions[r].state # "requested" => conversions'[r] = conversions[r]
        /\ conversions'[r].trial = conversions[r].trial
    BY <1>0, <2>4, <2>5 DEF Approved, ConversionRow, IInv, ConversionFollowsJob
  <2>7. OneActive'
    BY <1>0, <2>4, <2>6 DEF IInv, OneActive
  <2>8. ConversionFollowsJob'
    <3>1. ASSUME NEW q \in Requests, conversions'[q] = conversions[q]
          PROVE  Keeps(q)'
      <4>1. Keeps(q)
        BY DEF IInv, ConversionFollowsJob, Keeps
      <4>2. conversions[q].target # s
        BY <2>1
      <4>. QED  BY <1>1, <2>2, <2>3, <3>1, <4>1, <4>2 DEF Keeps
    <3>2. CASE conversions[r].state = "requested"
      <4>1. Keeps(r)'
        BY <2>2, <2>3, <2>5, <2>6, <3>2 DEF Keeps
      <4>. QED  BY <2>4, <3>1, <4>1 DEF ConversionFollowsJob, Keeps
    <3>3. CASE conversions[r].state # "requested"
      BY <2>4, <2>6, <3>1, <3>3 DEF ConversionFollowsJob, Keeps
    <3>. QED  BY <3>2, <3>3
  <2>9. TargetsExist' /\ JobsOwned' /\ ReadyReported'
    BY <1>0, <1>1, <2>2, <2>3, <2>4, <2>6 DEF IInv, TargetsExist, JobsOwned, ReadyReported
  <2>10. \A q \in Requests : conversions[q].target # None => conversions'[q].target = conversions[q].target
    BY <2>4, <2>6
  <2>11. \A i \in Slugs : targets[i].status # "absent" => (PastQueue(i) => PastQueue(i)')
    BY <1>3, <2>3 DEF PastQueue
  <2>12. LocalsRight'
    BY <1>0, <1>1, <1>b, <2>10, <2>11, LocalFrame
  <2>. QED  BY <1>0, <2>7, <2>8, <2>9, <2>12 DEF IInv
<1>. QED  BY <1>2, <1>3

LEMMA PlaceStep ==
  ASSUME IInv, NEW w \in Workers, PlaceCommit(w)
  PROVE  IInv'
<1>a. PICK r \in Requests, s \in Slugs : r = worker[w].request /\ s = worker[w].slug
  BY DEF IInv, PlaceCommit, TypeOK, At, Local, Assigned
<1>0. /\ TypeOK /\ TypeOK'
      /\ r \in Requests /\ s \in Slugs /\ r = worker[w].request /\ s = worker[w].slug
  BY <1>a, CommitType DEF IInv, WorkerStep
<1>1. Finish(w) /\ built' = built
  BY DEF PlaceCommit
<1>2. conversions[r].target = s /\ targets[s].origin = r
  BY <1>0 DEF PlaceCommit, IInv, LocalsRight, PlacesTarget, ConversionFollowsJob
<1>3. /\ Production(s) = "queued" => Production(s)' = "placed"
      /\ Production(s) # "queued" => Production(s)' = Production(s)
      /\ \A i \in Slugs : i # s => Production(i)' = Production(i)
  <2>. DEFINE row == Placed(jobs[s], worker[w].node)
  <2>1. jobs' = [jobs EXCEPT ![s] = row]
    BY <1>0 DEF PlaceCommit
  <2>2. /\ Production(s)' = row.state
        /\ \A i \in Slugs : i # s => Production(i)' = Production(i)
    <3>. HIDE DEF row
    <3>. QED  BY <1>0, <2>1, JobSet
  <2>. QED  BY <2>2 DEF Placed, Production
<1>4. TargetStays
  BY <1>0 DEF PlaceCommit, Taken, TargetStays, TypeOK, TargetRow
<1>5. /\ conversions[r].state = "approved" => conversions'[r].state = "provisioning"
      /\ conversions[r].state # "approved" => conversions'[r].state = conversions[r].state
      /\ conversions'[r].target = s /\ conversions'[r].trial = conversions[r].trial
      /\ \A q \in Requests : q # r => conversions'[q] = conversions[q]
  BY <1>0, <1>2 DEF PlaceCommit, TypeOK, ConversionRow
<1>6. OneActive'
  BY <1>0, <1>5 DEF IInv, OneActive
<1>7. ConversionFollowsJob'
  <2>1. \A q \in Requests : Keeps(q)
    BY DEF IInv, ConversionFollowsJob, Keeps
  <2>2. Keeps(r)'
    <3>1. targets'[s].origin = r
      BY <1>0, <1>2, <1>4 DEF TargetStays
    <3>2. /\ conversions[r].state = "approved" <=> Production(s) = "queued"
          /\ conversions[r].state = "ready" => s \in built
          /\ conversions[r].state \notin {"absent", "requested"}
      BY <1>0, <1>2, <2>1, ConversionAssumption DEF Keeps
    <3>. QED  BY <1>0, <1>1, <1>3, <1>5, <3>1, <3>2, ConversionAssumption DEF Keeps
  <2>3. ASSUME NEW q \in Requests, q # r
        PROVE  Keeps(q)'
    <3>1. conversions'[q] = conversions[q]
      BY <1>5, <2>3
    <3>2. conversions[q].target # s
      BY <1>0, <1>2, <2>1, <2>3 DEF Keeps
    <3>. QED  BY <1>1, <1>3, <1>4, <2>1, <3>1, <3>2 DEF Keeps, TargetStays
  <2>. QED  BY <2>2, <2>3 DEF ConversionFollowsJob, Keeps
<1>8. TargetsExist'
  BY <1>0, <1>2, <1>4, <1>5 DEF IInv, TargetsExist, TargetStays
<1>9. JobsOwned' /\ ReadyReported'
  BY <1>0, <1>1, <1>3, <1>4 DEF IInv, JobsOwned, ReadyReported, TargetStays
<1>10. LocalsRight'
  <2>1. \A q \in Requests : conversions[q].target # None => conversions'[q].target = conversions[q].target
    BY <1>2, <1>5
  <2>2. \A i \in Slugs : PastQueue(i) => PastQueue(i)'
    BY <1>3 DEF PastQueue
  <2>3. /\ worker'[w].pc \notin {"place", "reconcile", "report"}
        /\ \A v \in Workers : v # w => worker'[v] = worker[v]
    BY <1>0, <1>1, NewLocal
  <2>. QED  BY <1>0, <1>1, <2>1, <2>2, <2>3, LocalFrame
<1>. QED  BY <1>0, <1>6, <1>7, <1>8, <1>9, <1>10 DEF IInv

LEMMA ReconcileReadStep ==
  ASSUME IInv, NEW w \in Workers, NEW s \in Slugs, ReconcileRead(w, s)
  PROVE  IInv'
<1>0. TypeOK /\ TypeOK'
  BY CommitType DEF IInv, WorkerStep
<1>1. UNCHANGED <<conversions, targets, jobs, built>>
  BY DEF ReconcileRead
<1>2. OneActive' /\ ConversionFollowsJob' /\ TargetsExist' /\ JobsOwned' /\ ReadyReported'
  BY <1>0, <1>1, JobFrame DEF JobMoves, TargetStays, Production
<1>3. ASSUME NEW r \in Requests, NEW S, Linked(r, s), StateFor(Production(s)) # None,
             worker' = [worker EXCEPT ![w] =
               [Handler("reconcile", r, s, None, StateFor(Production(s))) EXCEPT !.work = S]]
      PROVE  LocalsRight'
  <2>1. /\ worker'[w].pc = "reconcile" /\ worker'[w].request = r /\ worker'[w].slug = s
        /\ worker'[w].want = StateFor(Production(s))
        /\ \A v \in Workers : v # w => worker'[v] = worker[v]
    BY <1>0, <1>3 DEF TypeOK, Handler
  <2>2. /\ conversions[r].target = s
        /\ PastQueue(s)
        /\ StateFor(Production(s)) = "ready" => s \in built
    BY <1>3 DEF Linked, StateFor, Finished, PastQueue, IInv, ReadyReported
  <2>3. PlacesTarget'
    BY <1>1, <2>1 DEF IInv, LocalsRight, PlacesTarget, At
  <2>4. ReconcilesTarget'
    BY <1>1, <2>1, <2>2 DEF IInv, LocalsRight, ReconcilesTarget, At, PastQueue, Production
  <2>5. ReportsPlaced'
    BY <1>1, <2>1 DEF IInv, LocalsRight, ReportsPlaced, At, PastQueue, Production
  <2>. QED  BY <2>3, <2>4, <2>5 DEF LocalsRight
<1>4. ASSUME worker' = [worker EXCEPT ![w] = Reconciler(worker[w].work \ {s})]
      PROVE  LocalsRight'
  <2>1. /\ worker'[w].pc \notin {"place", "reconcile", "report"}
        /\ \A v \in Workers : v # w => worker'[v] = worker[v]
    BY <1>0, <1>4, NewLocal
  <2>. QED  BY <1>1, <2>1, LocalFrame DEF PastQueue, Production
<1>5. LocalsRight'
  BY <1>3, <1>4 DEF ReconcileRead
<1>. QED  BY <1>0, <1>2, <1>5 DEF IInv

LEMMA ReconcileCommitStep ==
  ASSUME IInv, NEW w \in Workers, ReconcileCommit(w)
  PROVE  /\ IInv'
         /\ \A q \in Requests :
              /\ conversions'[q].target = conversions[q].target
              /\ conversions'[q].state # conversions[q].state =>
                   /\ conversions[q].state = "provisioning"
                   /\ conversions'[q].state \in {"ready", "failed"}
                   /\ conversions'[q].state = worker[w].want
                   /\ conversions[q].target = worker[w].slug
<1>a. PICK r \in Requests, s \in Slugs, to \in {"provisioning", "ready", "failed"} :
        r = worker[w].request /\ s = worker[w].slug /\ to = worker[w].want
  BY DEF IInv, ReconcileCommit, TypeOK, At, Local, Assigned, Finished
<1>0. /\ TypeOK /\ TypeOK'
      /\ r \in Requests /\ s \in Slugs /\ to \in {"provisioning", "ready", "failed"}
      /\ r = worker[w].request /\ s = worker[w].slug /\ to = worker[w].want
  BY <1>a, CommitType DEF IInv, WorkerStep
<1>1. UNCHANGED <<targets, jobs, built>> /\ worker' = [worker EXCEPT ![w] = Reconciler(worker[w].work)]
  BY DEF ReconcileCommit
<1>2. /\ conversions[r].target = s
      /\ PastQueue(s)
      /\ to = "ready" => s \in built
  BY <1>0 DEF ReconcileCommit, IInv, LocalsRight, ReconcilesTarget
<1>3. \A q \in Requests : Keeps(q)
  BY DEF IInv, ConversionFollowsJob, Keeps
<1>4. conversions[r].state # "approved"
  BY <1>0, <1>2, <1>3 DEF Keeps, PastQueue
<1>5. /\ conversions'[r].state =
           (IF conversions[r].state = "provisioning" THEN to ELSE conversions[r].state)
      /\ conversions'[r].target = s /\ conversions'[r].trial = conversions[r].trial
      /\ \A q \in Requests : q # r => conversions'[q] = conversions[q]
  <2>1. conversions[r] \in ConversionRow
    BY <1>0 DEF TypeOK
  <2>2. /\ conversions'[r] = Reconciled(conversions[r], s, to)
        /\ \A q \in Requests : q # r => conversions'[q] = conversions[q]
    BY <1>0 DEF ReconcileCommit, TypeOK
  <2>. QED  BY <1>2, <1>4, <2>1, <2>2 DEF Reconciled, Reconcilable, ConversionRow
<1>6. OneActive'
  BY <1>0, <1>5 DEF IInv, OneActive
<1>7. ConversionFollowsJob'
  <2>1. Keeps(r)'
    BY <1>0, <1>1, <1>2, <1>3, <1>4, <1>5 DEF Keeps, PastQueue, Production
  <2>2. ASSUME NEW q \in Requests, q # r
        PROVE  Keeps(q)'
    BY <1>1, <1>3, <1>5, <2>2 DEF Keeps, Production
  <2>. QED  BY <2>1, <2>2 DEF ConversionFollowsJob, Keeps
<1>8. TargetsExist' /\ JobsOwned' /\ ReadyReported'
  BY <1>0, <1>1, <1>2, <1>5 DEF IInv, TargetsExist, JobsOwned, ReadyReported, Production
<1>9. LocalsRight'
  <2>1. \A q \in Requests : conversions[q].target # None => conversions'[q].target = conversions[q].target
    BY <1>2, <1>5
  <2>2. /\ worker'[w].pc \notin {"place", "reconcile", "report"}
        /\ \A v \in Workers : v # w => worker'[v] = worker[v]
    BY <1>0, <1>1, NewLocal
  <2>. QED  BY <1>0, <1>1, <2>1, <2>2, LocalFrame DEF PastQueue, Production
<1>10. \A q \in Requests :
         /\ conversions'[q].target = conversions[q].target
         /\ conversions'[q].state # conversions[q].state =>
              /\ conversions[q].state = "provisioning"
              /\ conversions'[q].state \in {"ready", "failed"}
              /\ conversions'[q].state = worker[w].want
              /\ conversions[q].target = worker[w].slug
  BY <1>0, <1>2, <1>5
<1>. QED  BY <1>0, <1>6, <1>7, <1>8, <1>9, <1>10 DEF IInv

LEMMA FailStep ==
  ASSUME IInv, TypeOK', NEW w \in Workers, WorkerFails(w)
  PROVE  IInv'
<1>1. UNCHANGED <<conversions, targets, jobs, direct, built>> /\ Finish(w)
  BY DEF WorkerFails
<1>2. OneActive' /\ ConversionFollowsJob' /\ TargetsExist' /\ JobsOwned' /\ ReadyReported'
  BY <1>1, JobFrame DEF JobMoves, TargetStays, Production
<1>3. /\ worker'[w].pc \notin {"place", "reconcile", "report"}
      /\ \A v \in Workers : v # w => worker'[v] = worker[v]
  BY <1>1, NewLocal DEF IInv
<1>4. LocalsRight'
  BY <1>1, <1>3, LocalFrame DEF PastQueue, Production
<1>. QED  BY <1>2, <1>4 DEF IInv

LEMMA IInvStep == IInv /\ [Next]_vars => IInv'
<1>. SUFFICES ASSUME IInv, [Next]_vars PROVE IInv'
  OBVIOUS
<1>0. TypeOK'
  BY StepType DEF IInv
<1>1. CASE UNCHANGED vars
  BY <1>1 DEF vars, IInv, TypeOK, OneActive, ConversionFollowsJob, TargetsExist, JobsOwned,
              ReadyReported, LocalsRight, PlacesTarget, ReconcilesTarget, ReportsPlaced, PastQueue,
              Production, At
<1>2. ASSUME NEW s \in Slugs, Dispatch(s)
      PROVE  IInv'
  BY <1>2, DispatchStep
<1>3. ASSUME NEW w \in Workers, Admin(w) \/ AgentRequest(w) \/ Cron(w)
      PROVE  IInv'
  BY <1>3, ReadStep
<1>4. ASSUME NEW w \in Workers, WorkerStep(w)
      PROVE  IInv'
  <2>1. CASE DirectCommit(w) \/ RetryCommit(w) \/ ExpireCommit(w) \/ ReportCommit(w)
    BY <2>1, JobCommitStep
  <2>2. CASE \E s \in Slugs : ReconcileRead(w, s)
    BY <2>2, ReconcileReadStep
  <2>. QED  BY <1>4, <2>1, <2>2, CreateStep, ApproveStep, PlaceStep, ReconcileCommitStep
            DEF WorkerStep
<1>5. ASSUME NEW w \in Workers, WorkerFails(w)
      PROVE  IInv'
  BY <1>0, <1>5, FailStep
<1>. QED  BY <1>1, <1>2, <1>3, <1>4, <1>5 DEF Next

-----------------------------------------------------------------------------
(* The theorems *)

(* A trial is never converted twice at the same time, nor once more after  *)
(* it was: the UPDATEs of approvals, placements and reconcilers never      *)
(* bring back a conversion that is over.                                   *)
THEOREM OneConversion == Spec => []OneActive
<1>1. IInv => OneActive
  BY DEF IInv
<1>. QED  BY IInvInit, IInvStep, <1>1, PTL DEF Spec

(* A conversion waits for its placement as long as its job is queued, and  *)
(* is ready only when an agent has reported its job ready, however its     *)
(* invocations interleave and wherever they stop: late reports, expiries   *)
(* and retries move the job, but never back into the queue, and no         *)
(* reconciler writes a "ready" that no report was committed with.          *)
THEOREM FollowsJob == Spec => []ConversionFollowsJob
<1>1. IInv => ConversionFollowsJob
  BY DEF IInv
<1>. QED  BY IInvInit, IInvStep, <1>1, PTL DEF Spec

(* ConversionStepsLegal of one step. *)
StepLegal ==
  \A r \in Requests :
    LET old == conversions[r]
        new == conversions'[r]
    IN /\ new.state # old.state => new.state \in NextStates[old.state]
       /\ new.target # old.target => old.target = None

LEMMA LegalStep == IInv /\ [Next]_vars => StepLegal
<1>. SUFFICES ASSUME IInv, [Next]_vars PROVE StepLegal
  OBVIOUS
<1>0. TypeOK
  BY DEF IInv
<1>1. CASE conversions' = conversions
  BY <1>1 DEF StepLegal
<1>2. ASSUME NEW w \in Workers, CreateCommit(w), conversions' # conversions
      PROVE  StepLegal
  <2>1. worker[w].request \in Requests /\ conversions[worker[w].request].state = "absent"
    BY <1>0, <1>2 DEF CreateCommit, TypeOK, At, Local, Assigned
  <2>2. /\ conversions'[worker[w].request].state = "requested"
        /\ \A q \in Requests : q # worker[w].request => conversions'[q] = conversions[q]
    BY <1>0, <1>2 DEF CreateCommit, TypeOK
  <2>3. conversions[worker[w].request].target = None
    BY <2>1 DEF IInv, ConversionFollowsJob
  <2>. QED  BY <2>1, <2>2, <2>3 DEF StepLegal, NextStates
<1>3. ASSUME NEW w \in Workers, ApproveCommit(w), conversions' # conversions
      PROVE  StepLegal
  <2>1. worker[w].request \in Requests /\ conversions[worker[w].request] \in ConversionRow
    BY <1>0, <1>3 DEF ApproveCommit, TypeOK, At, Local, Assigned
  <2>2. /\ conversions'[worker[w].request] = Approved(conversions[worker[w].request], worker[w].slug)
        /\ \A q \in Requests : q # worker[w].request => conversions'[q] = conversions[q]
    BY <1>0, <1>3 DEF ApproveCommit, TypeOK
  <2>3. CASE conversions[worker[w].request].state = "requested"
    <3>1. conversions'[worker[w].request].state = "approved"
      BY <2>1, <2>2, <2>3 DEF Approved, ConversionRow
    <3>2. conversions[worker[w].request].target = None
      BY <2>1, <2>3 DEF IInv, ConversionFollowsJob
    <3>. QED  BY <2>2, <2>3, <3>1, <3>2 DEF StepLegal, NextStates
  <2>4. CASE conversions[worker[w].request].state # "requested"
    BY <2>2, <2>4 DEF StepLegal, Approved
  <2>. QED  BY <2>3, <2>4
<1>4. ASSUME NEW w \in Workers, PlaceCommit(w)
      PROVE  StepLegal
  <2>1. conversions' = [conversions EXCEPT ![worker[w].request].state =
                          IF @ = "approved" THEN "provisioning" ELSE @]
    BY <1>4 DEF PlaceCommit
  <2>2. \A q \in Requests :
          /\ conversions'[q].target = conversions[q].target
          /\ conversions'[q].state # conversions[q].state =>
               conversions[q].state = "approved" /\ conversions'[q].state = "provisioning"
    BY <1>0, <2>1 DEF TypeOK, ConversionRow
  <2>. QED  BY <2>2 DEF StepLegal, NextStates
<1>5. ASSUME NEW w \in Workers, ReconcileCommit(w)
      PROVE  StepLegal
  BY <1>5, ReconcileCommitStep DEF StepLegal, NextStates
<1>6. \/ conversions' = conversions
      \/ \E w \in Workers : \/ CreateCommit(w) \/ ApproveCommit(w)
                            \/ PlaceCommit(w) \/ ReconcileCommit(w)
  <2>1. ASSUME NEW w \in Workers, Admin(w) \/ AgentRequest(w) \/ Cron(w)
        PROVE  conversions' = conversions
    BY <2>1, ReadStep
  <2>2. ASSUME NEW s \in Slugs, Dispatch(s)
        PROVE  conversions' = conversions
    BY <2>2 DEF Dispatch
  <2>3. ASSUME NEW w \in Workers, WorkerStep(w)
        PROVE  <1>6
    BY <2>3 DEF WorkerStep, DirectCommit, RetryCommit, ExpireCommit, ReportCommit, ReconcileRead
  <2>4. ASSUME NEW w \in Workers, WorkerFails(w)
        PROVE  conversions' = conversions
    BY <2>4 DEF WorkerFails
  <2>. QED  BY <2>1, <2>2, <2>3, <2>4 DEF Next, vars
<1>. QED  BY <1>1, <1>2, <1>3, <1>4, <1>5, <1>6

(* A conversion moves along its states and its target is chosen once:      *)
(* approvals, placements and reconcilers that act on what they read before *)
(* never take it back or to another tenant.                                *)
THEOREM StepsLegal == Spec => ConversionStepsLegal
<1>. QED  BY IInvInit, IInvStep, LegalStep, PTL DEF Spec, ConversionStepsLegal, StepLegal

-----------------------------------------------------------------------------
(* While invocations do not overlap *)

(* A production tenant is there exactly when the job of its conversion is, *)
(* that conversion has it for its target, and it is where the job is.      *)
HasTenant(s) ==
  IF targets[s].status = "absent"
  THEN Production(s) = "absent" /\ s \notin direct
  ELSE /\ targets[s].origin \in Requests
       /\ conversions[targets[s].origin].target = s
       /\ Production(s) # "absent"
       /\ s \notin direct =>
            /\ targets[s].status = StatusFor(Production(s))
            /\ targets[s].node = jobs[s].node

(* What an invocation has read is still so: nobody else has written since. *)
StillSo(l) ==
  /\ l.pc = "approve" => Approvable(conversions[l.request])
  /\ l.pc = "direct" => targets[l.slug].status # "absent"
  /\ l.pc = "retry" => Production(l.slug) = "failed"
  /\ l.pc = "expire" => Production(l.slug) \in {"dispatched", "running"}
  /\ l.pc = "report" => l.want \in Successors(Production(l.slug))
  /\ l.pc = "reconcile" /\ l.want = "ready" => Production(l.slug) = "ready"

Tenants == \A s \in Slugs : HasTenant(s)
Reads == \A w \in Workers : StillSo(worker[w])
TargetsInv == IInv /\ Tenants /\ OutcomeStands /\ Reads

LEMMA TargetsInit == Init => TargetsInv
<1>. SUFFICES ASSUME Init PROVE TargetsInv
  OBVIOUS
<1>1. Tenants /\ OutcomeStands
  BY DEF Init, NoTarget, NoJob, NoConversion, Tenants, HasTenant, OutcomeStands, Production
<1>2. Reads
  BY DEF Init, Idle, Handler, Reads, StillSo
<1>. QED  BY <1>1, <1>2, IInvInit DEF TargetsInv

(* A tenant whose rows stay as they are keeps what was true of it. *)
LEMMA TenantFrame ==
  ASSUME TypeOK, NEW s \in Slugs, HasTenant(s),
         targets'[s] = targets[s], jobs'[s] = jobs[s],
         s \in direct' <=> s \in direct,
         \A r \in Requests : conversions[r].target = s => conversions'[r].target = s
  PROVE  HasTenant(s)'
BY DEF HasTenant, Production

(* The one invocation in flight has ended, or goes on to reconcile. *)
LEMMA ReadsEnd ==
  ASSUME TypeOK, Serial, NEW w \in Workers, ~At(w, "idle"),
         Finish(w) \/ \E S : worker' = [worker EXCEPT ![w] = Reconciler(S)]
  PROVE  Reads'
<1>1. worker'[w].pc \in {"idle", "list"} /\ \A v \in Workers : v # w => worker'[v] = worker[v]
  BY NewLocal
<1>2. \A v \in Workers : v # w => worker[v].pc = "idle"
  BY DEF Serial, At
<1>. QED  BY <1>1, <1>2 DEF Reads, StillSo

(* What an invocation reads when it begins is so. *)
LEMMA ReadsBegin ==
  ASSUME TargetsInv, NEW w \in Workers, Admin(w) \/ AgentRequest(w) \/ Cron(w)
  PROVE  TargetsInv'
<1>0. TypeOK /\ IInv'
  BY ReadStep DEF TargetsInv, IInv
<1>1. UNCHANGED <<conversions, targets, jobs, direct, built>>
  BY ReadStep DEF TargetsInv
<1>2. Tenants' /\ OutcomeStands'
  BY <1>1 DEF TargetsInv, Tenants, HasTenant, OutcomeStands, Production
<1>3. ASSUME NEW local, Begin(w, local), StillSo(local)
      PROVE  Reads'
  <2>1. worker'[w] = local /\ \A v \in Workers : v # w => worker'[v] = worker[v]
    BY <1>0, <1>3, NewLocal
  <2>2. ASSUME NEW v \in Workers
        PROVE  StillSo(worker[v])'
    <3>1. CASE v = w
      BY <1>1, <1>3, <2>1, <3>1 DEF StillSo, Approvable, Production
    <3>2. CASE v # w
      BY <1>1, <2>1, <3>2 DEF TargetsInv, Reads, StillSo, Approvable, Production
    <3>. QED  BY <3>1, <3>2
  <2>. QED  BY <2>2 DEF Reads
<1>4. \E local : Begin(w, local) /\ StillSo(local)
  <2>0. \A S : StillSo(Reconciler(S))
    BY DEF Reconciler, Idle, Handler, StillSo
  <2>1. ASSUME NEW r \in Requests, NEW t \in Trials, NEW m \in Modes, CreateRead(w, r, t, m)
        PROVE  <1>4
    BY <2>1 DEF CreateRead, Handler, StillSo
  <2>2. ASSUME NEW r \in Requests, NEW s \in Slugs, ApproveRead(w, r, s)
        PROVE  <1>4
    BY <2>2, HandlerFields DEF ApproveRead, StillSo
  <2>3. ASSUME NEW r \in Requests, NEW n \in Nodes, PlaceRead(w, r, n)
        PROVE  <1>4
    BY <2>3, HandlerFields DEF PlaceRead, StillSo
  <2>4. ASSUME NEW s \in Slugs, NEW n \in Nodes, DirectRead(w, s, n)
        PROVE  <1>4
    BY <2>4, HandlerFields DEF DirectRead, StillSo
  <2>5. ASSUME NEW s \in Slugs, RetryRead(w, s)
        PROVE  <1>4
    BY <2>5, HandlerFields DEF RetryRead, StillSo
  <2>6. ASSUME NEW s \in Slugs, ExpireRead(w, s)
        PROVE  <1>4
    BY <2>6, HandlerFields DEF ExpireRead, StillSo, InFlight, Production
  <2>7. ASSUME NEW s \in Slugs, NEW to \in {"running"} \cup Finished, ReportRead(w, s, to)
        PROVE  <1>4
    BY <2>7, HandlerFields DEF ReportRead, StillSo
  <2>8. ASSUME Cron(w) \/ \E s \in Slugs : Renew(w, s)
        PROVE  <1>4
    BY <2>0, <2>8 DEF Cron, Renew
  <2>. QED  BY <2>1, <2>2, <2>3, <2>4, <2>5, <2>6, <2>7, <2>8 DEF Admin, AgentRequest, Modes
<1>. QED  BY <1>0, <1>2, <1>3, <1>4 DEF TargetsInv

(* A job that is not ready moves, and its tenant follows.                  *)
LEMMA JobMoved ==
  ASSUME TargetsInv, NEW s \in Slugs, NEW to \in JobStates \ {"absent", "queued"},
         Production(s) \notin {"absent", "ready"},
         jobs' = [jobs EXCEPT ![s].state = to],
         conversions' = conversions, direct' = direct,
         \A i \in Slugs : i # s => targets'[i] = targets[i],
         targets'[s].origin = targets[s].origin,
         s \notin direct =>
           /\ targets'[s].status = StatusFor(to)
           /\ targets'[s].node = jobs[s].node,
         targets'[s].status # "absent"
  PROVE  Tenants' /\ OutcomeStands'
<1>0. TypeOK
  BY DEF TargetsInv, IInv
<1>1. /\ Production(s)' = to /\ jobs'[s].node = jobs[s].node
      /\ \A i \in Slugs : i # s => jobs'[i] = jobs[i] /\ Production(i)' = Production(i)
  BY <1>0, JobStateSet
<1>2. ASSUME NEW i \in Slugs, i # s
      PROVE  HasTenant(i)'
  BY <1>0, <1>1, <1>2, TenantFrame DEF TargetsInv, Tenants
<1>3. HasTenant(s)'
  <2>1. /\ targets[s].origin \in Requests
        /\ conversions[targets[s].origin].target = s
    BY DEF TargetsInv, Tenants, HasTenant
  <2>. QED  BY <1>1, <2>1 DEF HasTenant
<1>4. OutcomeStands'
  BY <1>1 DEF TargetsInv, OutcomeStands
<1>. QED  BY <1>2, <1>3, <1>4 DEF Tenants

(* A poll claims a job while another invocation is under way: what that    *)
(* one has read is not the poll's to move.                                 *)
LEMMA DispatchTargets ==
  ASSUME TargetsInv, NEW s \in Slugs, Dispatch(s)
  PROVE  TargetsInv'
<1>0. TypeOK /\ IInv'
  BY DispatchStep DEF TargetsInv, IInv
<1>1. UNCHANGED <<conversions, targets, direct, worker, built>>
  BY DEF Dispatch
<1>2. /\ Production(s) \in {"placed", "retrying"}
      /\ jobs' = [jobs EXCEPT ![s].state = "dispatched"]
  BY DEF Dispatch
<1>3. targets[s].status # "absent"
  BY <1>2 DEF TargetsInv, Tenants, HasTenant
<1>4. s \notin direct =>
        targets'[s].status = StatusFor("dispatched") /\ targets'[s].node = jobs[s].node
  <2>1. s \notin direct =>
          targets[s].status = StatusFor(Production(s)) /\ targets[s].node = jobs[s].node
    BY <1>3 DEF TargetsInv, Tenants, HasTenant
  <2>2. StatusFor(Production(s)) = "provisioning" /\ StatusFor("dispatched") = "provisioning"
    BY <1>2 DEF StatusFor, StateFor
  <2>. QED  BY <1>1, <2>1, <2>2
<1>5. Tenants' /\ OutcomeStands'
  BY <1>1, <1>2, <1>3, <1>4, JobMoved DEF JobStates
<1>6. Reads'
  <2>1. \A i \in Slugs : i # s => Production(i)' = Production(i)
    BY <1>0, <1>2, JobStateSet
  <2>. SUFFICES ASSUME NEW w \in Workers
                PROVE  StillSo(worker[w])'
    BY DEF Reads
  <2>2. StillSo(worker[w])
    BY DEF TargetsInv, Reads
  <2>3. worker[w].pc \in {"retry", "expire", "report", "reconcile"} => worker[w].slug \in Slugs
    BY <1>0 DEF TypeOK, Local, Assigned
  <2>4. /\ worker[w].pc \in {"retry", "expire", "report"} => worker[w].slug # s
        /\ worker[w].pc = "reconcile" /\ worker[w].want = "ready" => worker[w].slug # s
    BY <1>2, <2>2 DEF StillSo, Successors
  <2>5. /\ worker[w].pc \in {"retry", "expire", "report"} =>
             jobs'[worker[w].slug].state = jobs[worker[w].slug].state
        /\ worker[w].pc = "reconcile" /\ worker[w].want = "ready" =>
             jobs'[worker[w].slug].state = jobs[worker[w].slug].state
    BY <2>1, <2>3, <2>4 DEF Production
  <2>. QED  BY <1>1, <2>2, <2>5 DEF StillSo, Approvable, Production
<1>. QED  BY <1>0, <1>5, <1>6 DEF TargetsInv

LEMMA CreateTargets ==
  ASSUME TargetsInv, NEW w \in Workers, CreateCommit(w)
  PROVE  Tenants' /\ OutcomeStands'
<1>0. TypeOK /\ worker[w].request \in Requests /\ UNCHANGED <<targets, jobs, direct>>
  BY DEF TargetsInv, IInv, CreateCommit, TypeOK, At, Local, Assigned
<1>1. ASSUME NEW r \in Requests, NEW s \in Slugs, conversions[r].target = s
      PROVE  conversions'[r].target = s
  <2>1. conversions[r].state # "absent"
    BY <1>1, ConversionAssumption DEF TargetsInv, IInv, ConversionFollowsJob
  <2>. QED  BY <1>0, <1>1, <2>1 DEF CreateCommit, TypeOK
<1>2. OutcomeStands'
  <2>. SUFFICES ASSUME NEW r \in Requests, NEW s \in Slugs,
                       conversions'[r].target = s, conversions'[r].state = "ready"
                PROVE  Production(s)' = "ready"
    BY DEF OutcomeStands
  <2>1. conversions'[r] = conversions[r]
    BY <1>0 DEF CreateCommit, TypeOK
  <2>. QED  BY <1>0, <2>1 DEF TargetsInv, OutcomeStands, Production
<1>. QED  BY <1>0, <1>1, <1>2, TenantFrame DEF TargetsInv, Tenants

(* The conversion is still Approvable, and so has no other target.         *)
LEMMA ApproveTargets ==
  ASSUME TargetsInv, NEW w \in Workers, ApproveCommit(w)
  PROVE  Tenants' /\ OutcomeStands'
<1>a. PICK r \in Requests, s \in Slugs : r = worker[w].request /\ s = worker[w].slug
  BY DEF TargetsInv, IInv, ApproveCommit, TypeOK, At, Local, Assigned
<1>0. /\ TypeOK /\ r \in Requests /\ s \in Slugs /\ s # None /\ direct' = direct
      /\ r = worker[w].request /\ s = worker[w].slug
  BY <1>a, ConversionAssumption DEF TargetsInv, IInv, ApproveCommit
<1>1. conversions[r].state = "requested" /\ conversions[r].target = None
  <2>1. Approvable(conversions[r])
    BY <1>0 DEF TargetsInv, Reads, StillSo, ApproveCommit, At
  <2>. QED  BY <1>0, <2>1 DEF Approvable, TargetsInv, IInv, ConversionFollowsJob
<1>2. CASE targets[s].status # "absent"
  <2>1. UNCHANGED <<conversions, targets, jobs>>
    BY <1>0, <1>2 DEF ApproveCommit
  <2>2. OutcomeStands'
    BY <2>1 DEF TargetsInv, OutcomeStands, Production
  <2>. QED  BY <2>1, <2>2, <1>0, TenantFrame DEF TargetsInv, Tenants
<1>3. CASE targets[s].status = "absent"
  <2>1. /\ targets'[s] = [status |-> "pending", node |-> None, origin |-> r]
        /\ \A i \in Slugs : i # s => targets'[i] = targets[i]
    BY <1>0, <1>3 DEF ApproveCommit, TypeOK
  <2>2. /\ jobs'[s] = [state |-> "queued", node |-> None]
        /\ \A i \in Slugs : i # s => jobs'[i] = jobs[i]
    BY <1>0, <1>3 DEF ApproveCommit, TypeOK
  <2>3. /\ conversions'[r].target = s /\ conversions'[r].state = "approved"
        /\ \A q \in Requests : q # r => conversions'[q] = conversions[q]
    <3>1. conversions' = [conversions EXCEPT ![r] = Approved(@, s)]
      BY <1>0, <1>3 DEF ApproveCommit
    <3>2. conversions[r] \in ConversionRow
      BY <1>0 DEF TypeOK
    <3>. QED  BY <1>0, <1>1, <3>1, <3>2 DEF TypeOK, Approved, ConversionRow
  <2>4. HasTenant(s)'
    <3>1. Production(s)' = "queued"
      BY <2>2 DEF Production
    <3>2. targets'[s].origin = r /\ targets'[s].status = "pending" /\ targets'[s].node = None
      BY <2>1
    <3>3. targets'[s].status = StatusFor("queued") /\ targets'[s].node = jobs'[s].node
      BY <2>2, <3>2 DEF StatusFor
    <3>. QED  BY <1>0, <2>3, <3>1, <3>2, <3>3 DEF HasTenant
  <2>5. ASSUME NEW i \in Slugs, i # s
        PROVE  HasTenant(i)'
    <3>1. \A q \in Requests : conversions[q].target = i => conversions'[q].target = i
      BY <1>1, <2>3, ConversionAssumption
    <3>. QED  BY <1>0, <2>1, <2>2, <2>5, <3>1, TenantFrame DEF TargetsInv, Tenants
  <2>6. OutcomeStands'
    <3>1. \A q \in Requests : conversions[q].target # s
      BY <1>0, <1>3 DEF TargetsInv, IInv, TargetsExist
    <3>. QED  BY <1>0, <2>2, <2>3, <3>1 DEF TargetsInv, OutcomeStands, Production
  <2>. QED  BY <2>4, <2>5, <2>6 DEF Tenants
<1>. QED  BY <1>2, <1>3

(* Tenant and job wait together, so that the guards of the placement's     *)
(* UPDATEs hold together.                                                  *)
LEMMA PlaceTargets ==
  ASSUME TargetsInv, NEW w \in Workers, PlaceCommit(w)
  PROVE  Tenants' /\ OutcomeStands'
<1>a. PICK r \in Requests, s \in Slugs, n \in Nodes :
        r = worker[w].request /\ s = worker[w].slug /\ n = worker[w].node
  BY DEF TargetsInv, IInv, PlaceCommit, TypeOK, At, Local, Assigned
<1>0. /\ TypeOK /\ r \in Requests /\ s \in Slugs /\ n \in Nodes /\ direct' = direct
      /\ r = worker[w].request /\ s = worker[w].slug /\ n = worker[w].node
  BY <1>a DEF TargetsInv, IInv, PlaceCommit
<1>. DEFINE job == jobs[s]
            tenant == targets[s]
<1>1. /\ jobs'[s] = Placed(job, n)
      /\ \A i \in Slugs : i # s => jobs'[i] = jobs[i]
  <2>1. jobs' = [jobs EXCEPT ![s] = Placed(@, n)]
    BY <1>0 DEF PlaceCommit
  <2>. QED  BY <1>0, <2>1 DEF TypeOK
<1>2. /\ targets'[s] = IF tenant.status = "pending" THEN Taken(tenant, n) ELSE tenant
      /\ \A i \in Slugs : i # s => targets'[i] = targets[i]
  <2>1. targets' = [targets EXCEPT ![s] = IF @.status = "pending" THEN Taken(@, n) ELSE @]
    BY <1>0 DEF PlaceCommit
  <2>. QED  BY <1>0, <2>1 DEF TypeOK
<1>3. \A q \in Requests :
        /\ conversions'[q].target = conversions[q].target
        /\ conversions'[q].state = "ready" => conversions[q].state = "ready"
  <2>1. conversions' = [conversions EXCEPT ![r].state = IF @ = "approved" THEN "provisioning" ELSE @]
    BY <1>0 DEF PlaceCommit
  <2>. QED  BY <1>0, <2>1 DEF TypeOK, ConversionRow
<1>4. tenant.status # "absent"
  BY <1>0 DEF TargetsInv, IInv, LocalsRight, PlacesTarget, TargetsExist, PlaceCommit
<1>b. /\ job.state = "queued" => jobs'[s] = [state |-> "placed", node |-> n]
      /\ job.state # "queued" => jobs'[s] = job
  BY <1>1 DEF Placed
<1>5. HasTenant(s)'
  <2>1. /\ targets[s].origin \in Requests /\ conversions[targets[s].origin].target = s
        /\ job.state # "absent"
        /\ s \notin direct => tenant.status = StatusFor(job.state) /\ tenant.node = job.node
    BY <1>0, <1>4 DEF TargetsInv, Tenants, HasTenant, Production
  <2>2. /\ targets'[s].origin = tenant.origin /\ targets'[s].status # "absent"
        /\ tenant.status = "pending" => targets'[s].status = "provisioning" /\ targets'[s].node = n
        /\ tenant.status # "pending" => targets'[s] = tenant
    <3>1. tenant \in TargetRow
      BY <1>0 DEF TypeOK
    <3>. QED  BY <1>2, <1>4, <3>1 DEF Taken, TargetRow
  <2>3. StatusFor(job.state) = "pending" <=> job.state = "queued"
    <3>1. job.state \in JobStates \ {"absent"}
      BY <1>0, <2>1 DEF TypeOK, JobRow
    <3>. QED  BY <3>1 DEF StatusFor, StateFor, Finished, JobStates
  <2>4. ASSUME s \notin direct
        PROVE  targets'[s].status = StatusFor(jobs'[s].state) /\ targets'[s].node = jobs'[s].node
    <3>1. CASE job.state = "queued"
      <4>1. /\ targets'[s].status = "provisioning" /\ targets'[s].node = n
            /\ jobs'[s].state = "placed" /\ jobs'[s].node = n
        BY <1>b, <2>1, <2>2, <2>3, <2>4, <3>1
      <4>. QED  BY <4>1 DEF StatusFor, StateFor
    <3>2. CASE job.state # "queued"
      BY <1>b, <2>1, <2>2, <2>3, <2>4, <3>2
    <3>. QED  BY <3>1, <3>2
  <2>5. Production(s)' # "absent"
    BY <1>b, <2>1 DEF Production
  <2>. QED  BY <1>0, <1>3, <2>1, <2>2, <2>4, <2>5 DEF HasTenant, Production
<1>6. ASSUME NEW i \in Slugs, i # s
      PROVE  HasTenant(i)'
  BY <1>0, <1>1, <1>2, <1>3, <1>6, TenantFrame DEF TargetsInv, Tenants
<1>7. OutcomeStands'
  BY <1>0, <1>1, <1>3, <1>b DEF TargetsInv, OutcomeStands, Production
<1>. QED  BY <1>5, <1>6, <1>7 DEF Tenants

LEMMA DirectTargets ==
  ASSUME TargetsInv, NEW w \in Workers, DirectCommit(w)
  PROVE  Tenants' /\ OutcomeStands'
<1>a. PICK s \in Slugs : s = worker[w].slug
  BY DEF TargetsInv, IInv, DirectCommit, TypeOK, At, Local, Assigned
<1>0. /\ TypeOK /\ UNCHANGED <<conversions, jobs>> /\ s \in Slugs /\ s = worker[w].slug
      /\ direct' = direct \cup {s}
  BY <1>a DEF TargetsInv, IInv, DirectCommit
<1>1. targets[s].status # "absent"
  BY <1>0 DEF TargetsInv, Reads, StillSo, DirectCommit, At
<1>2. /\ targets'[s].status # "absent" /\ targets'[s].origin = targets[s].origin
      /\ \A i \in Slugs : i # s => targets'[i] = targets[i]
  <2>1. CASE s \in direct
    BY <1>0, <1>1, <2>1 DEF DirectCommit
  <2>2. CASE s \notin direct
    <3>1. targets' = [targets EXCEPT ![s] = Taken(@, worker[w].node)]
      BY <1>0, <2>2 DEF DirectCommit
    <3>. QED  BY <1>0, <3>1 DEF TypeOK, TargetRow, Taken
  <2>. QED  BY <2>1, <2>2
<1>3. HasTenant(s)'
  BY <1>0, <1>1, <1>2 DEF TargetsInv, Tenants, HasTenant, Production
<1>4. ASSUME NEW i \in Slugs, i # s
      PROVE  HasTenant(i)'
  BY <1>0, <1>2, <1>4, TenantFrame DEF TargetsInv, Tenants
<1>5. OutcomeStands'
  BY <1>0 DEF TargetsInv, OutcomeStands, Production
<1>. QED  BY <1>3, <1>4, <1>5 DEF Tenants

(* What was read is still so, and so the retry, the expiry and the report *)
(* move the job that they move the tenant of.                              *)
LEMMA JobCommitTargets ==
  ASSUME TargetsInv, NEW w \in Workers, RetryCommit(w) \/ ExpireCommit(w) \/ ReportCommit(w)
  PROVE  Tenants' /\ OutcomeStands'
<1>a. PICK s \in Slugs : s = worker[w].slug
  BY DEF TargetsInv, IInv, RetryCommit, ExpireCommit, ReportCommit, TypeOK, At, Local, Assigned
<1>0. /\ TypeOK /\ UNCHANGED <<conversions, direct>> /\ s \in Slugs /\ s = worker[w].slug
      /\ StillSo(worker[w])
  BY <1>a DEF TargetsInv, IInv, Reads, RetryCommit, ExpireCommit, ReportCommit
<1>1. ASSUME Production(s) # "absent"
      PROVE  /\ targets[s].status # "absent"
             /\ s \notin direct => /\ targets[s].status = StatusFor(Production(s))
                                   /\ targets[s].node = jobs[s].node
  BY <1>1 DEF TargetsInv, Tenants, HasTenant
<1>2. CASE RetryCommit(w)
  <2>1. Production(s) = "failed"
    BY <1>0, <1>2 DEF StillSo, RetryCommit, At
  <2>2. jobs' = [jobs EXCEPT ![s].state = "retrying"]
    BY <1>0, <1>2, <2>1 DEF RetryCommit, Retried, Production
  <2>3. /\ targets'[s].status = "provisioning" /\ targets'[s].origin = targets[s].origin
        /\ targets'[s].node = jobs[s].node
        /\ \A i \in Slugs : i # s => targets'[i] = targets[i]
    <3>1. targets' = [targets EXCEPT ![s] = Taken(@, jobs[s].node)]
      BY <1>0, <1>2 DEF RetryCommit
    <3>. QED  BY <1>0, <3>1 DEF TypeOK, TargetRow, Taken
  <2>4. StatusFor("retrying") = "provisioning" /\ "retrying" \in JobStates \ {"absent", "queued"}
    BY DEF StatusFor, StateFor, JobStates
  <2>5. Production(s) \notin {"absent", "ready"} /\ targets'[s].status # "absent"
    BY <2>1, <2>3
  <2>6. s \notin direct =>
          targets'[s].status = StatusFor("retrying") /\ targets'[s].node = jobs[s].node
    BY <2>3, <2>4
  <2>. QED  BY <1>0, <2>2, <2>3, <2>4, <2>5, <2>6, JobMoved
<1>3. CASE ExpireCommit(w)
  <2>1. Production(s) \in {"dispatched", "running"}
    BY <1>0, <1>3 DEF StillSo, ExpireCommit, At
  <2>2. jobs' = [jobs EXCEPT ![s].state = "failed"]
    BY <1>0, <1>3, <2>1 DEF ExpireCommit, FailedIfInFlight, InFlight, Production
  <2>3. /\ targets'[s].status = "failed" /\ targets'[s].origin = targets[s].origin
        /\ targets'[s].node = targets[s].node
        /\ \A i \in Slugs : i # s => targets'[i] = targets[i]
    <3>1. targets' = [targets EXCEPT ![s].status = "failed"]
      BY <1>0, <1>3 DEF ExpireCommit
    <3>. QED  BY <1>0, <3>1 DEF TypeOK, TargetRow
  <2>4. StatusFor("failed") = "failed" /\ "failed" \in JobStates \ {"absent", "queued"}
    BY DEF StatusFor, StateFor, Finished, JobStates
  <2>5. Production(s) \notin {"absent", "ready"} /\ targets'[s].status # "absent"
    BY <2>1, <2>3
  <2>6. s \notin direct =>
          targets'[s].status = StatusFor("failed") /\ targets'[s].node = jobs[s].node
    BY <1>1, <2>3, <2>4, <2>5
  <2>. QED  BY <1>0, <2>2, <2>3, <2>4, <2>5, <2>6, JobMoved
<1>4. CASE ReportCommit(w)
  <2>0. PICK to \in {"running", "ready", "failed"} : to = worker[w].want
    BY <1>0, <1>4 DEF TypeOK, ReportCommit, At, Local, Assigned, Finished
  <2>1. to \in Successors(Production(s))
    BY <1>0, <1>4, <2>0 DEF StillSo, ReportCommit, At
  <2>2. jobs' = [jobs EXCEPT ![s].state = to]
    BY <1>0, <1>4, <2>0 DEF ReportCommit
  <2>3. /\ Production(s) \in {"dispatched", "running"}
        /\ to \in JobStates \ {"absent", "queued"}
        /\ Production(s) \notin {"absent", "ready"}
    BY <2>0, <2>1 DEF Successors, JobStates
  <2>4. /\ targets'[s].status = IF to = "running" THEN targets[s].status ELSE to
        /\ targets'[s].origin = targets[s].origin /\ targets'[s].node = targets[s].node
        /\ \A i \in Slugs : i # s => targets'[i] = targets[i]
    <3>1. targets' = IF to = "running" THEN targets ELSE [targets EXCEPT ![s].status = to]
      BY <1>0, <1>4, <2>0 DEF ReportCommit
    <3>. QED  BY <1>0, <3>1 DEF TypeOK, TargetRow
  <2>5. targets'[s].status # "absent"
    BY <1>1, <2>0, <2>3, <2>4
  <2>6. /\ StatusFor(Production(s)) = "provisioning"
        /\ StatusFor(to) = IF to = "running" THEN "provisioning" ELSE to
    BY <2>0, <2>3 DEF StatusFor, StateFor, Finished
  <2>7. s \notin direct =>
          targets'[s].status = StatusFor(to) /\ targets'[s].node = jobs[s].node
    BY <1>1, <2>3, <2>4, <2>6
  <2>. QED  BY <1>0, <2>2, <2>3, <2>4, <2>5, <2>7, JobMoved
<1>. QED  BY <1>2, <1>3, <1>4

LEMMA ReconcileTargets ==
  ASSUME TargetsInv, NEW w \in Workers,
         (\E s \in Slugs : ReconcileRead(w, s)) \/ ReconcileCommit(w)
  PROVE  Tenants' /\ OutcomeStands'
<1>1. TypeOK /\ UNCHANGED <<targets, jobs, direct>>
  BY DEF TargetsInv, IInv, ReconcileRead, ReconcileCommit
<1>2. \A q \in Requests :
        /\ conversions'[q].target = conversions[q].target
        /\ conversions'[q].state # conversions[q].state =>
             At(w, "reconcile") /\ worker[w].want = conversions'[q].state
                                /\ worker[w].slug = conversions[q].target
  BY ReconcileCommitStep DEF TargetsInv, ReconcileRead, ReconcileCommit
<1>3. OutcomeStands'
  <2>. SUFFICES ASSUME NEW r \in Requests, NEW s \in Slugs,
                       conversions'[r].target = s, conversions'[r].state = "ready"
                PROVE  Production(s)' = "ready"
    BY DEF OutcomeStands
  <2>1. CASE conversions[r].state = "ready"
    BY <1>1, <1>2, <2>1 DEF TargetsInv, OutcomeStands, Production
  <2>2. CASE conversions[r].state # "ready"
    <3>1. worker[w].pc = "reconcile" /\ worker[w].want = "ready" /\ worker[w].slug = s
      BY <1>2, <2>2 DEF At
    <3>2. StillSo(worker[w])
      BY DEF TargetsInv, Reads
    <3>. QED  BY <1>1, <3>1, <3>2 DEF StillSo, Production
  <2>. QED  BY <2>1, <2>2
<1>. QED  BY <1>1, <1>2, <1>3, TenantFrame DEF TargetsInv, Tenants

LEMMA CommitTargets ==
  ASSUME TargetsInv, Serial, NEW w \in Workers, WorkerStep(w)
  PROVE  TargetsInv'
<1>0. TypeOK /\ IInv'
  BY IInvStep DEF TargetsInv, IInv, Next
<1>1. Tenants' /\ OutcomeStands'
  BY CreateTargets, ApproveTargets, PlaceTargets, DirectTargets, JobCommitTargets, ReconcileTargets
     DEF WorkerStep
<1>2. Reads'
  <2>1. ASSUME ~At(w, "idle"), Finish(w) \/ \E S : worker' = [worker EXCEPT ![w] = Reconciler(S)]
        PROVE  Reads'
    BY <1>0, <2>1, ReadsEnd
  <2>2. CASE CreateCommit(w) \/ ApproveCommit(w) \/ PlaceCommit(w) \/ DirectCommit(w) \/ RetryCommit(w)
    BY <2>1, <2>2 DEF CreateCommit, ApproveCommit, PlaceCommit, DirectCommit, RetryCommit, At
  <2>3. CASE ExpireCommit(w) \/ ReportCommit(w) \/ ReconcileCommit(w)
    BY <2>1, <2>3 DEF ExpireCommit, ReportCommit, ReconcileCommit, At
  <2>4. ASSUME NEW s \in Slugs, ReconcileRead(w, s)
        PROVE  Reads'
    <3>1. At(w, "list") /\ UNCHANGED <<conversions, targets, jobs>>
      BY <2>4 DEF ReconcileRead
    <3>2. CASE worker' = [worker EXCEPT ![w] = Reconciler(worker[w].work \ {s})]
      BY <2>1, <3>1, <3>2 DEF At
    <3>3. ASSUME NEW r \in Requests, StateFor(Production(s)) # None,
                 worker' = [worker EXCEPT ![w] =
                   [Handler("reconcile", r, s, None, StateFor(Production(s)))
                      EXCEPT !.work = worker[w].work \ {s}]]
          PROVE  Reads'
      <4>1. /\ worker'[w].pc = "reconcile" /\ worker'[w].slug = s
            /\ worker'[w].want = StateFor(Production(s))
            /\ \A v \in Workers : v # w => worker'[v] = worker[v]
        BY <1>0, <3>3 DEF TypeOK, Handler
      <4>2. \A v \in Workers : v # w => worker[v].pc = "idle"
        BY <3>1 DEF Serial, At
      <4>3. StateFor(Production(s)) = "ready" => Production(s) = "ready"
        BY <3>3 DEF StateFor, Finished
      <4>4. StillSo(worker[w])'
        BY <3>1, <4>1, <4>3 DEF StillSo, Production
      <4>. QED  BY <4>1, <4>2, <4>4 DEF Reads, StillSo
    <3>. QED  BY <2>4, <3>2, <3>3 DEF ReconcileRead
  <2>. QED  BY <1>0, <2>2, <2>3, <2>4 DEF WorkerStep
<1>. QED  BY <1>0, <1>1, <1>2 DEF TargetsInv

LEMMA TargetsStep == TargetsInv /\ Serial /\ [Next]_vars => TargetsInv'
<1>. SUFFICES ASSUME TargetsInv, Serial, [Next]_vars PROVE TargetsInv'
  OBVIOUS
<1>0. TypeOK /\ IInv'
  BY IInvStep DEF TargetsInv, IInv
<1>1. CASE UNCHANGED vars
  BY <1>0, <1>1 DEF vars, TargetsInv, Tenants, HasTenant, OutcomeStands, Reads, StillSo,
                    Production, Approvable
<1>2. ASSUME NEW s \in Slugs, Dispatch(s)
      PROVE  TargetsInv'
  BY <1>2, DispatchTargets
<1>3. ASSUME NEW w \in Workers, WorkerFails(w)
      PROVE  TargetsInv'
  <2>1. UNCHANGED <<conversions, targets, jobs, direct>> /\ Finish(w)
    BY <1>3 DEF WorkerFails
  <2>2. Tenants' /\ OutcomeStands'
    BY <2>1 DEF TargetsInv, Tenants, HasTenant, OutcomeStands, Production
  <2>3. /\ worker'[w].pc = "idle" /\ \A v \in Workers : v # w => worker'[v] = worker[v]
    BY <1>0, <2>1, NewLocal
  <2>4. Reads'
    BY <2>1, <2>3 DEF TargetsInv, Reads, StillSo, Approvable, Production
  <2>. QED  BY <1>0, <2>2, <2>4 DEF TargetsInv
<1>. QED  BY <1>1, <1>2, <1>3, ReadsBegin, CommitTargets DEF Next

(* Every production tenant is the target of the conversion it was made     *)
(* for, is where its job is and fares as its job fares, and a conversion   *)
(* that is ready keeps a job that is, as long as no invocation writes      *)
(* between what another one reads and what it writes: the approval, the    *)
(* direct job, the retry, the expiry and the report write without asking   *)
(* again.                                                                  *)
THEOREM TargetsFollow == Spec => SerialTargets
<1>1. TargetsInv => NoOrphan /\ TenantFollowsJob /\ OutcomeStands
  BY DEF TargetsInv, Tenants, HasTenant, NoOrphan, TenantFollowsJob
<1>. QED  BY TargetsInit, TargetsStep, <1>1, PTL DEF Spec, SerialTargets
=============================================================================
