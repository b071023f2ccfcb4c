---------------------------- MODULE FleetProofs -----------------------------
(* Proofs about Fleet, for all values of its constants. *)
EXTENDS Fleet, FiniteSetTheorems, TLAPS

-----------------------------------------------------------------------------
(* Types *)

(* What an invocation takes in hand when it begins. *)
LEMMA LocalTypes ==
  /\ Idle \in Local
  /\ \A h \in Hosts, k \in Tokens : Enrolling(h, k) \in Local
  /\ \A pc \in {"place", "trial"}, t \in Tenants, n \in Ids : Placing(pc, t, n) \in Local
  /\ \A j \in Jobs : Retrying(j) \in Local
BY DEF Idle, Enrolling, Placing, Retrying, Local, Assigned

LEMMA FinishType ==
  ASSUME TypeOK, NEW w \in Workers, Finish(w)
  PROVE  worker' \in [Workers -> Local] /\ overlapped' \in BOOLEAN
BY LocalTypes DEF TypeOK, Finish

LEMMA OverlapType ==
  ASSUME TypeOK, Overlap
  PROVE  overlapped' \in BOOLEAN
BY DEF TypeOK, Overlap

LEMMA BeginType ==
  ASSUME TypeOK, NEW w \in Workers, NEW local \in Local, Begin(w, local)
  PROVE  worker' \in [Workers -> Local] /\ overlapped' \in BOOLEAN
BY OverlapType DEF TypeOK, Begin

(* Where an invocation is after it has begun. *)
LEMMA BeginLocals ==
  ASSUME TypeOK, NEW w \in Workers, NEW local, Begin(w, local)
  PROVE  worker'[w] = local /\ \A v \in Workers : v # w => worker'[v] = worker[v]
BY DEF TypeOK, Begin

LEMMA Points ==
  /\ \A pc, t, n : Placing(pc, t, n).pc = pc /\ Placing(pc, t, n).node = n
  /\ \A j : Retrying(j).pc = "retry" /\ Retrying(j).job = j
BY DEF Placing, Retrying, Idle

LEMMA InitType == Init => TypeOK
<1>. SUFFICES ASSUME Init PROVE TypeOK
  OBVIOUS
<1>1. tokens \in [Tokens -> TokenRow]
  BY DEF Init, NoToken, TokenRow
<1>2. nodes \in [Ids -> NodeRow]
  BY DEF Init, NoNode, NodeRow
<1>3. tenants \in [Tenants -> TenantRow] /\ jobs \in [Jobs -> JobRow]
  BY DEF Init, NoTenant, TenantRow, NoJob, JobRow
<1>4. worker \in [Workers -> Local]
  BY LocalTypes DEF Init
<1>5. edits \in 0..MaxEdits /\ delivered \subseteq Ids
  BY FleetAssumption DEF Init
<1>6. overlapped \in BOOLEAN
  BY DEF Init
<1>. QED  BY <1>1, <1>2, <1>3, <1>4, <1>5, <1>6 DEF TypeOK

LEMMA EditType ==
  ASSUME TypeOK, Edit
  PROVE  edits' \in 0..MaxEdits
BY FleetAssumption DEF TypeOK, Edit

LEMMA EnrollmentType ==
  ASSUME TypeOK, Enrollment
  PROVE  TypeOK'
<1>1. ASSUME NEW k \in Tokens, TokenExpires(k) \/ \E name \in Names : CreateToken(k, name)
      PROVE  TypeOK'
  <2>1. tokens' \in [Tokens -> TokenRow]
    BY <1>1 DEF TypeOK, TokenExpires, CreateToken, TokenRow
  <2>2. edits' \in 0..MaxEdits
    BY <1>1, EditType DEF TypeOK, TokenExpires, CreateToken
  <2>. QED  BY <1>1, <2>1, <2>2, OverlapType DEF TypeOK, TokenExpires, CreateToken
<1>2. ASSUME NEW w \in Workers, NEW h \in Hosts, NEW k \in Tokens, EnrollConsume(w, h, k)
      PROVE  TypeOK'
  <2>1. tokens' \in [Tokens -> TokenRow]
    BY <1>2 DEF TypeOK, EnrollConsume, TokenRow
  <2>2. worker' \in [Workers -> Local] /\ overlapped' \in BOOLEAN
    BY <1>2, LocalTypes, BeginType DEF EnrollConsume
  <2>. QED  BY <1>2, <2>1, <2>2 DEF TypeOK, EnrollConsume
<1>3. ASSUME NEW w \in Workers, NEW n \in Ids, EnrollInsert(w, n)
      PROVE  TypeOK'
  <2>1. worker[w] \in Local /\ worker[w].host \in Hosts /\ worker[w].token \in Tokens
    BY <1>3 DEF TypeOK, EnrollInsert, At, Local, Assigned
  <2>2. nodes' \in [Ids -> NodeRow]
    BY <1>3, <2>1 DEF TypeOK, EnrollInsert, NodeRow, NoNode
  <2>3. [worker[w] EXCEPT !.pc = "answer", !.node = n] \in Local
    BY <2>1 DEF Local, Assigned
  <2>4. worker' \in [Workers -> Local]
    BY <1>3, <2>3 DEF TypeOK, EnrollInsert
  <2>. QED  BY <1>3, <2>2, <2>4 DEF TypeOK, EnrollInsert
<1>4. ASSUME NEW w \in Workers, EnrollAnswer(w)
      PROVE  TypeOK'
  <2>1. worker[w].node \in Ids
    BY <1>4 DEF TypeOK, EnrollAnswer, At, Local, Assigned
  <2>2. delivered' \subseteq Ids
    BY <1>4, <2>1 DEF TypeOK, EnrollAnswer
  <2>3. worker' \in [Workers -> Local] /\ overlapped' \in BOOLEAN
    BY <1>4, FinishType DEF EnrollAnswer
  <2>. QED  BY <1>4, <2>2, <2>3 DEF TypeOK, EnrollAnswer
<1>. QED  BY <1>1, <1>2, <1>3, <1>4 DEF Enrollment

LEMMA NodeStepType ==
  ASSUME TypeOK, NodeStep
  PROVE  TypeOK'
<1>1. ASSUME NEW n \in Ids, Heartbeat(n)
      PROVE  TypeOK'
  <2>1. nodes' \in [Ids -> NodeRow]
    BY <1>1 DEF TypeOK, Heartbeat, NodeRow
  <2>. QED  BY <1>1, <2>1, OverlapType DEF TypeOK, Heartbeat
<1>2. ASSUME NEW n \in Ids, GoesOffline(n)
      PROVE  TypeOK'
  <2>1. nodes' \in [Ids -> NodeRow]
    BY <1>2 DEF TypeOK, GoesOffline, NodeRow
  <2>. QED  BY <1>2, <2>1, OverlapType DEF TypeOK, GoesOffline
<1>3. ASSUME NEW n \in Ids, RevokeNode(n)
      PROVE  TypeOK'
  <2>1. nodes' \in [Ids -> NodeRow]
    BY <1>3 DEF TypeOK, RevokeNode, NodeRow
  <2>. QED  BY <1>3, <2>1, OverlapType, EditType DEF TypeOK, RevokeNode
<1>4. ASSUME NEW n \in Ids, NEW max \in Ceilings \cup {None}, UpdateNodeMetadata(n, max)
      PROVE  TypeOK'
  <2>1. nodes' \in [Ids -> NodeRow]
    BY <1>4 DEF TypeOK, UpdateNodeMetadata, NodeRow
  <2>. QED  BY <1>4, <2>1, OverlapType, EditType DEF TypeOK, UpdateNodeMetadata
<1>. QED  BY <1>1, <1>2, <1>3, <1>4 DEF NodeStep

(* A new job and its tenant. *)
LEMMA PlacedType ==
  ASSUME TypeOK, NEW j \in Jobs, NEW t \in Tenants, NEW n \in Ids, Placed(j, t, n)
  PROVE  jobs' \in [Jobs -> JobRow] /\ tenants' \in [Tenants -> TenantRow]
BY DEF TypeOK, Placed, JobRow, TenantRow

LEMMA PlacementType ==
  ASSUME TypeOK, Placement
  PROVE  TypeOK'
<1>1. ASSUME NEW w \in Workers, NEW t \in Tenants, NEW n \in Ids, NEW suited \in SUBSET Ids,
             PlaceRead(w, t, n, suited) \/ TrialRead(w, t, n, suited)
      PROVE  TypeOK'
  BY <1>1, LocalTypes, BeginType DEF TypeOK, PlaceRead, TrialRead, rows
<1>2. ASSUME NEW w \in Workers, NEW j \in Jobs, PlaceCommit(w, j) \/ TrialCommit(w, j)
      PROVE  TypeOK'
  <2>1. worker[w].tenant \in Tenants /\ worker[w].node \in Ids
    BY <1>2 DEF TypeOK, PlaceCommit, TrialCommit, At, Local, Assigned
  <2>2. jobs' \in [Jobs -> JobRow] /\ tenants' \in [Tenants -> TenantRow]
    BY <1>2, <2>1, PlacedType DEF TypeOK, PlaceCommit, TrialCommit
  <2>3. worker' \in [Workers -> Local] /\ overlapped' \in BOOLEAN
    BY <1>2, FinishType DEF PlaceCommit, TrialCommit
  <2>. QED  BY <1>2, <2>2, <2>3 DEF TypeOK, PlaceCommit, TrialCommit
<1>3. ASSUME NEW w \in Workers, NEW j \in Jobs, RetryRead(w, j)
      PROVE  TypeOK'
  BY <1>3, LocalTypes, BeginType DEF TypeOK, RetryRead, rows
<1>4. ASSUME NEW w \in Workers, RetryCommit(w)
      PROVE  TypeOK'
  <2>1. worker[w].job \in Jobs
    BY <1>4 DEF TypeOK, RetryCommit, At, Local, Assigned
  <2>2. jobs' \in [Jobs -> JobRow]
    BY <1>4, <2>1 DEF TypeOK, RetryCommit, JobRow
  <2>3. tenants' \in [Tenants -> TenantRow]
    BY <1>4, <2>1 DEF TypeOK, RetryCommit, JobRow, TenantRow
  <2>4. worker' \in [Workers -> Local] /\ overlapped' \in BOOLEAN
    BY <1>4, FinishType DEF RetryCommit
  <2>. QED  BY <1>4, <2>2, <2>3, <2>4 DEF TypeOK, RetryCommit
<1>. QED  BY <1>1, <1>2, <1>3, <1>4 DEF Placement

LEMMA TenantStepType ==
  ASSUME TypeOK, TenantStep
  PROVE  TypeOK'
<1>1. ASSUME NEW t \in Tenants, CreateTenant(t)
      PROVE  TypeOK'
  <2>1. tenants' \in [Tenants -> TenantRow]
    BY <1>1 DEF TypeOK, CreateTenant, TenantRow
  <2>. QED  BY <1>1, <2>1, OverlapType DEF TypeOK, CreateTenant
<1>2. ASSUME NEW t \in Tenants, NEW succeeds \in BOOLEAN, CleanupEnds(t, succeeds)
      PROVE  TypeOK'
  <2>1. tenants' \in [Tenants -> TenantRow]
    BY <1>2 DEF TypeOK, CleanupEnds, Cleaned, TenantRow
  <2>. QED  BY <1>2, <2>1, OverlapType DEF TypeOK, CleanupEnds
<1>3. ASSUME NEW j \in Jobs, NEW state \in {"ready", "failed"}, JobEnds(j, state)
      PROVE  TypeOK'
  <2>1. jobs' \in [Jobs -> JobRow] /\ tenants' \in [Tenants -> TenantRow]
    BY <1>3 DEF TypeOK, JobEnds, JobRow, TenantRow
  <2>. QED  BY <1>3, <2>1, OverlapType DEF TypeOK, JobEnds
<1>. QED  BY <1>1, <1>2, <1>3 DEF TenantStep

LEMMA StepType ==
  ASSUME TypeOK, [Next]_vars
  PROVE  TypeOK'
<1>1. ASSUME NEW w \in Workers, WorkerFails(w)
      PROVE  TypeOK'
  BY <1>1, FinishType DEF TypeOK, WorkerFails, rows
<1>2. CASE UNCHANGED vars
  BY <1>2 DEF TypeOK, vars
<1>. QED  BY <1>1, <1>2, EnrollmentType, NodeStepType, PlacementType, TenantStepType DEF Next

(* Every row and every local variable is well formed. *)
THEOREM TypeCorrect == Spec => []TypeOK
BY InitType, StepType, PTL DEF Spec

-----------------------------------------------------------------------------
(* Enrollment *)

(* A token that an invocation has consumed, or a node was enrolled with. *)
Spent(k, name) == tokens[k].state = "used" /\ tokens[k].name \in {None, name}

(* A row that is not there has no token. *)
AbsentIsBlank == \A n \in Ids : nodes[n].state = "absent" => nodes[n].token = None

(* Every node and every enrollment under way has a spent token of its own. *)
NodesSpend ==
  \A n \in Ids : nodes[n].state # "absent" =>
    nodes[n].token \in Tokens /\ Spent(nodes[n].token, nodes[n].name)
NodesDiffer ==
  \A m, n \in Ids : nodes[m].state # "absent" /\ nodes[n].token = nodes[m].token => m = n
EnrollmentsSpend ==
  \A w \in Workers : At(w, "insert") =>
    /\ Spent(worker[w].token, worker[w].host)
    /\ \A n \in Ids : nodes[n].token # worker[w].token
EnrollmentsDiffer ==
  \A v, w \in Workers :
    At(v, "insert") /\ At(w, "insert") /\ worker[v].token = worker[w].token => v = w

EnrollInv ==
  /\ TypeOK
  /\ AbsentIsBlank /\ NodesSpend /\ NodesDiffer /\ EnrollmentsSpend /\ EnrollmentsDiffer

LEMMA EnrollInit == Init => EnrollInv
<1>. SUFFICES ASSUME Init PROVE EnrollInv
  OBVIOUS
<1>1. \A n \in Ids : nodes[n].state = "absent" /\ nodes[n].token = None
  BY DEF Init, NoNode
<1>2. \A w \in Workers : ~At(w, "insert")
  BY DEF Init, Idle, At
<1>. QED  BY <1>1, <1>2, InitType DEF EnrollInv, AbsentIsBlank, NodesSpend, NodesDiffer,
               EnrollmentsSpend, EnrollmentsDiffer

(* A step that adds no node and no enrollment, and un-spends no token. *)
LEMMA EnrollFrame ==
  ASSUME EnrollInv, TypeOK',
         \A n \in Ids : /\ nodes'[n].token = nodes[n].token
                        /\ nodes'[n].name = nodes[n].name
                        /\ nodes'[n].state = "absent" <=> nodes[n].state = "absent",
         \A w \in Workers : At(w, "insert")' => worker'[w] = worker[w],
         \A k \in Tokens : tokens[k].state = "used" => tokens'[k] = tokens[k]
  PROVE  EnrollInv'
<1>1. \A w \in Workers : At(w, "insert")' =>
        At(w, "insert") /\ worker'[w] = worker[w] /\ worker[w].token \in Tokens
  BY DEF EnrollInv, TypeOK, At, Local, Assigned
<1>2. NodesSpend' /\ NodesDiffer' /\ AbsentIsBlank'
  BY DEF EnrollInv, NodesSpend, NodesDiffer, AbsentIsBlank, Spent
<1>3. EnrollmentsSpend' /\ EnrollmentsDiffer'
  BY <1>1 DEF EnrollInv, EnrollmentsSpend, EnrollmentsDiffer, Spent
<1>. QED  BY <1>2, <1>3 DEF EnrollInv

LEMMA EnrollStep ==
  ASSUME EnrollInv, [Next]_vars
  PROVE  EnrollInv'
<1>0. TypeOK /\ TypeOK'
  BY StepType DEF EnrollInv
<1>1. ASSUME NEW k \in Tokens, TokenExpires(k) \/ \E name \in Names : CreateToken(k, name)
      PROVE  EnrollInv'
  <2>1. nodes' = nodes /\ worker' = worker
    BY <1>1 DEF TokenExpires, CreateToken
  <2>2. \A i \in Tokens : tokens[i].state = "used" => tokens'[i] = tokens[i]
    BY <1>0, <1>1 DEF TokenExpires, CreateToken, TypeOK
  <2>. QED  BY <1>0, <2>1, <2>2, EnrollFrame
<1>2. ASSUME NEW w \in Workers, NEW h \in Hosts, NEW k \in Tokens, EnrollConsume(w, h, k)
      PROVE  EnrollInv'
  <2>1. tokens[k].state = "open" /\ tokens[k].name \in {None, h} /\ nodes' = nodes
    BY <1>2 DEF EnrollConsume, Usable
  <2>2. /\ tokens'[k].state = "used" /\ tokens'[k].name = tokens[k].name
        /\ \A i \in Tokens : i # k => tokens'[i] = tokens[i]
    BY <1>0, <1>2 DEF EnrollConsume, TypeOK, TokenRow
  <2>3. /\ worker'[w].token = k /\ worker'[w].host = h
        /\ \A v \in Workers : v # w => worker'[v] = worker[v]
    BY <1>0, <1>2 DEF EnrollConsume, Begin, Enrolling, Idle, TypeOK
  <2>4. \A n \in Ids : nodes[n].token # k
    BY <2>1, FleetAssumption DEF EnrollInv, NodesSpend, AbsentIsBlank, Spent
  <2>5. \A v \in Workers : At(v, "insert") => worker[v].token \in Tokens /\ worker[v].token # k
    BY <1>0, <2>1 DEF EnrollInv, EnrollmentsSpend, Spent, TypeOK, At, Local, Assigned
  <2>6. NodesSpend' /\ NodesDiffer' /\ AbsentIsBlank'
    BY <2>1, <2>2, <2>4 DEF EnrollInv, NodesSpend, NodesDiffer, AbsentIsBlank, Spent
  <2>7. EnrollmentsSpend'
    BY <2>1, <2>2, <2>3, <2>4, <2>5 DEF EnrollInv, EnrollmentsSpend, Spent, At
  <2>8. EnrollmentsDiffer'
    BY <2>3, <2>5 DEF EnrollInv, EnrollmentsDiffer, At
  <2>. QED  BY <1>0, <2>6, <2>7, <2>8 DEF EnrollInv
<1>3. ASSUME NEW w \in Workers, NEW n \in Ids, EnrollInsert(w, n)
      PROVE  EnrollInv'
  <2>1. /\ At(w, "insert") /\ tokens' = tokens /\ nodes[n].state = "absent"
        /\ worker[w].token \in Tokens
    BY <1>0, <1>3 DEF EnrollInsert, TypeOK, At, Local, Assigned
  <2>2. /\ nodes'[n].token = worker[w].token /\ nodes'[n].name = worker[w].host
        /\ nodes'[n].state = "active"
        /\ \A m \in Ids : m # n => nodes'[m] = nodes[m]
    BY <1>0, <1>3 DEF EnrollInsert, NoNode, TypeOK
  <2>3. /\ ~At(w, "insert")'
        /\ \A v \in Workers : v # w => worker'[v] = worker[v]
    BY <1>0, <1>3 DEF EnrollInsert, At, TypeOK, Local
  <2>4. Spent(worker[w].token, worker[w].host) /\ \A m \in Ids : nodes[m].token # worker[w].token
    BY <2>1 DEF EnrollInv, EnrollmentsSpend
  <2>5. NodesSpend' /\ AbsentIsBlank'
    BY <2>1, <2>2, <2>4 DEF EnrollInv, NodesSpend, AbsentIsBlank, Spent
  <2>6. NodesDiffer'
    BY <2>1, <2>2, <2>4 DEF EnrollInv, NodesDiffer
  <2>7. \A v \in Workers : At(v, "insert") /\ v # w => worker[v].token # worker[w].token
    BY <2>1 DEF EnrollInv, EnrollmentsDiffer
  <2>8. EnrollmentsSpend'
    <3>. SUFFICES ASSUME NEW v \in Workers, At(v, "insert")'
                  PROVE  /\ Spent(worker[v].token, worker[v].host)
                         /\ worker'[v] = worker[v]
                         /\ \A m \in Ids : nodes'[m].token # worker[v].token
      BY <2>1 DEF EnrollmentsSpend, Spent
    <3>1. v # w /\ worker'[v] = worker[v] /\ At(v, "insert")
      BY <2>3 DEF At
    <3>. QED  BY <2>2, <2>7, <3>1 DEF EnrollInv, EnrollmentsSpend
  <2>9. EnrollmentsDiffer'
    BY <2>3 DEF EnrollInv, EnrollmentsDiffer, At
  <2>. QED  BY <1>0, <2>5, <2>6, <2>8, <2>9 DEF EnrollInv
<1>4. ASSUME NEW w \in Workers, EnrollAnswer(w)
      PROVE  EnrollInv'
  <2>1. \A v \in Workers : At(v, "insert")' => worker'[v] = worker[v]
    BY <1>0, <1>4 DEF EnrollAnswer, Finish, Idle, At, TypeOK
  <2>. QED  BY <1>0, <1>4, <2>1, EnrollFrame DEF EnrollAnswer
<1>5. CASE NodeStep
  <2>1. \A n \in Ids : /\ nodes'[n].token = nodes[n].token
                       /\ nodes'[n].name = nodes[n].name
                       /\ nodes'[n].state = "absent" <=> nodes[n].state = "absent"
    <3>1. ASSUME NEW n \in Ids, Heartbeat(n)
          PROVE  <2>1!:
      BY <1>0, <3>1 DEF Heartbeat, TypeOK, NodeRow
    <3>2. ASSUME NEW i \in Ids, \/ GoesOffline(i) \/ RevokeNode(i)
                                \/ \E max \in Ceilings \cup {None} : UpdateNodeMetadata(i, max)
          PROVE  <2>1!:
      BY <1>0, <3>2 DEF GoesOffline, RevokeNode, UpdateNodeMetadata, TypeOK, NodeRow
    <3>. QED  BY <1>5, <3>1, <3>2 DEF NodeStep
  <2>2. worker' = worker /\ tokens' = tokens
    BY <1>5 DEF NodeStep, Heartbeat, GoesOffline, RevokeNode, UpdateNodeMetadata
  <2>. QED  BY <1>0, <2>1, <2>2, EnrollFrame
<1>6. CASE Placement
  <2>1. nodes' = nodes /\ tokens' = tokens
    BY <1>6 DEF Placement, PlaceRead, TrialRead, PlaceCommit, TrialCommit, RetryRead, RetryCommit, rows
  <2>2. PICK w \in Workers :
          \/ Finish(w)
          \/ \E pc \in {"place", "trial"}, t \in Tenants, n \in Ids : Begin(w, Placing(pc, t, n))
          \/ \E j \in Jobs : Begin(w, Retrying(j))
    BY <1>6 DEF Placement, PlaceRead, TrialRead, PlaceCommit, TrialCommit, RetryRead, RetryCommit
  <2>3. worker'[w].pc # "insert" /\ \A v \in Workers : v # w => worker'[v] = worker[v]
    <3>1. CASE Finish(w)
      BY <1>0, <3>1 DEF Finish, Idle, TypeOK
    <3>2. CASE ~Finish(w)
      BY <1>0, <2>2, <3>2, BeginLocals, Points
    <3>. QED  BY <3>1, <3>2
  <2>4. \A v \in Workers : At(v, "insert")' => worker'[v] = worker[v]
    BY <2>3 DEF At
  <2>. QED  BY <1>0, <2>1, <2>4, EnrollFrame
<1>7. CASE TenantStep \/ UNCHANGED vars
  <2>1. nodes' = nodes /\ tokens' = tokens /\ worker' = worker
    BY <1>7 DEF TenantStep, CreateTenant, CleanupEnds, JobEnds, vars
  <2>. QED  BY <1>0, <2>1, EnrollFrame
<1>8. ASSUME NEW w \in Workers, WorkerFails(w)
      PROVE  EnrollInv'
  <2>1. \A v \in Workers : At(v, "insert")' => worker'[v] = worker[v]
    BY <1>0, <1>8 DEF WorkerFails, Finish, Idle, At, TypeOK
  <2>. QED  BY <1>0, <1>8, <2>1, EnrollFrame DEF WorkerFails, rows
<1>. QED  BY <1>1, <1>2, <1>3, <1>4, <1>5, <1>6, <1>7, <1>8 DEF Next, Enrollment

(* A token enrolls at most one node, of the name it was made out to. *)
THEOREM EnrollsOnce == Spec => []TokenEnrollsOnce
<1>1. EnrollInv => TokenEnrollsOnce
  BY DEF EnrollInv, NodesSpend, NodesDiffer, Spent, TokenEnrollsOnce
<1>. QED  BY <1>1, EnrollInit, EnrollStep, PTL DEF Spec

-----------------------------------------------------------------------------
(* Work and agents *)

(* Only nodes with an agent have a heartbeat, a placement under way, a job *)
(* or a tenant; and a job that is retried is there.                        *)
SeenDelivered == \A n \in Ids : nodes[n].seen # "never" => n \in delivered
PlacementsDelivered ==
  \A w \in Workers : At(w, "place") \/ At(w, "trial") => worker[w].node \in delivered
RetriesExist == \A w \in Workers : At(w, "retry") => jobs[worker[w].job].state # "absent"

WorkInv ==
  /\ TypeOK
  /\ SeenDelivered /\ PlacementsDelivered /\ RetriesExist /\ WorkHasAgent

LEMMA WorkInit == Init => WorkInv
<1>. SUFFICES ASSUME Init PROVE WorkInv
  OBVIOUS
<1>1. SeenDelivered
  BY DEF Init, NoNode, SeenDelivered
<1>2. PlacementsDelivered /\ RetriesExist
  BY DEF Init, Idle, At, PlacementsDelivered, RetriesExist
<1>3. WorkHasAgent
  BY DEF Init, NoJob, NoTenant, WorkHasAgent
<1>. QED  BY <1>1, <1>2, <1>3, InitType DEF WorkInv

(* A step of nodes and invocations that leaves jobs and tenants where they *)
(* are.                                                                    *)
LEMMA WorkFrame ==
  ASSUME WorkInv, TypeOK', delivered \subseteq delivered',
         \A j \in Jobs : /\ jobs'[j].node = jobs[j].node
                         /\ jobs'[j].state = "absent" <=> jobs[j].state = "absent",
         \A t \in Tenants : tenants'[t].node \in {None, tenants[t].node}
  PROVE  WorkHasAgent'
BY DEF WorkInv, WorkHasAgent

(* What an invocation has in hand when it begins or ends keeps to it. *)
LEMMA WorkLocals ==
  ASSUME WorkInv, NEW w \in Workers, delivered \subseteq delivered',
         \A j \in Jobs : jobs[j].state # "absent" => jobs'[j].state # "absent",
         \A v \in Workers : v # w => worker'[v] = worker[v],
         At(w, "place")' \/ At(w, "trial")' => worker'[w].node \in delivered',
         At(w, "retry")' => worker'[w].job \in Jobs /\ jobs'[worker'[w].job].state # "absent"
  PROVE  PlacementsDelivered' /\ RetriesExist'
<1>1. \A v \in Workers : At(v, "retry") => worker[v].job \in Jobs
  BY DEF WorkInv, TypeOK, At, Local, Assigned
<1>2. PlacementsDelivered'
  BY DEF WorkInv, PlacementsDelivered, At
<1>3. RetriesExist'
  BY <1>1 DEF WorkInv, RetriesExist, At
<1>. QED  BY <1>2, <1>3

LEMMA FinishLocals ==
  ASSUME TypeOK, NEW w \in Workers, Finish(w)
  PROVE  /\ \A v \in Workers : v # w => worker'[v] = worker[v]
         /\ ~At(w, "place")' /\ ~At(w, "trial")' /\ ~At(w, "retry")'
BY DEF TypeOK, Finish, Idle, At

LEMMA WorkStep ==
  ASSUME WorkInv, [Next]_vars
  PROVE  WorkInv'
<1>0. TypeOK /\ TypeOK'
  BY StepType DEF WorkInv
<1>1. CASE Enrollment
  <2>1. jobs' = jobs /\ tenants' = tenants /\ delivered \subseteq delivered'
    BY <1>1 DEF Enrollment, TokenExpires, CreateToken, EnrollConsume, EnrollInsert, EnrollAnswer
  <2>2. WorkHasAgent'
    BY <1>0, <2>1, WorkFrame
  <2>3. ASSUME NEW w \in Workers, NEW n \in Ids, EnrollInsert(w, n)
        PROVE  WorkInv'
    <3>1. SeenDelivered'
      BY <1>0, <2>3 DEF EnrollInsert, NoNode, WorkInv, SeenDelivered, TypeOK
    <3>2. worker'[w].pc = "answer" /\ \A v \in Workers : v # w => worker'[v] = worker[v]
      BY <1>0, <2>3 DEF EnrollInsert, TypeOK, Local
    <3>3. PlacementsDelivered' /\ RetriesExist'
      BY <2>1, <3>2, WorkLocals DEF At
    <3>. QED  BY <1>0, <2>2, <3>1, <3>3 DEF WorkInv
  <2>4. ASSUME NEW w \in Workers, EnrollAnswer(w)
        PROVE  WorkInv'
    <3>1. worker[w].node \in Ids
      BY <1>0, <2>4 DEF EnrollAnswer, TypeOK, At, Local, Assigned
    <3>2. SeenDelivered'
      BY <1>0, <2>4, <3>1 DEF EnrollAnswer, WorkInv, SeenDelivered, TypeOK
    <3>3. PlacementsDelivered' /\ RetriesExist'
      BY <1>0, <2>1, <2>4, FinishLocals, WorkLocals DEF EnrollAnswer
    <3>. QED  BY <1>0, <2>2, <3>2, <3>3 DEF WorkInv
  <2>5. ASSUME NEW w \in Workers, NEW h \in Hosts, NEW k \in Tokens, EnrollConsume(w, h, k)
        PROVE  WorkInv'
    <3>1. worker'[w].pc = "insert" /\ \A v \in Workers : v # w => worker'[v] = worker[v]
      BY <1>0, <2>5 DEF EnrollConsume, Begin, Enrolling, Idle, TypeOK
    <3>2. PlacementsDelivered' /\ RetriesExist'
      BY <2>1, <3>1, WorkLocals DEF At
    <3>. QED  BY <1>0, <2>2, <2>5, <3>2 DEF EnrollConsume, WorkInv, SeenDelivered
  <2>6. ASSUME NEW k \in Tokens, TokenExpires(k) \/ \E name \in Names : CreateToken(k, name)
        PROVE  WorkInv'
    BY <1>0, <2>2, <2>6 DEF TokenExpires, CreateToken, WorkInv, SeenDelivered,
       PlacementsDelivered, RetriesExist, At
  <2>. QED  BY <1>1, <2>3, <2>4, <2>5, <2>6 DEF Enrollment
<1>2. CASE NodeStep
  <2>1. UNCHANGED <<jobs, tenants, worker, delivered>>
    BY <1>2 DEF NodeStep, Heartbeat, GoesOffline, RevokeNode, UpdateNodeMetadata
  <2>2. SeenDelivered'
    <3>1. ASSUME NEW n \in Ids, Heartbeat(n)
          PROVE  SeenDelivered'
      BY <1>0, <3>1 DEF Heartbeat, WorkInv, SeenDelivered, TypeOK, NodeRow
    <3>2. ASSUME NEW n \in Ids, \/ GoesOffline(n) \/ RevokeNode(n)
                                \/ \E max \in Ceilings \cup {None} : UpdateNodeMetadata(n, max)
          PROVE  SeenDelivered'
      BY <1>0, <3>2 DEF GoesOffline, RevokeNode, UpdateNodeMetadata, WorkInv, SeenDelivered, TypeOK, NodeRow
    <3>. QED  BY <1>2, <3>1, <3>2 DEF NodeStep
  <2>. QED  BY <1>0, <2>1, <2>2 DEF WorkInv, PlacementsDelivered, RetriesExist,
               WorkHasAgent, At
<1>3. CASE Placement
  <2>0. UNCHANGED <<nodes, delivered>>
    BY <1>3 DEF Placement, PlaceRead, TrialRead, PlaceCommit, TrialCommit, RetryRead, RetryCommit, rows
  <2>1. SeenDelivered'
    BY <2>0 DEF WorkInv, SeenDelivered
  <2>2. ASSUME NEW w \in Workers, NEW t \in Tenants, NEW n \in Ids, NEW suited \in SUBSET Ids,
               PlaceRead(w, t, n, suited) \/ TrialRead(w, t, n, suited)
        PROVE  WorkInv'
    <3>1. n \in delivered /\ UNCHANGED <<jobs, tenants>>
      BY <2>2 DEF PlaceRead, TrialRead, Selected, Eligible, rows, WorkInv, SeenDelivered
    <3>2. /\ worker'[w].node = n /\ worker'[w].pc \in {"place", "trial"}
          /\ \A v \in Workers : v # w => worker'[v] = worker[v]
      BY <1>0, <2>2, BeginLocals, Points DEF PlaceRead, TrialRead
    <3>3. PlacementsDelivered' /\ RetriesExist'
      BY <2>0, <3>1, <3>2, WorkLocals DEF At
    <3>. QED  BY <1>0, <2>0, <2>1, <3>1, <3>3, WorkFrame DEF WorkInv
  <2>3. ASSUME NEW w \in Workers, NEW j \in Jobs, PlaceCommit(w, j) \/ TrialCommit(w, j)
        PROVE  WorkInv'
    <3>. DEFINE t == worker[w].tenant
                n == worker[w].node
    <3>1. n \in delivered /\ t \in Tenants
      BY <1>0, <2>3 DEF PlaceCommit, TrialCommit, WorkInv, PlacementsDelivered, TypeOK, At, Local, Assigned
    <3>2. CASE Placed(j, t, n)
      <4>1. \A i \in Jobs : jobs'[i].state # "absent" => i = j \/ jobs'[i] = jobs[i]
        BY <1>0, <3>2 DEF Placed, TypeOK
      <4>2. jobs'[j].node = n /\ jobs'[j].state = "open"
        BY <1>0, <3>2 DEF Placed, TypeOK
      <4>3. tenants'[t].node = n /\ \A u \in Tenants : u # t => tenants'[u] = tenants[u]
        BY <1>0, <3>1, <3>2 DEF Placed, TypeOK
      <4>4. WorkHasAgent'
        BY <2>0, <3>1, <4>1, <4>2, <4>3 DEF WorkInv, WorkHasAgent
      <4>5. \A i \in Jobs : jobs[i].state # "absent" => jobs'[i].state # "absent"
        BY <1>0, <3>2 DEF Placed, TypeOK
      <4>6. PlacementsDelivered' /\ RetriesExist'
        BY <1>0, <2>0, <2>3, <4>5, FinishLocals, WorkLocals DEF PlaceCommit, TrialCommit
      <4>. QED  BY <1>0, <2>1, <4>4, <4>6 DEF WorkInv
    <3>3. CASE UNCHANGED <<tenants, jobs>>
      <4>1. PlacementsDelivered' /\ RetriesExist'
        BY <1>0, <2>0, <2>3, <3>3, FinishLocals, WorkLocals DEF PlaceCommit, TrialCommit
      <4>. QED  BY <1>0, <2>0, <2>1, <3>3, <4>1, WorkFrame DEF WorkInv
    <3>. QED  BY <2>3, <3>2, <3>3 DEF PlaceCommit, TrialCommit
  <2>4. ASSUME NEW w \in Workers, NEW j \in Jobs, RetryRead(w, j)
        PROVE  WorkInv'
    <3>1. jobs[j].state # "absent" /\ UNCHANGED <<jobs, tenants>>
      BY <2>4 DEF RetryRead, rows
    <3>2. /\ worker'[w].job = j /\ worker'[w].pc = "retry"
          /\ \A v \in Workers : v # w => worker'[v] = worker[v]
      BY <1>0, <2>4 DEF RetryRead, Begin, Retrying, Idle, TypeOK
    <3>3. PlacementsDelivered' /\ RetriesExist'
      BY <2>0, <3>1, <3>2, WorkLocals DEF At
    <3>. QED  BY <1>0, <2>0, <2>1, <3>1, <3>3, WorkFrame DEF WorkInv
  <2>5. ASSUME NEW w \in Workers, RetryCommit(w)
        PROVE  WorkInv'
    <3>. DEFINE j == worker[w].job
                t == jobs[j].tenant
    <3>1. j \in Jobs /\ jobs[j].node \in delivered
      BY <1>0, <2>5 DEF RetryCommit, WorkInv, RetriesExist, WorkHasAgent, TypeOK, At, Local, Assigned
    <3>2. \A i \in Jobs : /\ jobs'[i].node = jobs[i].node
                          /\ jobs'[i].state = "absent" <=> jobs[i].state = "absent"
      BY <1>0, <2>5, <3>1 DEF RetryCommit, TypeOK, JobRow
    <3>3. \A u \in Tenants : tenants'[u].node \in {tenants[u].node, jobs[j].node}
      BY <1>0, <2>5 DEF RetryCommit, TypeOK
    <3>4. WorkHasAgent'
      BY <2>0, <3>1, <3>2, <3>3 DEF WorkInv, WorkHasAgent
    <3>5. PlacementsDelivered' /\ RetriesExist'
      BY <1>0, <2>0, <2>5, <3>2, FinishLocals, WorkLocals DEF RetryCommit
    <3>. QED  BY <1>0, <2>1, <3>4, <3>5 DEF WorkInv
  <2>. QED  BY <1>3, <2>2, <2>3, <2>4, <2>5 DEF Placement
<1>4. CASE TenantStep
  <2>1. UNCHANGED <<nodes, worker, delivered>>
    BY <1>4 DEF TenantStep, CreateTenant, CleanupEnds, JobEnds
  <2>2. \A i \in Jobs : /\ jobs'[i].node = jobs[i].node
                        /\ jobs'[i].state = "absent" <=> jobs[i].state = "absent"
    <3>1. ASSUME NEW j \in Jobs, NEW state \in {"ready", "failed"}, JobEnds(j, state)
          PROVE  <2>2!:
      BY <1>0, <3>1 DEF JobEnds, TypeOK, JobRow
    <3>. QED  BY <1>4, <3>1 DEF TenantStep, CreateTenant, CleanupEnds
  <2>3. \A u \in Tenants : tenants'[u].node \in {None, tenants[u].node}
    <3>1. ASSUME NEW j \in Jobs, NEW state \in {"ready", "failed"}, JobEnds(j, state)
          PROVE  <2>3!:
      BY <1>0, <3>1 DEF JobEnds, TypeOK, TenantRow
    <3>2. ASSUME NEW t \in Tenants, CreateTenant(t)
          PROVE  <2>3!:
      BY <1>0, <3>2 DEF CreateTenant, TypeOK, TenantRow
    <3>3. ASSUME NEW t \in Tenants, NEW succeeds \in BOOLEAN, CleanupEnds(t, succeeds)
          PROVE  <2>3!:
      BY <1>0, <3>3 DEF CleanupEnds, Cleaned, TypeOK, TenantRow
    <3>. QED  BY <1>4, <3>1, <3>2, <3>3 DEF TenantStep
  <2>4. PlacementsDelivered' /\ RetriesExist'
    BY <1>0, <2>1, <2>2 DEF WorkInv, PlacementsDelivered, RetriesExist, At, TypeOK, Local, Assigned
  <2>. QED  BY <1>0, <2>1, <2>2, <2>3, <2>4, WorkFrame DEF WorkInv, SeenDelivered
<1>5. ASSUME NEW w \in Workers, WorkerFails(w)
      PROVE  WorkInv'
  <2>1. UNCHANGED <<nodes, jobs, tenants, delivered>>
    BY <1>5 DEF WorkerFails, rows
  <2>2. PlacementsDelivered' /\ RetriesExist'
    BY <1>0, <1>5, <2>1, FinishLocals, WorkLocals DEF WorkerFails
  <2>. QED  BY <1>0, <2>1, <2>2, WorkFrame DEF WorkInv, SeenDelivered
<1>6. CASE UNCHANGED vars
  BY <1>0, <1>6 DEF vars, WorkInv, SeenDelivered, PlacementsDelivered,
     RetriesExist, WorkHasAgent, At
<1>. QED  BY <1>1, <1>2, <1>3, <1>4, <1>5, <1>6 DEF Next

(* No job and no tenant is ever on a node that no agent works for. *)
THEOREM WorkOnAgents == Spec => []WorkHasAgent
<1>1. WorkInv => WorkHasAgent
  BY DEF WorkInv
<1>. QED  BY <1>1, WorkInit, WorkStep, PTL DEF Spec

-----------------------------------------------------------------------------
(* Placement *)

Quiet == \A w \in Workers : At(w, "idle")

(* Unless it was overtaken, the invocation in flight is the only one, and  *)
(* what it read of nodes and jobs still holds.                             *)
OneInFlight == \A v, w \in Workers : ~At(v, "idle") /\ ~At(w, "idle") => v = w
StillEligible == \A w \in Workers : At(w, "place") \/ At(w, "trial") => Eligible(worker[w].node)
StillActive ==
  \A w \in Workers : At(w, "retry") => nodes[jobs[worker[w].job].node].state = "active"

CalmInv == WorkInv /\ (~overlapped => OneInFlight /\ StillEligible /\ StillActive)

LEMMA QuietIsCalm == Quiet => OneInFlight /\ StillEligible /\ StillActive
BY DEF Quiet, OneInFlight, StillEligible, StillActive, At

LEMMA CalmInit == Init => CalmInv
<1>1. Init => Quiet
  BY DEF Init, Quiet, Idle, At
<1>. QED  BY <1>1, QuietIsCalm, WorkInit DEF CalmInv

(* A request of one statement overtakes every invocation in flight. *)
LEMMA CalmOverlap ==
  ASSUME Overlap, worker' = worker
  PROVE  ~overlapped' => Quiet'
BY DEF Overlap, Quiet, At

(* When an invocation ends that was not overtaken, none is in flight. *)
LEMMA CalmFinish ==
  ASSUME CalmInv, NEW w \in Workers, Finish(w), ~At(w, "idle")
  PROVE  ~overlapped' => Quiet'
<1>1. worker'[w].pc = "idle" /\ \A v \in Workers : v # w => worker'[v] = worker[v]
  BY DEF CalmInv, WorkInv, TypeOK, Finish, Idle
<1>2. ~overlapped' => \A v \in Workers : v # w => At(v, "idle")
  BY DEF CalmInv, OneInFlight, Finish
<1>. QED  BY <1>1, <1>2 DEF Quiet, At

(* An invocation that begins in quiet is the only one in flight. *)
LEMMA CalmBegin ==
  ASSUME CalmInv, NEW w \in Workers, NEW local, Begin(w, local)
  PROVE  ~overlapped' => /\ OneInFlight'
                         /\ \A v \in Workers : ~At(v, "idle")' => v = w
                         /\ worker'[w] = local
<1>1. worker'[w] = local /\ \A v \in Workers : v # w => worker'[v] = worker[v]
  BY BeginLocals DEF CalmInv, WorkInv
<1>2. ~overlapped' => \A v \in Workers : At(v, "idle")
  BY DEF Begin, Overlap
<1>. QED  BY <1>1, <1>2 DEF OneInFlight, At

LEMMA CalmStep ==
  ASSUME CalmInv, [Next]_vars
  PROVE  CalmInv'
<1>0. WorkInv'
  BY WorkStep DEF CalmInv
<1>. SUFFICES ASSUME ~overlapped'
              PROVE  OneInFlight' /\ StillEligible' /\ StillActive'
  BY <1>0 DEF CalmInv
<1>a. Quiet' => OneInFlight' /\ StillEligible' /\ StillActive'
  BY DEF Quiet, OneInFlight, StillEligible, StillActive, At
<1>1. CASE NodeStep \/ TenantStep
  <2>1. Overlap /\ worker' = worker
    BY <1>1 DEF NodeStep, TenantStep, Heartbeat, GoesOffline, RevokeNode, UpdateNodeMetadata,
       CreateTenant, CleanupEnds, JobEnds
  <2>. QED  BY <1>a, <2>1, CalmOverlap
<1>2. ASSUME NEW k \in Tokens, TokenExpires(k) \/ \E name \in Names : CreateToken(k, name)
      PROVE  OneInFlight' /\ StillEligible' /\ StillActive'
  BY <1>a, <1>2, CalmOverlap DEF TokenExpires, CreateToken
<1>3. ASSUME NEW w \in Workers, NEW h \in Hosts, NEW k \in Tokens, EnrollConsume(w, h, k)
      PROVE  OneInFlight' /\ StillEligible' /\ StillActive'
  <2>1. /\ OneInFlight' /\ \A v \in Workers : ~At(v, "idle")' => v = w
        /\ worker'[w] = Enrolling(h, k)
    BY <1>3, CalmBegin DEF EnrollConsume
  <2>2. worker'[w].pc = "insert"
    BY <2>1 DEF Enrolling, Idle
  <2>. QED  BY <2>1, <2>2 DEF StillEligible, StillActive, At
<1>4. ASSUME NEW w \in Workers, NEW n \in Ids, EnrollInsert(w, n)
      PROVE  OneInFlight' /\ StillEligible' /\ StillActive'
  <2>1. worker'[w].pc = "answer" /\ \A v \in Workers : v # w => worker'[v] = worker[v]
    BY <1>4 DEF EnrollInsert, CalmInv, WorkInv, TypeOK, Local
  <2>2. \A v \in Workers : ~At(v, "idle")' => v = w
    BY <1>4, <2>1 DEF EnrollInsert, CalmInv, OneInFlight, At
  <2>. QED  BY <2>1, <2>2 DEF OneInFlight, StillEligible, StillActive, At
<1>5. ASSUME NEW w \in Workers,
             \/ EnrollAnswer(w) \/ RetryCommit(w) \/ WorkerFails(w)
             \/ \E j \in Jobs : PlaceCommit(w, j) \/ TrialCommit(w, j)
      PROVE  OneInFlight' /\ StillEligible' /\ StillActive'
  <2>1. Finish(w) /\ ~At(w, "idle")
    BY <1>5 DEF EnrollAnswer, RetryCommit, WorkerFails, PlaceCommit, TrialCommit, At
  <2>. QED  BY <1>a, <2>1, CalmFinish
<1>6. ASSUME NEW w \in Workers, NEW t \in Tenants, NEW n \in Ids, NEW suited \in SUBSET Ids,
             PlaceRead(w, t, n, suited) \/ TrialRead(w, t, n, suited)
      PROVE  OneInFlight' /\ StillEligible' /\ StillActive'
  <2>1. PICK pc \in {"place", "trial"} : Begin(w, Placing(pc, t, n))
    BY <1>6 DEF PlaceRead, TrialRead
  <2>2. /\ OneInFlight' /\ \A v \in Workers : ~At(v, "idle")' => v = w
        /\ worker'[w].pc = pc /\ worker'[w].node = n
    BY <2>1, CalmBegin, Points
  <2>3. Eligible(n)'
    BY <1>6 DEF PlaceRead, TrialRead, Selected, rows, Eligible, Full, Count, TenantsOn
  <2>. QED  BY <2>2, <2>3 DEF StillEligible, StillActive, At
<1>7. ASSUME NEW w \in Workers, NEW j \in Jobs, RetryRead(w, j)
      PROVE  OneInFlight' /\ StillEligible' /\ StillActive'
  <2>1. /\ OneInFlight' /\ \A v \in Workers : ~At(v, "idle")' => v = w
        /\ worker'[w].pc = "retry" /\ worker'[w].job = j
    BY <1>7, CalmBegin, Points DEF RetryRead
  <2>2. nodes'[jobs'[j].node].state = "active"
    BY <1>7 DEF RetryRead, rows
  <2>. QED  BY <2>1, <2>2 DEF StillEligible, StillActive, At
<1>8. CASE UNCHANGED vars
  BY <1>8 DEF vars, CalmInv, OneInFlight, StillEligible, StillActive, Eligible, Full, Count, TenantsOn, At
<1>. QED  BY <1>1, <1>2, <1>3, <1>4, <1>5, <1>6, <1>7, <1>8 DEF Next, Enrollment, Placement

(* One tenant more is one tenant more at most. *)
LEMMA OneMore ==
  ASSUME NEW n \in Ids, NEW t \in Tenants, TenantsOn(n)' \subseteq TenantsOn(n) \cup {t}
  PROVE  Count(n) \in Nat /\ Count(n)' \in Nat /\ Count(n)' <= Count(n) + 1
<1>1. IsFiniteSet(TenantsOn(n))
  BY FleetAssumption, FS_Subset DEF TenantsOn
<1>2. /\ IsFiniteSet(TenantsOn(n) \cup {t})
      /\ Cardinality(TenantsOn(n) \cup {t}) \in {Cardinality(TenantsOn(n)), Cardinality(TenantsOn(n)) + 1}
  BY <1>1, FS_AddElement
<1>3. IsFiniteSet(TenantsOn(n)') /\ Cardinality(TenantsOn(n)') <= Cardinality(TenantsOn(n) \cup {t})
  BY <1>2, FS_Subset
<1>4. /\ Cardinality(TenantsOn(n)) \in Nat /\ Cardinality(TenantsOn(n)') \in Nat
  BY <1>1, <1>3, FS_CardinalityType
<1>. QED  BY <1>2, <1>3, <1>4 DEF Count

LEMMA CalmlyPlaced ==
  ASSUME CalmInv, ~overlapped, [Next]_vars, NEW j \in Jobs, NEW n \in Ids,
         jobs'[j].state = "open", jobs[j].state # "open", jobs'[j].node = n
  PROVE  /\ nodes'[n].state = "active"
         /\ jobs[j].state = "absent" =>
              /\ nodes'[n].seen = "recent"
              /\ nodes'[n].max # None => Count(n)' <= nodes'[n].max
<1>0. TypeOK
  BY DEF CalmInv, WorkInv
<1>1. \/ \E w \in Workers, i \in Jobs : PlaceCommit(w, i) \/ TrialCommit(w, i)
      \/ \E w \in Workers : RetryCommit(w)
  <2>1. jobs' # jobs
    OBVIOUS
  <2>2. ASSUME NEW i \in Jobs, NEW state \in {"ready", "failed"}, JobEnds(i, state)
        PROVE  FALSE
    <3>1. jobs'[j].state \in {jobs[j].state, state}
      BY <1>0, <2>2 DEF JobEnds, TypeOK
    <3>. QED  BY <3>1
  <2>. QED  BY <2>1, <2>2 DEF Next, vars, rows, Enrollment, TokenExpires, CreateToken, EnrollConsume,
       EnrollInsert, EnrollAnswer, NodeStep, Heartbeat, GoesOffline, RevokeNode, UpdateNodeMetadata,
       Placement, PlaceRead, TrialRead, RetryRead, TenantStep, CreateTenant, CleanupEnds, WorkerFails
<1>2. ASSUME NEW w \in Workers, NEW i \in Jobs, PlaceCommit(w, i) \/ TrialCommit(w, i)
      PROVE  /\ nodes'[n].state = "active" /\ nodes'[n].seen = "recent"
             /\ nodes'[n].max # None => Count(n)' <= nodes'[n].max
  <2>. DEFINE t == worker[w].tenant
  <2>1. At(w, "place") \/ At(w, "trial")
    BY <1>2 DEF PlaceCommit, TrialCommit
  <2>2. t \in Tenants /\ worker[w].node \in Ids
    BY <1>0, <2>1 DEF TypeOK, At, Local, Assigned
  <2>3. Placed(i, t, worker[w].node)
    BY <1>2 DEF PlaceCommit, TrialCommit
  <2>4. worker[w].node = n
    BY <1>0, <2>3 DEF Placed, TypeOK
  <2>5. Eligible(n) /\ nodes' = nodes
    BY <1>2, <2>1, <2>4 DEF CalmInv, StillEligible, PlaceCommit, TrialCommit
  <2>6. TenantsOn(n)' \subseteq TenantsOn(n) \cup {t}
    <3>1. \A u \in Tenants : u # t => tenants'[u] = tenants[u]
      BY <1>0, <2>3 DEF Placed, TypeOK
    <3>. QED  BY <3>1 DEF TenantsOn
  <2>7. Count(n) \in Nat /\ Count(n)' \in Nat /\ Count(n)' <= Count(n) + 1
    BY <2>2, <2>6, OneMore
  <2>8. nodes[n].max # None => nodes[n].max \in Nat /\ Count(n) < nodes[n].max
    <3>1. nodes[n].max # None => nodes[n].max \in Nat
      BY <1>0, FleetAssumption DEF TypeOK, NodeRow
    <3>. QED  BY <2>5, <2>7, <3>1 DEF Eligible, Full
  <2>9. nodes'[n].max # None => Count(n)' <= nodes'[n].max
    BY <2>5, <2>7, <2>8
  <2>. QED  BY <2>5, <2>9 DEF Eligible
<1>3. ASSUME NEW w \in Workers, RetryCommit(w)
      PROVE  nodes'[n].state = "active" /\ jobs[j].state = "failed"
  <2>1. worker[w].job \in Jobs
    BY <1>0, <1>3 DEF RetryCommit, TypeOK, At, Local, Assigned
  <2>2. j = worker[w].job /\ jobs[j].state = "failed" /\ jobs[j].node = n
    BY <1>0, <1>3, <2>1 DEF RetryCommit, TypeOK, JobRow
  <2>. QED  BY <1>3, <2>2 DEF CalmInv, StillActive, RetryCommit
<1>. QED  BY <1>1, <1>2, <1>3

(* A placement that is not overtaken lands on an active node, seen lately  *)
(* and below its ceiling; a retry on an active one.                        *)
THEOREM PlacesCalmly == Spec => CalmPlacement
<1>1. CalmInv /\ [Next]_vars =>
        [~overlapped =>
           \A j \in Jobs, n \in Ids :
             jobs'[j].state = "open" /\ jobs[j].state # "open" /\ jobs'[j].node = n =>
               /\ nodes'[n].state = "active"
               /\ jobs[j].state = "absent" =>
                    /\ nodes'[n].seen = "recent"
                    /\ nodes'[n].max # None => Count(n)' <= nodes'[n].max]_vars
  BY CalmlyPlaced
<1>. QED  BY <1>1, CalmInit, CalmStep, PTL DEF Spec, CalmPlacement

=============================================================================
