------------------------------- MODULE Fleet --------------------------------
(***************************************************************************)
(* The nodes of the fleet and the tenants placed on them: enrollment with  *)
(* a one-time token, heartbeats, metadata and revocation (index.ts,        *)
(* client.py, state.py), and the placement of new and retried jobs         *)
(* (provisioning.ts, trials.ts, provisioningRetry.ts), which relies on all *)
(* of these.                                                               *)
(*                                                                         *)
(* A member of Workers is a slot for one invocation that makes several     *)
(* database calls, suspended between two of them; a request of one guarded *)
(* UPDATE is one step.  Which nodes suit a request, by role, pool and      *)
(* capacity, is an input of the request.  Replays of an idempotency key,   *)
(* which change nothing, and the life of a job between its placement and   *)
(* its end are in Provisioning.                                            *)
(***************************************************************************)
EXTENDS Naturals, FiniteSets

CONSTANTS
  Hosts,        \* machines an agent is installed on, by DSX_NODE_NAME
  Tokens,       \* enrollment tokens
  Names,        \* the hosts a token is made out to; with None, also to anybody
  Ids,          \* node ids
  Tenants, Jobs,
  Workers,      \* concurrent invocations
  Ceilings,     \* the values of max_tenants an operator sets
  None,         \* SQL NULL
  MaxEdits      \* bound: ceilings set, nodes revoked, tokens expired

ASSUME FleetAssumption ==
  /\ IsFiniteSet(Tenants)
  /\ Names \subseteq Hosts \cup {None}
  /\ Ceilings \subseteq Nat \ {0} /\ MaxEdits \in Nat
  /\ None \notin Hosts \cup Tokens \cup Ids \cup Tenants \cup Jobs \cup Ceilings

VARIABLES
  tokens,       \* node_enrollment_tokens: state ("absent": no row) and requested_name
  nodes,        \* nodes; enrolled with token
  tenants,      \* tenants: status and assigned_node_id
  jobs,         \* provisioning_jobs: tenant, node, and state ("open": neither end)
  worker,       \* the local state of each invocation
  delivered,    \* the nodes whose credential has reached a host
  edits,        \* ceilings set, nodes revoked and tokens expired so far
  overlapped    \* history: since no invocation was in flight, one was overtaken by a request

rows == <<tokens, nodes, tenants, jobs>>
vars == <<tokens, nodes, tenants, jobs, worker, delivered, edits, overlapped>>

NoToken == [state |-> "absent", name |-> None]
NoNode == [state |-> "absent", token |-> None, name |-> None, seen |-> "never", max |-> None]
NoTenant == [status |-> "absent", node |-> None]
NoJob == [state |-> "absent", tenant |-> None, node |-> None]

Idle == [pc |-> "idle", host |-> None, token |-> None, node |-> None, tenant |-> None, job |-> None]
Enrolling(h, k) == [Idle EXCEPT !.pc = "insert", !.host = h, !.token = k]
Placing(pc, t, n) == [Idle EXCEPT !.pc = pc, !.tenant = t, !.node = n]
Retrying(j) == [Idle EXCEPT !.pc = "retry", !.job = j]

At(w, pc) == worker[w].pc = pc
Overlap == overlapped' = (overlapped \/ \E w \in Workers : ~At(w, "idle"))
Edit == edits < MaxEdits /\ edits' = edits + 1
Begin(w, local) == At(w, "idle") /\ worker' = [worker EXCEPT ![w] = local] /\ Overlap
Finish(w) ==
  /\ worker' = [worker EXCEPT ![w] = Idle]
  /\ overlapped' = (overlapped /\ \E v \in Workers \ {w} : ~At(v, "idle"))

Init ==
  /\ tokens = [k \in Tokens |-> NoToken]
  /\ nodes = [n \in Ids |-> NoNode]
  /\ tenants = [t \in Tenants |-> NoTenant]
  /\ jobs = [j \in Jobs |-> NoJob]
  /\ worker = [w \in Workers |-> Idle]
  /\ delivered = {}
  /\ edits = 0
  /\ overlapped = FALSE

-----------------------------------------------------------------------------
(* Enrollment *)

(* createEnrollmentToken: the token is made out to a name, or to anybody. *)
CreateToken(k, name) ==
  /\ tokens[k].state = "absent"
  /\ tokens' = [tokens EXCEPT ![k] = [state |-> "open", name |-> name]]
  /\ Overlap
  /\ UNCHANGED <<nodes, tenants, jobs, worker, delivered, edits>>

TokenExpires(k) ==
  /\ tokens[k].state = "open"
  /\ tokens' = [tokens EXCEPT ![k].state = "expired"]
  /\ Edit
  /\ Overlap
  /\ UNCHANGED <<nodes, tenants, jobs, worker, delivered>>

(* Mutant of Usable: used_at is not consulted. *)
Usable_Again(row, name) == row.state \in {"open", "used"} /\ row.name \in {None, name}

Usable(row, name) == row.state = "open" /\ row.name \in {None, name}

(* enrollNode: the UPDATE that consumes the token, in one statement. *)
EnrollConsume(w, h, k) ==
  /\ Usable(tokens[k], h)
  /\ tokens' = [tokens EXCEPT ![k].state = "used"]
  /\ Begin(w, Enrolling(h, k))
  /\ UNCHANGED <<nodes, tenants, jobs, delivered, edits>>

(* The INSERT. *)
EnrollInsert(w, n) ==
  /\ At(w, "insert")
  /\ nodes[n].state = "absent"
  /\ nodes' = [nodes EXCEPT ![n] =
       [NoNode EXCEPT !.state = "active", !.token = worker[w].token, !.name = worker[w].host]]
  /\ worker' = [worker EXCEPT ![w].pc = "answer", ![w].node = n]
  /\ UNCHANGED <<tokens, tenants, jobs, delivered, edits, overlapped>>

(* The answer reaches the host, which keeps it in its identity file. *)
EnrollAnswer(w) ==
  /\ At(w, "answer")
  /\ delivered' = delivered \cup {worker[w].node}
  /\ Finish(w)
  /\ UNCHANGED <<tokens, nodes, tenants, jobs, edits>>

-----------------------------------------------------------------------------
(* Nodes *)

(* The agent's heartbeat.  An agent keeps the identity that it has loaded  *)
(* when it started, whatever an enrollment writes to the file after that.  *)
Heartbeat(n) ==
  /\ n \in delivered
  /\ nodes[n].state = "active"
  /\ nodes' = [nodes EXCEPT ![n].seen = "recent"]
  /\ Overlap
  /\ UNCHANGED <<tokens, tenants, jobs, worker, delivered, edits>>

(* NODE_OFFLINE_SECONDS pass without a heartbeat. *)
GoesOffline(n) ==
  /\ nodes[n].seen = "recent"
  /\ nodes' = [nodes EXCEPT ![n].seen = "old"]
  /\ Overlap
  /\ UNCHANGED <<tokens, tenants, jobs, worker, delivered, edits>>

(* A new ceiling, or none. *)
UpdateNodeMetadata(n, max) ==
  /\ nodes[n].state = "active"
  /\ nodes' = [nodes EXCEPT ![n].max = max]
  /\ Edit
  /\ Overlap
  /\ UNCHANGED <<tokens, tenants, jobs, worker, delivered>>

RevokeNode(n) ==
  /\ nodes[n].state = "active"
  /\ nodes' = [nodes EXCEPT ![n].state = "revoked"]
  /\ Edit
  /\ Overlap
  /\ UNCHANGED <<tokens, tenants, jobs, worker, delivered>>

-----------------------------------------------------------------------------
(* selectPlacementNode *)

(* The tenants a node counts, the failed ones included. *)
TenantsOn(n) ==
  {t \in Tenants : tenants[t].node = n /\ tenants[t].status # "decommissioned"}
Count(n) == Cardinality(TenantsOn(n))

(* Mutant of Full: one tenant too many. *)
Full_OffByOne(n) == nodes[n].max # None /\ Count(n) > nodes[n].max

Full(n) == nodes[n].max # None /\ Count(n) >= nodes[n].max

(* Mutant of Eligible: any active node is as good as another. *)
Eligible_Unseen(n) == nodes[n].state = "active" /\ ~Full(n)

Eligible(n) ==
  /\ nodes[n].state = "active"
  /\ nodes[n].seen = "recent"
  /\ ~Full(n)

(* The ratio of tenants to ceiling, without dividing. *)
Weight(n) == IF nodes[n].max = None THEN 10000 ELSE nodes[n].max
LessLoaded(m, n) == Count(m) * Weight(n) < Count(n) * Weight(m)

(* Of the nodes that suit the template and the request, by their role,     *)
(* pool, metrics and reserves, the least loaded; ties go to disk, memory   *)
(* and id, which may favour any of them.                                   *)
Selected(n, suited) ==
  /\ n \in suited /\ Eligible(n)
  /\ \A m \in suited : Eligible(m) => ~LessLoaded(m, n)

-----------------------------------------------------------------------------
(* Placement *)

(* createTenant: the SELECT of the slug decides nothing that the UNIQUE    *)
(* column does not.                                                        *)
CreateTenant(t) ==
  /\ tenants[t].status = "absent"
  /\ tenants' = [tenants EXCEPT ![t].status = "pending"]
  /\ Overlap
  /\ UNCHANGED <<tokens, nodes, jobs, worker, delivered, edits>>

(* createProvisioningJob: the SELECTs, up to the choice of the node ... *)
PlaceRead(w, t, n, suited) ==
  /\ tenants[t].status \in {"pending", "failed"}
  /\ Selected(n, suited)
  /\ Begin(w, Placing("place", t, n))
  /\ UNCHANGED <<rows, delivered, edits>>

Placed(j, t, n) ==
  /\ jobs' = [jobs EXCEPT ![j] = [state |-> "open", tenant |-> t, node |-> n]]
  /\ tenants' = [tenants EXCEPT ![t] = [status |-> "provisioning", node |-> n]]

(* ... and the batch, which looks at none of them again. *)
PlaceCommit(w, j) ==
  /\ At(w, "place")
  /\ jobs[j].state = "absent"
  /\ Placed(j, worker[w].tenant, worker[w].node)
  /\ Finish(w)
  /\ UNCHANGED <<tokens, nodes, delivered, edits>>

(* createTrial makes the tenant with its job, if the slug is still free. *)
TrialRead(w, t, n, suited) ==
  /\ tenants[t].status = "absent"
  /\ Selected(n, suited)
  /\ Begin(w, Placing("trial", t, n))
  /\ UNCHANGED <<rows, delivered, edits>>

TrialCommit(w, j) ==
  /\ At(w, "trial")
  /\ jobs[j].state = "absent"
  /\ IF tenants[worker[w].tenant].status = "absent"
     THEN Placed(j, worker[w].tenant, worker[w].node)
     ELSE UNCHANGED <<tenants, jobs>>
  /\ Finish(w)
  /\ UNCHANGED <<tokens, nodes, delivered, edits>>

(* handleProvisioningRetryRoute: the node keeps the job if it is active,   *)
(* whatever its ceiling; the tenant is moved back to it.                   *)
RetryRead(w, j) ==
  /\ jobs[j].state = "failed"
  /\ nodes[jobs[j].node].state = "active"
  /\ Begin(w, Retrying(j))
  /\ UNCHANGED <<rows, delivered, edits>>

RetryCommit(w) ==
  LET j == worker[w].job IN
  /\ At(w, "retry")
  /\ jobs' = IF jobs[j].state = "failed" THEN [jobs EXCEPT ![j].state = "open"] ELSE jobs
  /\ tenants' =
       [tenants EXCEPT ![jobs[j].tenant] = [status |-> "provisioning", node |-> jobs[j].node]]
  /\ Finish(w)
  /\ UNCHANGED <<tokens, nodes, delivered, edits>>

(* A job ends by a report or an expired lease, at a poll of its node. *)
JobEnds(j, state) ==
  /\ jobs[j].state = "open"
  /\ nodes[jobs[j].node].state = "active"
  /\ jobs' = [jobs EXCEPT ![j].state = state]
  /\ tenants' = [tenants EXCEPT ![jobs[j].tenant].status = state]
  /\ Overlap
  /\ UNCHANGED <<tokens, nodes, worker, delivered, edits>>

Cleaned == [status |-> "decommissioned", node |-> None]

(* A cleanup of a tenant ends, as Decommission has it, on the node where   *)
(* the tenant was provisioned.                                             *)
CleanupEnds(t, succeeds) ==
  /\ tenants[t].status = "ready"
  /\ \E j \in Jobs : jobs[j].state = "ready" /\ jobs[j].tenant = t /\ jobs[j].node = tenants[t].node
  /\ nodes[tenants[t].node].state = "active"
  /\ tenants' = [tenants EXCEPT ![t] = IF succeeds THEN Cleaned ELSE [@ EXCEPT !.status = "failed"]]
  /\ Overlap
  /\ UNCHANGED <<tokens, nodes, jobs, worker, delivered, edits>>

-----------------------------------------------------------------------------
(* An invocation stops after any of its statements, or its answer is lost. *)
WorkerFails(w) ==
  /\ ~At(w, "idle")
  /\ Finish(w)
  /\ UNCHANGED <<rows, delivered, edits>>

Enrollment ==
  \/ \E k \in Tokens : TokenExpires(k) \/ \E name \in Names : CreateToken(k, name)
  \/ \E w \in Workers :
       \/ \E h \in Hosts, k \in Tokens : EnrollConsume(w, h, k)
       \/ \E n \in Ids : EnrollInsert(w, n)
       \/ EnrollAnswer(w)

NodeStep ==
  \E n \in Ids :
       \/ Heartbeat(n) \/ GoesOffline(n) \/ RevokeNode(n)
       \/ \E max \in Ceilings \cup {None} : UpdateNodeMetadata(n, max)

Placement ==
  \E w \in Workers :
    \/ \E t \in Tenants, n \in Ids, suited \in SUBSET Ids :
         PlaceRead(w, t, n, suited) \/ TrialRead(w, t, n, suited)
    \/ \E j \in Jobs : PlaceCommit(w, j) \/ TrialCommit(w, j) \/ RetryRead(w, j)
    \/ RetryCommit(w)

TenantStep ==
  \/ \E t \in Tenants : CreateTenant(t) \/ \E succeeds \in BOOLEAN : CleanupEnds(t, succeeds)
  \/ \E j \in Jobs, state \in {"ready", "failed"} : JobEnds(j, state)

Next == Enrollment \/ NodeStep \/ Placement \/ TenantStep \/ \E w \in Workers : WorkerFails(w)

Spec == Init /\ [][Next]_vars

-----------------------------------------------------------------------------
(* Type invariant *)

TokenRow == [state : {"absent", "open", "used", "expired"}, name : Names \cup {None}]
NodeRow == [state : {"absent", "active", "revoked"}, token : Tokens \cup {None},
            name : Hosts \cup {None}, seen : {"never", "recent", "old"},
            max : Ceilings \cup {None}]
TenantRow == [status : {"absent", "pending", "provisioning", "ready", "failed", "decommissioned"},
              node : Ids \cup {None}]
JobRow == [state : {"absent", "open", "ready", "failed"},
           tenant : Tenants \cup {None}, node : Ids \cup {None}]

(* What an invocation has in hand, by the point at which it is suspended, *)
(* and what the rows it will write to say.                                *)
Assigned(l) ==
  /\ l.pc \in {"insert", "answer"} => l.host \in Hosts /\ l.token \in Tokens
  /\ l.pc \in {"place", "trial"} => l.tenant \in Tenants
  /\ l.pc \in {"answer", "place", "trial"} => l.node \in Ids
  /\ l.pc = "retry" => l.job \in Jobs
Local == {l \in [pc : {"idle", "insert", "answer", "place", "trial", "retry"},
                 host : Hosts \cup {None}, token : Tokens \cup {None}, node : Ids \cup {None},
                 tenant : Tenants \cup {None}, job : Jobs \cup {None}] : Assigned(l)}

TypeOK ==
  /\ tokens \in [Tokens -> TokenRow]
  /\ nodes \in [Ids -> NodeRow]
  /\ tenants \in [Tenants -> TenantRow]
  /\ jobs \in [Jobs -> JobRow]
  /\ worker \in [Workers -> Local]
  /\ delivered \subseteq Ids
  /\ edits \in 0..MaxEdits
  /\ overlapped \in BOOLEAN

-----------------------------------------------------------------------------
(* Safety *)

(* Whatever agents race for it, a token enrolls at most one node, of the   *)
(* name it was made out to.                                                *)
TokenEnrollsOnce ==
  \A m, n \in Ids :
    nodes[m].state # "absent" =>
      /\ tokens[nodes[m].token].state = "used"
      /\ tokens[nodes[m].token].name \in {None, nodes[m].name}
      /\ nodes[n].token = nodes[m].token => m = n

(* No job and no tenant is ever on a node that no agent works for: the row *)
(* that an enrollment leaves behind when its answer is lost stays unused.  *)
WorkHasAgent ==
  /\ \A j \in Jobs : jobs[j].state # "absent" => jobs[j].node \in delivered
  /\ \A t \in Tenants : tenants[t].node # None => tenants[t].node \in delivered

(* While no invocation is overtaken by another request, a new job goes to  *)
(* an active node that was seen lately and that its tenants, the new one   *)
(* included, do not exceed; a retried one goes to an active node.          *)
CalmPlacement ==
  [][~overlapped =>
       \A j \in Jobs, n \in Ids :
         jobs'[j].state = "open" /\ jobs[j].state # "open" /\ jobs'[j].node = n =>
           /\ nodes'[n].state = "active"
           /\ jobs[j].state = "absent" =>
                /\ nodes'[n].seen = "recent"
                /\ nodes'[n].max # None => Count(n)' <= nodes'[n].max]_vars
=============================================================================
