---------------------------- MODULE EdgeRuntime -----------------------------
(***************************************************************************)
(* What every family of node operations (provisioning, backup, upload,     *)
(* restore, cleanup) is built on: Worker invocations that interleave at    *)
(* their database calls, lease rows, and the agent's main loop             *)
(* (node_agent/main.py), which has at most one operation at a time.        *)
(*                                                                         *)
(* Concurrency.  Every HTTP request runs as one Worker invocation.  The    *)
(* invocation is suspended at each `await env.DB...', so other requests run*)
(* between two of its database calls; one statement, and one DB.batch, is  *)
(* atomic.  A member of Workers is a slot for one invocation in flight: its*)
(* `pc' names the database call that comes next, the other fields are the  *)
(* local variables it read before.  Two consecutive reads are merged when  *)
(* nothing written between them could be told apart (authentication and    *)
(* the read after it: revocation is the only write to what it reads).      *)
(*                                                                         *)
(* Data.  A lease's expiry time is the Boolean `live': it lapses at an     *)
(* arbitrary moment.  A lease token is a counter.                          *)
(***************************************************************************)
EXTENDS Naturals, FiniteSets

CONSTANTS
  Nodes,        \* enrolled nodes, each with one agent
  Workers,      \* concurrent invocations of the Cloudflare Worker
  None,         \* SQL NULL, or a local variable not assigned
  MaxTokens,    \* bound: leases ever inserted
  MaxFaults     \* bound: aborted invocations, lost replies, restarts, ...

ASSUME RuntimeAssumption ==
  /\ MaxTokens \in Nat /\ MaxFaults \in Nat
  /\ None \notin Nodes
  /\ None \notin Workers

VARIABLES
  leases,   \* the lease tables: token (0: no row), live
  nodes,    \* nodes.lifecycle_state
  tokens,   \* lease tokens drawn so far
  worker,   \* the local state of each Worker invocation
  agents,   \* the main loop of each node's agent
  faults    \* faults so far

NoLease == [token |-> 0, live |-> FALSE]
NewLease(token) == [token |-> token, live |-> TRUE]
Handler(pc, n, j, token, want) ==
  [pc |-> pc, node |-> n, job |-> j, token |-> token, want |-> want,
   seen |-> "absent", work |-> {}]
Idle == Handler("idle", None, None, 0, None)
IdleAgent == [phase |-> "idle", job |-> None, token |-> 0, result |-> None,
              wait |-> None]
Claimant(j, token) == [phase |-> "starting", job |-> j, token |-> token,
                       result |-> None, wait |-> None]

Leased(j) == leases[j].token # 0
Active(n) == nodes[n] = "active"

Goto(w, next) == worker' = [worker EXCEPT ![w].pc = next]
Finish(w) == worker' = [worker EXCEPT ![w] = Idle]
Begin(w, local) == worker[w] = Idle /\ worker' = [worker EXCEPT ![w] = local]
At(w, pc) == worker[w].pc = pc

-----------------------------------------------------------------------------
(* Responses *)

(* The agent that sent worker w's request and has not stopped waiting for  *)
(* the response continues as agent record a.                               *)
AwaitedBy(w, n) == worker[w].node = n /\ agents[n].wait = w
Deliver(w, a) ==
  agents' = [n \in Nodes |-> IF AwaitedBy(w, n) THEN a ELSE agents[n]]
DeliverEach(w, After(_)) ==
  agents' = [n \in Nodes |-> IF AwaitedBy(w, n) THEN After(agents[n]) ELSE agents[n]]

(* Mutants: the agent keeps an operation whose result was accepted, or one *)
(* whose "running" report was refused.                                     *)
AfterAccept_Keeps(a) ==
  IF a.phase = "starting" THEN [a EXCEPT !.phase = "working", !.wait = None]
  ELSE [a EXCEPT !.wait = None]
AfterReject_Starts(a) ==
  IF a.phase = "starting" THEN [a EXCEPT !.phase = "working", !.wait = None]
  ELSE [a EXCEPT !.wait = None]

(* What the agent does with the answer to a report: _start_one_operation   *)
(* abandons the operation on any error and submits it otherwise;           *)
(* _advance_active_operation keeps it until a terminal result is accepted. *)
AfterAccept(a) ==
  IF a.phase = "starting" THEN [a EXCEPT !.phase = "working", !.wait = None]
  ELSE IF a.result # None THEN IdleAgent
  ELSE [a EXCEPT !.wait = None]
AfterReject(a) ==
  IF a.phase = "starting" THEN IdleAgent ELSE [a EXCEPT !.wait = None]

Reject(w) == DeliverEach(w, AfterReject) /\ Finish(w)
Accept(w) == DeliverEach(w, AfterAccept) /\ Finish(w)

-----------------------------------------------------------------------------
(* The agent.  These and the actions below leave the tables of the family  *)
(* that uses them alone.                                                   *)

(* Mutant of Reported: any result of the executor is taken for success. *)
Reported_Ready(a) == IF a.result = None THEN "running" ELSE "ready"

Reported(a) == IF a.result = None THEN "running" ELSE a.result

(* An agent with no operation polls; the handler begins as `local'. *)
Request(w, n, local) ==
  /\ agents[n] = IdleAgent
  /\ Active(n)
  /\ Begin(w, local)
  /\ agents' = [agents EXCEPT ![n].wait = w]
  /\ UNCHANGED <<leases, nodes, tokens, faults>>

(* The agent sends a report: `running' for a claimed or unfinished         *)
(* operation, and the executor's result once there is one.  It waits for   *)
(* the response before it does anything else.                              *)
Report(w, n, pc) ==
  LET a == agents[n] IN
  /\ a.phase \in {"starting", "working"}
  /\ a.wait = None
  /\ Active(n)
  /\ Begin(w, Handler(pc, n, a.job, a.token, Reported(a)))
  /\ agents' = [agents EXCEPT ![n].wait = w]
  /\ UNCHANGED <<leases, nodes, tokens, faults>>

(* execute_any_operation returns; the main loop sees future.done() only    *)
(* when it is not inside a request.                                        *)
Return(n, r) ==
  /\ agents[n].phase = "working"
  /\ agents[n].result = None
  /\ agents[n].wait = None
  /\ agents' = [agents EXCEPT ![n].result = r]
  /\ UNCHANGED <<leases, nodes, tokens, worker>>

-----------------------------------------------------------------------------
(* Leases, and the environment *)

Renewed(l) == IF l.token = 0 THEN l ELSE [l EXCEPT !.live = TRUE]

(* INSERT OR IGNORE of a lease row; the handler goes on at pc. *)
Lease(w, j, pc) ==
  /\ tokens < MaxTokens
  /\ tokens' = tokens + 1
  /\ leases' = [leases EXCEPT ![j] = NewLease(tokens + 1)]
  /\ worker' = [worker EXCEPT ![w] = [@ EXCEPT !.pc = pc, !.job = j, !.token = tokens + 1]]
  /\ UNCHANGED <<nodes, agents, faults>>

Fault == faults < MaxFaults /\ faults' = faults + 1

(* Some agent still holds the token and renews the lease, or some claim is *)
(* about to hand it out.                                                   *)
Tended(j) ==
  \/ \E n \in Nodes : Active(n) /\ agents[n].phase # "idle" /\ agents[n].token = leases[j].token
  \/ \E w \in Workers : worker[w].token = leases[j].token

(* lease_expires_at passes: in due course when nobody tends the lease, and *)
(* as a fault (a node cut off for a whole lease period) when someone does. *)
Lapse(j) ==
  /\ Leased(j)
  /\ leases[j].live
  /\ leases' = [leases EXCEPT ![j].live = FALSE]
  /\ IF Tended(j) THEN Fault ELSE UNCHANGED faults
  /\ UNCHANGED <<nodes, tokens, worker, agents>>

(* A database call throws, or the isolate is evicted: the rest of the      *)
(* handler does not run and the agent, if one waits, gets an error.        *)
Abort(w) ==
  /\ worker[w] # Idle
  /\ Fault
  /\ DeliverEach(w, AfterReject)
  /\ Finish(w)
  /\ UNCHANGED <<leases, nodes, tokens>>

(* The response is lost or late: the agent gives up on the request, the    *)
(* handler goes on.                                                        *)
LoseReply(n) ==
  /\ agents[n].wait # None
  /\ Fault
  /\ agents' = [agents EXCEPT ![n] = AfterReject(@)]
  /\ UNCHANGED <<leases, nodes, tokens, worker>>

(* The agent process restarts; the operation was in its memory only. *)
Restart(n) ==
  /\ agents[n] # IdleAgent
  /\ Fault
  /\ agents' = [agents EXCEPT ![n] = IdleAgent]
  /\ UNCHANGED <<leases, nodes, tokens, worker>>

(* The admin revokes a node. *)
Revoke(n) ==
  /\ Active(n)
  /\ Fault
  /\ nodes' = [nodes EXCEPT ![n] = "revoked"]
  /\ UNCHANGED <<leases, tokens, worker, agents>>

ActiveNodes == {n \in Nodes : Active(n)}
=============================================================================
