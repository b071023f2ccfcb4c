------------------------- MODULE TenantProvisioning -------------------------
(***************************************************************************)
(* What the provisioning part of the control plane promises, as a client   *)
(* of its database reads it: the state of each job and the status of each  *)
(* tenant.  There are no invocations, leases or agents here, and a job and *)
(* its tenant move in one step.                                            *)
(***************************************************************************)
CONSTANTS Tenants, Keys

VARIABLES state,   \* the state of the job of each (tenant, key), or "absent"
          status   \* the status of each tenant, or "absent"

Jobs == Tenants \X Keys

Open(j) == state[j] \in {"placed", "dispatched", "running", "retrying"}
Quiet(t) == \A k \in Keys : ~Open(<<t, k>>)

Move(j, to, outcome) ==
  /\ state' = [state EXCEPT ![j] = to]
  /\ status' = [status EXCEPT ![j[1]] = outcome]

Register(t) ==
  /\ status[t] = "absent"
  /\ status' = [status EXCEPT ![t] = "pending"]
  /\ UNCHANGED state

(* A new job, for a tenant that has none open and is not ready. *)
Place(j) ==
  /\ state[j] = "absent"
  /\ status[j[1]] \in {"absent", "pending", "failed"}
  /\ Quiet(j[1])
  /\ Move(j, "placed", "provisioning")

Dispatch(j) ==
  /\ state[j] \in {"placed", "retrying"}
  /\ Move(j, "dispatched", "provisioning")

Start(j) ==
  /\ state[j] = "dispatched"
  /\ Move(j, "running", "provisioning")

Succeed(j) ==
  /\ state[j] = "running"
  /\ Move(j, "ready", "ready")

Fail(j) ==
  /\ state[j] \in {"dispatched", "running"}
  /\ Move(j, "failed", "failed")

(* A retry reopens a job of a tenant that has nothing better. *)
Retry(j) ==
  /\ state[j] = "failed"
  /\ status[j[1]] = "failed"
  /\ Quiet(j[1])
  /\ Move(j, "retrying", "provisioning")

Init ==
  /\ state = [j \in Jobs |-> "absent"]
  /\ status = [t \in Tenants |-> "absent"]

Next ==
  \/ \E t \in Tenants : Register(t)
  \/ \E j \in Jobs : Place(j) \/ Dispatch(j) \/ Start(j) \/ Succeed(j) \/ Fail(j) \/ Retry(j)

Spec == Init /\ [][Next]_<<state, status>>
=============================================================================
