--------------------------- MODULE TenantCleanup ---------------------------
(***************************************************************************)
(* What the end of a tenant promises, as its operator sees it: the tenant, *)
(* its cleanup, and where a database of it is.  There are no invocations,  *)
(* leases or agents here, and a cleanup and its tenant move in one step.   *)
(* A drop may come at any time after the cleanup was asked for, but takes  *)
(* no database from a ready tenant; and nothing is called cleaned while    *)
(* the database is there.                                                  *)
(***************************************************************************)
CONSTANTS Tenants, Nodes, Nothing

VARIABLES status,   \* the status of each tenant
          host,     \* the node it is on, or Nothing
          cleanup,  \* the state of its cleanup, or "absent"
          site,     \* the node the cleanup was sent to, or Nothing
          data      \* the tenants and nodes that have a database

vars == <<status, host, cleanup, site, data>>

(* The time of a trial is up. *)
Suspend(t) ==
  /\ status[t] = "ready"
  /\ status' = [status EXCEPT ![t] = "suspended"]
  /\ UNCHANGED <<host, cleanup, site, data>>

(* A cleanup is asked for, or asked for again, where the tenant is. *)
Queue(t) ==
  /\ \/ cleanup[t] = "absent" /\ status[t] \in {"ready", "suspended"}
     \/ cleanup[t] = "failed" /\ status[t] = "failed" /\ site[t] = host[t]
  /\ cleanup' = [cleanup EXCEPT ![t] = "queued"]
  /\ site' = [site EXCEPT ![t] = host[t]]
  /\ status' = [status EXCEPT ![t] = "suspended"]
  /\ UNCHANGED <<host, data>>

Advance(t, from, to) ==
  /\ cleanup[t] = from
  /\ cleanup' = [cleanup EXCEPT ![t] = to]
  /\ UNCHANGED <<status, host, site, data>>

Dispatch(t) == Advance(t, "queued", "dispatched")
Start(t) == Advance(t, "dispatched", "running")

Drop(t) ==
  /\ cleanup[t] # "absent"
  /\ ~(status[t] = "ready" /\ host[t] = site[t])
  /\ data' = data \ {<<t, site[t]>>}
  /\ UNCHANGED <<status, host, cleanup, site>>

Clean(t) ==
  /\ cleanup[t] = "running"
  /\ <<t, site[t]>> \notin data
  /\ cleanup' = [cleanup EXCEPT ![t] = "cleaned"]
  /\ status' = [status EXCEPT ![t] = "decommissioned"]
  /\ host' = [host EXCEPT ![t] = Nothing]
  /\ UNCHANGED <<site, data>>

Fail(t) ==
  /\ cleanup[t] \in {"dispatched", "running"}
  /\ cleanup' = [cleanup EXCEPT ![t] = "failed"]
  /\ status' = [status EXCEPT ![t] = "failed"]
  /\ UNCHANGED <<host, site, data>>

(* A tenant whose cleanup has failed is provisioned again, on any node. *)
Revive(t, n) ==
  /\ status[t] = "failed"
  /\ status' = [status EXCEPT ![t] = "provisioning"]
  /\ host' = [host EXCEPT ![t] = n]
  /\ UNCHANGED <<cleanup, site, data>>

Revived(t) ==
  /\ status[t] = "provisioning"
  /\ \/ /\ status' = [status EXCEPT ![t] = "ready"]
        /\ data' = data \cup {<<t, host[t]>>}
     \/ /\ status' = [status EXCEPT ![t] = "failed"]
        /\ data' \in {data, data \cup {<<t, host[t]>>}}
  /\ UNCHANGED <<host, cleanup, site>>

Init ==
  /\ status = [t \in Tenants |-> "ready"]
  /\ host \in [Tenants -> Nodes]
  /\ cleanup = [t \in Tenants |-> "absent"]
  /\ site = [t \in Tenants |-> Nothing]
  /\ data = {<<t, host[t]>> : t \in Tenants}

Next ==
  \E t \in Tenants :
    \/ Suspend(t) \/ Queue(t) \/ Dispatch(t) \/ Start(t) \/ Drop(t) \/ Clean(t) \/ Fail(t)
    \/ Revived(t) \/ \E n \in Nodes : Revive(t, n)

Spec == Init /\ [][Next]_vars
=============================================================================
