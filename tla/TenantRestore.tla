--------------------------- MODULE TenantRestore ---------------------------
(***************************************************************************)
(* What restoring into a tenant promises, as a reader of the tables sees   *)
(* it: the restore, the tenant's status and database, and the provisioning *)
(* jobs that compete for the tenant.  There are no invocations, leases,    *)
(* agents or attempts here, and a restore and its tenant move in one step. *)
(***************************************************************************)
CONSTANTS Tenants, Nothing

VARIABLES restore,    \* the state of the restore into each tenant, or "absent"
          status,     \* the status of each tenant
          database,   \* which database its row names, or Nothing
          taken,      \* the tenants that a provisioning job has
          cleanable   \* the restored tenants that a cleanup accepts

(* A restore takes a pending tenant that nobody has touched. *)
Queue(t) ==
  /\ restore[t] = "absent"
  /\ status[t] = "pending"
  /\ database[t] = Nothing
  /\ restore' = [restore EXCEPT ![t] = "queued"]
  /\ status' = [status EXCEPT ![t] = "provisioning"]
  /\ database' = [database EXCEPT ![t] = "restored"]
  /\ UNCHANGED <<taken, cleanable>>

Move(t, from, to) ==
  /\ restore[t] \in from
  /\ restore' = [restore EXCEPT ![t] = to]
  /\ UNCHANGED <<status, database, taken, cleanable>>

Dispatch(t) == Move(t, {"queued"}, "dispatched")
Start(t) == Move(t, {"dispatched"}, "running")
TryAgain(t) == Move(t, {"dispatched", "running"}, "queued")

(* The end of a restore that was running is the tenant's, too. *)
Validate(t) ==
  /\ restore[t] = "running"
  /\ restore' = [restore EXCEPT ![t] = "validated"]
  /\ status' = [status EXCEPT ![t] = "ready"]
  /\ cleanable' = cleanable \cup {t}
  /\ UNCHANGED <<database, taken>>

GiveUp(t) ==
  /\ restore[t] = "running"
  /\ restore' = [restore EXCEPT ![t] = "failed"]
  /\ status' = [status EXCEPT ![t] = "failed"]
  /\ database' = [database EXCEPT ![t] = Nothing]
  /\ UNCHANGED <<taken, cleanable>>

(* A provisioning job takes a tenant that no restore has. *)
Free(t) == restore[t] \in {"absent", "failed"} /\ t \notin taken

Take(t) ==
  /\ Free(t)
  /\ status[t] \in {"pending", "failed"}
  /\ taken' = taken \cup {t}
  /\ status' = [status EXCEPT ![t] = "provisioning"]
  /\ UNCHANGED <<restore, database, cleanable>>

Build(t) ==
  /\ t \in taken
  /\ taken' = taken \ {t}
  /\ \/ /\ status' = [status EXCEPT ![t] = "ready"]
        /\ database' = [database EXCEPT ![t] = "provisioned"]
     \/ /\ status' = [status EXCEPT ![t] = "failed"]
        /\ UNCHANGED database
  /\ UNCHANGED <<restore, cleanable>>

vars == <<restore, status, database, taken, cleanable>>

Init ==
  /\ restore = [t \in Tenants |-> "absent"]
  /\ status = [t \in Tenants |-> "pending"]
  /\ database = [t \in Tenants |-> Nothing]
  /\ taken = {}
  /\ cleanable = {}

Next ==
  \E t \in Tenants :
    \/ Queue(t) \/ Dispatch(t) \/ Start(t) \/ TryAgain(t) \/ Validate(t) \/ GiveUp(t)
    \/ Take(t) \/ Build(t)

Spec == Init /\ [][Next]_vars
=============================================================================
