------------------------ MODULE BackgroundAgentStore ------------------------
(***************************************************************************)
(* The tables of durable background agents and the transactions on them    *)
(* (state/src/runtime/background_agents/runs.rs and interactions.rs).  One *)
(* action is one transaction; an action whose WHERE clause matches no row  *)
(* is not taken, and its callers look at the guard CanX.                   *)
(*                                                                         *)
(* A supervisor owns a run for one generation: a claim takes an unclaimed  *)
(* run, counts the generation up and writes a process lease, and every     *)
(* later write of that owner names both its id and its generation.         *)
(*                                                                         *)
(* The age of a heartbeat is the flag stale: older than the timeout.  The  *)
(* two waiting statuses are one, and so are responded and denied.  Events, *)
(* receipts and status snapshots are left out: they tell what happened, and*)
(* a call that is repeated is refused when its receipt says otherwise.     *)
(***************************************************************************)
EXTENDS Naturals, FiniteSets

CONSTANTS
    NULL,
    Runs,        \* run ids
    Owners,      \* supervisor ids
    MaxGen,      \* bound: generations of a run
    Questions,   \* ids of pending interactions
    Versions,    \* runtime compatibility fingerprints
    MaxActive    \* max_active_runs of an admission

Gens == 1 .. MaxGen

ASSUME StoreAssumption ==
    /\ NULL \notin Owners /\ NULL \notin Runs /\ NULL \notin Nat
    /\ NULL \notin Versions /\ IsFiniteSet(Runs)
    /\ MaxGen \in Nat /\ MaxActive \in Nat

VARIABLES
    run,      \* background_agent_runs
    lease,    \* background_agent_process_leases, by run and generation
    ask       \* background_agent_pending_interactions

storeVars == <<run, lease, ask>>

-----------------------------------------------------------------------------
(* Rows *)

Live == {"starting", "running", "waiting"}
Owned == Live \cup {"stopping"}
Unclaimed == {"queued", "orphaned"}
Ended == {"completed", "failed", "cancelled"}
Statuses == {"none"} \cup Owned \cup Unclaimed \cup Ended
Open == {"pending", "delivered"}
Answers == {"responded", "cancelled"}
Closed == Answers \cup {"expired", "worker_no_longer_waiting"}

RunRow ==
    [desired: {"running", "stopped", "deleted"}, status: Statuses,
     retention: {"active", "delete_requested"},
     supervisor_id: Owners \cup {NULL}, generation: 0 .. MaxGen,
     stale: BOOLEAN,
     rollout: Gens \cup {NULL}, version: Versions \cup {NULL}]
LeaseRow ==
    [supervisor_id: Owners \cup {NULL},
     status: {"none", "starting", "running", "stopped", "orphaned"}]
AskRow ==
    [run_id: Runs \cup {NULL}, status: {"none"} \cup Open \cup Closed]

NoRun ==
    [desired |-> "running", status |-> "none", retention |-> "active",
     supervisor_id |-> NULL, generation |-> 0, stale |-> FALSE,
     rollout |-> NULL, version |-> NULL]
NoLease == [supervisor_id |-> NULL, status |-> "none"]
NoAsk == [run_id |-> NULL, status |-> "none"]

Wanted(r) == run[r].desired = "running" /\ run[r].retention = "active"
Exists(r) == run[r].status # "none"
Owns(r, o, g) == run[r].supervisor_id = o /\ run[r].generation = g
OpenOf(r) == {q \in Questions : ask[q].run_id = r /\ ask[q].status \in Open}

(* terminalize_active_background_agent_pending_interactions_in_tx *)
Close_Nothing(r, s) ==  \* mutant: questions outlive their worker
    UNCHANGED ask
Close(r, s) ==
    ask' = [q \in Questions |->
              IF q \in OpenOf(r) THEN [ask[q] EXCEPT !.status = s] ELSE ask[q]]

Settle(r, s) ==
    run' = [run EXCEPT ![r].status = s]
EndLease(r, g, s) ==
    lease' = [lease EXCEPT ![<<r, g>>].status = s]

-----------------------------------------------------------------------------
(* Admission *)

(* count_live_or_recoverable_background_agent_runs_in_tx *)
Counted_NoOrphans ==  \* mutant: recoverable runs take no capacity
    {r \in Runs : run[r].status \in Owned \cup {"queued"} /\ Exists(r)}
Counted ==
    {r \in Runs :
       \/ run[r].status = "stopping"
       \/ run[r].status \in Live /\ run[r].supervisor_id # NULL
       \/ run[r].status \in Unclaimed /\ Wanted(r)}

(* admit_background_agent_run; a run stands for its idempotency key, so a   *)
(* repeated admission changes nothing.                                      *)
CanAdmit(r) == ~Exists(r) /\ Cardinality(Counted) < MaxActive
Admit_Starting(r, v) ==  \* mutant: admitted as if it had been claimed
    /\ CanAdmit(r)
    /\ run' = [run EXCEPT ![r].status = "starting", ![r].version = v]
    /\ UNCHANGED <<lease, ask>>
Admit(r, v) ==
    /\ CanAdmit(r)
    /\ run' = [run EXCEPT ![r].status = "queued", ![r].version = v]
    /\ UNCHANGED <<lease, ask>>

CanTerminalize(r, v) ==
    Wanted(r) /\ run[r].status \in Unclaimed /\ run[r].version # v
(* terminalize_incompatible_background_agent_runs, for one run *)
Terminalize(r, v) ==
    /\ CanTerminalize(r, v)
    /\ run' = [run EXCEPT ![r].desired = "stopped", ![r].status = "failed"]
    /\ lease' = [k \in Runs \X Gens |->
                   IF k[1] = r /\ lease[k].status # "none"
                   THEN [lease[k] EXCEPT !.status = "stopped"] ELSE lease[k]]
    /\ Close(r, "cancelled")

-----------------------------------------------------------------------------
(* Ownership *)

CanClaim(r, v) ==
    Wanted(r) /\ run[r].status \in Unclaimed /\ run[r].version = v
(* claim_background_agent_supervisor_compatible *)
Claim_SameGeneration(r, o, v) ==  \* mutant: a later claim does not fence
    LET g == IF run[r].generation = 0 THEN 1 ELSE run[r].generation IN
    /\ CanClaim(r, v) /\ g \in Gens
    /\ run' = [run EXCEPT ![r].supervisor_id = o, ![r].generation = g,
                          ![r].status = "starting", ![r].stale = FALSE]
    /\ lease' = [lease EXCEPT ![<<r, g>>] =
                   [supervisor_id |-> o, status |-> "starting"]]
    /\ UNCHANGED ask
Claim_OldLease(r, o, v) ==  \* mutant: the lease names the generation before
    LET g == run[r].generation + 1 IN
    /\ CanClaim(r, v) /\ g \in Gens
    /\ run' = [run EXCEPT ![r].supervisor_id = o, ![r].generation = g,
                          ![r].status = "starting", ![r].stale = FALSE]
    /\ lease' = [lease EXCEPT ![<<r, run[r].generation>>] =
                   [supervisor_id |-> o, status |-> "starting"]]
    /\ UNCHANGED ask
Claim(r, o, v) ==
    LET g == run[r].generation + 1 IN
    /\ CanClaim(r, v) /\ g \in Gens
    /\ run' = [run EXCEPT ![r].supervisor_id = o, ![r].generation = g,
                          ![r].status = "starting", ![r].stale = FALSE]
    /\ lease' = [lease EXCEPT ![<<r, g>>] =
                   [supervisor_id |-> o, status |-> "starting"]]
    /\ UNCHANGED ask

(* record_background_agent_execution_handle *)
CanRecord(r, o, g) == Owns(r, o, g) /\ run[r].status = "starting"
RecordHandle(r, o, g) ==
    /\ CanRecord(r, o, g) /\ g \in Gens
    /\ run' = [run EXCEPT ![r].stale = FALSE]
    /\ EndLease(r, g, "running")
    /\ UNCHANGED ask

(* heartbeat_background_agent_run *)
CanHeartbeat(r, o, g) == Owns(r, o, g) /\ run[r].status \in Owned
Heartbeat(r, o, g) ==
    /\ CanHeartbeat(r, o, g)
    /\ run' = [run EXCEPT ![r].stale = FALSE]
    /\ UNCHANGED <<lease, ask>>

(* append_background_agent_status_event_for_supervisor, and the update      *)
(* without an event that ends a wait                                        *)
CanSetStatus_IgnoresStop(r, o, g, s) ==  \* mutant: the owner outruns a stop
    Owns(r, o, g) /\ run[r].status \in Owned
CanSetStatus(r, o, g, s) ==
    /\ Owns(r, o, g) /\ run[r].status \in Owned
    /\ Wanted(r) \/ s = "cancelled"
SetStatus(r, o, g, s) ==
    /\ CanSetStatus(r, o, g, s)
    /\ Settle(r, s)
    /\ UNCHANGED <<lease, ask>>

(* finish_background_agent_process_lease *)
FinishLease(r, o, g) ==
    /\ lease[<<r, g>>].supervisor_id = o
    /\ EndLease(r, g, "stopped")
    /\ UNCHANGED <<run, ask>>

(* bind_background_agent_thread; a thread is named after the generation     *)
(* whose worker created it.                                                 *)
CanBind(r, o, g) == Owns(r, o, g) /\ run[r].status \in Live
BindThread(r, o, g, t) ==
    /\ CanBind(r, o, g)
    /\ run' = [run EXCEPT ![r].rollout = t]
    /\ UNCHANGED <<lease, ask>>

-----------------------------------------------------------------------------
(* The sweep of stale heartbeats, orphan_stale_background_agent_runs *)

CanOrphan_NotStarting(r) ==  \* mutant: a claim without a worker is not swept
    /\ Wanted(r) /\ run[r].supervisor_id # NULL
    /\ run[r].status \in {"running", "waiting"} /\ run[r].stale
CanOrphan(r) ==
    /\ Wanted(r) /\ run[r].supervisor_id # NULL
    /\ run[r].status \in Live /\ run[r].stale
Orphan(r) ==
    /\ CanOrphan(r)
    /\ Settle(r, "orphaned")
    /\ EndLease(r, run[r].generation, "orphaned")
    /\ Close(r, "worker_no_longer_waiting")

CanCancelStale_Once(r) ==  \* mutant: only a stop is swept, not a delete
    run[r].status = "stopping" /\ run[r].desired = "stopped" /\ run[r].stale
CanCancelStale(r) ==
    /\ run[r].status = "stopping" /\ run[r].supervisor_id # NULL
    /\ run[r].desired # "running" \/ run[r].retention = "delete_requested"
    /\ run[r].stale
CancelStale(r) ==
    /\ CanCancelStale(r)
    /\ Settle(r, "cancelled")
    /\ EndLease(r, run[r].generation, "stopped")
    /\ Close(r, "cancelled")

-----------------------------------------------------------------------------
(* Stop and delete *)

(* request_background_agent_stop_for_generation *)
Idle(r) == run[r].supervisor_id = NULL \/ run[r].status \in Unclaimed
CanStop(r, o, g) ==
    /\ Owns(r, o, g) /\ run[r].retention = "active"
    /\ run[r].status \in Owned \cup Unclaimed
StopIsReplay(r, o, g) ==
    /\ Owns(r, o, g) /\ run[r].desired = "stopped"
    /\ run[r].status \in {"stopping", "cancelled"}
RequestStop(r, o, g) ==
    LET s == IF Idle(r) THEN "cancelled" ELSE "stopping" IN
    /\ CanStop(r, o, g)
    /\ run' = [run EXCEPT ![r].desired = "stopped", ![r].status = s]
    /\ IF s = "cancelled" THEN Close(r, "cancelled") ELSE UNCHANGED ask
    /\ UNCHANGED lease

(* request_background_agent_delete; a repeated delete writes nothing.       *)
RequestDelete(r) ==
    LET s == CASE run[r].status \in Ended -> run[r].status
               [] run[r].status \notin Ended /\ Idle(r) -> "cancelled"
               [] OTHER -> "stopping" IN
    /\ Exists(r) /\ run[r].retention = "active"
    /\ run' = [run EXCEPT ![r].desired = "deleted",
                          ![r].retention = "delete_requested",
                          ![r].status = s]
    /\ IF run[r].status \notin Ended /\ Idle(r)
       THEN Close(r, "cancelled") ELSE UNCHANGED ask
    /\ UNCHANGED lease

(* finalize_stopped_background_agent_process *)
CanFinalize(r, o, g) ==
    /\ Owns(r, o, g) /\ run[r].status \in Owned
    /\ run[r].desired # "running" \/ run[r].retention = "delete_requested"
Finalize(r, o, g) ==
    /\ CanFinalize(r, o, g) /\ g \in Gens
    /\ Settle(r, "cancelled")
    /\ EndLease(r, g, "stopped")
    /\ Close(r, "cancelled")

-----------------------------------------------------------------------------
(* Pending interactions *)

(* create_background_agent_pending_interaction_for_supervisor *)
CanAsk(r, o, g) ==
    Owns(r, o, g) /\ Wanted(r) /\ run[r].status \in Live
Ask(r, o, g, q) ==
    /\ CanAsk(r, o, g) /\ ask[q].status = "none"
    /\ Settle(r, "waiting")
    /\ ask' = [ask EXCEPT ![q] = [run_id |-> r, status |-> "pending"]]
    /\ UNCHANGED lease

(* mark_background_agent_pending_interaction_delivered *)
Deliver(q) ==
    /\ ask[q].status = "pending"
    /\ ask' = [ask EXCEPT ![q].status = "delivered"]
    /\ UNCHANGED <<run, lease>>

(* respond_background_agent_pending_interaction; the expiry of              *)
(* expire_background_agent_pending_interactions has the same shape, and     *)
(* when a question times out is left open.                                  *)
CanAnswer_Twice(q) ==  \* mutant: a closed question is answered again
    ask[q].status # "none"
CanAnswer(q) == ask[q].status \in Open
Answer(q, s) ==
    /\ CanAnswer(q)
    /\ ask' = [ask EXCEPT ![q].status = s]
    /\ UNCHANGED <<run, lease>>

(* cancel_active_pending_interactions_for_run lists the open questions of a  *)
(* run and answers one after the other.                                     *)
CancelQuestions(r) ==
    Close(r, "cancelled") /\ UNCHANGED <<run, lease>>

-----------------------------------------------------------------------------
(* The heartbeat grows old. *)
Lapse(r) ==
    /\ run[r].status \in Owned /\ ~run[r].stale
    /\ run' = [run EXCEPT ![r].stale = TRUE]
    /\ UNCHANGED <<lease, ask>>

Init ==
    /\ run = [r \in Runs |-> NoRun]
    /\ lease = [k \in Runs \X Gens |-> NoLease]
    /\ ask = [q \in Questions |-> NoAsk]

(* Any caller, any arguments, any order.                                    *)
OwnerStep(r, o, g) ==
    \/ RecordHandle(r, o, g) \/ Heartbeat(r, o, g) \/ FinishLease(r, o, g)
    \/ Finalize(r, o, g)
    \/ \E s \in Statuses \ {"none", "stopping"} : SetStatus(r, o, g, s)
    \/ \E t \in 1 .. g : BindThread(r, o, g, t)
    \/ \E q \in Questions : Ask(r, o, g, q)

StoreNext ==
    \/ \E r \in Runs :
         \/ \E v \in Versions : Admit(r, v) \/ Terminalize(r, v)
         \/ \E o \in Owners, v \in Versions : Claim(r, o, v)
         \/ \E o \in Owners, g \in Gens : OwnerStep(r, o, g)
         \/ \E o \in Owners \cup {NULL}, g \in 0 .. MaxGen : RequestStop(r, o, g)
         \/ RequestDelete(r) \/ Orphan(r) \/ CancelStale(r) \/ Lapse(r)
         \/ CancelQuestions(r)
    \/ \E q \in Questions :
         \/ Deliver(q)
         \/ \E s \in Answers \cup {"expired"} : Answer(q, s)

StoreSpec == Init /\ [][StoreNext]_storeVars

-----------------------------------------------------------------------------
(* Properties *)

(***************************************************************************)
(* Types, and what the columns say of each other: a run has an owner from  *)
(* its first claim on, and a lease for every generation it has had.        *)
(***************************************************************************)
StoreTypeOK ==
    /\ run \in [Runs -> RunRow]
    /\ lease \in [Runs \X Gens -> LeaseRow]
    /\ ask \in [Questions -> AskRow]
    /\ \A r \in Runs : run[r].status \in Owned =>
                         run[r].supervisor_id # NULL /\ run[r].generation > 0
    /\ \A r \in Runs : ~Exists(r) => run[r] = NoRun

(***************************************************************************)
(* The lease of the current generation belongs to the owner of the run, and*)
(* no generation that is still to come has one: whoever is recorded as the *)
(* owner is the one who claimed last.                                      *)
(***************************************************************************)
LeaseNamesOwner ==
    \A r \in Runs, g \in Gens :
       /\ g = run[r].generation
            => lease[<<r, g>>].supervisor_id = run[r].supervisor_id
       /\ g > run[r].generation => lease[<<r, g>>] = NoLease

(***************************************************************************)
(* Capacity: runs that are not over, whoever holds them, are never more    *)
(* than max_active_runs, although runs are stopped, orphaned, recovered and*)
(* admitted by processes that do not know of each other.                   *)
(***************************************************************************)
CapacityKept ==
    Cardinality({r \in Runs : Exists(r) /\ run[r].status \notin Ended})
      <= MaxActive

(***************************************************************************)
(* A stop wins: once a run is no longer wanted, a slow owner can neither   *)
(* carry on nor complete, fail or release it, and nobody claims it again.  *)
(* All it can do is end cancelled, and nothing makes it wanted again.      *)
(***************************************************************************)
StopWins ==
    [][\A r \in Runs :
         Exists(r) /\ ~Wanted(r)
           => /\ run'[r].desired # "running" \/ run'[r].retention # "active"
              /\ run'[r].status \in {run[r].status, "stopping", "cancelled"}
              /\ run'[r].generation = run[r].generation]_storeVars

(***************************************************************************)
(* A question is answered at most once, whoever answers it: a client, the  *)
(* timeout, a stop, or the sweep that orphans the run.                     *)
(***************************************************************************)
AnsweredOnce ==
    [][\A q \in Questions :
         ask[q].status \in Closed => ask'[q] = ask[q]]_storeVars

(***************************************************************************)
(* The tables implement the lifecycle the architecture note promises:      *)
(* whoever calls which transaction in which order, a run has one owner at  *)
(* a time, is taken only when it is free and wanted, and ends for good.    *)
(***************************************************************************)
PhaseOf(status) ==
    CASE status = "none" -> "absent"
      [] status \in Unclaimed -> "free"
      [] status \in Owned -> "held"
      [] OTHER -> "over"
Phase(r) == PhaseOf(run[r].status)
Holder(r) == IF Phase(r) = "held" THEN run[r].supervisor_id ELSE NULL
Lifecycle ==
    INSTANCE AgentLifecycle WITH
      phase <- [r \in Runs |-> Phase(r)],
      holder <- [r \in Runs |-> Holder(r)],
      epoch <- [r \in Runs |-> run[r].generation],
      wanted <- [r \in Runs |-> Wanted(r)]
ImplementsLifecycle == Lifecycle!LifeSpec

==============================================================================
