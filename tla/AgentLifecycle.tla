--------------------------- MODULE AgentLifecycle ---------------------------
(***************************************************************************)
(* What the roster of background agents promises (background-agent/        *)
(* ARCHITECTURE.md, "State Machine" and "Ownership And Liveness"), without *)
(* statuses, leases, heartbeats or messages: a run is free, held by one    *)
(* owner, or over.  Every time it is taken its epoch grows, so an owner is *)
(* recognised by its epoch.  A run that is no longer wanted can only end.  *)
(***************************************************************************)
EXTENDS Naturals

CONSTANTS NULL, Runs, Owners

VARIABLES
    phase,    \* absent, free, held or over
    holder,   \* the owner of a held run
    epoch,    \* how often the run has been taken
    wanted    \* the caller's intent

lifecycle == <<phase, holder, epoch, wanted>>

LifeInit ==
    /\ phase = [r \in Runs |-> "absent"]
    /\ holder = [r \in Runs |-> NULL]
    /\ epoch = [r \in Runs |-> 0]
    /\ wanted = [r \in Runs |-> TRUE]

Submit(r) ==
    /\ phase[r] = "absent"
    /\ phase' = [phase EXCEPT ![r] = "free"]
    /\ UNCHANGED <<holder, epoch, wanted>>

Take(r, o) ==
    /\ phase[r] = "free" /\ wanted[r]
    /\ phase' = [phase EXCEPT ![r] = "held"]
    /\ holder' = [holder EXCEPT ![r] = o]
    /\ epoch' = [epoch EXCEPT ![r] = @ + 1]
    /\ UNCHANGED wanted

(* The owner gives the run back, or is taken for dead.                      *)
Release(r) ==
    /\ phase[r] = "held" /\ wanted[r]
    /\ phase' = [phase EXCEPT ![r] = "free"]
    /\ holder' = [holder EXCEPT ![r] = NULL]
    /\ UNCHANGED <<epoch, wanted>>

(* The run ends by itself or because it is no longer wanted.                *)
Finish(r) ==
    /\ phase[r] = "held"
    /\ phase' = [phase EXCEPT ![r] = "over"]
    /\ holder' = [holder EXCEPT ![r] = NULL]
    /\ UNCHANGED <<epoch, wanted>>

(* The caller withdraws: a free run is over at once, a held one is left to  *)
(* its owner.                                                               *)
Withdraw(r) ==
    /\ phase[r] # "absent"
    /\ wanted' = [wanted EXCEPT ![r] = FALSE]
    /\ phase' = [phase EXCEPT ![r] = IF @ = "free" THEN "over" ELSE @]
    /\ UNCHANGED <<holder, epoch>>

LifeNext ==
    \E r \in Runs :
       \/ Submit(r) \/ Release(r) \/ Finish(r) \/ Withdraw(r)
       \/ \E o \in Owners : Take(r, o)

LifeSpec == LifeInit /\ [][LifeNext]_lifecycle

==============================================================================
