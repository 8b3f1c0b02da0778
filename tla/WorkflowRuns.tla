---------------------------- MODULE WorkflowRuns ----------------------------
(***************************************************************************)
(* One workflow run: its row, its steps, their verifiers and the           *)
(* background agents that execute its branches                             *)
(* (state/src/runtime/workflow_orchestrator.rs, workflow_verifiers.rs,     *)
(* workflows.rs), the supervisors that drive it from several processes     *)
(* (ext/workflows/src/activation.rs), the requests on it, and the goal     *)
(* plan it is projected to (workflow_goal_plan_projections.rs).            *)
(*                                                                         *)
(* Every database transaction is one step.  A lease is the flag "live":    *)
(* a heartbeat extends a lease that is still live and refuses one that is  *)
(* not, so between its expiry and its claim it has no effect of its own.   *)
(***************************************************************************)
EXTENDS Integers, FiniteSets

CONSTANTS
    Procs,          \* processes that may supervise the run
    Steps,          \* steps, numbered by their sequence
    Deps,           \* Deps[s]: the steps s depends on
    Gated,          \* steps that declare an approval gate
    Isolated,       \* steps that ask for a worktree of their own
    Keyed,          \* steps whose model route needs the provider key
    HasKey,         \* processes that have the provider key
    Verifiers,      \* verifiers, numbered by their identifier
    StepOf,         \* StepOf[v]: the step that v verifies
    MaxAttempts,    \* attempts of a verifier before its failure is final
    MaxParallel,    \* min of max_parallel_steps and max_agents
    MaxWorktrees,   \* max_worktrees
    MaxAgents,      \* max_active_background_agent_runs
    Worked,         \* steps whose goal-plan node the session completes
    Crashable,      \* processes that may crash
    MaxFaults,      \* bound: crashes, failed transactions, lapsed leases
    MaxRequests,    \* bound: pause, resume and cancel requests
    Nobody          \* owner_id NULL

ASSUME WorkflowAssumption ==
    /\ Steps \subseteq Nat /\ IsFiniteSet(Steps)
    /\ Deps \in [Steps -> SUBSET Steps]
    /\ Gated \subseteq Steps /\ Isolated \subseteq Steps
    /\ Keyed \subseteq Steps /\ HasKey \subseteq Procs
    /\ Verifiers \subseteq Nat /\ StepOf \in [Verifiers -> Steps]
    /\ MaxAttempts \in Nat \ {0} /\ MaxParallel \in Nat \ {0}
    /\ MaxWorktrees \in Nat /\ MaxAgents \in Nat \ {0}
    /\ Worked \subseteq Steps /\ Crashable \subseteq Procs
    /\ MaxFaults \in Nat /\ MaxRequests \in Nat
    /\ Nobody \notin Procs

VARIABLES
    run,        \* workflow_runs row: status, owner, generation, lease
    step,       \* workflow_run_steps.status
    approval,   \* workflow_run_steps.approval_state
    agent,      \* status of the background agent of each step's branch
    ver,        \* workflow_run_step_verifiers: status and attempt_count
    plan,       \* the projected goal plan
    goals,      \* steps whose goal-plan node is complete
    owed,       \* goal-plan updates that follow a committed request
    sup,        \* the supervisor task of each process
    faults,     \* faults so far
    requests    \* requests so far

store == <<run, step, approval, agent, ver>>
vars  == <<run, step, approval, agent, ver, plan, goals, owed, sup, faults,
           requests>>
-----------------------------------------------------------------------------
TerminalRun == {"completed", "failed", "cancelled"}
RunStatuses == TerminalRun \cup
    {"pending", "running", "waiting", "blocked", "paused",
     "cancel_requested"}

TerminalStep == {"succeeded", "failed", "cancelled", "skipped"}
StepStatuses == TerminalStep \cup
    {"pending", "ready", "active", "waiting_verifier", "blocked"}

\* "unavailable" is status blocked with the reason of the provider preflight,
\* which claim_verifier_sql does not select; "blocked" has one that it does.
TerminalVerifier == {"passed", "failed", "skipped"}
VerifierStatuses == TerminalVerifier \cup
    {"pending", "blocked", "unavailable", "running"}

\* "queued" waits for a worker (queued, orphaned), "live" has one, "ended"
\* is failed or cancelled.
TerminalAgent == {"completed", "ended"}
AgentStatuses == TerminalAgent \cup {"none", "queued", "live", "stopping"}

VerifiersOf(s) == {v \in Verifiers : StepOf[v] = s}

\* The locals of a supervisor that is not driving a generation.
Parked(pc) == [pc |-> pc, gen |-> 0, seen |-> {}, ver |-> 0, attempt |-> 0,
               passed |-> FALSE]
-----------------------------------------------------------------------------
(* What a transaction does to the steps and the verifiers. *)

\* mutant: a skipped dependency counts as done.
MarkReady_SkippedIsDone(st) ==
    [s \in Steps |->
        IF /\ st[s] = "pending"
           /\ \A d \in Deps[s] : st[d] \in {"succeeded", "skipped"}
        THEN "ready" ELSE st[s]]

MarkReady(st) ==
    [s \in Steps |->
        IF st[s] = "pending" /\ \A d \in Deps[s] : st[d] = "succeeded"
        THEN "ready" ELSE st[s]]

\* observe_goal_plan_completion_in_tx: the steps it moves.
Observed(st, done) ==
    {s \in done : st[s] \in {"pending", "ready", "active"}}

\* block_pending_step_verifiers_in_tx for the verifiers of steps ss.
AwaitExecutor(vs, ss) ==
    [v \in Verifiers |->
        IF StepOf[v] \in ss /\ vs[v].status = "pending"
        THEN [vs[v] EXCEPT !.status = "blocked"] ELSE vs[v]]

\* The verifiers of steps ss that have no result get status w.
Settle(vs, ss, w) ==
    [v \in Verifiers |->
        IF StepOf[v] \in ss /\ vs[v].status \notin TerminalVerifier
        THEN [vs[v] EXCEPT !.status = w] ELSE vs[v]]

\* mutant: a verifier without a result does not hold the step back.
Promote_AnyPassed(st, vs) ==
    [s \in Steps |->
        IF /\ st[s] = "waiting_verifier"
           /\ \A v \in VerifiersOf(s) : vs[v].status # "failed"
        THEN "succeeded" ELSE st[s]]

Promote(st, vs) ==
    [s \in Steps |->
        IF /\ st[s] = "waiting_verifier"
           /\ \A v \in VerifiersOf(s) : vs[v].status = "passed"
        THEN "succeeded" ELSE st[s]]

Move(st, ss, w) == [s \in Steps |-> IF s \in ss THEN w ELSE st[s]]

AllDone(st) == \A s \in Steps : st[s] \in {"succeeded", "skipped"}

\* mutant: a step status is stored as the status of the run.
Derived_StepStatus(st) ==
    LET some(w) == \E s \in Steps : st[s] = w
    IN  IF some("failed") THEN "failed"
        ELSE IF some("blocked") THEN "blocked"
        ELSE IF some("waiting_verifier") THEN "waiting_verifier"
        ELSE IF Steps # {} /\ AllDone(st) THEN "completed"
        ELSE "running"

\* derive_run_status_from_step_statuses
Derived(st) ==
    LET some(w) == \E s \in Steps : st[s] = w
    IN  IF some("failed") THEN "failed"
        ELSE IF some("blocked") THEN "blocked"
        ELSE IF some("waiting_verifier") THEN "waiting"
        ELSE IF Steps # {} /\ AllDone(st) THEN "completed"
        ELSE "running"
-----------------------------------------------------------------------------
(* The lease on the run. *)

\* mutant: only the lease is checked, not who holds it.
Fenced_AnyOwner(p) == run.status # "paused" /\ run.owner # Nobody /\ run.live

\* claim_checked_workflow_run_in_tx
Fenced(p) ==
    /\ run.status # "paused"
    /\ run.owner = p
    /\ run.gen = sup[p].gen
    /\ run.live

\* p drives a generation of the run and is at label pc of its loop.
At(p, pc) == sup[p].pc = pc

Go(p, pc) == sup' = [sup EXCEPT ![p].pc = pc]
Park(p, pc) == sup' = [sup EXCEPT ![p] = Parked(pc)]

\* mutant: a verifier left running by the previous owner stays so.
ClaimRun_NoRequeue(p) ==
    /\ At(p, "idle")
    /\ run.status \notin TerminalRun \cup {"paused"}
    /\ run.owner = Nobody \/ ~run.live
    /\ run' = [status |-> IF run.status \in {"pending", "waiting"}
                          THEN "running" ELSE run.status,
               owner |-> p, gen |-> run.gen + 1, live |-> TRUE]
    /\ sup' = [sup EXCEPT ![p].pc = "beat", ![p].gen = run.gen + 1]
    /\ UNCHANGED <<step, approval, agent, ver, plan, goals, owed, faults,
                   requests>>

\* mutant: an expired lease is not taken over.
ClaimRun_NoTakeover(p) ==
    /\ At(p, "idle")
    /\ run.status \notin TerminalRun \cup {"paused"}
    /\ run.owner = Nobody
    /\ run' = [status |-> IF run.status \in {"pending", "waiting"}
                          THEN "running" ELSE run.status,
               owner |-> p, gen |-> run.gen + 1, live |-> TRUE]
    /\ sup' = [sup EXCEPT ![p].pc = "beat", ![p].gen = run.gen + 1]
    /\ UNCHANGED <<step, approval, agent, ver, plan, goals, owed, faults,
                   requests>>

\* run_supervisor reads a run that is neither terminal nor paused and claims
\* it; the claim checks both again.
ClaimRun(p) ==
    /\ At(p, "idle")
    /\ run.status \notin TerminalRun \cup {"paused"}
    /\ run.owner = Nobody \/ ~run.live
    /\ run' = [status |-> IF run.status \in {"pending", "waiting"}
                          THEN "running" ELSE run.status,
               owner |-> p, gen |-> run.gen + 1, live |-> TRUE]
    /\ ver' = [v \in Verifiers |->
                 IF ver[v].status = "running"
                 THEN [ver[v] EXCEPT !.status = "blocked"] ELSE ver[v]]
    /\ sup' = [sup EXCEPT ![p].pc = "beat", ![p].gen = run.gen + 1]
    /\ UNCHANGED <<step, approval, agent, plan, goals, owed, faults,
                   requests>>

\* The supervisor of a terminal run ends.
SupervisorEnds(p) ==
    /\ At(p, "idle")
    /\ run.status \in TerminalRun
    /\ Park(p, "off")
    /\ UNCHANGED <<store, plan, goals, owed, faults, requests>>

Driving == {"beat", "advance", "reconcile", "admit", "verify", "exec",
            "record"}

\* A transaction of drive_generation, its heartbeat or the heartbeat task of
\* a running verifier finds that the run is no longer this generation's.
LoseFence(p) ==
    /\ sup[p].pc \in Driving
    /\ ~Fenced(p)
    /\ Park(p, "idle")
    /\ UNCHANGED <<store, plan, goals, owed, faults, requests>>

\* The heartbeat succeeds; advance_workflow_run then reads the completed
\* nodes of the goal plan, before its own transaction.
Beat(p) ==
    /\ At(p, "beat")
    /\ Fenced(p)
    /\ sup' = [sup EXCEPT ![p].pc = "advance", ![p].seen = goals]
    /\ UNCHANGED <<store, plan, goals, owed, faults, requests>>
-----------------------------------------------------------------------------
(* advance_workflow_run *)

\* mutant: only the agents of active steps are stopped.
StopAgent_ActiveOnly(s) ==
    IF step[s] # "active" THEN agent[s]
    ELSE CASE agent[s] = "queued" -> "ended"
           [] agent[s] = "live"   -> "stopping"
           [] OTHER               -> agent[s]

\* stop_workflow_branch_agents_for_cancel_in_tx: an agent nobody works on
\* ends at once, one with a worker is told to stop.
StopAgent(s) ==
    CASE agent[s] = "queued" -> "ended"
      [] agent[s] = "live"   -> "stopping"
      [] OTHER               -> agent[s]

\* cancel_workflow_run_in_tx
AdvanceCancel(p) ==
    /\ At(p, "advance") /\ Fenced(p)
    /\ run.status = "cancel_requested"
    /\ run' = [run EXCEPT !.status = "cancelled", !.owner = Nobody,
                          !.live = FALSE]
    /\ agent' = [s \in Steps |-> StopAgent(s)]
    /\ step' = Move(step, {s \in Steps : step[s] \notin TerminalStep},
                    "cancelled")
    /\ ver' = Settle(ver, Steps, "skipped")
    /\ Park(p, "block")
    /\ UNCHANGED <<approval, plan, goals, owed, faults, requests>>

\* The supervisor's own label after a transaction that left the run in
\* status w: a terminal or paused run ends the generation.
Onward(p, w, pc) ==
    IF w \in TerminalRun \cup {"paused"} THEN Park(p, "idle")
    ELSE sup' = [sup EXCEPT ![p].pc = pc, ![p].seen = {}]

\* mark_ready_steps, observe_goal_plan_completion, promote_verified_steps
\* and recompute_workflow_run_status, in one transaction.
AdvanceRun(p) ==
    /\ At(p, "advance") /\ Fenced(p)
    /\ run.status \notin TerminalRun \cup {"cancel_requested"}
    /\ LET ready == MarkReady(step)
           moved == Observed(ready, sup[p].seen)
           vs    == AwaitExecutor(ver, moved)
           st    == Promote(Move(ready, moved, "waiting_verifier"), vs)
       IN  /\ step' = st
           /\ ver' = vs
           /\ run' = [run EXCEPT !.status = Derived(st)]
           /\ Onward(p, Derived(st), "reconcile")
    /\ UNCHANGED <<approval, agent, plan, goals, owed, faults, requests>>

\* The run ended while this generation still held it.
AdvanceEnded(p) ==
    /\ At(p, "advance") /\ Fenced(p)
    /\ run.status \in TerminalRun
    /\ Park(p, "idle")
    /\ UNCHANGED <<store, plan, goals, owed, faults, requests>>

\* block_workflow_goal_plan_projection blocks the nodes, and the plan itself
\* if it is active.  A paused plan stays so ("shelved"), and a resume makes it
\* active again with its nodes still blocked ("stuck").
Blocked(x) ==
    CASE x \in {"active", "stuck"} -> "blocked"
      [] x = "paused"              -> "shelved"
      [] OTHER                     -> x

\* The plan is blocked after the commit, then the next label: the run is
\* over, or the generation goes on to its verifiers.
BlockPlan(p) ==
    /\ sup[p].pc \in {"block", "block_verify"}
    /\ plan' = Blocked(plan)
    /\ Go(p, IF At(p, "block") THEN "idle" ELSE "verify")
    /\ UNCHANGED <<store, goals, owed, faults, requests>>
-----------------------------------------------------------------------------
(* reconcile_workflow_run_branches *)

Reconcile(p) ==
    /\ At(p, "reconcile") /\ Fenced(p)
    /\ LET ended(ws) == {s \in Steps : step[s] = "active" /\ agent[s] \in ws}
           done   == ended({"completed"})
           broken == ended({"ended"})
           st     == Move(Move(step, done, "waiting_verifier"), broken,
                          "failed")
       IN  IF run.status \in TerminalRun \cup {"cancel_requested"}
           THEN UNCHANGED store /\ Onward(p, run.status, "admit")
           ELSE /\ step' = st
                /\ ver' = Settle(AwaitExecutor(ver, done), broken, "skipped")
                /\ run' = [run EXCEPT !.status = Derived(st)]
                /\ Onward(p, Derived(st), "admit")
                /\ UNCHANGED <<approval, agent>>
    /\ UNCHANGED <<plan, goals, owed, faults, requests>>
-----------------------------------------------------------------------------
(* admit_workflow_run_branches *)

Min2(a, b) == IF a < b THEN a ELSE b

ActiveBranches == {s \in Steps : step[s] = "active" /\ agent[s] # "none"}

\* Agents that count_live_or_recoverable_background_agent_runs counts.
LiveAgents == {s \in Steps : agent[s] \notin TerminalAgent \cup {"none"}}

\* mutant: only this run's own limits are applied.
BranchCapacity_OwnLimits == MaxParallel - Cardinality(ActiveBranches)

BranchCapacity ==
    Min2(MaxParallel - Cardinality(ActiveBranches),
         MaxAgents - Cardinality(LiveAgents))

\* ready_branch_candidates_in_tx
Candidates ==
    {s \in Steps : /\ step[s] = "ready" /\ agent[s] = "none"
                   /\ s \in Gated => approval[s] = "approved"}

\* Candidates in order of sequence, an isolated one skipped once the
\* worktrees are used up, until the capacity is reached.
Admitted ==
    LET trees == Cardinality(ActiveBranches \cap Isolated)
        fits(s) == s \in Isolated =>
            trees + Cardinality({r \in Candidates \cap Isolated : r < s})
                < MaxWorktrees
        fit == {s \in Candidates : fits(s)}
    IN  {s \in fit : Cardinality({r \in fit : r < s}) < BranchCapacity}

AdmitStatus == run.status \notin TerminalRun \cup
                                  {"cancel_requested", "blocked"}

\* Candidates whose provider key this process does not have.
Unserved(p) == IF p \in HasKey THEN {} ELSE Candidates \cap Keyed

\* The provider preflight blocks the candidates and admits nobody.
AdmitBlocked(p) ==
    /\ At(p, "admit") /\ Fenced(p)
    /\ AdmitStatus /\ BranchCapacity > 0 /\ Unserved(p) # {}
    /\ LET st == Move(step, Unserved(p), "blocked")
       IN  /\ step' = st
           /\ run' = [run EXCEPT !.status = Derived(st)]
    /\ ver' = Settle(ver, Unserved(p), "unavailable")
    /\ Go(p, "block_verify")
    /\ UNCHANGED <<approval, agent, plan, goals, owed, faults, requests>>

\* The workspaces of all the branches are provisioned.
AdmitBranches(p) ==
    /\ At(p, "admit") /\ Fenced(p)
    /\ AdmitStatus /\ BranchCapacity > 0 /\ Unserved(p) = {}
    /\ LET st == Move(step, Admitted, "active")
       IN  /\ step' = st
           /\ run' = [run EXCEPT !.status =
                         IF Admitted = {} THEN @ ELSE Derived(st)]
    /\ agent' = [s \in Steps |->
                   IF s \in Admitted THEN "queued" ELSE agent[s]]
    /\ Go(p, "verify")
    /\ UNCHANGED <<approval, ver, plan, goals, owed, faults, requests>>

\* provision_workflow_workspace fails for one of the branches (no source
\* repository, no HEAD, no directory), and so does the transaction.  Once
\* its lease has lapsed the supervisor claims the run again, and may be
\* refused again, for ever.  The model gives that generation the number of
\* this one; that another process claims the run first is DbFails.
AdmitRefused(p) ==
    /\ At(p, "admit") /\ Fenced(p)
    /\ AdmitStatus /\ BranchCapacity > 0 /\ Unserved(p) = {}
    /\ Admitted # {}
    /\ Go(p, "beat")
    /\ UNCHANGED <<store, plan, goals, owed, faults, requests>>

AdmitNone(p) ==
    /\ At(p, "admit") /\ Fenced(p)
    /\ ~AdmitStatus \/ BranchCapacity <= 0
    /\ Onward(p, run.status, "verify")
    /\ UNCHANGED <<store, plan, goals, owed, faults, requests>>
-----------------------------------------------------------------------------
(* Verifiers: claim, execute, record. *)

Claimable ==
    {v \in Verifiers : /\ ver[v].status \in {"pending", "blocked"}
                       /\ step[StepOf[v]] = "waiting_verifier"}

\* ORDER BY step.sequence, verifier.verifier_id LIMIT 1
NextVerifier ==
    CHOOSE v \in Claimable : \A w \in Claimable :
        \/ StepOf[v] < StepOf[w]
        \/ StepOf[v] = StepOf[w] /\ v <= w

VerifiableRun == run.status \notin TerminalRun \cup {"cancel_requested"}

\* claim_workflow_run_verifier; the extended lease is live anyway.
ClaimVerifier(p) ==
    /\ At(p, "verify") /\ Fenced(p)
    /\ IF VerifiableRun /\ Claimable # {}
       THEN LET v == NextVerifier
            IN  /\ ver' = [ver EXCEPT ![v].status = "running",
                                      ![v].attempts = @ + 1]
                /\ sup' = [sup EXCEPT ![p].pc = "exec", ![p].ver = v,
                                      ![p].attempt = ver[v].attempts + 1]
       ELSE Go(p, "beat") /\ UNCHANGED ver
    /\ UNCHANGED <<run, step, approval, agent, plan, goals, owed, faults,
                   requests>>

\* execute_verifier: the commands end, or cannot be set up (a failure); the
\* fence is looked at once more before the result is recorded.
Execute(p) ==
    /\ At(p, "exec") /\ Fenced(p)
    /\ \E passed \in BOOLEAN :
          sup' = [sup EXCEPT ![p].pc = "record", ![p].passed = passed]
    /\ UNCHANGED <<store, plan, goals, owed, faults, requests>>

\* The supervisor's locals once the result is recorded, or is refused.
Recorded(p) == [sup EXCEPT ![p] = [Parked("beat") EXCEPT !.gen = sup[p].gen]]

\* maybe_promote_step_after_verifier_pass_in_tx and
\* maybe_complete_run_after_step_success_in_tx
RecordPass(v) ==
    LET vs == [ver EXCEPT ![v].status = "passed"]
        all == \A w \in VerifiersOf(StepOf[v]) : vs[w].status = "passed"
        st == IF all /\ step[StepOf[v]] = "waiting_verifier"
              THEN [step EXCEPT ![StepOf[v]] = "succeeded"] ELSE step
    IN  /\ ver' = vs
        /\ step' = st
        /\ run' = [run EXCEPT !.status =
                      IF all /\ AllDone(st) THEN "completed" ELSE @]

\* A failure is retried while attempts are left; the last one fails the step
\* and the run (mark_step_and_run_failed_in_tx).
RecordFail(v) ==
    IF ver[v].attempts < MaxAttempts
    THEN ver' = [ver EXCEPT ![v].status = "blocked"] /\ UNCHANGED <<step, run>>
    ELSE /\ ver' = [ver EXCEPT ![v].status = "failed"]
         /\ step' = [step EXCEPT ![StepOf[v]] =
                        IF @ \in TerminalStep THEN @ ELSE "failed"]
         /\ run' = [run EXCEPT !.status = "failed"]

\* record_workflow_run_verifier_result
Record(p) ==
    /\ At(p, "record") /\ Fenced(p)
    /\ LET v == sup[p].ver
       IN  IF VerifiableRun /\ ver[v].status = "running"
           THEN /\ IF sup[p].passed THEN RecordPass(v) ELSE RecordFail(v)
                /\ sup' = Recorded(p)
           ELSE Park(p, "idle") /\ UNCHANGED <<run, step, ver>>
    /\ UNCHANGED <<approval, agent, plan, goals, owed, faults, requests>>
-----------------------------------------------------------------------------
(* Requests: a transaction on the run, then an update of the goal plan. *)

\* The owner is cleared and the generation raised, so that the current
\* supervisor is fenced off.
Unowned(w) == [status |-> w, owner |-> Nobody, gen |-> run.gen + 1,
               live |-> FALSE]

Request(w, update) ==
    /\ requests < MaxRequests
    /\ run' = Unowned(w)
    /\ owed' = owed \cup {update}
    /\ requests' = requests + 1
    /\ UNCHANGED <<step, approval, agent, ver, plan, goals, sup, faults>>

\* mutant: a run that has ended can still be cancelled.
CancelRequest_Ended ==
    /\ run.status # "cancel_requested"
    /\ Request("cancel_requested", "block")

CancelRequest ==
    /\ run.status \notin TerminalRun \cup {"cancel_requested"}
    /\ Request("cancel_requested", "block")

PauseRequest ==
    /\ run.status \notin TerminalRun \cup {"cancel_requested", "paused"}
    /\ Request("paused", "pause")

\* resume_workflow_run; its handler activates the run with UpdatePlan.
ResumeRequest ==
    /\ run.status = "paused"
    /\ Request("waiting", "resume")

\* pause_ and resume_workflow_goal_plan_projection
Paused(x) ==
    CASE x = "active" -> "paused" [] x = "stuck" -> "shelved" [] OTHER -> x
Resumed(x) ==
    CASE x = "paused" -> "active" [] x = "shelved" -> "stuck" [] OTHER -> x

\* A start and a resume activate the run; a cancel and a pause do not.
Activates(u) == u \in {"create", "resume"}

\* The second half of a request that p serves.  "create" is the projection
\* of a run that was just started, which a terminal run refuses.
UpdatePlan(u, p) ==
    /\ u \in owed
    /\ owed' = owed \ {u}
    /\ plan' = CASE u = "create" -> IF run.status \in TerminalRun
                                    THEN plan ELSE "active"
                 [] u = "block"  -> Blocked(plan)
                 [] u = "pause"  -> Paused(plan)
                 [] u = "resume" -> Resumed(plan)
    /\ IF Activates(u) /\ At(p, "off") THEN Park(p, "idle")
       ELSE UNCHANGED sup
    /\ UNCHANGED <<store, goals, faults, requests>>

\* set_workflow_run_step_approval: nobody looks at the status of the run.
Decidable(s) == s \in Gated /\ step[s] \in {"pending", "ready"}

Approve(s) ==
    /\ Decidable(s) /\ approval[s] # "approved"
    /\ approval' = [approval EXCEPT ![s] = "approved"]
    /\ UNCHANGED <<run, step, agent, ver, plan, goals, owed, sup, faults,
                   requests>>

Reject(s) ==
    /\ Decidable(s) /\ approval[s] # "rejected"
    /\ approval' = [approval EXCEPT ![s] = "rejected"]
    /\ step' = [step EXCEPT ![s] = "skipped"]
    /\ UNCHANGED <<run, agent, ver, plan, goals, owed, sup, faults, requests>>
-----------------------------------------------------------------------------
(* What runs beside the orchestrator. *)

\* The session completes a node of the goal plan.  The plan keeps the order
\* of the dependencies; a paused or blocked plan has no node to work on.
CompleteGoal(s) ==
    /\ plan = "active" /\ s \notin goals /\ Deps[s] \subseteq goals
    /\ goals' = goals \cup {s}
    /\ UNCHANGED <<store, plan, owed, sup, faults, requests>>

\* The background agents, as BackgroundAgentStore has them: a worker claims
\* the agent, is lost, or ends it; a user may stop any agent.
SetAgent(s, w) ==
    /\ agent' = [agent EXCEPT ![s] = w]
    /\ UNCHANGED <<run, step, approval, ver, plan, goals, owed, sup,
                   requests>>

AgentClaimed(s) ==
    agent[s] = "queued" /\ SetAgent(s, "live") /\ UNCHANGED faults

AgentOrphaned(s) ==
    /\ faults < MaxFaults /\ faults' = faults + 1
    /\ agent[s] = "live" /\ SetAgent(s, "queued")

AgentEnds(s) ==
    /\ agent[s] = "live"
    /\ SetAgent(s, "completed") \/ SetAgent(s, "ended")
    /\ UNCHANGED faults

AgentStopped(s) ==
    agent[s] = "stopping" /\ SetAgent(s, "ended") /\ UNCHANGED faults

UserStops(s) ==
    /\ agent[s] \in {"queued", "live"}
    /\ SetAgent(s, StopAgent(s)) /\ UNCHANGED faults

\* The lease of an owner that no longer drives its generation runs out.
Abandoned == run.owner # Nobody /\ sup[run.owner].gen # run.gen

Expire ==
    /\ Abandoned /\ run.live /\ run.status \notin TerminalRun
    /\ run' = [run EXCEPT !.live = FALSE]
    /\ UNCHANGED <<step, approval, agent, ver, plan, goals, owed, sup, faults,
                   requests>>

Fault == faults < MaxFaults /\ faults' = faults + 1

\* The lease of a supervisor that was stalled for too long.
Stall ==
    /\ Fault /\ ~Abandoned
    /\ run.owner # Nobody /\ run.live /\ run.status \notin TerminalRun
    /\ run' = [run EXCEPT !.live = FALSE]
    /\ UNCHANGED <<step, approval, agent, ver, plan, goals, owed, sup,
                   requests>>

\* A transaction fails for good, that of an admission because a workspace
\* cannot be provisioned too: activate starts run_supervisor again.
DbFails(p) ==
    /\ Fault
    /\ sup[p].pc \notin {"off", "idle"}
    /\ Park(p, "idle")
    /\ UNCHANGED <<store, plan, goals, owed, requests>>

\* A process ends with its supervisor and the requests it was serving.
Crash(p) ==
    /\ p \in Crashable /\ Fault
    /\ Park(p, "off")
    /\ \E lost \in SUBSET owed : owed' = owed \ lost
    /\ UNCHANGED <<store, plan, goals, requests>>

\* A thread is loaded (activate_thread_runs, which passes over a paused run),
\* or a run that is not paused is resumed.
Activate(p) ==
    /\ At(p, "off")
    /\ run.status \notin TerminalRun \cup {"paused"}
    /\ Park(p, "idle")
    /\ UNCHANGED <<store, plan, goals, owed, faults, requests>>
-----------------------------------------------------------------------------
Init ==
    /\ run = [status |-> "pending", owner |-> Nobody, gen |-> 0,
              live |-> FALSE]
    /\ step = [s \in Steps |-> "pending"]
    /\ approval = [s \in Steps |-> "none"]
    /\ agent = [s \in Steps |-> "none"]
    /\ ver = [v \in Verifiers |-> [status |-> "pending", attempts |-> 0]]
    /\ plan = "none" /\ goals = {} /\ owed = {"create"}
    /\ sup = [p \in Procs |-> Parked("off")]
    /\ faults = 0 /\ requests = 0

SupervisorStep(p) ==
    \/ ClaimRun(p) \/ SupervisorEnds(p) \/ LoseFence(p)
    \/ Beat(p)
    \/ AdvanceCancel(p) \/ AdvanceRun(p) \/ AdvanceEnded(p) \/ BlockPlan(p)
    \/ Reconcile(p)
    \/ AdmitBlocked(p) \/ AdmitBranches(p) \/ AdmitRefused(p) \/ AdmitNone(p)
    \/ ClaimVerifier(p) \/ Execute(p) \/ Record(p)

AgentStep(s) == AgentClaimed(s) \/ AgentEnds(s) \/ AgentStopped(s)

RequestStep ==
    \/ CancelRequest \/ PauseRequest \/ ResumeRequest
    \/ \E u \in owed, p \in Procs : UpdatePlan(u, p)
    \/ \E s \in Gated : Approve(s) \/ Reject(s)

Next ==
    \/ \E p \in Procs :
          SupervisorStep(p) \/ Activate(p) \/ DbFails(p) \/ Crash(p)
    \/ \E s \in Steps : AgentStep(s) \/ AgentOrphaned(s) \/ UserStops(s)
    \/ \E s \in Worked : CompleteGoal(s)
    \/ RequestStep \/ Expire \/ Stall

Spec == Init /\ [][Next]_vars

\* A supervisor that was started polls for ever, workers finish what they
\* claimed, and a lease that nobody extends runs out.  Nobody need start a
\* supervisor: not a load of the thread, nor a request, which need not happen
\* or may not get that far.
FairSpec ==
    /\ Spec
    /\ \A p \in Procs : WF_vars(SupervisorStep(p))
    /\ \A s \in Steps : WF_vars(AgentStep(s))
    /\ WF_vars(Expire)
-----------------------------------------------------------------------------
(***************************************************************************)
(* Types of the rows and of what the supervisors remember: no status is    *)
(* ever stored that the tables do not know.                                *)
(***************************************************************************)
WorkflowTypeOK ==
    /\ run \in [status : RunStatuses, owner : Procs \cup {Nobody},
                gen : Nat, live : BOOLEAN]
    /\ step \in [Steps -> StepStatuses]
    /\ approval \in [Steps -> {"none", "approved", "rejected"}]
    /\ agent \in [Steps -> AgentStatuses]
    /\ ver \in [Verifiers -> [status : VerifierStatuses, attempts : Nat]]
    /\ plan \in {"none", "active", "paused", "blocked", "shelved", "stuck"}
    /\ goals \subseteq Steps
    /\ owed \subseteq {"create", "block", "pause", "resume"}
    /\ sup \in [Procs -> [pc : Driving \cup {"off", "idle", "block",
                                             "block_verify"},
                          gen : Nat, seen : SUBSET Steps,
                          ver : Verifiers \cup {0}, attempt : Nat,
                          passed : BOOLEAN]]
    /\ faults \in 0 .. MaxFaults /\ requests \in 0 .. MaxRequests

(***************************************************************************)
(* A branch runs only with consent and in order: the agent of a step was   *)
(* admitted after every step it depends on had succeeded, never behind a   *)
(* rejected one, and after the user approved a gated step.  Approvals,     *)
(* rejections, takeovers and completed goals change the steps in between   *)
(* (set_workflow_run_step_approval, ready_branch_candidates_in_tx).        *)
(***************************************************************************)
NothingRunsWithoutConsent ==
    \A s \in Steps : agent[s] # "none" =>
        /\ s \in Gated => approval[s] = "approved"
        /\ \A d \in Deps[s] : step[d] = "succeeded" /\ approval[d] # "rejected"

(***************************************************************************)
(* Whatever the supervisors of several generations admit, the run never    *)
(* has more than max_parallel_steps active branches, more isolated         *)
(* worktrees than max_worktrees, or more live agents than the limit on     *)
(* background agents (admit_ready_workflow_branches_in_tx).                *)
(***************************************************************************)
BranchLimits ==
    /\ Cardinality(ActiveBranches) <= MaxParallel
    /\ Cardinality(ActiveBranches \cap Isolated) <= MaxWorktrees
    /\ Cardinality(LiveAgents) <= MaxAgents

(***************************************************************************)
(* A cancelled run is quiet: no step can still be admitted or is active,   *)
(* no verifier can be claimed or is running, and every agent of the run,   *)
(* that of a step which left "active" through its goal included, has       *)
(* ended or has been told to stop (cancel_workflow_run_in_tx).             *)
(***************************************************************************)
CancelledRunIsQuiet ==
    run.status = "cancelled" =>
        /\ \A s \in Steps : /\ step[s] \in TerminalStep
                            /\ agent[s] \notin {"queued", "live"}
        /\ \A v \in Verifiers : ver[v].status \in TerminalVerifier

(***************************************************************************)
(* A step succeeds only when all its verifiers passed, and a run completes *)
(* only when all its steps succeeded or were skipped, although both are    *)
(* decided in two places: by the owner's next advance and by the record of *)
(* the last verifier (promote_verified_steps_in_tx,                        *)
(* maybe_promote_step_after_verifier_pass_in_tx).                          *)
(***************************************************************************)
SuccessIsVerified ==
    /\ \A s \in Steps : step[s] = "succeeded" =>
          \A v \in VerifiersOf(s) : ver[v].status = "passed"
    /\ run.status = "completed" => AllDone(step)

(***************************************************************************)
(* The result of a verifier is that of its current attempt: an owner that  *)
(* lost the run while its commands were still running cannot record a      *)
(* result over the attempt of the next owner (execute_verifier,            *)
(* record_workflow_run_verifier_result).                                   *)
(***************************************************************************)
ResultIsCurrent ==
    [][\A v \in Verifiers :
          ver[v].status = "running" /\ ver'[v].status \in {"passed", "failed"}
          => \E p \in Procs : /\ At(p, "record") /\ sup[p].ver = v
                              /\ sup[p].attempt = ver[v].attempts
                              /\ sup'[p] # sup[p]]_vars

(***************************************************************************)
(* A run that has ended stays as it is: no late supervisor, verifier or    *)
(* request changes its status, admits another branch or touches a          *)
(* verifier (the guards on terminal statuses in workflows.rs,              *)
(* workflow_orchestrator.rs and workflow_verifiers.rs).                    *)
(***************************************************************************)
EndedRunIsFinal ==
    [][run.status \in TerminalRun =>
          /\ run'.status = run.status
          /\ ver' = ver
          /\ \A s \in Steps : agent[s] = "none" => agent'[s] = "none"]_vars

\* Some process runs a supervisor task for the run (active_supervisors).
Supervised == \E p \in Procs : ~At(p, "off")

Cancelling == run.status = "cancel_requested" /\ Supervised

(***************************************************************************)
(* A cancel request of a run that is supervised is carried out, unless the *)
(* supervisors crash: whichever process holds the run, and whatever lapses *)
(* or is refused in between, one of them claims it and cancels it          *)
(* (request_workflow_run_cancel, advance_workflow_run).  The request does  *)
(* not activate a supervisor (thread_workflow_processor.rs:371-394): a run *)
(* that has none, one that was paused when its thread was loaded, stays    *)
(* cancel_requested until the thread is loaded again.                      *)
(***************************************************************************)
CancelCompletes == Cancelling ~> run.status = "cancelled" \/ ~Supervised

\* The run waits for the user or for a configuration change.
Held ==
    \/ run.status \in {"paused", "blocked"}
    \/ \E s \in Steps : \/ /\ s \in Gated /\ step[s] = "ready"
                           /\ approval[s] # "approved"
                        \/ /\ step[s] = "pending"
                           /\ \E d \in Deps[s] : step[d] = "skipped"

(***************************************************************************)
(* A supervised run does not get stuck: it ends, unless it is paused,      *)
(* blocked, waits for an approval, stalls behind a rejected step, or its   *)
(* admissions are refused again and again because no workspace can be      *)
(* provisioned.  No crash, lapsed lease, lost verifier or refusal that     *)
(* passes leaves a step that nobody takes further (drive_generation,       *)
(* requeue_running_workflow_verifiers_for_takeover).                       *)
(***************************************************************************)
RunSettles ==
    \/ []<>(run.status \in TerminalRun \/ Held \/ ~Supervised)
    \/ []<><<\E p \in Procs : AdmitRefused(p)>>_vars

=============================================================================
