------------------------- MODULE ThreadScheduleStore -------------------------
(***************************************************************************)
(* The thread-schedule tables of the shared state database and the         *)
(* transactions of state/src/runtime/schedules.rs that read and write      *)
(* them, called by any number of processes in any order with any arguments.*)
(*                                                                         *)
(* Every transaction is one step on these tables: SQLite serialises writers*)
(* (BEGIN IMMEDIATE), and a transaction that fails with SQLITE_BUSY is     *)
(* retried from its first statement (busy_retry.rs).  A transaction that   *)
(* matches no row changes nothing, so only its successful outcome is a step*)
(* here: CanX is the WHERE clause of X and X its effect.                   *)
(*                                                                         *)
(* Goals live in another database (goals.db), which a claim or a finish    *)
(* reads before it commits here and without keeping it from changing.  What*)
(* it found is therefore an argument, hold, of the transaction; the runtime*)
(* takes the look and the commit in two steps.                             *)
(*                                                                         *)
(* A claim makes one lease id and one run id, both fresh UUIDs, and the    *)
(* run row keeps its lease id for ever.  The model uses one identifier for *)
(* both: run r holds the lease r.                                          *)
(***************************************************************************)
EXTENDS ScheduleCadence, FiniteSets

CONSTANTS
    Schedules,       \* schedule ids; the schedules of one thread
    RunIds,          \* run / lease ids, a set of naturals so that the
                     \* model issues them in order
    Procs,           \* processes that share the database
    Times,           \* the moments callers can name
    LeaseDuration    \* SCHEDULE_LEASE_DURATION

ASSUME StoreAssumption ==
    /\ RunIds \subseteq Nat
    /\ Times \subseteq Nat
    /\ LeaseDuration \in Nat \ {0}
    /\ NULL \notin Schedules

VARIABLES
    sched,    \* thread_schedules rows
    run,      \* thread_schedule_runs rows
    issued,   \* the run ids claims have made so far (UUIDs never recur)
    goal,     \* the thread_goals row of the thread (goals.db)
    session,  \* the local_active_sessions row of the thread
    clock     \* wall-clock time

storeVars == <<sched, run, issued, goal, session, clock>>

-----------------------------------------------------------------------------
(* Rows *)

Time == Nat
OptTime == Nat \cup {NULL}

(* "absent": the id is not used yet; "deleted": it was, and is never again. *)
Statuses == {"absent", "active", "paused", "expired", "deleted"}
Row == [status : Statuses, kind : Kinds, next_run_at : OptTime,
        expires_at : OptTime, failure_count : Nat,
        lease_id : RunIds \cup {NULL}, lease_expires_at : OptTime]

LiveStatuses == {"leased", "running"}
Terminal == {"deferred", "completed", "failed"}
RunRow == [status : {"none"} \cup LiveStatuses \cup Terminal,
           schedule_id : Schedules \cup {NULL},
           goal_id : Schedules \cup {NULL},
           scheduled_for : OptTime]

NoRow == [status |-> "absent", kind |-> "once", next_run_at |-> NULL,
          expires_at |-> NULL, failure_count |-> 0,
          lease_id |-> NULL, lease_expires_at |-> NULL]
NoRun == [status |-> "none", schedule_id |-> NULL, goal_id |-> NULL,
          scheduled_for |-> NULL]

(* The fields of an insert; the rest of the row starts at its default. *)
NewRow(kind, next, expires) ==
    [status |-> "active", kind |-> kind, next_run_at |-> next,
     expires_at |-> expires, failure_count |-> 0,
     lease_id |-> NULL, lease_expires_at |-> NULL]

Exists(s) == sched[s].status \in {"active", "paused", "expired"}
Live(r) == run[r].status \in LiveStatuses
LiveRuns(s) == {r \in RunIds : run[r].schedule_id = s /\ Live(r)}

(* UPDATE thread_schedule_runs SET status = 'failed' WHERE schedule_id IN   *)
(* ss AND status IN ('leased', 'running').                                  *)
FailLiveRuns(ss) ==
    [r \in RunIds |-> IF Live(r) /\ run[r].schedule_id \in ss
                      THEN [run[r] EXCEPT !.status = "failed"]
                      ELSE run[r]]

(* The write that ends a run on its schedule row: lease_id and              *)
(* lease_expires_at_ms = NULL, with the status, next run and streak it sets.*)
Released(row, status, next, failures) ==
    [row EXCEPT !.status = status, !.next_run_at = next,
                !.failure_count = failures,
                !.lease_id = NULL, !.lease_expires_at = NULL]

(* The lease columns allow a new owner: no lease, or one that has lapsed. *)
(* Mutants: a lease is free a moment before it lapses; a lapsed lease is    *)
(* never free.                                                              *)
LeaseFree_TooEarly(row, now) ==
    row.lease_id # NULL => row.lease_expires_at <= now + 1
LeaseFree_NeverLapses(row, now) == row.lease_id = NULL
LeaseFree(row, now) == row.lease_id # NULL => row.lease_expires_at <= now
NotExpiredAt(row, t) == row.expires_at # NULL => row.expires_at > t
PastExpiry(row, t) == ~NotExpiredAt(row, t)

-----------------------------------------------------------------------------
(* Creating, editing, resuming and deleting schedules *)

CreateSchedule(s, kind, next, expires) ==
    /\ sched[s].status = "absent"
    /\ sched' = [sched EXCEPT ![s] = NewRow(kind, next, expires)]
    /\ UNCHANGED <<run, issued, goal, session, clock>>

(***************************************************************************)
(* The transaction of update_thread_schedule.  merged holds the status,    *)
(* kind, next_run_at and expires_at the caller computed from its patch and *)
(* from a row it read before the transaction; every one of these columns is*)
(* written back.  reset: the patch names the status active.                *)
(***************************************************************************)
UpdateSchedule_LeavesRuns(s, merged, reset) ==  \* mutant
    /\ Exists(s)
    /\ sched' = [sched EXCEPT ![s] =
         [sched[s] EXCEPT !.status = merged.status,
                          !.next_run_at = merged.next_run_at,
                          !.lease_id = IF merged.status = "active"
                                       THEN sched[s].lease_id ELSE NULL]]
    /\ UNCHANGED <<run, issued, goal, session, clock>>

UpdateSchedule(s, merged, reset) ==
    LET row == sched[s]
        active == merged.status = "active"
    IN
    /\ Exists(s)
    /\ sched' = [sched EXCEPT ![s] =
         [status |-> merged.status,
          kind |-> merged.kind,
          next_run_at |-> IF merged.status = "expired" THEN NULL
                          ELSE merged.next_run_at,
          expires_at |-> merged.expires_at,
          failure_count |-> IF reset THEN 0 ELSE row.failure_count,
          lease_id |-> IF active THEN row.lease_id ELSE NULL,
          lease_expires_at |-> IF active THEN row.lease_expires_at
                               ELSE NULL]]
    /\ run' = IF active THEN run ELSE FailLiveRuns({s})
    /\ UNCHANGED <<issued, goal, session, clock>>

(* resume_thread_schedule_with_next_run_at: COALESCE keeps the old run time *)
ResumeSchedule(s, next) ==
    LET row == sched[s] IN
    /\ Exists(s)
    /\ sched' = [sched EXCEPT ![s] =
         [row EXCEPT
            !.status = "active",
            !.next_run_at = IF next = NULL THEN row.next_run_at ELSE next,
            !.failure_count = 0]]
    /\ UNCHANGED <<run, issued, goal, session, clock>>

(* Deleting a schedule deletes its runs (ON DELETE CASCADE). *)
DeleteSchedule(s) ==
    /\ Exists(s)
    /\ sched' = [sched EXCEPT ![s] = [NoRow EXCEPT !.status = "deleted"]]
    /\ run' = [r \in RunIds |-> IF run[r].schedule_id = s THEN NoRun
                                ELSE run[r]]
    /\ UNCHANGED <<issued, goal, session, clock>>

-----------------------------------------------------------------------------
(* Claiming *)

(* Another process showed the thread live at or after fresh_after.          *)
ForeignOwnerFresh(p, freshAfter) ==
    /\ session.owner \notin {NULL, p}
    /\ session.last_seen >= freshAfter

Claimable(p, s, now, freshAfter) ==
    /\ sched[s].status = "active"
    /\ NotExpiredAt(sched[s], now)
    /\ LeaseFree(sched[s], now)
    /\ ~ForeignOwnerFresh(p, freshAfter)

Due(p, s, now, freshAfter) ==
    /\ Claimable(p, s, now, freshAfter)
    /\ sched[s].next_run_at # NULL
    /\ sched[s].next_run_at <= now

(* ORDER BY next_run_at_ms, created_at_ms LIMIT 1; ties may go either way.  *)
FirstDue(p, s, now, freshAfter) ==
    /\ Due(p, s, now, freshAfter)
    /\ \A q \in Schedules : Due(p, q, now, freshAfter) =>
          sched[s].next_run_at <= sched[q].next_run_at

GoalHeld(g) == g # NULL /\ goal.goal_id = g /\ goal.held

(* goal_hold_can_pause: the transaction has a goal to look at.              *)
GoalCanPause(s, goals) == sched[s].kind # "once" /\ goals \ {NULL} # {}

(* The goals of the runs that a claim of the schedule reaps.                *)
ReapedGoals(s) == {run[r].goal_id : r \in LiveRuns(s)}

(* The claim found a goal on hold: reap, pause the schedule, grant nothing. *)
ReapAndPause(s) ==
    /\ GoalCanPause(s, ReapedGoals(s))
    /\ run' = FailLiveRuns({s})
    /\ sched' = [sched EXCEPT ![s] =
         Released(sched[s], "paused", NULL, sched[s].failure_count + 1)]
    /\ UNCHANGED <<issued, goal, session, clock>>

FreshIds == RunIds \ issued
NextId(r) == r \in FreshIds /\ \A q \in FreshIds : r <= q

(* The claim succeeds: reap what an earlier owner left, take the lease,     *)
(* insert_leased_run.                                                       *)
GrantLease_WithoutReaping(s, r, now, scheduledFor) ==  \* mutant
    /\ NextId(r)
    /\ issued' = issued \cup {r}
    /\ sched' = [sched EXCEPT ![s].lease_id = r,
                              ![s].lease_expires_at = now + LeaseDuration]
    /\ run' = [run EXCEPT ![r] =
         [status |-> "leased", schedule_id |-> s, goal_id |-> NULL,
          scheduled_for |-> scheduledFor]]
    /\ UNCHANGED <<goal, session, clock>>
GrantLease(s, r, now, scheduledFor) ==
    LET row == sched[s] IN
    /\ NextId(r)
    /\ issued' = issued \cup {r}
    /\ sched' = [sched EXCEPT ![s] =
         [row EXCEPT !.lease_id = r, !.lease_expires_at = now + LeaseDuration,
                     !.failure_count = IF LiveRuns(s) # {}
                                       THEN row.failure_count + 1
                                       ELSE row.failure_count]]
    /\ run' = [FailLiveRuns({s}) EXCEPT ![r] =
         [status |-> "leased", schedule_id |-> s, goal_id |-> NULL,
          scheduled_for |-> scheduledFor]]
    /\ UNCHANGED <<goal, session, clock>>

ClaimDue(p, s, r, now, freshAfter) ==
    /\ FirstDue(p, s, now, freshAfter)
    /\ GrantLease(s, r, now, sched[s].next_run_at)

ClaimNow(p, s, r, now, freshAfter) ==
    /\ Claimable(p, s, now, freshAfter)
    /\ GrantLease(s, r, now, now)

ClaimHeld(p, s, now, freshAfter) ==
    /\ Claimable(p, s, now, freshAfter)
    /\ ReapAndPause(s)

-----------------------------------------------------------------------------
(* Working on a claimed run *)

OwnsLease(s, r) == sched[s].lease_id = r /\ run[r].schedule_id = s

CanMarkStarted(s, r, now) ==
    /\ OwnsLease(s, r)
    /\ sched[s].lease_expires_at > now
    /\ run[r].status = "leased"

MarkStarted(s, r, g, now) ==
    /\ CanMarkStarted(s, r, now)
    /\ sched' = [sched EXCEPT ![s].lease_expires_at =
                                 MaxOf(@, now + LeaseDuration)]
    /\ run' = [run EXCEPT ![r].status = "running", ![r].goal_id = g]
    /\ UNCHANGED <<issued, goal, session, clock>>

CanExtend(s, r, now) ==
    /\ OwnsLease(s, r)
    /\ sched[s].status = "active"
    /\ sched[s].lease_expires_at > now
    /\ NotExpiredAt(sched[s], now)
    /\ Live(r)

ExtendLease(s, r, now) ==
    /\ CanExtend(s, r, now)
    /\ sched' = [sched EXCEPT ![s].lease_expires_at = now + LeaseDuration]
    /\ UNCHANGED <<run, issued, goal, session, clock>>

(* defer_thread_schedule_run looks at the lease only, not at the run status *)
CanDefer_Unfenced(s, r) ==  \* mutant
    run[r].schedule_id = s /\ run[r].status # "none"
CanDefer(s, r) == OwnsLease(s, r) /\ run[r].status # "none"

DeferRun(s, r, next) ==
    LET row == sched[s]
        past == PastExpiry(row, next)
    IN
    /\ CanDefer(s, r)
    /\ sched' = [sched EXCEPT ![s] =
         Released(row,
                  IF past THEN "expired" ELSE row.status,
                  IF past \/ row.status \in {"expired", "paused"}
                  THEN NULL ELSE next,
                  row.failure_count)]
    /\ run' = [run EXCEPT ![r].status = "deferred"]
    /\ UNCHANGED <<issued, goal, session, clock>>

CanFinish(s, r, expectedGoal) ==
    /\ OwnsLease(s, r)
    /\ Live(r)
    /\ NULL \in {expectedGoal, run[r].goal_id} \/ expectedGoal = run[r].goal_id

(* The status CASE of finish_thread_schedule_run_once.                      *)
FinishedStatus_NeverSpent(row, completedAt, hold, next) ==  \* mutant
    CASE row.status = "expired" \/ PastExpiry(row, completedAt) -> "expired"
      [] hold  -> "paused"
      [] OTHER -> row.status
FinishedStatus_Unlisted(row, completedAt, hold, next) ==  \* mutant
    CASE PastExpiry(row, completedAt) -> "expired"
      [] hold                         -> "paused"
      [] next = NULL                  -> "completed"
      [] OTHER                        -> row.status
FinishedStatus(row, completedAt, hold, next) ==
    CASE row.status = "expired"        -> "expired"
      [] PastExpiry(row, completedAt)  -> "expired"
      [] row.status = "paused"         -> "paused"
      [] hold                          -> "paused"
      [] next = NULL                   -> "expired"
      [] OTHER                         -> row.status

FinishRun(s, r, completedAt, next, expectedGoal, failed, hold) ==
    LET row == sched[s]
        stays == /\ row.status = "active" /\ ~hold
                 /\ ~PastExpiry(row, completedAt)
    IN
    /\ CanFinish(s, r, expectedGoal)
    /\ hold => GoalCanPause(s, {expectedGoal})
    /\ sched' = [sched EXCEPT ![s] =
         Released(row,
                  FinishedStatus(row, completedAt, hold, next),
                  IF stays THEN next ELSE NULL,
                  IF failed THEN row.failure_count + 1 ELSE 0)]
    /\ run' = [run EXCEPT ![r].status = IF failed THEN "failed"
                                        ELSE "completed"]
    /\ UNCHANGED <<issued, goal, session, clock>>

(* expire_thread_schedules: a live lease defers the expiry of its schedule. *)
Expiring(now) ==
    {s \in Schedules : /\ sched[s].status = "active"
                       /\ PastExpiry(sched[s], now)
                       /\ LeaseFree(sched[s], now)}

ExpireSchedules(now) ==
    /\ run' = FailLiveRuns(Expiring(now))
    /\ sched' = [s \in Schedules |->
         IF s \in Expiring(now)
         THEN Released(sched[s], "expired", NULL, sched[s].failure_count)
         ELSE sched[s]]
    /\ UNCHANGED <<issued, goal, session, clock>>

-----------------------------------------------------------------------------
(* The other tables the transactions read *)

(* heartbeat_session: one row per thread; the newest heartbeat owns it.     *)
SessionHeartbeat(p, now) ==
    /\ session.owner = NULL \/ session.last_seen <= now
    /\ session' = [owner |-> p, last_seen |-> now]
    /\ UNCHANGED <<sched, run, issued, goal, clock>>

(* prune_owner_sessions, for a thread the owner no longer has loaded.       *)
SessionPrune(p, now) ==
    /\ session.owner = p /\ session.last_seen < now
    /\ session' = [owner |-> NULL, last_seen |-> 0]
    /\ UNCHANGED <<sched, run, issued, goal, clock>>

(* External: GoalService::set_thread_goal makes the objective of schedule g *)
(* the thread's active goal; it is later held (paused, blocked, usage or    *)
(* budget limited) or released by the user and by the goal runtime.         *)
SetGoal(g, held) ==
    /\ goal' = [goal_id |-> g, held |-> held]
    /\ UNCHANGED <<sched, run, issued, session, clock>>

Advance(t) ==
    /\ t > clock
    /\ clock' = t
    /\ UNCHANGED <<sched, run, issued, goal, session>>

-----------------------------------------------------------------------------
(* A new database file; migrations create the tables empty. *)
Init ==
    /\ sched = [s \in Schedules |-> NoRow]
    /\ run = [r \in RunIds |-> NoRun]
    /\ issued = {}
    /\ goal = [goal_id |-> NULL, held |-> FALSE]
    /\ session = [owner |-> NULL, last_seen |-> 0]
    /\ clock = 0

Merged == [status : {"active", "paused", "expired"}, kind : Kinds,
           next_run_at : Times \cup {NULL}, expires_at : Times \cup {NULL}]
OptTimes == Times \cup {NULL}
OptGoals == Schedules \cup {NULL}

Next ==
    \/ \E s \in Schedules, k \in Kinds, n, e \in OptTimes :
          CreateSchedule(s, k, n, e)
    \/ \E s \in Schedules, m \in Merged, reset \in BOOLEAN :
          UpdateSchedule(s, m, reset)
    \/ \E s \in Schedules, n \in OptTimes : ResumeSchedule(s, n)
    \/ \E s \in Schedules : DeleteSchedule(s)
    \/ \E p \in Procs, s \in Schedules, now, fresh \in Times, r \in RunIds :
          \/ ClaimDue(p, s, r, now, fresh)
          \/ ClaimNow(p, s, r, now, fresh)
    \/ \E p \in Procs, s \in Schedules, now, fresh \in Times :
          ClaimHeld(p, s, now, fresh)
    \/ \E s \in Schedules, r \in RunIds, now \in Times :
          \/ \E g \in OptGoals : MarkStarted(s, r, g, now)
          \/ ExtendLease(s, r, now)
          \/ DeferRun(s, r, now)
          \/ \E n \in OptTimes, g \in OptGoals, failed, hold \in BOOLEAN :
                FinishRun(s, r, now, n, g, failed, hold)
    \/ \E now \in Times : \/ ExpireSchedules(now)
                          \/ Advance(now)
                          \/ \E p \in Procs : \/ SessionHeartbeat(p, now)
                                              \/ SessionPrune(p, now)
    \/ \E g \in OptGoals, held \in BOOLEAN : SetGoal(g, held)

Spec == Init /\ [][Next]_storeVars

-----------------------------------------------------------------------------
(* Properties *)

(* Types of the tables. *)
TypeOK ==
    /\ sched \in [Schedules -> Row]
    /\ run \in [RunIds -> RunRow]
    /\ issued \subseteq RunIds
    /\ goal \in [goal_id : Schedules \cup {NULL}, held : BOOLEAN]
    /\ session \in [owner : Procs \cup {NULL}, last_seen : Time]
    /\ clock \in Time

(***************************************************************************)
(* The lease of a schedule and its runs agree, whatever the callers do: a  *)
(* schedule has a leased or running run exactly when its lease columns name*)
(* that run, so at most one run of a schedule is ever in progress, and only*)
(* an active schedule is leased.  Pausing, expiring, reaping, finishing and*)
(* deferring each write both tables to keep this.                          *)
(***************************************************************************)
LeaseMatchesRun ==
    \A s \in Schedules :
       /\ LiveRuns(s) = IF sched[s].lease_id = NULL THEN {}
                        ELSE {sched[s].lease_id}
       /\ sched[s].lease_id # NULL => sched[s].status = "active"
       /\ (sched[s].lease_id = NULL) <=> (sched[s].lease_expires_at = NULL)

(* No run row leaves a terminal status in this step. *)
OutcomesKept ==
    \A r \in RunIds : run[r].status \in Terminal =>
       run'[r].status \in {run[r].status, "none"}

(***************************************************************************)
(* The outcome of a run is final: once deferred, completed or failed, the  *)
(* row keeps that status until its schedule is deleted.  A process whose   *)
(* lease was taken over and that finishes or defers late changes nothing   *)
(* (the lease_id fences it), although defer_thread_schedule_run does not   *)
(* look at the status of the run it overwrites.                            *)
(***************************************************************************)
OutcomesAreFinal == [][OutcomesKept]_storeVars

==============================================================================
