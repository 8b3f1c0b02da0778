------------------------ MODULE ThreadScheduleRuntime ------------------------
(***************************************************************************)
(* The schedule runtimes of the processes that share the state database:   *)
(* app-server/src/request_processors/thread_schedule_runtime.rs, and the   *)
(* part of thread_lifecycle.rs that ends a scheduled run when its turn     *)
(* ends.  Every await between two database calls is an interleaving point. *)
(*                                                                         *)
(* job[r] is the task that executes claim r: where it is in execute_claim /*)
(* submit_claimed_schedule, and its lease heartbeat.  tick[p] is the       *)
(* polling loop of process p.                                              *)
(***************************************************************************)
EXTENDS ThreadScheduleStore

CONSTANTS
    GoalSchedules,       \* schedules whose prompt is a /goal objective
    Crashable,           \* processes that may crash
    SessionProcs,        \* processes that may have the thread loaded
    MayRunNow,           \* schedules that runNow requests name
    HeartbeatInterval,   \* SCHEDULE_LEASE_HEARTBEAT_INTERVAL
    HeartbeatSlack,      \* how late a heartbeat timer may fire
    RetryDelay,          \* SCHEDULE_IDLE_RETRY_DELAY_SECONDS
    StaleAfter,          \* SCHEDULE_LOCAL_ACTIVE_SESSION_STALE_AFTER
    MaxClaimsPerTick,    \* MAX_SCHEDULE_CLAIMS_PER_TICK
    Period,              \* cadence of the recurring schedules
    MaxFailures,         \* MAX_CONSECUTIVE_SCHEDULE_FAILURES
    BackoffBase,         \* first failure backoff
    BackoffCap,          \* largest failure backoff
    MaxClock,            \* bound: wall-clock time
    MaxCrashes,          \* bound: crashes
    LastCrash,           \* bound: time of the last crash
    MaxDbErrors,         \* bound: database calls that fail for good
    MaxFaults            \* bound: crashes and failed calls together

ASSUME RuntimeAssumption ==
    /\ GoalSchedules \subseteq Schedules
    /\ Crashable \subseteq Procs
    /\ SessionProcs \subseteq Procs
    /\ MayRunNow \subseteq Schedules
    /\ {HeartbeatInterval, RetryDelay, MaxClaimsPerTick, Period, MaxFailures,
        BackoffBase, BackoffCap} \subseteq Nat \ {0}
    /\ {HeartbeatSlack, StaleAfter, MaxClock, MaxCrashes, LastCrash,
        MaxDbErrors, MaxFaults}
          \subseteq Nat
    /\ HeartbeatInterval + HeartbeatSlack < LeaseDuration

VARIABLES
    up,       \* processes that are running
    tick,     \* the polling loop of each process
    job,      \* the task executing each claim
    probe,    \* the transaction that has looked at a goal and holds the
              \* write lock of state.db
    crashes,  \* crashes so far
    dbErrors  \* failed database calls so far

runtimeVars == <<up, tick, job, probe, crashes, dbErrors>>

-----------------------------------------------------------------------------
Cadence == [period |-> Period, maxFailures |-> MaxFailures,
            backoffBase |-> BackoffBase, backoffCap |-> BackoffCap]

(* schedule_local_active_fresh_after; last_seen is never negative.          *)
FreshAfter(now) == MaxOf(0, now - StaleAfter)

IdleTick == [pc |-> "idle", now |-> 0, left |-> 0, waits |-> NULL]

(* hb: the lease heartbeat task; "lost" is the cancelled ownership_lost     *)
(* token.  beat: when the heartbeat timer fires.  turn: the turn was        *)
(* submitted, so the polling loop no longer waits.  at, failed, next: the   *)
(* completed_at or retry_at, the error and the next run of the finish.      *)
NoJob == [pc |-> "none", proc |-> NULL, sid |-> NULL, goal_id |-> NULL,
          hb |-> "off", beat |-> 0, turn |-> FALSE,
          at |-> 0, failed |-> FALSE, next |-> NULL]

NewJob(p, s) == [NoJob EXCEPT !.pc = "claimed", !.proc = p, !.sid = s]

Running(r) == job[r].pc \notin {"none", "done", "dead"}
At(r, pc) == job[r].pc = pc /\ up[job[r].proc]

Step(r, pc) == job' = [job EXCEPT ![r].pc = pc]

(* The task has returned; what is left is its heartbeat, and the turn id by *)
(* which a later event can find the run.                                    *)
Return(r) ==
    job' = [job EXCEPT ![r] = [@ EXCEPT !.pc = "done", !.goal_id = NULL,
                  !.at = 0, !.failed = FALSE, !.next = NULL]]

(* fail_claimed_run_after_submit_error: an error that ends the submission   *)
(* finishes the run as failed, with the goal the error carries.             *)
Fail(r, g) ==
    job' = [job EXCEPT ![r] = [@ EXCEPT !.pc = "ending", !.goal_id = g,
                                        !.failed = TRUE, !.at = clock]]

(* defer_claimed_run: the run is handed back for a later retry.             *)
Postpone(r, retryAt) ==
    job' = [job EXCEPT ![r] = [@ EXCEPT !.pc = "deferring", !.at = retryAt]]

MayFault == crashes + dbErrors < MaxFaults

RuntimeRest == UNCHANGED <<up, tick, probe, crashes, dbErrors>>

-----------------------------------------------------------------------------
(* Looking at a goal *)

(***************************************************************************)
(* A claim or a finish that has a goal to look at does so inside its       *)
(* BEGIN IMMEDIATE transaction: from then on no other writer of state.db   *)
(* gets in, but goals.db is free (its read transaction is deferred), so the*)
(* goal may be held or released before the commit.  A transaction without a*)
(* goal to look at is one step.                                            *)
(***************************************************************************)
Look(by, p, s, r) ==
    /\ probe = NULL
    /\ probe' = [by |-> by, proc |-> p, s |-> s, run |-> r, at |-> clock,
                 seen |-> goal]

Open(by, p, s, r) ==
    /\ probe # NULL
    /\ probe.by = by /\ probe.proc = p /\ probe.s = s /\ probe.run = r

(* One of the goals is on hold in what was seen of goals.db.                *)
FoundHeld_Never(seen, goals) == FALSE  \* mutant
FoundHeld(seen, goals) ==
    \E g \in goals \ {NULL} : seen.goal_id = g /\ seen.held

(* The transaction commits with what it found when it looked for the goals, *)
(* which the rows it has locked name.                                       *)
Commit(by, p, s, r, goals, hold) ==
    /\ IF GoalCanPause(s, goals)
       THEN Open(by, p, s, r) /\ hold = FoundHeld(probe.seen, goals)
       ELSE probe = NULL /\ hold = FALSE
    /\ probe' = NULL

(* No other writer while a transaction is open.                             *)
WriteLock ==
    probe # NULL /\ probe' # NULL => UNCHANGED <<sched, run, issued, session>>

ClaimLooks(s) == GoalCanPause(s, ReapedGoals(s))

-----------------------------------------------------------------------------
(* The polling loop *)

(* tick: take the time once, expire what is due to expire.                  *)
TickBegin(p) ==
    /\ up[p] /\ tick[p].pc = "idle"
    /\ ExpireSchedules(clock)
    /\ tick' = [tick EXCEPT ![p] = [IdleTick EXCEPT
                  !.pc = "claiming", !.now = clock, !.left = MaxClaimsPerTick]]
    /\ UNCHANGED <<up, job, probe, crashes, dbErrors>>

(* One iteration claims with the time of the tick, however old it is by now *)
TickLook(p, s) ==
    LET now == tick[p].now IN
    /\ up[p] /\ tick[p].pc = "claiming"
    /\ FirstDue(p, s, now, FreshAfter(now)) /\ ClaimLooks(s)
    /\ FoundHeld(goal, ReapedGoals(s)) \/ FreshIds # {}  \* the bound on runs
    /\ Look("tick", p, s, NULL)
    /\ UNCHANGED <<up, tick, job, crashes, dbErrors, storeVars>>

TickClaim(p, s, r) ==
    LET now == tick[p].now IN
    /\ up[p] /\ tick[p].pc = "claiming"
    /\ Commit("tick", p, s, NULL, ReapedGoals(s), FALSE)
    /\ ClaimDue(p, s, r, now, FreshAfter(now))
    /\ job' = [job EXCEPT ![r] = NewJob(p, s)]
    /\ tick' = [tick EXCEPT ![p].pc = "waiting", ![p].waits = r]
    /\ UNCHANGED <<up, crashes, dbErrors>>

(* The claim pauses a schedule on a goal hold and returns None, which also  *)
(* ends the tick.                                                           *)
TickClaimHeld(p, s) ==
    LET now == tick[p].now IN
    /\ up[p] /\ tick[p].pc = "claiming"
    /\ Commit("tick", p, s, NULL, ReapedGoals(s), TRUE)
    /\ FirstDue(p, s, now, FreshAfter(now))
    /\ ClaimHeld(p, s, now, FreshAfter(now))
    /\ tick' = [tick EXCEPT ![p] = IdleTick]
    /\ UNCHANGED <<up, job, crashes, dbErrors>>

(* Nothing is due (or the bound on runs is reached). *)
TickEnd(p) ==
    LET now == tick[p].now IN
    /\ up[p] /\ tick[p].pc = "claiming"
    /\ \/ \A s \in Schedules : ~Due(p, s, now, FreshAfter(now))
       \/ FreshIds = {} /\ probe = NULL
    /\ tick' = [tick EXCEPT ![p] = IdleTick]
    /\ UNCHANGED <<up, job, probe, crashes, dbErrors, storeVars>>

(* execute_claim returned: the turn is submitted, or the run has ended.     *)
TickResume(p) ==
    LET t == tick[p] IN
    /\ up[p] /\ t.pc = "waiting"
    /\ job[t.waits].turn \/ job[t.waits].pc = "done"
    /\ tick' = [tick EXCEPT ![p] =
         IF t.left = 1 THEN IdleTick
         ELSE [t EXCEPT !.pc = "claiming", !.left = t.left - 1,
                        !.waits = NULL]]
    /\ UNCHANGED <<up, job, probe, crashes, dbErrors, storeVars>>

(* thread/schedule/runNow: claim with the time of the request, execute in a *)
(* task of its own.                                                         *)
RunNowLook(p, s) ==
    /\ up[p] /\ s \in MayRunNow
    /\ Claimable(p, s, clock, FreshAfter(clock)) /\ ClaimLooks(s)
    /\ FoundHeld(goal, ReapedGoals(s)) \/ FreshIds # {}  \* the bound on runs
    /\ Look("runNow", p, s, NULL)
    /\ UNCHANGED <<up, tick, job, crashes, dbErrors, storeVars>>

(* The now of the request: it began when its transaction looked at the goal. *)
RequestTime == IF probe = NULL THEN clock ELSE probe.at

RunNow(p, s, r) ==
    LET now == RequestTime IN
    /\ up[p] /\ s \in MayRunNow
    /\ Commit("runNow", p, s, NULL, ReapedGoals(s), FALSE)
    /\ ClaimNow(p, s, r, now, FreshAfter(now))
    /\ job' = [job EXCEPT ![r] = NewJob(p, s)]
    /\ UNCHANGED <<up, tick, crashes, dbErrors>>

RunNowHeld(p, s) ==
    LET now == RequestTime IN
    /\ up[p] /\ s \in MayRunNow
    /\ Commit("runNow", p, s, NULL, ReapedGoals(s), TRUE)
    /\ ClaimHeld(p, s, now, FreshAfter(now))
    /\ UNCHANGED <<up, tick, job, crashes, dbErrors>>

-----------------------------------------------------------------------------
(* Executing a claim *)

(* A call of the submission returns an error: resolving the prompt, loading *)
(* the thread or setting the goal (no goal id yet), marking the run started,*)
(* starting the heartbeat, or the extend before the turn.                   *)
SubmitError(r) ==
    /\ \E pc \in {"claimed", "goalRead", "prepared", "started",
                  "tracked"} : At(r, pc)
    /\ Fail(r, job[r].goal_id)
    /\ RuntimeRest /\ UNCHANGED storeVars

(* Every auth profile is exhausted until a retry time.                      *)
WaitForUsageProfile(r) ==
    /\ At(r, "claimed")
    /\ Postpone(r, clock + RetryDelay)
    /\ RuntimeRest /\ UNCHANGED storeVars

(* prepare_scheduled_goal: a held goal ends the submission ...              *)
ReadGoal(r) ==
    LET s == job[r].sid IN
    /\ At(r, "claimed") /\ s \in GoalSchedules
    /\ IF GoalHeld(s) THEN Fail(r, s) ELSE Step(r, "goalRead")
    /\ RuntimeRest /\ UNCHANGED storeVars

(* ... otherwise, in a later transaction, the objective becomes the active  *)
(* goal of the thread, whatever has happened to the goal in between.        *)
PrepareGoal(r) ==
    LET s == job[r].sid IN
    /\ At(r, "goalRead")
    /\ SetGoal(s, FALSE)
    /\ job' = [job EXCEPT ![r].pc = "prepared", ![r].goal_id = s]
    /\ RuntimeRest

StartRun(r) ==
    LET s == job[r].sid
        g == job[r].goal_id
    IN
    /\ At(r, "prepared") \/ (At(r, "claimed") /\ s \notin GoalSchedules)
    /\ IF CanMarkStarted(s, r, clock)
       THEN MarkStarted(s, r, g, clock) /\ Step(r, "started")
       ELSE Fail(r, g) /\ UNCHANGED storeVars
    /\ RuntimeRest

(* start_lease_heartbeat extends the lease once and spawns the heartbeat.   *)
StartHeartbeat(r) ==
    LET s == job[r].sid IN
    /\ At(r, "started")
    /\ IF CanExtend(s, r, clock)
       THEN /\ ExtendLease(s, r, clock)
            /\ job' = [job EXCEPT ![r] = [@ EXCEPT !.pc = "tracked",
                         !.hb = "on", !.beat = clock + HeartbeatInterval]]
       ELSE Fail(r, job[r].goal_id) /\ UNCHANGED storeVars
    /\ RuntimeRest

(* submit_scheduled_turn_if_owned, up to the extend that must succeed.      *)
CheckOwnership(r) ==
    LET s == job[r].sid IN
    /\ At(r, "tracked")
    /\ IF job[r].hb # "lost" /\ CanExtend(s, r, clock)
       THEN ExtendLease(s, r, clock) /\ Step(r, "submitting")
       ELSE Fail(r, job[r].goal_id) /\ UNCHANGED storeVars
    /\ RuntimeRest

(* The biased select: a cancelled ownership token wins over the submission. *)
SubmitTurn(r) ==
    /\ At(r, "submitting")
    /\ IF job[r].hb = "lost"
       THEN Fail(r, job[r].goal_id)
       ELSE job' = [job EXCEPT ![r].pc = "turn", ![r].turn = TRUE]
    /\ RuntimeRest /\ UNCHANGED storeVars

(* The thread rejects the turn: busy or pending mailbox work defers the run,*)
(* plan mode fails it.                                                      *)
RejectTurn(r) ==
    /\ At(r, "submitting") /\ job[r].hb # "lost"
    /\ \/ Postpone(r, clock + RetryDelay)
       \/ Fail(r, job[r].goal_id)
    /\ RuntimeRest /\ UNCHANGED storeVars

Heartbeat(r) ==
    LET s == job[r].sid IN
    /\ job[r].hb = "on" /\ clock >= job[r].beat
    /\ IF CanExtend(s, r, clock)
       THEN /\ ExtendLease(s, r, clock)
            /\ job' = [job EXCEPT ![r].beat = clock + HeartbeatInterval]
       ELSE /\ job' = [job EXCEPT ![r].hb = "lost"]
            /\ UNCHANGED storeVars
    /\ RuntimeRest

-----------------------------------------------------------------------------
(* Ending a run *)

(* A terminal event of the turn; failed when it is an error, an abort, or a *)
(* completion without a final message.                                      *)
TurnEnds(r, failed) ==
    /\ At(r, "turn")
    /\ job' = [job EXCEPT ![r] = [@ EXCEPT !.pc = "ending",
                                  !.failed = failed, !.at = clock]]
    /\ RuntimeRest /\ UNCHANGED storeVars

(* A second terminal event of a turn (an error is followed by the end of    *)
(* the turn): recover_scheduled_run_for_terminal_turn finds the run only    *)
(* while its row still says running.                                        *)
RecoverRun(r, failed) ==
    /\ At(r, "done") /\ job[r].turn
    /\ run[r].status = "running"
    /\ job' = [job EXCEPT ![r] = [@ EXCEPT !.pc = "ending",
                  !.goal_id = run[r].goal_id, !.failed = failed, !.at = clock]]
    /\ RuntimeRest /\ UNCHANGED storeVars

(* finish_scheduled_run_state reads the schedule and the run, outside of    *)
(* the transaction that finishes them, and computes the next run.           *)
FinishRead(r) ==
    LET s == job[r].sid IN
    /\ At(r, "ending")
    /\ IF Exists(s)
       THEN job' = [job EXCEPT ![r] = [@ EXCEPT !.pc = "finishing",
                      !.next = NextAfterFinish(sched[s], run[r].scheduled_for,
                                      job[r].at, job[r].failed, Cadence)]]
       ELSE Return(r)
    /\ RuntimeRest /\ UNCHANGED storeVars

FinishLooks(r) == GoalCanPause(job[r].sid, {job[r].goal_id})

FinishLook(r) ==
    LET j == job[r] IN
    /\ At(r, "finishing")
    /\ CanFinish(j.sid, r, j.goal_id) /\ FinishLooks(r)
    /\ Look("finish", j.proc, j.sid, r)
    /\ UNCHANGED <<up, tick, job, crashes, dbErrors, storeVars>>

FinishWrite(r) ==
    LET j == job[r] IN
    /\ At(r, "finishing")
    /\ \E hold \in BOOLEAN :
          /\ Commit("finish", j.proc, j.sid, r, {j.goal_id}, hold)
          /\ FinishRun(j.sid, r, j.at, j.next, j.goal_id, j.failed, hold)
    /\ Return(r)
    /\ UNCHANGED <<up, tick, crashes, dbErrors>>

(* The run is no longer this task's to finish: false, and nothing written.  *)
FinishMiss(r) ==
    LET j == job[r] IN
    /\ At(r, "finishing")
    /\ ~CanFinish(j.sid, r, j.goal_id)
    /\ Return(r)
    /\ RuntimeRest /\ UNCHANGED storeVars

DeferWrite(r) ==
    LET j == job[r] IN
    /\ At(r, "deferring")
    /\ IF CanDefer(j.sid, r) THEN DeferRun(j.sid, r, j.at)
       ELSE UNCHANGED storeVars
    /\ Return(r)
    /\ RuntimeRest

(* The finish or the deferral fails for good: a warning, and nothing else.  *)
FinishError(r) ==
    /\ dbErrors < MaxDbErrors /\ MayFault
    /\ At(r, "ending") \/ At(r, "finishing") \/ At(r, "deferring")
    /\ Return(r)
    /\ probe' = IF probe # NULL /\ probe.run = r THEN NULL ELSE probe
    /\ dbErrors' = dbErrors + 1
    /\ UNCHANGED <<up, tick, crashes, storeVars>>

(* The heartbeat's extend fails: the task gives up its ownership.           *)
HeartbeatError(r) ==
    /\ dbErrors < MaxDbErrors /\ MayFault
    /\ job[r].hb = "on" /\ clock >= job[r].beat
    /\ job' = [job EXCEPT ![r].hb = "lost"]
    /\ dbErrors' = dbErrors + 1
    /\ UNCHANGED <<up, tick, probe, crashes, storeVars>>

-----------------------------------------------------------------------------
(* Environment *)

(* A crash takes the process's tasks with it; the database stays, and an    *)
(* open transaction is rolled back.                                         *)
Crash(p) ==
    /\ p \in Crashable /\ up[p]
    /\ crashes < MaxCrashes /\ clock <= LastCrash /\ MayFault
    /\ up' = [up EXCEPT ![p] = FALSE]
    /\ job' = [r \in RunIds |-> IF job[r].proc = p
                                THEN [NoJob EXCEPT !.pc = "dead"]
                                ELSE job[r]]
    /\ tick' = [tick EXCEPT ![p] = IdleTick]
    /\ probe' = IF probe # NULL /\ probe.proc = p THEN NULL ELSE probe
    /\ crashes' = crashes + 1
    /\ UNCHANGED <<dbErrors, storeVars>>

Restart(p) ==
    /\ ~up[p]
    /\ up' = [up EXCEPT ![p] = TRUE]
    /\ UNCHANGED <<tick, job, probe, crashes, dbErrors, storeVars>>

(* Time passes, but no heartbeat timer fires later than its slack.          *)
TimePasses ==
    /\ clock < MaxClock
    /\ \A r \in RunIds :
          job[r].hb = "on" => clock < job[r].beat + HeartbeatSlack
    /\ Advance(clock + 1)
    /\ UNCHANGED runtimeVars

(* A process with the thread loaded shows it live, or unloads the thread.   *)
ShowActive(p) ==
    /\ up[p] /\ p \in SessionProcs
    /\ SessionHeartbeat(p, clock) \/ SessionPrune(p, clock)
    /\ UNCHANGED runtimeVars

(* The user or the goal runtime holds or releases the thread's goal.        *)
GoalChanges ==
    /\ goal.goal_id # NULL
    /\ SetGoal(goal.goal_id, ~goal.held)
    /\ UNCHANGED runtimeVars

-----------------------------------------------------------------------------
RuntimeInit ==
    /\ up = [p \in Procs |-> TRUE]
    /\ tick = [p \in Procs |-> IdleTick]
    /\ job = [r \in RunIds |-> NoJob]
    /\ probe = NULL
    /\ crashes = 0
    /\ dbErrors = 0

PollStep(p) ==
    \/ TickBegin(p) \/ TickEnd(p) \/ TickResume(p)
    \/ \E s \in Schedules : TickLook(p, s) \/ TickClaimHeld(p, s)
    \/ \E s \in Schedules, r \in RunIds : TickClaim(p, s, r)

(* Steps of a job that the code takes without waiting for anything outside. *)
JobStep(r) ==
    \/ ReadGoal(r) \/ PrepareGoal(r) \/ StartRun(r) \/ StartHeartbeat(r)
    \/ CheckOwnership(r) \/ SubmitTurn(r)
    \/ FinishRead(r) \/ FinishLook(r) \/ FinishWrite(r) \/ FinishMiss(r)
    \/ DeferWrite(r)

JobEvent(r) ==
    \/ SubmitError(r) \/ WaitForUsageProfile(r) \/ RejectTurn(r)
    \/ FinishError(r) \/ HeartbeatError(r)
    \/ \E failed \in BOOLEAN : RecoverRun(r, failed)

RuntimeNext ==
    \/ \E p \in Procs : \/ PollStep(p) \/ Crash(p) \/ Restart(p)
                        \/ ShowActive(p)
                        \/ \E s \in Schedules : \/ RunNowLook(p, s)
                                               \/ RunNowHeld(p, s)
    \/ \E p \in Procs, s \in Schedules, r \in RunIds : RunNow(p, s, r)
    \/ \E r \in RunIds : \/ JobStep(r) \/ JobEvent(r) \/ Heartbeat(r)
                         \/ \E failed \in BOOLEAN : TurnEnds(r, failed)
    \/ TimePasses
    \/ GoalChanges

==============================================================================
