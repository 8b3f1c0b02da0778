--------------------------- MODULE ScheduleCadence ---------------------------
(***************************************************************************)
(* When a thread schedule runs next: the arithmetic of                     *)
(* app-server/src/request_processors/thread_schedule_runtime.rs.           *)
(*                                                                         *)
(* Time is a natural number of ticks.  The source works in chrono          *)
(* timestamps and returns None when an addition leaves chrono's range;     *)
(* that range is not modelled, so the checked additions always succeed.    *)
(* A "dynamic" schedule is an interval schedule with a fixed period, so    *)
(* the two share the kind "interval" here.                                 *)
(***************************************************************************)
EXTENDS Integers

CONSTANT NULL     \* Option::None

ASSUME NULLAssumption == NULL \notin Int

Kinds == {"once", "interval", "cron"}

MaxOf(a, b) == IF a >= b THEN a ELSE b
MinOf(a, b) == IF a <= b THEN a ELSE b

(***************************************************************************)
(* External: the cron library's find_next_occurrence with inclusive =      *)
(* false, for an expression that fires at every multiple of period.        *)
(***************************************************************************)
CronNext(period, after) == (after \div period + 1) * period

(* next_thread_schedule_run_at: the first run after a moment in time. *)
NextRunAt_OnceRecurs(kind, period, after) ==  \* mutant
    IF kind = "interval" THEN after + period ELSE CronNext(period, after)
NextRunAt(kind, period, after) ==
    CASE kind = "once"     -> NULL
      [] kind = "interval" -> after + period
      [] kind = "cron"     -> CronNext(period, after)

(***************************************************************************)
(* The interval branch of next_thread_schedule_run_after_completion: the   *)
(* next beat of the cadence the run belonged to, or, when the run outlived *)
(* that beat, the first beat after its completion.                         *)
(***************************************************************************)
(* Mutant: measured from the completion.                                    *)
NextBeat_Drifts(period, scheduledFor, completedAt) == completedAt + period
NextBeat(period, scheduledFor, completedAt) ==
    IF scheduledFor + period > completedAt
    THEN scheduledFor + period
    ELSE scheduledFor
           + period * ((completedAt - scheduledFor) \div period + 1)

(* next_thread_schedule_run_after_completion *)
NextRunAfterCompletion(kind, period, scheduledFor, completedAt) ==
    IF kind = "interval" /\ scheduledFor # NULL
    THEN NextBeat(period, scheduledFor, completedAt)
    ELSE NextRunAt(kind, period, completedAt)

(***************************************************************************)
(* schedule_failure_backoff_run_at: base * 2^(failures - 1), the exponent  *)
(* clamped to 0 .. 7 and the product to cap, never before the natural run. *)
(***************************************************************************)
BackoffDelay(base, cap, failures) ==
    MinOf(base * 2 ^ MaxOf(0, MinOf(7, failures - 1)), cap)

FailureBackoffRunAt(naturalNext, completedAt, failures, base, cap) ==
    MaxOf(naturalNext, completedAt + BackoffDelay(base, cap, failures))

(***************************************************************************)
(* The decision of finish_scheduled_run_state: the next_run_at it passes   *)
(* to the store for a schedule row it has read.  NULL means the schedule   *)
(* stops: a one-time schedule is spent, the failure streak trips the       *)
(* circuit breaker, or the next run would not precede the expiry.          *)
(***************************************************************************)
NextAfterFinish_OneMore(row, scheduledFor, completedAt, failed, cfg) ==
    LET natural  == NextRunAfterCompletion(row.kind, cfg.period,
                                           scheduledFor, completedAt)
        failures == row.failure_count + 1                    \* mutant
    IN  IF ~failed THEN natural
        ELSE IF failures > cfg.maxFailures THEN NULL
        ELSE FailureBackoffRunAt(natural, completedAt, failures,
                                 cfg.backoffBase, cfg.backoffCap)
NextAfterFinish(row, scheduledFor, completedAt, failed, cfg) ==
    LET natural  == NextRunAfterCompletion(row.kind, cfg.period,
                                           scheduledFor, completedAt)
        failures == row.failure_count + 1
        next     == IF ~failed \/ natural = NULL THEN natural
                    ELSE IF failures >= cfg.maxFailures THEN NULL
                    ELSE FailureBackoffRunAt(natural, completedAt, failures,
                                             cfg.backoffBase, cfg.backoffCap)
    IN  IF next # NULL /\ row.expires_at # NULL /\ next >= row.expires_at
        THEN NULL
        ELSE next

==============================================================================
