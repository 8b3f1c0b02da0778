---------------------------- MODULE CadenceTrain ----------------------------
(***************************************************************************)
(* The run times of one recurring schedule, one completion after another:  *)
(* the arithmetic of ScheduleCadence iterated the way claims and finishes  *)
(* iterate it (a due claim copies next_run_at to scheduled_for; the finish *)
(* computes the next next_run_at from it).                                 *)
(***************************************************************************)
EXTENDS ScheduleCadence

CONSTANTS
    Period,        \* the interval
    Origin,        \* the first next_run_at
    MaxFailures,   \* MAX_CONSECUTIVE_SCHEDULE_FAILURES
    BackoffBase, BackoffCap,
    Horizon        \* bound: latest completion

ASSUME CadenceAssumption ==
    /\ Period \in Nat \ {0}
    /\ MaxFailures \in Nat \ {0}
    /\ BackoffBase \in Nat \ {0}
    /\ BackoffCap \in Nat \ {0}
    /\ Origin \in Nat
    /\ Horizon \in Nat

VARIABLES
    due,      \* next_run_at, NULL when the schedule has stopped
    done,     \* completed_at of the last run
    streak,   \* failure_count
    clean     \* no run has failed so far

trainVars == <<due, done, streak, clean>>

TrainCadence == [period |-> Period, maxFailures |-> MaxFailures,
                 backoffBase |-> BackoffBase, backoffCap |-> BackoffCap]

TrainInit == due = Origin /\ done = Origin - 1 /\ streak = 0 /\ clean = TRUE

(* The run due now completes at time t, which the schedule row outlives.    *)
Complete(t, failed) ==
    /\ due # NULL /\ t >= due
    /\ due' = NextAfterFinish([kind |-> "interval", failure_count |-> streak,
                               expires_at |-> NULL],
                              due, t, failed, TrainCadence)
    /\ done' = t
    /\ streak' = IF failed THEN streak + 1 ELSE 0
    /\ clean' = (clean /\ ~failed)

TrainNext == \E t \in 0 .. Horizon, failed \in BOOLEAN : Complete(t, failed)

TrainSpec == TrainInit /\ [][TrainNext]_trainVars

-----------------------------------------------------------------------------
(***************************************************************************)
(* A schedule that has not failed keeps its phase, and skips a beat only if*)
(* the run that was in progress had outlived it: due is the first beat     *)
(* after the completion, whatever the completion times were, so a run that *)
(* outlives several periods is followed by one run and not by a burst of   *)
(* overdue ones (next_thread_schedule_run_after_completion).               *)
(***************************************************************************)
NextIsFirstBeat ==
    clean => /\ due # NULL
             /\ (due - Origin) % Period = 0
             /\ due > done /\ due - Period <= done

(***************************************************************************)
(* The streak that stops the schedule is exactly MaxFailures long, and the *)
(* next run is in the future, at most a period or the largest backoff away *)
(* (finish_scheduled_run_state, schedule_failure_backoff_run_at).          *)
(***************************************************************************)
StopsAtMaxFailures ==
    /\ due = NULL <=> streak >= MaxFailures
    /\ streak <= MaxFailures
    /\ due # NULL => due - done \in 1 .. MaxOf(Period, BackoffCap)

==============================================================================
