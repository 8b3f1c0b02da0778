------------------------- MODULE MCThreadSchedules -------------------------
(* Instances of ThreadSchedules for TLC. *)
EXTENDS ThreadSchedules

NoSet == {}

(* Times a caller can name within the bounds: the clock plus one delay.     *)
MCTimes == 0 .. (MaxClock + LeaseDuration + Period + BackoffCap + RetryDelay)

Recurring == [kind |-> "interval", next_run_at |-> 0, expires_at |-> NULL]
Expiring3 == [kind |-> "interval", next_run_at |-> 0, expires_at |-> 3]
OneTime   == [kind |-> "once", next_run_at |-> 1, expires_at |-> NULL]

NewRecurring == {Recurring}
NewExpiring == {Expiring3}
NewMixed == {Expiring3, OneTime}

(* An edit of the prompt only, of the cadence, and of both times.           *)
EditsOfAll ==
    {KeepAll,
     [KeepAll EXCEPT !.status = "active", !.kind = "cron"],
     [KeepAll EXCEPT !.next_run_at = 2, !.expires_at = 4]}

==============================================================================
