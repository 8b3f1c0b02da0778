--------------------------- MODULE ThreadSchedules ---------------------------
(***************************************************************************)
(* Thread schedules as a whole: the runtimes of the processes and the      *)
(* requests that create, edit, pause, resume and delete schedules          *)
(* (thread_schedule_processor.rs) against the shared tables.  A request    *)
(* loads the schedule, validates, and writes in a later transaction; an    *)
(* update reads the row once more inside update_thread_schedule, still     *)
(* before its transaction.                                                 *)
(***************************************************************************)
EXTENDS ThreadScheduleRuntime

CONSTANTS
    Editors,          \* clients with a request in progress
    Keep,             \* a field the patch leaves alone
    NewSchedules,     \* [kind, next_run_at, expires_at] of create requests
    Patches,          \* patches of thread/schedule/update requests
    MayPause,         \* schedules that pause requests name
    MayResume,        \* schedules that resume requests name
    MayDelete,        \* schedules that delete requests name
    ScheduleLimit,    \* MAX_SCHEDULE_LIMIT
    MaxEdits          \* bound: requests other than creations

(* A patch of a schedule: each field has a new value or is left alone.      *)
Patch == [status : {Keep, "active", "paused", "expired"},
          kind : Kinds \cup {Keep},
          next_run_at : OptTime \cup {Keep},
          expires_at : OptTime \cup {Keep}]

ASSUME RequestAssumption ==
    /\ Keep \notin Int
    /\ Keep \notin {NULL, "active", "paused", "expired"} \cup Kinds
    /\ {MayPause, MayResume, MayDelete} \subseteq SUBSET Schedules
    /\ ScheduleLimit \in Nat /\ MaxEdits \in Nat
    /\ Patches \subseteq Patch
    /\ \A n \in NewSchedules :
          /\ n.kind \in Kinds
          /\ n.next_run_at \in Nat
          /\ n.expires_at \in Nat \cup {NULL}

VARIABLES
    edit,     \* the request each client is executing
    edits     \* requests so far

vars == <<storeVars, runtimeVars, edit, edits>>

-----------------------------------------------------------------------------
NoEdit == [pc |-> "idle"]
KeepAll == [status |-> Keep, kind |-> Keep, next_run_at |-> Keep,
            expires_at |-> Keep]

Or(value, old) == IF value = Keep THEN old ELSE value
Merge(patch, row) ==
    [status |-> Or(patch.status, row.status), kind |-> Or(patch.kind, row.kind),
     next_run_at |-> Or(patch.next_run_at, row.next_run_at),
     expires_at |-> Or(patch.expires_at, row.expires_at)]

(* validate_schedule_expiry *)
ValidExpiry(next, expires) == NULL \notin {next, expires} => expires > next

Idle(e) == edit[e].pc = "idle"
Begin(e, request) ==
    /\ Idle(e) /\ edits < MaxEdits
    /\ edit' = [edit EXCEPT ![e] = request]
    /\ edits' = edits + 1
Continue(e, request) ==
    /\ edit' = [edit EXCEPT ![e] = request]
    /\ UNCHANGED edits
NotRuntime == UNCHANGED runtimeVars

-----------------------------------------------------------------------------
(* thread_schedule_create_inner: count the schedules, insert later.         *)
CreateCheck(e, s, new) ==
    /\ Idle(e)
    /\ sched[s].status = "absent"
    /\ \A d \in Editors : edit[d].pc = "creating" => edit[d].s # s
    /\ ValidExpiry(new.next_run_at, new.expires_at)
    /\ Cardinality({q \in Schedules : sched[q].status \in {"active", "paused"}})
         < ScheduleLimit
    /\ Continue(e, [pc |-> "creating", s |-> s, new |-> new])
    /\ NotRuntime /\ UNCHANGED storeVars

CreateInsert(e) ==
    LET q == edit[e] IN
    /\ q.pc = "creating"
    /\ CreateSchedule(q.s, q.new.kind, q.new.next_run_at, q.new.expires_at)
    /\ Continue(e, NoEdit)
    /\ NotRuntime

(* thread_schedule_update_inner up to the store call.  The patch it sends   *)
(* on carries a run time of its own when the cadence changes, or when the   *)
(* schedule it loaded would be active without one.                          *)
PatchToSend(row, patch) ==
    LET kind  == Or(patch.kind, row.kind)
        moved == IF patch.next_run_at = Keep /\ patch.kind # Keep
                                             /\ kind # "once"
                 THEN [patch EXCEPT !.next_run_at =
                                       NextRunAt(kind, Period, clock)]
                 ELSE patch
        m     == Merge(moved, row)
    IN  IF m.status = "active" /\ m.next_run_at = NULL
        THEN [moved EXCEPT !.next_run_at = NextRunAt(kind, Period, clock)]
        ELSE moved

Accepted(row, patch) ==
    LET m == Merge(PatchToSend(row, patch), row) IN
    /\ m.kind = "once" /\ row.next_run_at = NULL =>
          ~(patch.kind # Keep /\ patch.next_run_at = Keep)
    /\ m.status = "active" => /\ m.next_run_at # NULL
                              /\ NotExpiredAt(m, clock)
    /\ ValidExpiry(m.next_run_at, m.expires_at)

UpdateLoad(e, s, patch) ==
    /\ Exists(s)
    /\ Accepted(sched[s], patch)
    /\ Begin(e, [pc |-> "loaded", s |-> s,
                 patch |-> PatchToSend(sched[s], patch)])
    /\ NotRuntime /\ UNCHANGED storeVars

(* thread/schedule/pause: set_thread_schedule_status(Paused).               *)
PauseLoad(e, s) ==
    /\ Exists(s) /\ s \in MayPause
    /\ Begin(e, [pc |-> "loaded", s |-> s,
                 patch |-> [KeepAll EXCEPT !.status = "paused"]])
    /\ NotRuntime /\ UNCHANGED storeVars

(* update_thread_schedule reads the row and merges the patch into it ...    *)
UpdateRead(e) ==
    LET q == edit[e] IN
    /\ q.pc = "loaded"
    /\ Continue(e, IF Exists(q.s)
                   THEN [pc |-> "merged", s |-> q.s,
                         merged |-> Merge(q.patch, sched[q.s]),
                         reset |-> q.patch.status = "active"]
                   ELSE NoEdit)
    /\ NotRuntime /\ UNCHANGED storeVars

(* ... and writes the merged columns in a transaction.                      *)
UpdateWrite(e) ==
    LET q == edit[e] IN
    /\ q.pc = "merged"
    /\ IF Exists(q.s) THEN UpdateSchedule(q.s, q.merged, q.reset)
       ELSE UNCHANGED storeVars
    /\ Continue(e, NoEdit)
    /\ NotRuntime

(* thread/schedule/resume: validate what was loaded, resume later.          *)
ResumeLoad(e, s) ==
    LET row  == sched[s]
        next == IF row.next_run_at = NULL
                THEN NextRunAt(row.kind, Period, clock) ELSE row.next_run_at
    IN
    /\ Exists(s) /\ s \in MayResume
    /\ NotExpiredAt(row, clock)
    /\ next # NULL
    /\ ValidExpiry(next, row.expires_at)
    /\ Begin(e, [pc |-> "resuming", s |-> s,
                 next |-> IF row.next_run_at = NULL THEN next ELSE NULL])
    /\ NotRuntime /\ UNCHANGED storeVars

ResumeWrite(e) ==
    LET q == edit[e] IN
    /\ q.pc = "resuming"
    /\ IF Exists(q.s) THEN ResumeSchedule(q.s, q.next) ELSE UNCHANGED storeVars
    /\ Continue(e, NoEdit)
    /\ NotRuntime

Delete(e, s) ==
    /\ s \in MayDelete
    /\ DeleteSchedule(s)
    /\ Begin(e, NoEdit)
    /\ NotRuntime

-----------------------------------------------------------------------------
SystemInit == Init /\ RuntimeInit /\ edit = [e \in Editors |-> NoEdit]
                                  /\ edits = 0

RequestStep(e) ==
    \/ \E s \in Schedules, new \in NewSchedules : CreateCheck(e, s, new)
    \/ \E s \in Schedules, patch \in Patches : UpdateLoad(e, s, patch)
    \/ \E s \in Schedules : PauseLoad(e, s) \/ ResumeLoad(e, s) \/ Delete(e, s)
    \/ CreateInsert(e) \/ UpdateRead(e) \/ UpdateWrite(e) \/ ResumeWrite(e)

SystemNext ==
    /\ \/ RuntimeNext /\ UNCHANGED <<edit, edits>>
       \/ \E e \in Editors : RequestStep(e)
    /\ WriteLock

SystemSpec == SystemInit /\ [][SystemNext]_vars

(***************************************************************************)
(* Fairness.  Each process polls on an interval timer; a task that is not  *)
(* waiting for anything is run by the executor; heartbeat timers fire; a   *)
(* turn ends (the agent loop emits a terminal event); a transaction that   *)
(* has begun ends; time passes.  A crash or a restart is never owed, and   *)
(* neither is any request.                                                 *)
(***************************************************************************)
Alone == WriteLock /\ UNCHANGED <<edit, edits>>

RunNowEnds(p) ==
    /\ probe # NULL
    /\ \E s \in Schedules : \/ RunNowHeld(p, s)
                            \/ \E r \in RunIds : RunNow(p, s, r)

Fairness ==
    /\ \A p \in Procs : /\ WF_vars(PollStep(p) /\ Alone)
                        /\ WF_vars(RunNowEnds(p) /\ Alone)
    /\ \A r \in RunIds :
          /\ WF_vars(JobStep(r) /\ Alone)
          /\ WF_vars(Heartbeat(r) /\ Alone)
          /\ WF_vars((\E failed \in BOOLEAN : TurnEnds(r, failed)) /\ Alone)
    /\ WF_vars(TimePasses /\ Alone)

FairSpec == SystemSpec /\ Fairness

-----------------------------------------------------------------------------
(* Properties *)

(* A run that this step ends was ended by its own task or by a request.     *)
HealthyKept ==
    \A r \in RunIds :
       Live(r) /\ job[r].hb = "on" /\ ~(Live(r))'
       => job'[r] # job[r] \/ edit' # edit \/ edits' # edits

(***************************************************************************)
(* A run whose heartbeat is alive is never taken away by another process:  *)
(* it leaves leased / running only by a step of its own task, or because a *)
(* request paused, expired or deleted the schedule.  Neither a claim, due  *)
(* or immediate and however old its idea of the time, nor the expiry of the*)
(* schedule reaps it (SCHEDULE_LEASE_HEARTBEAT_INTERVAL against            *)
(* SCHEDULE_LEASE_DURATION).                                               *)
(***************************************************************************)
HealthyRunIsKept == [][HealthyKept]_vars

(***************************************************************************)
(* A schedule that is active and not leased has a run time: otherwise no   *)
(* tick would ever claim it and nothing would ever stop it.  Finishing,    *)
(* deferring, reaping on a goal hold and expiring all end in a state that  *)
(* is either armed or stopped.                                             *)
(***************************************************************************)
ActiveIsArmed ==
    \A s \in Schedules : sched[s].status = "active" =>
                             sched[s].next_run_at # NULL

(* A run on a held goal that is finished or reaped in this step stops its   *)
(* loop, unless the transaction had looked at the goal before it was held.  *)
HeldStops ==
    \A s \in Schedules, r \in RunIds :
       /\ run[r].schedule_id = s /\ run[r].status = "running"
       /\ GoalHeld(run[r].goal_id) /\ sched[s].kind # "once"
       /\ run'[r].status \in {"completed", "failed"}
       /\ sched'[s].status = "active"
       => /\ probe # NULL /\ probe.s = s
          /\ ~(probe.seen.held /\ probe.seen.goal_id = run[r].goal_id)

(***************************************************************************)
(* A recurring /goal schedule does not run again by itself once its goal is*)
(* on hold: when the run that works on the held goal is finished, or reaped*)
(* by a later claim after a crash, its schedule is left paused or expired, *)
(* for the user to resume.  The look at goals.db and the commit to state.db*)
(* are not one step: the schedule stays active only when the goal was held *)
(* after this very transaction had looked at it, and then the next run     *)
(* meets the hold.  (A run that is deferred has not started its turn; it   *)
(* leaves the schedule active and looks at the goal when it is retried.)   *)
(***************************************************************************)
HeldGoalStopsSchedule == [][HeldStops]_vars

(***************************************************************************)
(* A one-time schedule is completed at most once, although a crashed or    *)
(* slow owner, the process that took over its lease, runNow and a second   *)
(* terminal event of the same turn may all try to finish it.               *)
(***************************************************************************)
OnceCompletesOnce ==
    \A s \in Schedules : sched[s].kind = "once" =>
       Cardinality({r \in RunIds : run[r].schedule_id = s
                                     /\ run[r].status = "completed"}) <= 1

(***************************************************************************)
(* Every run ends: a run that a process leased is eventually deferred,     *)
(* completed or failed, by that process or, when it crashes, by whoever    *)
(* claims the schedule after the lease has lapsed.                         *)
(***************************************************************************)
EveryRunEnds == \A r \in RunIds : Live(r) ~> ~Live(r)

==============================================================================
