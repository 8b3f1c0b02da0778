------------------------ MODULE ThreadSchedulesProofs ------------------------
(***************************************************************************)
(* Proofs about thread schedules as a whole: any number of processes that  *)
(* poll, crash and restart, of claims being executed, of heartbeats and of *)
(* requests in progress.                                                   *)
(*                                                                         *)
(* First, the system does nothing to the tables but what                   *)
(* ThreadScheduleStore lets a caller do (ScheduleSystemImplementsStore),   *)
(* so that what is proved about the tables holds of it.  Then the          *)
(* properties that need the tasks' own memory: their heartbeats, the goal  *)
(* they work on, and the rows that requests have read and not yet written. *)
(*                                                                         *)
(* The store's Spec takes moments from Times; here they are the clock plus *)
(* a delay, so Times is all of Nat.                                        *)
(***************************************************************************)
EXTENDS ThreadSchedules, ThreadScheduleStoreProofs, FiniteSetTheorems

(* What the tasks, the polling loops and the requests remember between two  *)
(* database calls.                                                          *)
Unstarted == {"claimed", "goalRead", "prepared"}
Started == {"started", "tracked", "submitting", "turn", "ending",
            "finishing", "deferring"}
JobRow == [pc : {"none", "done", "dead"} \cup Unstarted \cup Started,
           proc : Procs \cup {NULL}, sid : OptGoals, goal_id : OptGoals,
           hb : {"off", "on", "lost"}, beat : Nat, turn : BOOLEAN,
           at : Nat, failed : BOOLEAN, next : OptTime]

(* A task knows its schedule; so does the heartbeat that outlives it.       *)
Named(j) == \/ j.sid \in Schedules
            \/ j.pc \in {"none", "dead"} /\ j.hb = "off"

TickRow == [pc : {"idle", "claiming", "waiting"}, now : Nat, left : Int,
            waits : RunIds \cup {NULL}]

Creating == [pc : {"creating"}, s : Schedules, new : NewSchedules]
Loaded == [pc : {"loaded"}, s : Schedules, patch : Patch]
Merging == [pc : {"merged"}, s : Schedules, merged : Merged, reset : BOOLEAN]
Resuming == [pc : {"resuming"}, s : Schedules, next : OptTime]
EditRow == {NoEdit} \cup Creating \cup Loaded \cup Merging \cup Resuming

JobsOK == job \in [RunIds -> JobRow] /\ \A r \in RunIds : Named(job[r])
TicksOK == tick \in [Procs -> TickRow]
EditsOK == edit \in [Editors -> EditRow] /\ edits \in Nat
MemoryOK == JobsOK /\ TicksOK /\ EditsOK

(* A row of the run table belongs to a schedule. *)
RunsNamed == \A r \in RunIds : run[r].schedule_id = NULL =>
                                   run[r].status = "none"

(* A transaction that has looked at a goal began in the past. *)
ProbeOK == probe # NULL => probe.at \in Nat /\ probe.at <= clock

SystemInv == StoreInv /\ RunsNamed /\ MemoryOK /\ ProbeOK

-----------------------------------------------------------------------------
LEMMA SystemFacts ==
    /\ NULL \notin Nat /\ NULL \notin RunIds /\ NULL \notin Schedules
    /\ LeaseDuration \in Nat /\ HeartbeatInterval \in Nat
    /\ HeartbeatSlack \in Nat /\ RetryDelay \in Nat /\ StaleAfter \in Nat
    /\ MaxClaimsPerTick \in Nat /\ Period \in Nat \ {0}
    /\ MaxFailures \in Nat /\ BackoffBase \in Nat /\ BackoffCap \in Nat
    /\ HeartbeatInterval + HeartbeatSlack < LeaseDuration
  BY RuntimeAssumption, ConstantFacts, StoreAssumption

LEMMA KeepFacts ==
    /\ Keep \notin Nat /\ Keep # NULL
    /\ Keep \notin {"active", "paused", "expired"} /\ Keep \notin Kinds
    /\ Patches \subseteq Patch
    /\ \A n \in NewSchedules :
          n.kind \in Kinds /\ n.next_run_at \in Nat /\ n.expires_at \in OptTime
  BY RequestAssumption DEF OptTime

-----------------------------------------------------------------------------
(* The arithmetic of the cadence yields times. *)

Power(n) == 2 ^ n

LEMMA Powers == ASSUME NEW n \in 0 .. 7 PROVE 2 ^ n \in Nat
<1>1. /\ Power(0) = 1 /\ Power(1) = 2 /\ Power(2) = 4 /\ Power(3) = 8
      /\ Power(4) = 16 /\ Power(5) = 32 /\ Power(6) = 64 /\ Power(7) = 128
  BY DEF Power
<1>2. n = 0 \/ n = 1 \/ n = 2 \/ n = 3 \/ n = 4 \/ n = 5 \/ n = 6 \/ n = 7
  OBVIOUS
<1>3. Power(n) \in Nat
  BY <1>1, <1>2
<1> QED
  BY <1>3 DEF Power

LEMMA BackoffIsTime ==
    ASSUME NEW base \in Nat, NEW cap \in Nat, NEW failures \in Nat
    PROVE  BackoffDelay(base, cap, failures) \in Nat
<1> DEFINE n == MaxOf(0, MinOf(7, failures - 1))
           m == 2 ^ n
<1>1. n \in 0 .. 7
  BY DEF MaxOf, MinOf
<1> HIDE DEF n
<1>2. m \in Nat
  BY <1>1, Powers
<1>3. BackoffDelay(base, cap, failures) = MinOf(base * m, cap)
  BY DEF BackoffDelay, n
<1> HIDE DEF m
<1>4. base * m \in Nat
  BY <1>2
<1> QED
  BY <1>3, <1>4 DEF MinOf

LEMMA NextRunIsTime ==
    ASSUME NEW kind \in Kinds, NEW after \in Nat
    PROVE  /\ NextRunAt(kind, Period, after) \in OptTime
           /\ kind # "once" => NextRunAt(kind, Period, after) \in Nat
           /\ kind = "once" => NextRunAt(kind, Period, after) = NULL
<1>1. CronNext(Period, after) \in Nat
  <2> DEFINE d == after \div Period
  <2>1. d \in Nat
    BY SystemFacts
  <2> HIDE DEF d
  <2>2. (d + 1) * Period \in Nat
    BY <2>1, SystemFacts
  <2> QED
    BY <2>2 DEF CronNext, d
<1> QED
  BY <1>1, SystemFacts DEF NextRunAt, Kinds, OptTime

LEMMA NextBeatIsTime ==
    ASSUME NEW from \in Nat, NEW at \in Nat
    PROVE  NextBeat(Period, from, at) \in Nat
<1>1. CASE from + Period > at
  BY <1>1, SystemFacts DEF NextBeat
<1>2. CASE ~(from + Period > at)
  <2> DEFINE d == (at - from) \div Period
  <2>1. at - from \in Nat
    BY <1>2, SystemFacts
  <2>2. d \in Nat
    BY <2>1, SystemFacts
  <2>3. NextBeat(Period, from, at) = from + Period * (d + 1)
    BY <1>2 DEF NextBeat
  <2> HIDE DEF d
  <2>4. Period * (d + 1) \in Nat
    BY <2>2, SystemFacts
  <2> QED
    BY <2>3, <2>4
<1> QED
  BY <1>1, <1>2

(* A finish passes a time or NULL to the store, NULL for a one-time         *)
(* schedule.                                                                *)
LEMMA NextAfterFinishIsTime ==
    ASSUME NEW row \in Row, NEW from \in OptTime, NEW at \in Nat,
           NEW failed \in BOOLEAN
    PROVE  /\ NextAfterFinish(row, from, at, failed, Cadence) \in OptTime
           /\ row.kind = "once" =>
                 NextAfterFinish(row, from, at, failed, Cadence) = NULL
<1> DEFINE natural == NextRunAfterCompletion(row.kind, Period, from, at)
           failures == row.failure_count + 1
           later == FailureBackoffRunAt(natural, at, failures, BackoffBase,
                                        BackoffCap)
           next == IF ~failed \/ natural = NULL THEN natural
                   ELSE IF failures >= MaxFailures THEN NULL ELSE later
<1>1. row.kind \in Kinds /\ failures \in Nat
  BY DEF Row
<1>2. natural \in OptTime /\ (row.kind = "once" => natural = NULL)
  BY <1>1, NextRunIsTime, NextBeatIsTime
     DEF NextRunAfterCompletion, OptTime
<1>3. NextAfterFinish(row, from, at, failed, Cadence) =
         IF next # NULL /\ row.expires_at # NULL /\ next >= row.expires_at
         THEN NULL ELSE next
  BY DEF NextAfterFinish, Cadence
<1> HIDE DEF natural, failures
<1>4. natural # NULL => later \in Nat
  <2> DEFINE delay == BackoffDelay(BackoffBase, BackoffCap, failures)
  <2>1. delay \in Nat
    BY <1>1, SystemFacts, BackoffIsTime
  <2> HIDE DEF delay
  <2>2. ASSUME natural \in Nat PROVE MaxOf(natural, at + delay) \in Nat
    BY <2>1, <2>2 DEF MaxOf
  <2> QED
    BY <1>2, <2>2 DEF FailureBackoffRunAt, delay, OptTime
<1> HIDE DEF later
<1>5. next \in OptTime /\ (row.kind = "once" => next = NULL)
  BY <1>2, <1>4 DEF OptTime
<1> HIDE DEF next
<1> QED
  BY <1>3, <1>5 DEF OptTime

-----------------------------------------------------------------------------
(* What a task may do to its own memory. *)

LEMMA JobRowKept ==
    ASSUME JobsOK, NEW r \in RunIds, NEW row \in JobRow, Named(row),
           job' = [job EXCEPT ![r] = row]
    PROVE  JobsOK'
<1>1. job' \in [RunIds -> JobRow]
  BY DEF JobsOK
<1>2. ASSUME NEW q \in RunIds PROVE Named(job'[q])
  BY DEF JobsOK
<1> QED
  BY <1>1, <1>2 DEF JobsOK, Named

LEMMA StepKept ==
    ASSUME JobsOK, NEW r \in RunIds, NEW pc \in Unstarted \cup Started,
           job[r].sid \in Schedules, Step(r, pc)
    PROVE  JobsOK'
<1> DEFINE row == [job[r] EXCEPT !.pc = pc]
<1>1. row \in JobRow /\ Named(row)
  BY DEF JobsOK, JobRow, Named
<1>2. job' = [job EXCEPT ![r] = row]
  BY DEF Step, JobsOK
<1> HIDE DEF row
<1> QED
  BY <1>1, <1>2, JobRowKept

LEMMA ReturnKept ==
    ASSUME JobsOK, NEW r \in RunIds, job[r].sid \in Schedules, Return(r)
    PROVE  JobsOK'
<1> DEFINE row == [job[r] EXCEPT !.pc = "done", !.goal_id = NULL,
                      !.at = 0, !.failed = FALSE, !.next = NULL]
<1>1. row \in JobRow /\ Named(row)
  BY ZenonT(60) DEF JobsOK, JobRow, Named, OptGoals, OptTime
<1>2. job' = [job EXCEPT ![r] = row]
  BY DEF Return, JobsOK
<1> HIDE DEF row
<1> QED
  BY <1>1, <1>2, JobRowKept

LEMMA FailKept ==
    ASSUME JobsOK, clock \in Nat, NEW r \in RunIds, NEW g \in OptGoals,
           job[r].sid \in Schedules, Fail(r, g)
    PROVE  JobsOK'
<1> DEFINE row == [job[r] EXCEPT !.pc = "ending", !.goal_id = g,
                                 !.failed = TRUE, !.at = clock]
<1>1. row \in JobRow /\ Named(row)
  BY ZenonT(60) DEF JobsOK, JobRow, Named, Started
<1>2. job' = [job EXCEPT ![r] = row]
  BY DEF Fail, JobsOK
<1> HIDE DEF row
<1> QED
  BY <1>1, <1>2, JobRowKept

LEMMA PostponeKept ==
    ASSUME JobsOK, NEW r \in RunIds, NEW at \in Nat,
           job[r].sid \in Schedules, Postpone(r, at)
    PROVE  JobsOK'
<1> DEFINE row == [job[r] EXCEPT !.pc = "deferring", !.at = at]
<1>1. row \in JobRow /\ Named(row)
  BY ZenonT(60) DEF JobsOK, JobRow, Named, Started
<1>2. job' = [job EXCEPT ![r] = row]
  BY DEF Postpone, JobsOK
<1> HIDE DEF row
<1> QED
  BY <1>1, <1>2, JobRowKept

LEMMA NewJobKept ==
    ASSUME JobsOK, NEW r \in RunIds, NEW p \in Procs, NEW s \in Schedules,
           job' = [job EXCEPT ![r] = NewJob(p, s)]
    PROVE  JobsOK'
<1>1. NewJob(p, s) \in JobRow /\ Named(NewJob(p, s))
  BY DEF NewJob, NoJob, JobRow, Named, Unstarted, OptGoals, OptTime
<1> QED
  BY <1>1, JobRowKept

LEMMA TickRowKept ==
    ASSUME TicksOK, NEW p \in Procs, NEW row \in TickRow,
           tick' = [tick EXCEPT ![p] = row]
    PROVE  TicksOK'
  BY DEF TicksOK

LEMMA IdleTickRow == IdleTick \in TickRow
  BY DEF IdleTick, TickRow

(* A task that is at some place of its program has a well-formed row.       *)
LEMMA JobFacts ==
    ASSUME SystemInv, NEW r \in RunIds
    PROVE  /\ job[r] \in JobRow /\ clock \in Nat
           /\ job[r].goal_id \in OptGoals /\ job[r].at \in Nat
           /\ job[r].next \in OptTime /\ job[r].failed \in BOOLEAN
           /\ job[r].beat \in Nat
           /\ job[r].pc \notin {"none", "dead"} => job[r].sid \in Schedules
           /\ job[r].hb # "off" => job[r].sid \in Schedules
  BY DEF SystemInv, MemoryOK, JobsOK, JobRow, Named, StoreInv, TypeOK, Time

-----------------------------------------------------------------------------
(***************************************************************************)
(* The transactions of the runtime: every transaction of the store but the *)
(* four of the requests.                                                   *)
(***************************************************************************)
Transaction ==
    \/ \E p \in Procs, s \in Schedules, now, fresh \in Nat, r \in RunIds :
          \/ ClaimDue(p, s, r, now, fresh)
          \/ ClaimNow(p, s, r, now, fresh)
    \/ \E p \in Procs, s \in Schedules, now, fresh \in Nat :
          ClaimHeld(p, s, now, fresh)
    \/ \E s \in Schedules, r \in RunIds, now \in Nat :
          \/ \E g \in OptGoals : MarkStarted(s, r, g, now)
          \/ ExtendLease(s, r, clock)
          \/ DeferRun(s, r, now)
          \/ \E n \in OptTime, g \in OptGoals, failed, hold \in BOOLEAN :
                FinishRun(s, r, now, n, g, failed, hold)
    \/ \E now \in Nat : \/ ExpireSchedules(now)
                        \/ Advance(now)
                        \/ \E p \in Procs : \/ SessionHeartbeat(p, now)
                                            \/ SessionPrune(p, now)
    \/ \E g \in OptGoals, held \in BOOLEAN : SetGoal(g, held)

LEMMA TransactionIsStoreStep ==
    ASSUME Times = Nat, StoreInv, Transaction PROVE Next
<1>1. OptTimes = OptTime /\ clock \in Nat
  BY DEF OptTimes, OptTime, StoreInv, TypeOK, Time
<1> QED
  BY <1>1 DEF Transaction, Next

(* What a step of the runtime may do. *)
RuntimeEffect == [Transaction]_storeVars /\ JobsOK' /\ TicksOK'

LEMMA PollSteps ==
    ASSUME SystemInv, NEW p \in Procs, PollStep(p)
    PROVE  RuntimeEffect
<1>1. /\ JobsOK /\ TicksOK /\ clock \in Nat /\ tick[p] \in TickRow
      /\ FreshAfter(tick[p].now) \in Nat
  BY SystemFacts
     DEF SystemInv, MemoryOK, StoreInv, TypeOK, Time, TicksOK, TickRow,
         FreshAfter, MaxOf
<1>2. tick[p].now \in Nat /\ tick[p].left \in Int
  BY <1>1 DEF TickRow
<1>3. ASSUME UNCHANGED job PROVE JobsOK'
  BY <1>1, <1>3 DEF JobsOK, Named
<1>4. CASE TickBegin(p)
  <2> DEFINE row == [IdleTick EXCEPT !.pc = "claiming", !.now = clock,
                                     !.left = MaxClaimsPerTick]
  <2>1. clock \in Nat /\ MaxClaimsPerTick \in Int
    BY <1>1, SystemFacts
  <2>5. row \in TickRow
    BY <2>1 DEF TickRow, IdleTick
  <2>2. tick' = [tick EXCEPT ![p] = row] /\ UNCHANGED job
        /\ ExpireSchedules(clock)
    BY <1>4 DEF TickBegin
  <2> HIDE DEF row
  <2>3. TicksOK' /\ JobsOK'
    BY <1>1, <1>3, <2>5, <2>2, TickRowKept
  <2>4. Transaction
    BY <1>1, <2>2 DEF Transaction
  <2> QED
    BY <2>3, <2>4 DEF RuntimeEffect
<1>5. CASE TickEnd(p)
  <2>1. UNCHANGED <<job, storeVars>> /\ tick' = [tick EXCEPT ![p] = IdleTick]
    BY <1>5 DEF TickEnd
  <2>2. TicksOK' /\ JobsOK'
    BY <1>1, <1>3, <2>1, IdleTickRow, TickRowKept
  <2> QED
    BY <2>1, <2>2 DEF RuntimeEffect
<1>6. CASE TickResume(p)
  <2>0. PICK k \in Int : k = tick[p].left - 1
    BY <1>2
  <2> DEFINE row == [tick[p] EXCEPT !.pc = "claiming", !.left = k,
                                    !.waits = NULL]
  <2>1. row \in TickRow
    BY <1>1, <1>2 DEF TickRow
  <2>2. UNCHANGED <<job, storeVars>>
    BY <1>6 DEF TickResume
  <2>5. tick' = [tick EXCEPT ![p] =
                   IF tick[p].left = 1 THEN IdleTick
                   ELSE [tick[p] EXCEPT !.pc = "claiming",
                           !.left = tick[p].left - 1, !.waits = NULL]]
    BY <1>6 DEF TickResume
  <2>6. row = [tick[p] EXCEPT !.pc = "claiming",
                           !.left = tick[p].left - 1, !.waits = NULL]
    BY <2>0, Zenon
  <2> HIDE DEF row
  <2>3. \/ tick' = [tick EXCEPT ![p] = IdleTick]
        \/ tick' = [tick EXCEPT ![p] = row]
    BY <2>5, <2>6, Zenon
  <2>4. TicksOK' /\ JobsOK'
    BY <1>1, <1>3, <2>1, <2>2, <2>3, IdleTickRow, TickRowKept
  <2> QED
    BY <2>2, <2>4 DEF RuntimeEffect
<1>7. ASSUME NEW s \in Schedules, TickClaimHeld(p, s) PROVE RuntimeEffect
  <2>1. UNCHANGED job /\ tick' = [tick EXCEPT ![p] = IdleTick]
    BY <1>7 DEF TickClaimHeld
  <2>2. TicksOK' /\ JobsOK'
    BY <1>1, <1>3, <2>1, IdleTickRow, TickRowKept
  <2>3. ClaimHeld(p, s, tick[p].now, FreshAfter(tick[p].now))
    BY <1>7 DEF TickClaimHeld
  <2>4. Transaction
    BY <1>1, <1>2, <2>3 DEF Transaction
  <2> QED
    BY <2>2, <2>4 DEF RuntimeEffect
<1>8. ASSUME NEW s \in Schedules, NEW r \in RunIds, TickClaim(p, s, r)
      PROVE  RuntimeEffect
  <2> DEFINE row == [tick[p] EXCEPT !.pc = "waiting", !.waits = r]
  <2>1. row \in TickRow
    BY <1>1 DEF TickRow
  <2>2. tick' = [tick EXCEPT ![p] = row]
    BY <1>1, <1>8 DEF TickClaim, TicksOK
  <2> HIDE DEF row
  <2>3. job' = [job EXCEPT ![r] = NewJob(p, s)]
        /\ ClaimDue(p, s, r, tick[p].now, FreshAfter(tick[p].now))
    BY <1>8 DEF TickClaim
  <2>4. TicksOK' /\ JobsOK'
    BY <1>1, <2>1, <2>2, <2>3, NewJobKept, TickRowKept
  <2>5. Transaction
    BY <1>1, <1>2, <2>3 DEF Transaction
  <2> QED
    BY <2>4, <2>5 DEF RuntimeEffect
<1>9. ASSUME NEW s \in Schedules, TickLook(p, s) PROVE RuntimeEffect
  <2>1. UNCHANGED <<job, tick, storeVars>>
    BY <1>9 DEF TickLook
  <2>2. TicksOK' /\ JobsOK'
    BY <1>1, <1>3, <2>1 DEF TicksOK
  <2> QED
    BY <2>1, <2>2 DEF RuntimeEffect
<1> QED
  BY <1>4, <1>5, <1>6, <1>7, <1>8, <1>9 DEF PollStep

LEMMA RequestTimeFacts ==
    ASSUME SystemInv
    PROVE  /\ RequestTime \in Nat /\ RequestTime <= clock
           /\ FreshAfter(RequestTime) \in Nat
<1>1. RequestTime \in Nat /\ RequestTime <= clock
  BY DEF RequestTime, SystemInv, ProbeOK, StoreInv, TypeOK, Time
<1> QED
  BY <1>1, SystemFacts DEF FreshAfter, MaxOf

LEMMA RunNowSteps ==
    ASSUME SystemInv, NEW p \in Procs, NEW s \in Schedules,
           \/ RunNowLook(p, s) \/ RunNowHeld(p, s)
           \/ \E r \in RunIds : RunNow(p, s, r)
    PROVE  RuntimeEffect
<1> DEFINE now == RequestTime
<1>1. JobsOK /\ TicksOK /\ now \in Nat /\ FreshAfter(now) \in Nat
  BY RequestTimeFacts DEF SystemInv, MemoryOK
<1> HIDE DEF now
<1>2. CASE RunNowHeld(p, s)
  <2>1. ClaimHeld(p, s, now, FreshAfter(now)) /\ UNCHANGED <<job, tick>>
    BY <1>2 DEF RunNowHeld, now
  <2>2. Transaction
    BY <1>1, <2>1 DEF Transaction
  <2>3. JobsOK' /\ TicksOK'
    BY <1>1, <2>1 DEF JobsOK, TicksOK, Named
  <2> QED
    BY <2>2, <2>3 DEF RuntimeEffect
<1>3. ASSUME NEW r \in RunIds, RunNow(p, s, r) PROVE RuntimeEffect
  <2>1. /\ ClaimNow(p, s, r, now, FreshAfter(now)) /\ UNCHANGED tick
        /\ job' = [job EXCEPT ![r] = NewJob(p, s)]
    BY <1>3 DEF RunNow, now
  <2>2. Transaction
    BY <1>1, <2>1 DEF Transaction
  <2>3. JobsOK' /\ TicksOK'
    BY <1>1, <2>1, NewJobKept DEF TicksOK
  <2> QED
    BY <2>2, <2>3 DEF RuntimeEffect
<1>4. CASE RunNowLook(p, s)
  <2>1. UNCHANGED <<job, tick, storeVars>>
    BY <1>4 DEF RunNowLook
  <2>2. JobsOK' /\ TicksOK'
    BY <1>1, <2>1 DEF JobsOK, TicksOK, Named
  <2> QED
    BY <2>1, <2>2 DEF RuntimeEffect
<1> QED
  BY <1>2, <1>3, <1>4

(* Preparing and submitting the turn of a claim.                            *)
LEMMA SubmitSteps ==
    ASSUME SystemInv, NEW r \in RunIds,
           \/ SubmitError(r) \/ WaitForUsageProfile(r) \/ RejectTurn(r)
           \/ ReadGoal(r) \/ PrepareGoal(r) \/ StartRun(r)
           \/ StartHeartbeat(r) \/ CheckOwnership(r) \/ SubmitTurn(r)
    PROVE  RuntimeEffect
<1> DEFINE s == job[r].sid
           g == job[r].goal_id
<1>1. /\ JobsOK /\ clock \in Nat /\ clock + RetryDelay \in Nat
      /\ clock + HeartbeatInterval \in Nat /\ g \in OptGoals
      /\ job[r] \in JobRow
  BY JobFacts, SystemFacts DEF SystemInv, MemoryOK
<1>2. s \in Schedules
  BY JobFacts
     DEF SubmitError, WaitForUsageProfile, RejectTurn, ReadGoal, PrepareGoal,
         StartRun, StartHeartbeat, CheckOwnership, SubmitTurn, At
<1>3. TicksOK'
  BY DEF SubmitError, WaitForUsageProfile, RejectTurn, ReadGoal, PrepareGoal,
         StartRun, StartHeartbeat, CheckOwnership, SubmitTurn, RuntimeRest,
         SystemInv, MemoryOK, TicksOK
<1>4. ASSUME Fail(r, g) \/ Fail(r, s) PROVE JobsOK'
  BY <1>1, <1>2, <1>4, FailKept DEF OptGoals
<1>5. ASSUME NEW pc \in Unstarted \cup Started, Step(r, pc) PROVE JobsOK'
  BY <1>1, <1>2, <1>5, StepKept
<1>6. ASSUME Postpone(r, clock + RetryDelay) PROVE JobsOK'
  BY <1>1, <1>2, <1>6, PostponeKept
<1>7. "goalRead" \in Unstarted /\ {"started", "submitting"} \subseteq Started
  BY DEF Unstarted, Started
<1>8. CASE SubmitError(r) \/ WaitForUsageProfile(r) \/ RejectTurn(r)
           \/ ReadGoal(r)
  <2>1. UNCHANGED storeVars
    BY <1>8 DEF SubmitError, WaitForUsageProfile, RejectTurn, ReadGoal
  <2>2. JobsOK'
    BY <1>4, <1>5, <1>6, <1>7, <1>8
       DEF SubmitError, WaitForUsageProfile, RejectTurn, ReadGoal
  <2> QED
    BY <1>3, <2>1, <2>2 DEF RuntimeEffect
<1>9. CASE PrepareGoal(r)
  <2> DEFINE row == [job[r] EXCEPT !.pc = "prepared", !.goal_id = s]
  <2>1. row \in JobRow /\ Named(row)
    BY <1>1, <1>2 DEF JobRow, Named, Unstarted, OptGoals
  <2>2. job' = [job EXCEPT ![r] = row] /\ SetGoal(s, FALSE)
    BY <1>1, <1>9 DEF PrepareGoal, JobsOK
  <2> HIDE DEF row
  <2>3. JobsOK'
    BY <1>1, <2>1, <2>2, JobRowKept
  <2>4. Transaction
    BY <1>2, <2>2 DEF Transaction, OptGoals
  <2> QED
    BY <1>3, <2>3, <2>4 DEF RuntimeEffect
<1>10. CASE StartRun(r)
  <2>1. \/ MarkStarted(s, r, g, clock) /\ Step(r, "started")
        \/ Fail(r, g) /\ UNCHANGED storeVars
    BY <1>10 DEF StartRun
  <2>2. MarkStarted(s, r, g, clock) => Transaction
    BY <1>1, <1>2 DEF Transaction
  <2> QED
    BY <1>3, <1>4, <1>5, <1>7, <2>1, <2>2 DEF RuntimeEffect
<1>11. ASSUME ExtendLease(s, r, clock) PROVE Transaction
  BY <1>1, <1>2, <1>11 DEF Transaction
<1>12. CASE StartHeartbeat(r)
  <2> DEFINE row == [job[r] EXCEPT !.pc = "tracked", !.hb = "on",
                                   !.beat = clock + HeartbeatInterval]
  <2>1. row \in JobRow /\ Named(row)
    BY <1>1, <1>2 DEF JobRow, Named, Started
  <2>2. \/ ExtendLease(s, r, clock) /\ job' = [job EXCEPT ![r] = row]
        \/ Fail(r, g) /\ UNCHANGED storeVars
    BY <1>1, <1>12 DEF StartHeartbeat, JobsOK
  <2> HIDE DEF row
  <2>3. job' = [job EXCEPT ![r] = row] => JobsOK'
    BY <1>1, <2>1, JobRowKept
  <2> QED
    BY <1>3, <1>4, <1>11, <2>2, <2>3 DEF RuntimeEffect
<1>13. CASE CheckOwnership(r)
  <2>1. \/ ExtendLease(s, r, clock) /\ Step(r, "submitting")
        \/ Fail(r, g) /\ UNCHANGED storeVars
    BY <1>13 DEF CheckOwnership
  <2> QED
    BY <1>3, <1>4, <1>5, <1>7, <1>11, <2>1 DEF RuntimeEffect
<1>14. CASE SubmitTurn(r)
  <2> DEFINE row == [job[r] EXCEPT !.pc = "turn", !.turn = TRUE]
  <2>1. row \in JobRow /\ Named(row)
    BY <1>1, <1>2 DEF JobRow, Named, Started
  <2>2. job' = [job EXCEPT ![r] = row] \/ Fail(r, g)
    BY <1>1, <1>14 DEF SubmitTurn, JobsOK
  <2> HIDE DEF row
  <2>3. JobsOK'
    BY <1>1, <1>4, <2>1, <2>2, JobRowKept
  <2> QED
    BY <1>3, <1>14, <2>3 DEF RuntimeEffect, SubmitTurn
<1> QED
  BY <1>8, <1>9, <1>10, <1>12, <1>13, <1>14

LEMMA HeartbeatSteps ==
    ASSUME SystemInv, NEW r \in RunIds, Heartbeat(r) \/ HeartbeatError(r)
    PROVE  RuntimeEffect
<1> DEFINE s == job[r].sid
           beaten == [job[r] EXCEPT !.beat = clock + HeartbeatInterval]
           lost == [job[r] EXCEPT !.hb = "lost"]
<1>1. /\ JobsOK /\ TicksOK /\ clock \in Nat
      /\ clock + HeartbeatInterval \in Nat /\ job[r] \in JobRow
  BY JobFacts, SystemFacts DEF SystemInv, MemoryOK
<1>2. s \in Schedules
  BY JobFacts DEF Heartbeat, HeartbeatError
<1>3. TicksOK'
  BY <1>1 DEF Heartbeat, HeartbeatError, RuntimeRest, TicksOK
<1>4. /\ beaten \in JobRow /\ Named(beaten)
      /\ lost \in JobRow /\ Named(lost)
  BY <1>1, <1>2 DEF JobRow, Named
<1>5. \/ ExtendLease(s, r, clock) /\ job' = [job EXCEPT ![r] = beaten]
      \/ job' = [job EXCEPT ![r] = lost] /\ UNCHANGED storeVars
  BY <1>1 DEF Heartbeat, HeartbeatError, JobsOK
<1> HIDE DEF beaten, lost
<1>6. JobsOK'
  BY <1>1, <1>4, <1>5, JobRowKept
<1>7. ExtendLease(s, r, clock) => Transaction
  BY <1>1, <1>2 DEF Transaction
<1> QED
  BY <1>3, <1>5, <1>6, <1>7 DEF RuntimeEffect

(* The end of a turn, and the reads and writes that finish or defer a run.  *)
LEMMA EndSteps ==
    ASSUME SystemInv, NEW r \in RunIds,
           \/ \E failed \in BOOLEAN : TurnEnds(r, failed)
                                      \/ RecoverRun(r, failed)
           \/ FinishRead(r) \/ FinishLook(r) \/ FinishWrite(r)
           \/ FinishMiss(r) \/ DeferWrite(r) \/ FinishError(r)
    PROVE  RuntimeEffect
<1> DEFINE s == job[r].sid
           g == job[r].goal_id
<1>1. JobsOK /\ TicksOK /\ TypeOK /\ clock \in Nat /\ job[r] \in JobRow
  BY JobFacts DEF SystemInv, MemoryOK, StoreInv
<1>2. s \in Schedules
  BY JobFacts
     DEF TurnEnds, RecoverRun, FinishRead, FinishLook, FinishWrite,
         FinishMiss, DeferWrite, FinishError, At
<1>3. TicksOK'
  BY <1>1 DEF TurnEnds, RecoverRun, FinishRead, FinishLook, FinishWrite,
              FinishMiss, DeferWrite, FinishError, RuntimeRest, TicksOK
<1>4. Return(r) => JobsOK'
  BY <1>1, <1>2, ReturnKept
<1>5. run[r].goal_id \in OptGoals /\ run[r].scheduled_for \in OptTime
  BY <1>1 DEF TypeOK, RunRow, OptGoals
<1>6. ASSUME NEW failed \in BOOLEAN, TurnEnds(r, failed)
      PROVE  RuntimeEffect
  <2> DEFINE row == [job[r] EXCEPT !.pc = "ending", !.failed = failed,
                                   !.at = clock]
  <2>1. row \in JobRow /\ Named(row)
    BY <1>1, <1>2 DEF JobRow, Named, Started
  <2>2. job' = [job EXCEPT ![r] = row] /\ UNCHANGED storeVars
    BY <1>1, <1>6 DEF TurnEnds, JobsOK
  <2> HIDE DEF row
  <2> QED
    BY <1>1, <1>3, <2>1, <2>2, JobRowKept DEF RuntimeEffect
<1>7. ASSUME NEW failed \in BOOLEAN, RecoverRun(r, failed)
      PROVE  RuntimeEffect
  <2> DEFINE row == [job[r] EXCEPT !.pc = "ending",
                       !.goal_id = run[r].goal_id, !.failed = failed,
                       !.at = clock]
  <2>1. row \in JobRow /\ Named(row)
    BY <1>1, <1>2, <1>5 DEF JobRow, Named, Started
  <2>2. job' = [job EXCEPT ![r] = row] /\ UNCHANGED storeVars
    BY <1>1, <1>7 DEF RecoverRun, JobsOK
  <2> HIDE DEF row
  <2> QED
    BY <1>1, <1>3, <2>1, <2>2, JobRowKept DEF RuntimeEffect
<1>8. CASE FinishRead(r)
  <2> DEFINE next == NextAfterFinish(sched[s], run[r].scheduled_for,
                                     job[r].at, job[r].failed, Cadence)
             row == [job[r] EXCEPT !.pc = "finishing", !.next = next]
  <2>1. next \in OptTime
    BY <1>1, <1>2, <1>5, NextAfterFinishIsTime, JobFacts DEF TypeOK
  <2>2. \/ job' = [job EXCEPT ![r] = row]
        \/ Return(r)
    BY <1>1, <1>8 DEF FinishRead, JobsOK
  <2> HIDE DEF next
  <2>3. row \in JobRow /\ Named(row)
    BY <1>1, <1>2, <2>1 DEF JobRow, Named, Started
  <2> HIDE DEF row
  <2>4. JobsOK'
    BY <1>1, <1>4, <2>2, <2>3, JobRowKept
  <2> QED
    BY <1>3, <1>8, <2>4 DEF RuntimeEffect, FinishRead
<1>9. CASE FinishWrite(r)
  <2>1. job[r].at \in Nat /\ job[r].next \in OptTime /\ g \in OptGoals
        /\ job[r].failed \in BOOLEAN
    BY JobFacts
  <2>2. PICK hold \in BOOLEAN :
           FinishRun(s, r, job[r].at, job[r].next, g, job[r].failed, hold)
    BY <1>9 DEF FinishWrite
  <2>3. Transaction
    BY <1>2, <2>1, <2>2 DEF Transaction
  <2>4. JobsOK'
    BY <1>4, <1>9 DEF FinishWrite
  <2> QED
    BY <1>3, <2>3, <2>4 DEF RuntimeEffect
<1>12. CASE FinishLook(r)
  BY <1>1, <1>3, <1>12 DEF FinishLook, RuntimeEffect, JobsOK, Named
<1>13. CASE FinishMiss(r)
  BY <1>3, <1>4, <1>13 DEF FinishMiss, RuntimeEffect
<1>10. CASE DeferWrite(r)
  <2>1. DeferRun(s, r, job[r].at) => Transaction
    BY <1>2, JobFacts DEF Transaction
  <2>2. DeferRun(s, r, job[r].at) \/ UNCHANGED storeVars
    BY <1>10 DEF DeferWrite
  <2>3. JobsOK'
    BY <1>4, <1>10 DEF DeferWrite
  <2> QED
    BY <1>3, <2>1, <2>2, <2>3 DEF RuntimeEffect
<1>11. CASE FinishError(r)
  BY <1>3, <1>4, <1>11 DEF FinishError, RuntimeEffect
<1> QED
  BY <1>6, <1>7, <1>8, <1>9, <1>10, <1>11, <1>12, <1>13

(* Crashes, time, other users of the thread, and its goal.                  *)
LEMMA EnvironmentSteps ==
    ASSUME SystemInv,
           \/ \E p \in Procs : Crash(p) \/ Restart(p) \/ ShowActive(p)
           \/ TimePasses \/ GoalChanges
    PROVE  RuntimeEffect
<1>1. /\ JobsOK /\ TicksOK /\ clock \in Nat /\ clock + 1 \in Nat
      /\ goal.goal_id \in OptGoals
  BY DEF SystemInv, MemoryOK, StoreInv, TypeOK, Time, OptGoals
<1>2. ASSUME UNCHANGED <<job, tick>> PROVE JobsOK' /\ TicksOK'
  BY <1>1, <1>2 DEF JobsOK, Named, TicksOK
<1>3. ASSUME NEW p \in Procs, Crash(p) PROVE RuntimeEffect
  <2> DEFINE dead == [NoJob EXCEPT !.pc = "dead"]
  <2>1. dead \in JobRow /\ Named(dead)
    BY DEF NoJob, JobRow, Named, OptGoals, OptTime
  <2>2. job' = [r \in RunIds |-> IF job[r].proc = p THEN dead ELSE job[r]]
        /\ tick' = [tick EXCEPT ![p] = IdleTick] /\ UNCHANGED storeVars
    BY <1>3 DEF Crash
  <2> HIDE DEF dead
  <2>3. JobsOK'
    BY <1>1, <2>1, <2>2 DEF JobsOK, Named
  <2> QED
    BY <1>1, <2>2, <2>3, IdleTickRow, TickRowKept DEF RuntimeEffect
<1>4. ASSUME NEW p \in Procs, Restart(p) PROVE RuntimeEffect
  BY <1>2, <1>4 DEF Restart, RuntimeEffect
<1>5. ASSUME NEW p \in Procs, ShowActive(p) PROVE RuntimeEffect
  <2>1. SessionHeartbeat(p, clock) \/ SessionPrune(p, clock)
    BY <1>5 DEF ShowActive
  <2>2. Transaction
    BY <1>1, <2>1 DEF Transaction
  <2> QED
    BY <1>2, <1>5, <2>2 DEF ShowActive, RuntimeEffect, runtimeVars
<1>6. CASE TimePasses
  <2>1. Advance(clock + 1)
    BY <1>6 DEF TimePasses
  <2>2. Transaction
    BY <1>1, <2>1 DEF Transaction
  <2> QED
    BY <1>2, <1>6, <2>2 DEF TimePasses, RuntimeEffect, runtimeVars
<1>7. CASE GoalChanges
  <2>1. SetGoal(goal.goal_id, ~goal.held) /\ (~goal.held) \in BOOLEAN
    BY <1>7 DEF GoalChanges
  <2>2. Transaction
    BY <1>1, <2>1 DEF Transaction
  <2> QED
    BY <1>2, <1>7, <2>2 DEF GoalChanges, RuntimeEffect, runtimeVars
<1> QED
  BY <1>3, <1>4, <1>5, <1>6, <1>7

LEMMA RuntimeSteps ==
    ASSUME SystemInv, RuntimeNext PROVE RuntimeEffect
<1>1. ASSUME NEW p \in Procs, NEW s \in Schedules,
             \/ RunNowLook(p, s) \/ RunNowHeld(p, s)
             \/ \E r \in RunIds : RunNow(p, s, r)
      PROVE  RuntimeEffect
  BY <1>1, RunNowSteps
<1>2. ASSUME NEW p \in Procs, PollStep(p) PROVE RuntimeEffect
  BY <1>2, PollSteps
<1>3. ASSUME NEW r \in RunIds,
             \/ JobStep(r) \/ JobEvent(r) \/ Heartbeat(r)
             \/ \E failed \in BOOLEAN : TurnEnds(r, failed)
      PROVE  RuntimeEffect
  BY <1>3, SubmitSteps, HeartbeatSteps, EndSteps DEF JobStep, JobEvent
<1>4. CASE \/ \E p \in Procs : Crash(p) \/ Restart(p) \/ ShowActive(p)
           \/ TimePasses \/ GoalChanges
  BY <1>4, EnvironmentSteps
<1> QED
  BY <1>1, <1>2, <1>3, <1>4 DEF RuntimeNext

-----------------------------------------------------------------------------
(* Requests *)

LEMMA EditFacts ==
    ASSUME EditsOK, NEW e \in Editors
    PROVE  /\ edit[e].pc = "creating" => edit[e] \in Creating
           /\ edit[e].pc = "loaded" => edit[e] \in Loaded
           /\ edit[e].pc = "merged" => edit[e] \in Merging
           /\ edit[e].pc = "resuming" => edit[e] \in Resuming
<1>1. edit[e] \in EditRow
  BY DEF EditsOK
<1>2. NoEdit.pc = "idle"
  BY DEF NoEdit
<1>3. /\ \A q \in Creating : q.pc = "creating"
      /\ \A q \in Loaded : q.pc = "loaded"
      /\ \A q \in Merging : q.pc = "merged"
      /\ \A q \in Resuming : q.pc = "resuming"
  BY DEF Creating, Loaded, Merging, Resuming
<1> QED
  BY <1>1, <1>2, <1>3 DEF EditRow

LEMMA BeginKept ==
    ASSUME EditsOK, NEW e \in Editors, NEW q \in EditRow,
           Begin(e, q) \/ Continue(e, q)
    PROVE  EditsOK'
  BY DEF EditsOK, Begin, Continue

(* Merging a patch into a row that exists gives the columns of an update.   *)
LEMMA MergeFacts ==
    ASSUME NEW patch \in Patch, NEW row \in Row,
           row.status \in {"active", "paused", "expired"}, Times = Nat
    PROVE  Merge(patch, row) \in Merged
<1>1. /\ Or(patch.status, row.status) \in {"active", "paused", "expired"}
      /\ Or(patch.kind, row.kind) \in Kinds
      /\ Or(patch.next_run_at, row.next_run_at) \in OptTime
      /\ Or(patch.expires_at, row.expires_at) \in OptTime
  BY DEF Or, Patch, Row
<1> QED
  BY <1>1 DEF Merge, Merged, OptTime

LEMMA PatchToSendFacts ==
    ASSUME NEW patch \in Patch, NEW row \in Row, clock \in Nat
    PROVE  /\ PatchToSend(row, patch) \in Patch
           /\ PatchToSend(row, patch).status = patch.status
           /\ PatchToSend(row, patch).kind = patch.kind
<1> DEFINE kind == Or(patch.kind, row.kind)
           next == NextRunAt(kind, Period, clock)
           moved == IF patch.next_run_at = Keep /\ patch.kind # Keep
                                                /\ kind # "once"
                    THEN [patch EXCEPT !.next_run_at = next]
                    ELSE patch
<1>1. kind \in Kinds
  BY DEF Or, Patch, Row
<1> HIDE DEF kind
<1>2. next \in OptTime
  BY <1>1, NextRunIsTime
<1>3. \/ PatchToSend(row, patch) = moved
      \/ PatchToSend(row, patch) = [moved EXCEPT !.next_run_at = next]
  BY DEF PatchToSend, kind
<1> HIDE DEF next
<1>4. moved \in Patch /\ moved.status = patch.status /\ moved.kind = patch.kind
  BY <1>2 DEF Patch
<1> HIDE DEF moved
<1>5. /\ [moved EXCEPT !.next_run_at = next] \in Patch
      /\ [moved EXCEPT !.next_run_at = next].status = moved.status
      /\ [moved EXCEPT !.next_run_at = next].kind = moved.kind
  BY <1>2, <1>4 DEF Patch
<1> QED
  BY <1>3, <1>4, <1>5

(* The requests' transactions *)
Request ==
    \/ \E s \in Schedules, new \in NewSchedules :
          CreateSchedule(s, new.kind, new.next_run_at, new.expires_at)
    \/ \E s \in Schedules, m \in Merged, reset \in BOOLEAN :
          UpdateSchedule(s, m, reset)
    \/ \E s \in Schedules, n \in OptTime : ResumeSchedule(s, n)
    \/ \E s \in Schedules : DeleteSchedule(s)

LEMMA RequestIsStoreStep ==
    ASSUME Times = Nat, Request PROVE Next
<1>1. OptTimes = OptTime /\ Nat \subseteq OptTime
  BY DEF OptTimes, OptTime
<1>2. ASSUME NEW s \in Schedules, NEW new \in NewSchedules,
             CreateSchedule(s, new.kind, new.next_run_at, new.expires_at)
      PROVE  Next
  <2>1. new.kind \in Kinds /\ new.next_run_at \in OptTimes
        /\ new.expires_at \in OptTimes
    BY <1>1, KeepFacts
  <2> QED
    BY <1>2, <2>1 DEF Next
<1> QED
  BY <1>1, <1>2 DEF Request, Next

LEMMA RequestSteps ==
    ASSUME Times = Nat, SystemInv, NEW e \in Editors, RequestStep(e)
    PROVE  [Request]_storeVars /\ EditsOK' /\ UNCHANGED runtimeVars
<1>1. /\ EditsOK /\ clock \in Nat /\ \A s \in Schedules : sched[s] \in Row
      /\ NoEdit \in EditRow
  BY DEF SystemInv, MemoryOK, StoreInv, TypeOK, Time, EditRow
<1>2. ASSUME NEW s \in Schedules, NEW new \in NewSchedules,
             CreateCheck(e, s, new)
      PROVE  UNCHANGED storeVars /\ EditsOK' /\ UNCHANGED runtimeVars
  <2>1. [pc |-> "creating", s |-> s, new |-> new] \in EditRow
    BY DEF EditRow, Creating
  <2> QED
    BY <1>1, <1>2, <2>1, BeginKept DEF CreateCheck, NotRuntime
<1>3. ASSUME NEW s \in Schedules, NEW patch \in Patches,
             UpdateLoad(e, s, patch)
      PROVE  UNCHANGED storeVars /\ EditsOK' /\ UNCHANGED runtimeVars
  <2>1. PatchToSend(sched[s], patch) \in Patch
    BY <1>1, KeepFacts, PatchToSendFacts
  <2>2. [pc |-> "loaded", s |-> s,
         patch |-> PatchToSend(sched[s], patch)] \in EditRow
    BY <2>1 DEF EditRow, Loaded
  <2> QED
    BY <1>1, <1>3, <2>2, BeginKept DEF UpdateLoad, NotRuntime
<1>4. ASSUME NEW s \in Schedules, PauseLoad(e, s)
      PROVE  UNCHANGED storeVars /\ EditsOK' /\ UNCHANGED runtimeVars
  <2> DEFINE patch == [KeepAll EXCEPT !.status = "paused"]
  <2>1. patch \in Patch
    BY DEF Patch, KeepAll
  <2>2. [pc |-> "loaded", s |-> s, patch |-> patch] \in EditRow
    BY <2>1 DEF EditRow, Loaded
  <2>3. Begin(e, [pc |-> "loaded", s |-> s, patch |-> patch])
    BY <1>4 DEF PauseLoad
  <2> HIDE DEF patch
  <2> QED
    BY <1>1, <1>4, <2>2, <2>3, BeginKept DEF PauseLoad, NotRuntime
<1>5. ASSUME NEW s \in Schedules, ResumeLoad(e, s)
      PROVE  UNCHANGED storeVars /\ EditsOK' /\ UNCHANGED runtimeVars
  <2>1. sched[s].kind \in Kinds
    BY <1>1 DEF Row
  <2>2. PICK n \in OptTime :
           Begin(e, [pc |-> "resuming", s |-> s, next |-> n])
    BY <1>1, <1>5, <2>1, NextRunIsTime DEF ResumeLoad, OptTime
  <2>3. [pc |-> "resuming", s |-> s, next |-> n] \in EditRow
    BY DEF EditRow, Resuming
  <2> QED
    BY <1>1, <1>5, <2>2, <2>3, BeginKept DEF ResumeLoad, NotRuntime
<1>6. ASSUME NEW s \in Schedules, Delete(e, s)
      PROVE  Request /\ EditsOK' /\ UNCHANGED runtimeVars
  BY <1>1, <1>6, BeginKept DEF Delete, Request, NotRuntime
<1>7. ASSUME CreateInsert(e)
      PROVE  Request /\ EditsOK' /\ UNCHANGED runtimeVars
  <2>1. edit[e].s \in Schedules /\ edit[e].new \in NewSchedules
    BY <1>1, <1>7, EditFacts DEF CreateInsert, Creating
  <2>2. CreateSchedule(edit[e].s, edit[e].new.kind, edit[e].new.next_run_at,
                       edit[e].new.expires_at)
    BY <1>7 DEF CreateInsert
  <2>3. Request
    BY <2>1, <2>2 DEF Request
  <2> QED
    BY <1>1, <1>7, <2>3, BeginKept DEF CreateInsert, NotRuntime
<1>8. ASSUME UpdateRead(e)
      PROVE  UNCHANGED storeVars /\ EditsOK' /\ UNCHANGED runtimeVars
  <2> DEFINE q == edit[e]
             read == [pc |-> "merged", s |-> q.s,
                      merged |-> Merge(q.patch, sched[q.s]),
                      reset |-> q.patch.status = "active"]
  <2>1. q.s \in Schedules /\ q.patch \in Patch
    BY <1>1, <1>8, EditFacts DEF UpdateRead, Loaded
  <2>2. Exists(q.s) => Merge(q.patch, sched[q.s]) \in Merged
    BY <1>1, <2>1, MergeFacts DEF Exists
  <2>3. Exists(q.s) => read \in EditRow
    BY <2>1, <2>2 DEF EditRow, Merging
  <2>4. \/ Exists(q.s) /\ Continue(e, read)
        \/ Continue(e, NoEdit)
    BY <1>8 DEF UpdateRead
  <2> HIDE DEF read
  <2>5. EditsOK'
    BY <1>1, <2>3, <2>4, BeginKept
  <2> QED
    BY <1>8, <2>5 DEF UpdateRead, NotRuntime
<1>9. ASSUME UpdateWrite(e)
      PROVE  [Request]_storeVars /\ EditsOK' /\ UNCHANGED runtimeVars
  <2>1. /\ edit[e].s \in Schedules /\ edit[e].merged \in Merged
        /\ edit[e].reset \in BOOLEAN
    BY <1>1, <1>9, EditFacts DEF UpdateWrite, Merging
  <2>2. \/ UpdateSchedule(edit[e].s, edit[e].merged, edit[e].reset)
        \/ UNCHANGED storeVars
    BY <1>9 DEF UpdateWrite
  <2>3. [Request]_storeVars
    BY <2>1, <2>2 DEF Request
  <2> QED
    BY <1>1, <1>9, <2>3, BeginKept DEF UpdateWrite, NotRuntime
<1>10. ASSUME ResumeWrite(e)
       PROVE  [Request]_storeVars /\ EditsOK' /\ UNCHANGED runtimeVars
  <2>1. edit[e].s \in Schedules /\ edit[e].next \in OptTime
    BY <1>1, <1>10, EditFacts DEF ResumeWrite, Resuming
  <2>2. ResumeSchedule(edit[e].s, edit[e].next) \/ UNCHANGED storeVars
    BY <1>10 DEF ResumeWrite
  <2>3. [Request]_storeVars
    BY <2>1, <2>2 DEF Request
  <2> QED
    BY <1>1, <1>10, <2>3, BeginKept DEF ResumeWrite, NotRuntime
<1> QED
  BY <1>2, <1>3, <1>4, <1>5, <1>6, <1>7, <1>8, <1>9, <1>10 DEF RequestStep

-----------------------------------------------------------------------------
LEMMA RunsNamedKept ==
    ASSUME StoreInv, RunsNamed, [Next]_storeVars PROVE RunsNamed'
<1>1. run \in [RunIds -> RunRow] /\ NULL \notin Schedules
  BY StoreAssumption DEF StoreInv, TypeOK
<1>2. ASSUME NEW ss PROVE \A r \in RunIds :
             FailLiveRuns(ss)[r].schedule_id = NULL =>
                FailLiveRuns(ss)[r].status = "none"
  BY <1>1 DEF RunsNamed, FailLiveRuns, RunRow, Live, LiveStatuses
<1>3. ASSUME NEW s \in Schedules, NEW r \in RunIds, NEW now, NEW for,
             GrantLease(s, r, now, for)
      PROVE  RunsNamed'
  <2>1. \A q \in RunIds : \/ run'[q].schedule_id = s
                           \/ run'[q] = FailLiveRuns({s})[q]
    BY <1>3 DEF GrantLease, FailLiveRuns
  <2> QED
    BY <1>1, <1>2, <2>1 DEF RunsNamed
<1>4. ASSUME NEW s \in Schedules, NEW r \in RunIds,
             \/ \E g, now : MarkStarted(s, r, g, now)
             \/ \E n : DeferRun(s, r, n)
             \/ \E now, n, g, failed, hold :
                   FinishRun(s, r, now, n, g, failed, hold)
      PROVE  RunsNamed'
  <2>0. ASSUME NEW now, NEW n, NEW g, NEW failed, NEW hold,
               FinishRun(s, r, now, n, g, failed, hold)
        PROVE  /\ OwnsLease(s, r)
               /\ \E st : run' = [run EXCEPT ![r].status = st]
    BY <2>0, Zenon DEF FinishRun, CanFinish
  <2>1. \A q \in RunIds : run'[q].schedule_id = s \/ run'[q] = run[q]
    BY <1>1, <1>4, <2>0
       DEF MarkStarted, CanMarkStarted, DeferRun, CanDefer, OwnsLease, RunRow
  <2> QED
    BY <1>1, <2>1 DEF RunsNamed
<1>5. ASSUME NEW s \in Schedules, DeleteSchedule(s) PROVE RunsNamed'
  BY <1>5 DEF DeleteSchedule, NoRun, RunsNamed
<1>6. ASSUME \E ss : run' = FailLiveRuns(ss) PROVE RunsNamed'
  BY <1>2, <1>6 DEF RunsNamed
<1>7. ASSUME UNCHANGED run PROVE RunsNamed'
  BY <1>7 DEF RunsNamed
<1>8. ASSUME NEW s, NEW m, NEW reset, UpdateSchedule(s, m, reset)
      PROVE  RunsNamed'
  BY <1>6, <1>7, <1>8 DEF UpdateSchedule
<1>9. ASSUME NEW now, ExpireSchedules(now) PROVE RunsNamed'
  BY <1>6, <1>9 DEF ExpireSchedules
<1>10. ASSUME NEW s, ReapAndPause(s) PROVE RunsNamed'
  BY <1>6, <1>10 DEF ReapAndPause
<1> QED
  BY <1>3, <1>4, <1>5, <1>7, <1>8, <1>9, <1>10
     DEF Next, CreateSchedule, ResumeSchedule, ClaimDue, ClaimNow, ClaimHeld,
         ExtendLease, Advance, SessionHeartbeat, SessionPrune, SetGoal,
         storeVars

LEMMA ClockGrows ==
    ASSUME StoreInv, [Next]_storeVars PROVE clock <= clock'
<1>1. clock \in Nat /\ (UNCHANGED clock => clock <= clock')
  BY DEF StoreInv, TypeOK, Time
<1>2. ASSUME NEW now \in Times, Advance(now) PROVE clock <= clock'
  BY <1>1, <1>2, StoreAssumption DEF Advance
<1>3. ASSUME NEW s \in Schedules,
             \/ \E k, n, e : CreateSchedule(s, k, n, e)
             \/ \E m, reset : UpdateSchedule(s, m, reset)
             \/ \E n : ResumeSchedule(s, n)
             \/ DeleteSchedule(s) \/ ReapAndPause(s)
             \/ \E r, now, for : GrantLease(s, r, now, for)
      PROVE  UNCHANGED clock
  BY <1>3, Zenon DEF CreateSchedule, UpdateSchedule, ResumeSchedule,
                     DeleteSchedule, ReapAndPause, GrantLease
<1>4. ASSUME NEW s \in Schedules, NEW r \in RunIds,
             \/ \E g, now : MarkStarted(s, r, g, now)
             \/ \E now : ExtendLease(s, r, now) \/ DeferRun(s, r, now)
             \/ \E now, n, g, failed, hold :
                   FinishRun(s, r, now, n, g, failed, hold)
      PROVE  UNCHANGED clock
  BY <1>4, Zenon DEF MarkStarted, ExtendLease, DeferRun, FinishRun
<1>5. ASSUME NEW now,
             \/ ExpireSchedules(now)
             \/ \E p : SessionHeartbeat(p, now) \/ SessionPrune(p, now)
             \/ \E g, held : SetGoal(g, held)
      PROVE  UNCHANGED clock
  BY <1>5, Zenon DEF ExpireSchedules, SessionHeartbeat, SessionPrune, SetGoal
<1>6. CASE UNCHANGED storeVars
  BY <1>1, <1>6 DEF storeVars
<1>7. ASSUME Next PROVE clock <= clock'
  BY <1>1, <1>2, <1>3, <1>4, <1>5, <1>7
     DEF Next, ClaimDue, ClaimNow, ClaimHeld
<1> QED
  BY <1>6, <1>7

(* A transaction begins when it looks, and is over when probe is NULL.      *)
LEMMA ProbeWrites ==
    ASSUME RuntimeNext
    PROVE  \/ UNCHANGED probe
           \/ probe' = NULL
           \/ probe'.at = clock
<1> DEFINE ProbeEffect == \/ UNCHANGED probe
                    \/ probe' = NULL
                    \/ probe'.at = clock
<1>1. ASSUME NEW p, NEW s, TickLook(p, s) \/ RunNowLook(p, s) PROVE ProbeEffect
  BY <1>1 DEF TickLook, RunNowLook, Look
<1>2. ASSUME NEW r, FinishLook(r) PROVE ProbeEffect
  BY <1>2 DEF FinishLook, Look
<1>3. ASSUME NEW p, NEW s, NEW r,
             \/ TickClaim(p, s, r) \/ TickClaimHeld(p, s)
             \/ RunNow(p, s, r) \/ RunNowHeld(p, s)
             \/ FinishWrite(r)
      PROVE  ProbeEffect
  BY <1>3 DEF TickClaim, TickClaimHeld, RunNow, RunNowHeld, FinishWrite, Commit
<1>4. ASSUME NEW p, TickBegin(p) \/ TickEnd(p) \/ TickResume(p) \/ Restart(p)
                    \/ ShowActive(p) \/ TimePasses \/ GoalChanges
      PROVE  UNCHANGED probe
  BY <1>4 DEF TickBegin, TickEnd, TickResume, Restart, ShowActive, TimePasses,
              GoalChanges, runtimeVars
<1>5. ASSUME NEW p, Crash(p) PROVE ProbeEffect
  BY <1>5 DEF Crash
<1>6. ASSUME NEW r, FinishError(r) PROVE ProbeEffect
  BY <1>6 DEF FinishError
<1>7. ASSUME NEW r,
             \/ ReadGoal(r) \/ PrepareGoal(r) \/ StartRun(r)
             \/ StartHeartbeat(r) \/ CheckOwnership(r) \/ SubmitTurn(r)
             \/ SubmitError(r) \/ WaitForUsageProfile(r) \/ RejectTurn(r)
             \/ Heartbeat(r)
      PROVE  UNCHANGED probe
  BY <1>7 DEF ReadGoal, PrepareGoal, StartRun, StartHeartbeat, CheckOwnership,
              SubmitTurn, SubmitError, WaitForUsageProfile, RejectTurn,
              Heartbeat, RuntimeRest
<1>8. ASSUME NEW r,
             \/ FinishRead(r) \/ FinishMiss(r) \/ DeferWrite(r)
             \/ HeartbeatError(r)
             \/ \E failed : RecoverRun(r, failed) \/ TurnEnds(r, failed)
      PROVE  UNCHANGED probe
  BY <1>8 DEF FinishRead, FinishMiss, DeferWrite, HeartbeatError, RecoverRun,
              TurnEnds, RuntimeRest
<1> QED
  BY <1>1, <1>2, <1>3, <1>4, <1>5, <1>6, <1>7, <1>8
     DEF RuntimeNext, PollStep, JobStep, JobEvent

LEMMA ProbeKept ==
    ASSUME StoreInv, ProbeOK, [Next]_storeVars,
           UNCHANGED probe \/ probe' = NULL \/ probe'.at = clock
    PROVE  ProbeOK'
<1>1. clock \in Nat /\ clock' \in Nat /\ clock <= clock'
  BY NextInv, ClockGrows DEF StoreInv, TypeOK, Time
<1> QED
  BY <1>1 DEF ProbeOK

LEMMA SystemStep ==
    ASSUME Times = Nat, SystemInv, [SystemNext]_vars
    PROVE  [Next]_storeVars /\ SystemInv'
<1>1. CASE RuntimeNext /\ UNCHANGED <<edit, edits>>
  <2>1. RuntimeEffect
    BY <1>1, RuntimeSteps
  <2>2. [Next]_storeVars
    BY <2>1, TransactionIsStoreStep DEF RuntimeEffect, SystemInv
  <2>3. EditsOK'
    BY <1>1 DEF SystemInv, MemoryOK, EditsOK
  <2>4. ProbeOK'
    BY <1>1, <2>2, ProbeWrites, ProbeKept DEF SystemInv
  <2> QED
    BY <2>1, <2>2, <2>3, <2>4, NextInv, RunsNamedKept
       DEF RuntimeEffect, SystemInv, MemoryOK
<1>2. ASSUME NEW e \in Editors, RequestStep(e)
      PROVE  [Next]_storeVars /\ SystemInv'
  <2>1. [Next]_storeVars /\ EditsOK' /\ UNCHANGED runtimeVars
    BY <1>2, RequestSteps, RequestIsStoreStep
  <2>2. JobsOK' /\ TicksOK'
    BY <2>1 DEF SystemInv, MemoryOK, JobsOK, TicksOK, Named, runtimeVars
  <2>3. ProbeOK'
    BY <2>1, ProbeKept DEF SystemInv, runtimeVars
  <2> QED
    BY <2>1, <2>2, <2>3, NextInv, RunsNamedKept DEF SystemInv, MemoryOK
<1>3. CASE UNCHANGED vars
  <2>1. UNCHANGED <<storeVars, job, tick, probe, edit, edits>>
    BY <1>3 DEF vars, runtimeVars
  <2>2. MemoryOK'
    BY <2>1 DEF SystemInv, MemoryOK, JobsOK, TicksOK, EditsOK, Named
  <2>3. ProbeOK'
    BY <2>1, ProbeKept DEF SystemInv
  <2> QED
    BY <2>1, <2>2, <2>3, NextInv, RunsNamedKept DEF SystemInv
<1> QED
  BY <1>1, <1>2, <1>3 DEF SystemNext

LEMMA SystemInitInv == SystemInit => Init /\ SystemInv
<1> SUFFICES ASSUME SystemInit PROVE Init /\ SystemInv
  OBVIOUS
<1>1. Init /\ StoreInv
  BY InitInv DEF SystemInit
<1>2. NoJob \in JobRow /\ Named(NoJob)
  BY DEF NoJob, JobRow, Named, OptGoals, OptTime
<1>3. JobsOK
  BY <1>2 DEF SystemInit, RuntimeInit, JobsOK
<1>4. TicksOK
  BY IdleTickRow DEF SystemInit, RuntimeInit, TicksOK
<1>5. EditsOK
  BY DEF SystemInit, EditsOK, EditRow
<1>6. RunsNamed
  BY DEF SystemInit, Init, NoRun, RunsNamed
<1>7. ProbeOK
  BY DEF SystemInit, RuntimeInit, ProbeOK
<1> QED
  BY <1>1, <1>3, <1>4, <1>5, <1>6, <1>7 DEF SystemInv, MemoryOK

LEMMA SystemInvariance ==
    ASSUME Times = Nat PROVE SystemSpec => []SystemInv
<1>1. SystemInit => SystemInv
  BY SystemInitInv
<1>2. SystemInv /\ [SystemNext]_vars => SystemInv'
  BY SystemStep
<1> QED
  BY <1>1, <1>2, PTL DEF SystemSpec

(***************************************************************************)
(* The schedule system implements its store: whatever the polling loops,   *)
(* tasks, heartbeats, crashes and requests do, and however old the values  *)
(* they read are when they write, the tables change only by the            *)
(* transactions of schedules.rs, with arguments of the right kind.         *)
(***************************************************************************)
THEOREM ScheduleSystemImplementsStore ==
    ASSUME Times = Nat PROVE SystemSpec => Spec
<1>1. SystemInit => Init /\ SystemInv
  BY SystemInitInv
<1>2. SystemInv /\ [SystemNext]_vars => [Next]_storeVars /\ SystemInv'
  BY SystemStep
<1> QED
  BY <1>1, <1>2, PTL DEF SystemSpec, Spec

(***************************************************************************)
(* In the running system at most one run of a schedule is in progress, the *)
(* one its lease names, and only while the schedule is active.             *)
(***************************************************************************)
THEOREM SystemLeaseIntegrity ==
    ASSUME Times = Nat PROVE SystemSpec => []LeaseMatchesRun
  BY ScheduleSystemImplementsStore, LeaseIntegrity, PTL

(***************************************************************************)
(* In the running system no late finish, deferral or reaping changes the   *)
(* outcome of a run.                                                       *)
(***************************************************************************)
THEOREM SystemOutcomesFinal ==
    ASSUME Times = Nat PROVE SystemSpec => OutcomesAreFinal
  BY ScheduleSystemImplementsStore, OutcomesFinal, PTL

-----------------------------------------------------------------------------
(***************************************************************************)
(* Active schedules are armed.  A resume, and a patch that sets the status *)
(* active or the run time to NULL, are validated against a row that was    *)
(* read before the row they are written to: those requests are excluded.   *)
(* The other patches are safe although they are merged into an old row,    *)
(* because the status and the run time they write back were read together. *)
(***************************************************************************)
KeepsArmed(patch) == patch.status # "active" /\ patch.next_run_at # NULL
NoActivation == MayResume = {} /\ \A patch \in Patches : KeepsArmed(patch)

ArmedEdit(q) ==
    /\ q.pc = "loaded" => KeepsArmed(q.patch)
    /\ q.pc = "merged" => (q.merged.status = "active" =>
                              q.merged.next_run_at # NULL)
    /\ q.pc # "resuming"
ArmedInv == ActiveIsArmed /\ \A e \in Editors : ArmedEdit(edit[e])

LEMMA RowKeepsArmed ==
    ASSUME ActiveIsArmed, NEW s \in Schedules,
           \A q \in Schedules \ {s} : sched'[q] = sched[q],
           sched'[s].status = "active" => sched'[s].next_run_at # NULL
    PROVE  ActiveIsArmed'
  BY DEF ActiveIsArmed

LEMMA TransactionKeepsArmed ==
    ASSUME StoreInv, ActiveIsArmed, [Transaction]_storeVars
    PROVE  ActiveIsArmed'
<1>1. sched \in [Schedules -> Row] /\ NULL \notin Nat
  BY ConstantFacts DEF StoreInv, TypeOK
<1>2. ASSUME NEW s \in Schedules, NEW r \in RunIds, NEW now, NEW for,
             GrantLease(s, r, now, for)
      PROVE  ActiveIsArmed'
  <2>1. /\ \A q \in Schedules \ {s} : sched'[q] = sched[q]
        /\ sched'[s].status = sched[s].status
        /\ sched'[s].next_run_at = sched[s].next_run_at
    BY <1>1, <1>2 DEF GrantLease, Row
  <2> QED
    BY <2>1, RowKeepsArmed DEF ActiveIsArmed
<1>3. ASSUME NEW s \in Schedules, ReapAndPause(s) PROVE ActiveIsArmed'
  <2>1. /\ \A q \in Schedules \ {s} : sched'[q] = sched[q]
        /\ sched'[s].status = "paused"
    BY <1>1, <1>3 DEF ReapAndPause, Released, Row
  <2> QED
    BY <2>1, RowKeepsArmed
<1>4. ASSUME NEW s \in Schedules, NEW r \in RunIds, NEW now \in Nat, NEW g,
             MarkStarted(s, r, g, now) \/ ExtendLease(s, r, clock)
      PROVE  ActiveIsArmed'
  <2>1. /\ \A q \in Schedules \ {s} : sched'[q] = sched[q]
        /\ sched'[s].status = sched[s].status
        /\ sched'[s].next_run_at = sched[s].next_run_at
    BY <1>1, <1>4 DEF MarkStarted, ExtendLease, Row
  <2> QED
    BY <2>1, RowKeepsArmed DEF ActiveIsArmed
<1>5. ASSUME NEW s \in Schedules, NEW r \in RunIds, NEW now \in Nat,
             DeferRun(s, r, now)
      PROVE  ActiveIsArmed'
  <2>1. /\ \A q \in Schedules \ {s} : sched'[q] = sched[q]
        /\ sched'[s].status = "active" => sched'[s].next_run_at = now
    BY <1>1, <1>5 DEF DeferRun, Released, Row
  <2> QED
    BY <1>1, <2>1, RowKeepsArmed
<1>6. ASSUME NEW s \in Schedules, NEW r \in RunIds, NEW now \in Nat,
             NEW n \in OptTime, NEW g \in OptGoals, NEW failed \in BOOLEAN,
             NEW hold \in BOOLEAN, FinishRun(s, r, now, n, g, failed, hold)
      PROVE  ActiveIsArmed'
  <2> DEFINE row == sched[s]
             stays == /\ row.status = "active" /\ ~hold
                      /\ ~PastExpiry(row, now)
  <2>1. /\ \A q \in Schedules \ {s} : sched'[q] = sched[q]
        /\ sched'[s].status = FinishedStatus(row, now, hold, n)
        /\ sched'[s].next_run_at = IF stays THEN n ELSE NULL
    BY <1>1, <1>6 DEF FinishRun, Released, Row
  <2>2. FinishedStatus(row, now, hold, n) = "active" => stays /\ n # NULL
    BY DEF FinishedStatus
  <2> QED
    BY <2>1, <2>2, RowKeepsArmed
<1>7. ASSUME NEW now \in Nat, ExpireSchedules(now) PROVE ActiveIsArmed'
  BY <1>1, <1>7 DEF ExpireSchedules, Released, Row, ActiveIsArmed
<1>8. ASSUME UNCHANGED sched PROVE ActiveIsArmed'
  BY <1>8 DEF ActiveIsArmed
<1> QED
  BY <1>2, <1>3, <1>4, <1>5, <1>6, <1>7, <1>8
     DEF Transaction, ClaimDue, ClaimNow, ClaimHeld, Advance,
         SessionHeartbeat, SessionPrune, SetGoal, storeVars

LEMMA ArmedEditKept ==
    ASSUME SystemInv, ArmedInv, NEW e \in Editors, NEW q, ArmedEdit(q),
           Begin(e, q) \/ Continue(e, q)
    PROVE  \A d \in Editors : ArmedEdit(edit'[d])
<1>1. edit' = [edit EXCEPT ![e] = q] /\ edit \in [Editors -> EditRow]
  BY DEF Begin, Continue, SystemInv, MemoryOK, EditsOK
<1>2. \A d \in Editors : edit'[d] = q \/ edit'[d] = edit[d]
  BY <1>1
<1> QED
  BY <1>2 DEF ArmedInv

LEMMA RequestKeepsArmed ==
    ASSUME Times = Nat, NoActivation, SystemInv, ArmedInv,
           NEW e \in Editors, RequestStep(e)
    PROVE  ArmedInv'
<1>1. /\ sched \in [Schedules -> Row] /\ clock \in Nat /\ EditsOK
      /\ ActiveIsArmed /\ ArmedEdit(edit[e])
  BY DEF SystemInv, StoreInv, TypeOK, MemoryOK, ArmedInv, Time
<1>2. ArmedEdit(NoEdit)
  BY DEF ArmedEdit, NoEdit
<1>3. ASSUME NEW q, ArmedEdit(q), Begin(e, q) \/ Continue(e, q),
             ActiveIsArmed'
      PROVE  ArmedInv'
  BY <1>3, ArmedEditKept DEF ArmedInv
<1>4. ASSUME UNCHANGED storeVars PROVE ActiveIsArmed'
  BY <1>1, <1>4 DEF ActiveIsArmed, storeVars
<1>5. ASSUME NEW s \in Schedules, NEW new \in NewSchedules,
             CreateCheck(e, s, new)
      PROVE  ArmedInv'
  <2>1. ArmedEdit([pc |-> "creating", s |-> s, new |-> new])
    BY DEF ArmedEdit
  <2> QED
    BY <1>3, <1>4, <1>5, <2>1 DEF CreateCheck
<1>6. ASSUME NEW s \in Schedules, NEW patch \in Patches,
             UpdateLoad(e, s, patch)
      PROVE  ArmedInv'
  <2> DEFINE row == sched[s]
             sent == PatchToSend(row, patch)
             kind == Or(patch.kind, row.kind)
             next == NextRunAt(kind, Period, clock)
             moved == IF patch.next_run_at = Keep /\ patch.kind # Keep
                                                  /\ kind # "once"
                      THEN [patch EXCEPT !.next_run_at = next]
                      ELSE patch
  <2>1. patch \in Patch /\ row \in Row /\ KeepsArmed(patch)
    BY <1>1, KeepFacts DEF NoActivation
  <2>2. kind \in Kinds
    BY <2>1 DEF Or, Patch, Row
  <2>3. kind # "once" => next # NULL
    BY <1>1, <2>2, NextRunIsTime, SystemFacts
  <2>4. /\ moved.next_run_at # NULL /\ moved.status = patch.status
        /\ moved.next_run_at \in OptTime \cup {Keep}
    <3> HIDE DEF next
    <3>1. kind # "once" => next \in Nat
      BY <1>1, <2>2, NextRunIsTime DEF next
    <3> QED
      BY <2>1, <2>3, <3>1 DEF KeepsArmed, Patch, OptTime
  <2>5. sent = IF Merge(moved, row).status = "active"
                  /\ Merge(moved, row).next_run_at = NULL
               THEN [moved EXCEPT !.next_run_at = next] ELSE moved
    BY DEF PatchToSend
  <2> HIDE DEF moved, next, kind
  <2>6. Merge(moved, row).status = "active" => row.status = "active"
    BY <2>1, <2>4 DEF Merge, Or, KeepsArmed
  <2>7. Merge(moved, row).next_run_at = NULL => row.next_run_at = NULL
    BY <2>4 DEF Merge, Or
  <2>8. sent = moved
    BY <1>1, <2>5, <2>6, <2>7 DEF ActiveIsArmed
  <2>9. KeepsArmed(sent)
    BY <2>1, <2>4, <2>8 DEF KeepsArmed
  <2> HIDE DEF sent
  <2>10. ArmedEdit([pc |-> "loaded", s |-> s, patch |-> sent])
    BY <2>9 DEF ArmedEdit
  <2> QED
    BY <1>3, <1>4, <1>6, <2>10 DEF UpdateLoad, sent
<1>7. ASSUME NEW s \in Schedules, PauseLoad(e, s) PROVE ArmedInv'
  <2> DEFINE patch == [KeepAll EXCEPT !.status = "paused"]
  <2>1. patch.status = "paused" /\ patch.next_run_at = Keep
    BY DEF KeepAll
  <2>2. Begin(e, [pc |-> "loaded", s |-> s, patch |-> patch])
    BY <1>7 DEF PauseLoad
  <2> HIDE DEF patch
  <2>3. ArmedEdit([pc |-> "loaded", s |-> s, patch |-> patch])
    BY <2>1, KeepFacts DEF ArmedEdit, KeepsArmed
  <2> QED
    BY <1>3, <1>4, <1>7, <2>2, <2>3 DEF PauseLoad
<1>8. ASSUME NEW s \in Schedules, ResumeLoad(e, s) PROVE FALSE
  BY <1>8 DEF ResumeLoad, NoActivation
<1>9. ASSUME NEW s \in Schedules, Delete(e, s) PROVE ArmedInv'
  <2>1. /\ \A q \in Schedules \ {s} : sched'[q] = sched[q]
        /\ sched'[s].status = "deleted"
    BY <1>1, <1>9 DEF Delete, DeleteSchedule, NoRow
  <2>2. ActiveIsArmed'
    BY <1>1, <2>1, RowKeepsArmed
  <2> QED
    BY <1>2, <1>3, <1>9, <2>2 DEF Delete
<1>10. CASE CreateInsert(e)
  <2> DEFINE s == edit[e].s
             new == edit[e].new
  <2>1. s \in Schedules /\ new \in NewSchedules
    BY <1>1, <1>10, EditFacts DEF CreateInsert, Creating
  <2>2. new.next_run_at # NULL
    BY <2>1, KeepFacts, SystemFacts
  <2>3. /\ \A q \in Schedules \ {s} : sched'[q] = sched[q]
        /\ sched'[s].next_run_at = new.next_run_at
    BY <1>1, <1>10, <2>1 DEF CreateInsert, CreateSchedule, NewRow
  <2>4. ActiveIsArmed'
    BY <1>1, <2>1, <2>2, <2>3, RowKeepsArmed
  <2> QED
    BY <1>2, <1>3, <1>10, <2>4 DEF CreateInsert
<1>11. CASE UpdateRead(e)
  <2> DEFINE s == edit[e].s
             patch == edit[e].patch
             merged == Merge(patch, sched[s])
             read == [pc |-> "merged", s |-> s, merged |-> merged,
                      reset |-> patch.status = "active"]
  <2>1. s \in Schedules /\ KeepsArmed(patch)
    BY <1>1, <1>11, EditFacts DEF UpdateRead, Loaded, ArmedEdit
  <2>2. merged.status = "active" => merged.next_run_at # NULL
    BY <1>1, <2>1 DEF ActiveIsArmed, Merge, Or, KeepsArmed
  <2>3. Continue(e, read) \/ Continue(e, NoEdit)
    BY <1>11 DEF UpdateRead
  <2> HIDE DEF merged
  <2>4. ArmedEdit(read)
    BY <2>2 DEF ArmedEdit
  <2> HIDE DEF read
  <2> QED
    BY <1>2, <1>3, <1>4, <1>11, <2>3, <2>4 DEF UpdateRead
<1>12. CASE UpdateWrite(e)
  <2> DEFINE s == edit[e].s
             merged == edit[e].merged
  <2>1. /\ s \in Schedules
        /\ merged.status = "active" => merged.next_run_at # NULL
    BY <1>1, <1>12, EditFacts DEF UpdateWrite, Merging, ArmedEdit
  <2>2. ASSUME UpdateSchedule(s, merged, edit[e].reset)
        PROVE  ActiveIsArmed'
    <3>1. /\ \A q \in Schedules \ {s} : sched'[q] = sched[q]
          /\ sched'[s].status = merged.status
          /\ merged.status # "expired" =>
                sched'[s].next_run_at = merged.next_run_at
      BY <1>1, <2>1, <2>2 DEF UpdateSchedule
    <3> QED
      BY <1>1, <2>1, <3>1, RowKeepsArmed
  <2> QED
    BY <1>2, <1>3, <1>4, <1>12, <2>2 DEF UpdateWrite
<1>13. CASE ResumeWrite(e)
  BY <1>1, <1>13 DEF ResumeWrite, ArmedEdit
<1> QED
  BY <1>5, <1>6, <1>7, <1>8, <1>9, <1>10, <1>11, <1>12, <1>13
     DEF RequestStep

(***************************************************************************)
(* While no request resumes a schedule or sets it active, every active     *)
(* schedule has a run time: however its runs finish, are deferred, fail,   *)
(* are reaped or expire, and however its edits and pauses interleave with  *)
(* them, no schedule is left active with nothing that could ever claim it. *)
(***************************************************************************)
THEOREM ActiveStaysArmed ==
    ASSUME Times = Nat, NoActivation PROVE SystemSpec => []ActiveIsArmed
<1>1. SystemInit => SystemInv /\ ArmedInv
  <2> SUFFICES ASSUME SystemInit PROVE SystemInv /\ ArmedInv
    OBVIOUS
  <2>1. ActiveIsArmed
    BY DEF SystemInit, Init, NoRow, ActiveIsArmed
  <2>2. \A e \in Editors : ArmedEdit(edit[e])
    BY DEF SystemInit, NoEdit, ArmedEdit
  <2> QED
    BY <2>1, <2>2, SystemInitInv DEF ArmedInv
<1>2. SystemInv /\ ArmedInv /\ [SystemNext]_vars => SystemInv' /\ ArmedInv'
  <2> SUFFICES ASSUME SystemInv, ArmedInv, [SystemNext]_vars
               PROVE  SystemInv' /\ ArmedInv'
    OBVIOUS
  <2>1. SystemInv'
    BY SystemStep
  <2>2. ASSUME [Transaction]_storeVars, UNCHANGED edit PROVE ArmedInv'
    BY <2>2, TransactionKeepsArmed DEF ArmedInv, SystemInv, ArmedEdit
  <2>3. CASE RuntimeNext /\ UNCHANGED <<edit, edits>>
    BY <2>1, <2>2, <2>3, RuntimeSteps DEF RuntimeEffect
  <2>4. CASE UNCHANGED vars
    BY <2>1, <2>2, <2>4 DEF vars
  <2> QED
    BY <2>1, <2>3, <2>4, RequestKeepsArmed DEF SystemNext
<1>3. ArmedInv => ActiveIsArmed
  BY DEF ArmedInv
<1> QED
  BY <1>1, <1>2, <1>3, PTL DEF SystemSpec

-----------------------------------------------------------------------------
(***************************************************************************)
(* Heartbeats.  A heartbeat that is on fires within its slack, and the     *)
(* lease of its run, if that is still live, lasts LeaseDuration from the   *)
(* beat before: longer than the interval and the slack together.  Claims   *)
(* use the time of their tick, which is never ahead of the clock.          *)
(***************************************************************************)
LeaseEnd(r) == sched[run[r].schedule_id].lease_expires_at
Beating(r) ==
    /\ clock <= job[r].beat + HeartbeatSlack
    /\ job[r].beat <= clock + HeartbeatInterval
    /\ Live(r) => job[r].beat + LeaseDuration
                     <= LeaseEnd(r) + HeartbeatInterval
HeartbeatsOnTime ==
    /\ \A r \in RunIds : job[r].hb = "on" => Beating(r) /\ r \in issued
    /\ \A p \in Procs : tick[p].now <= clock

(* A live run holds the lease of its schedule, which has an end.            *)
LEMMA LiveHasLease ==
    ASSUME StoreInv, RunsNamed, NEW r \in RunIds, Live(r)
    PROVE  /\ run[r].schedule_id \in Schedules
           /\ sched[run[r].schedule_id].lease_id = r
           /\ sched[run[r].schedule_id].status = "active"
           /\ LeaseEnd(r) \in Nat
<1>1. run[r] \in RunRow /\ run[r].status # "none"
  BY DEF StoreInv, TypeOK, Live, LiveStatuses
<1>2. run[r].schedule_id \in Schedules
  BY <1>1 DEF RunsNamed, RunRow
<1> DEFINE row == sched[run[r].schedule_id]
<1>3. row \in Row /\ row.lease_id = r
  BY <1>2 DEF StoreInv, TypeOK, LeaseAgrees
<1>4. row.lease_id # NULL
  BY <1>3, ConstantFacts
<1>5. row.status = "active" /\ row.lease_expires_at # NULL
  BY <1>2, <1>4 DEF StoreInv, LeaseAgrees
<1> QED
  BY <1>2, <1>3, <1>5 DEF LeaseEnd, Row, OptTime

(* The run is no longer live, or its lease is not shortened.                *)
Protected(q) ==
    Live(q)' => /\ Live(q) /\ run'[q].schedule_id = run[q].schedule_id
                /\ \/ LeaseEnd(q)' >= LeaseEnd(q)
                   \/ LeaseEnd(q)' >= clock + LeaseDuration

LEMMA SameRowProtects ==
    ASSUME StoreInv, RunsNamed, NEW q \in RunIds, run'[q] = run[q],
           Live(q) => sched'[run[q].schedule_id].lease_expires_at
                        = sched[run[q].schedule_id].lease_expires_at
    PROVE  Protected(q)
<1> SUFFICES ASSUME Live(q) PROVE LeaseEnd(q)' >= LeaseEnd(q)
  BY DEF Protected, Live
<1>1. LeaseEnd(q) \in Nat
  BY LiveHasLease
<1>2. LeaseEnd(q)' = LeaseEnd(q)
  BY DEF LeaseEnd
<1> QED
  BY <1>1, <1>2

LEMMA ReapingProtects ==
    ASSUME StoreInv, RunsNamed, NEW q \in RunIds, NEW ss,
           run'[q] = FailLiveRuns(ss)[q],
           \A s \in Schedules : s \notin ss =>
              sched'[s].lease_expires_at = sched[s].lease_expires_at
    PROVE  Protected(q)
<1> SUFFICES ASSUME Live(q)' PROVE Protected(q)
  BY DEF Protected
<1>1. TypeOK
  BY DEF StoreInv
<1>2. run[q].schedule_id \notin ss /\ run'[q] = run[q]
  BY <1>1, FailLiveRunsFacts DEF Live
<1>3. Live(q)
  BY <1>2 DEF Live
<1>4. run[q].schedule_id \in Schedules
  BY <1>3, LiveHasLease
<1> QED
  BY <1>2, <1>4, SameRowProtects

LEMMA GrantProtects ==
    ASSUME StoreInv, RunsNamed, NEW q \in RunIds, NEW s \in Schedules,
           NEW r \in RunIds, NEW now, NEW for, GrantLease(s, r, now, for),
           q # r
    PROVE  Protected(q)
<1>1. sched \in [Schedules -> Row]
  BY DEF StoreInv, TypeOK
<1>2. run'[q] = FailLiveRuns({s})[q]
  BY DEF GrantLease, FailLiveRuns
<1>3. \A t \in Schedules : t \notin {s} => sched'[t] = sched[t]
  BY <1>1 DEF GrantLease
<1> QED
  BY <1>2, <1>3, ReapingProtects

LEMMA TransactionProtects ==
    ASSUME StoreInv, RunsNamed, NEW q \in RunIds, [Transaction]_storeVars
    PROVE  \/ Protected(q)
           \/ \E s \in Schedules, now, for \in OptTime : GrantLease(s, q, now, for)
<1>1. /\ sched \in [Schedules -> Row] /\ run \in [RunIds -> RunRow]
      /\ clock \in Nat
  BY DEF StoreInv, TypeOK, Time
<1>2. ASSUME NEW s \in Schedules, NEW r \in RunIds, NEW now \in Nat,
             NEW for \in OptTime, GrantLease(s, r, now, for)
      PROVE  \/ Protected(q)
             \/ \E t \in Schedules, n, f \in OptTime : GrantLease(t, q, n, f)
  BY <1>2, GrantProtects DEF OptTime
<1>3. ASSUME NEW s \in Schedules, ReapAndPause(s) PROVE Protected(q)
  <2>1. \A t \in Schedules : t \notin {s} => sched'[t] = sched[t]
    BY <1>1, <1>3 DEF ReapAndPause
  <2> QED
    BY <1>3, <2>1, ReapingProtects DEF ReapAndPause
<1>4. ASSUME NEW s \in Schedules, NEW r \in RunIds, NEW now \in Nat, NEW g,
             MarkStarted(s, r, g, now)
      PROVE  Protected(q)
  <2>1. /\ run[r].schedule_id = s /\ Live(r)
        /\ run'[r].schedule_id = s /\ \A i \in RunIds : i # r => run'[i] = run[i]
    BY <1>1, <1>4 DEF MarkStarted, CanMarkStarted, OwnsLease, Live,
                      LiveStatuses, RunRow
  <2>2. sched[s].lease_expires_at \in Nat
    BY <2>1, LiveHasLease DEF LeaseEnd
  <2>3. /\ \A t \in Schedules : t # s => sched'[t] = sched[t]
        /\ sched'[s].lease_expires_at >= sched[s].lease_expires_at
    BY <1>1, <1>4, <2>2, ConstantFacts DEF MarkStarted, MaxOf, Row
  <2>4. CASE q = r
    BY <2>1, <2>3, <2>4 DEF Protected, LeaseEnd
  <2>5. CASE q # r
    <3>1. Live(q) => run[q].schedule_id \in Schedules
                     /\ sched[run[q].schedule_id].lease_id = q
      BY LiveHasLease
    <3>2. sched[s].lease_id = r
      BY <2>1, LiveHasLease
    <3>3. Live(q) => run[q].schedule_id # s
      BY <2>5, <3>1, <3>2
    <3> QED
      BY <2>1, <2>3, <2>5, <3>1, <3>3, SameRowProtects
  <2> QED
    BY <2>4, <2>5
<1>5. ASSUME NEW s \in Schedules, NEW r \in RunIds, ExtendLease(s, r, clock)
      PROVE  Protected(q)
  <2>1. /\ \A t \in Schedules : t # s => sched'[t] = sched[t]
        /\ sched'[s].lease_expires_at = clock + LeaseDuration
        /\ UNCHANGED run
    BY <1>1, <1>5 DEF ExtendLease, Row
  <2>2. CASE run[q].schedule_id = s
    <3>1. LeaseEnd(q)' >= clock + LeaseDuration
      BY <1>1, <2>1, <2>2, ConstantFacts DEF LeaseEnd
    <3> QED
      BY <2>1, <3>1 DEF Protected, Live
  <2>3. CASE run[q].schedule_id # s
    BY <2>1, <2>3, SameRowProtects, LiveHasLease
  <2> QED
    BY <2>2, <2>3
<1>6. ASSUME NEW s \in Schedules, NEW r \in RunIds, NEW status \in Terminal,
             OwnsLease(s, r), run' = [run EXCEPT ![r].status = status],
             \A t \in Schedules : t # s => sched'[t] = sched[t]
      PROVE  Protected(q)
  <2>1. q = r => ~Live(q)'
    BY <1>1, <1>6 DEF Live, LiveStatuses, Terminal, RunRow
  <2>2. q # r => run'[q] = run[q]
    BY <1>1, <1>6
  <2>3. Live(q) /\ q # r => run[q].schedule_id \in Schedules \ {s}
    BY <1>6, LiveHasLease DEF OwnsLease
  <2> QED
    BY <1>6, <2>1, <2>2, <2>3, SameRowProtects DEF Protected
<1>7. ASSUME NEW s \in Schedules, NEW r \in RunIds, NEW now \in Nat,
             \/ DeferRun(s, r, now)
             \/ \E hold \in BOOLEAN : \E n, g, failed :
                   FinishRun(s, r, now, n, g, failed, hold)
      PROVE  Protected(q)
  <2>1. /\ OwnsLease(s, r)
        /\ \A t \in Schedules : t # s => sched'[t] = sched[t]
    BY <1>1, <1>7 DEF DeferRun, CanDefer, FinishRun, CanFinish
  <2>2. \E status \in Terminal : run' = [run EXCEPT ![r].status = status]
    BY <1>7 DEF DeferRun, FinishRun, Terminal
  <2> QED
    BY <1>6, <2>1, <2>2
<1>8. ASSUME NEW now \in Nat, ExpireSchedules(now) PROVE Protected(q)
  <2>1. \A s \in Schedules : s \notin Expiring(now) => sched'[s] = sched[s]
    BY <1>8 DEF ExpireSchedules
  <2> QED
    BY <1>8, <2>1, ReapingProtects DEF ExpireSchedules
<1>9. ASSUME UNCHANGED <<sched, run>> PROVE Protected(q)
  BY <1>9, SameRowProtects
<1>10. ASSUME NEW p \in Procs, NEW s \in Schedules, NEW now \in Nat,
              NEW fresh \in Nat, NEW r \in RunIds,
              ClaimDue(p, s, r, now, fresh) \/ ClaimNow(p, s, r, now, fresh)
       PROVE  \/ Protected(q)
              \/ \E t \in Schedules, n, f \in OptTime : GrantLease(t, q, n, f)
  <2>1. \E for \in OptTime : GrantLease(s, r, now, for)
    BY <1>1, <1>10 DEF ClaimDue, ClaimNow, Row, OptTime
  <2> QED
    BY <1>2, <2>1
<1> QED
  BY <1>3, <1>4, <1>5, <1>7, <1>8, <1>9, <1>10
     DEF Transaction, ClaimHeld, Advance,
         SessionHeartbeat, SessionPrune, SetGoal, storeVars

LEMMA RequestProtects ==
    ASSUME StoreInv, RunsNamed, NEW q \in RunIds, [Request]_storeVars
    PROVE  Protected(q)
<1>1. /\ sched \in [Schedules -> Row] /\ run \in [RunIds -> RunRow]
  BY DEF StoreInv, TypeOK
<1>2. ASSUME NEW s \in Schedules, NEW new \in NewSchedules,
             CreateSchedule(s, new.kind, new.next_run_at, new.expires_at)
      PROVE  Protected(q)
  <2>1. /\ \A t \in Schedules : t # s => sched'[t] = sched[t]
        /\ sched[s].status = "absent" /\ UNCHANGED run
    BY <1>1, <1>2 DEF CreateSchedule
  <2>2. Live(q) => run[q].schedule_id \in Schedules \ {s}
    BY <2>1, LiveHasLease
  <2> QED
    BY <2>1, <2>2, SameRowProtects
<1>3. ASSUME NEW s \in Schedules, NEW m \in Merged, NEW reset \in BOOLEAN,
             UpdateSchedule(s, m, reset)
      PROVE  Protected(q)
  <2>1. \A t \in Schedules : t # s => sched'[t] = sched[t]
    BY <1>1, <1>3 DEF UpdateSchedule
  <2>2. CASE m.status = "active"
    <3>1. UNCHANGED run /\ sched'[s].lease_expires_at = sched[s].lease_expires_at
      BY <1>1, <1>3, <2>2 DEF UpdateSchedule
    <3> QED
      BY <2>1, <3>1, SameRowProtects, LiveHasLease
  <2>3. CASE m.status # "active"
    <3>1. run' = FailLiveRuns({s})
      BY <1>3, <2>3 DEF UpdateSchedule
    <3> QED
      BY <2>1, <3>1, ReapingProtects
  <2> QED
    BY <2>2, <2>3
<1>4. ASSUME NEW s \in Schedules, NEW n \in OptTime, ResumeSchedule(s, n)
      PROVE  Protected(q)
  <2>1. \A t \in Schedules :
           sched'[t].lease_expires_at = sched[t].lease_expires_at
    BY <1>1, <1>4 DEF ResumeSchedule, Row
  <2> QED
    BY <1>4, <2>1, SameRowProtects, LiveHasLease DEF ResumeSchedule
<1>5. ASSUME NEW s \in Schedules, DeleteSchedule(s) PROVE Protected(q)
  <2>1. /\ \A t \in Schedules : t # s => sched'[t] = sched[t]
        /\ run[q].schedule_id = s => ~Live(q)'
        /\ run[q].schedule_id # s => run'[q] = run[q]
    BY <1>1, <1>5 DEF DeleteSchedule, NoRun, Live, LiveStatuses
  <2> QED
    BY <2>1, SameRowProtects, LiveHasLease DEF Protected
<1>6. ASSUME UNCHANGED storeVars PROVE Protected(q)
  BY <1>6, SameRowProtects DEF storeVars
<1> QED
  BY <1>2, <1>3, <1>4, <1>5, <1>6 DEF Request

LEMMA LiveLeaseEnds ==
    StoreInv /\ RunsNamed => \A r \in RunIds : Live(r) => LeaseEnd(r) \in Nat
  BY LiveHasLease

LEMMA IssuedGrows == [Next]_storeVars => issued \subseteq issued'
<1>1. ASSUME NEW s \in Schedules,
             \/ \E k, n, e : CreateSchedule(s, k, n, e)
             \/ \E m, reset : UpdateSchedule(s, m, reset)
             \/ \E n : ResumeSchedule(s, n)
             \/ DeleteSchedule(s)
             \/ ReapAndPause(s)
      PROVE  UNCHANGED issued
  BY <1>1, Zenon DEF CreateSchedule, UpdateSchedule, ResumeSchedule,
                     DeleteSchedule, ReapAndPause
<1>2. ASSUME NEW s \in Schedules, NEW r \in RunIds,
             \/ \E g, now : MarkStarted(s, r, g, now)
             \/ \E now : ExtendLease(s, r, now)
             \/ \E n : DeferRun(s, r, n)
             \/ \E hold \in BOOLEAN : \E now, n, g, failed :
                   FinishRun(s, r, now, n, g, failed, hold)
      PROVE  UNCHANGED issued
  BY <1>2, Zenon DEF MarkStarted, ExtendLease, DeferRun, FinishRun
<1>3. ASSUME NEW s, NEW r, NEW now, NEW for, GrantLease(s, r, now, for)
      PROVE  issued \subseteq issued'
  BY <1>3 DEF GrantLease
<1>4. ASSUME NEW now, \/ ExpireSchedules(now) \/ Advance(now)
                      \/ \E p : SessionHeartbeat(p, now)
                                \/ SessionPrune(p, now)
                      \/ \E g, held : SetGoal(g, held)
      PROVE  UNCHANGED issued
  BY <1>4, Zenon DEF ExpireSchedules, Advance, SessionHeartbeat, SessionPrune,
                     SetGoal
<1> QED
  BY <1>1, <1>2, <1>3, <1>4
     DEF Next, ClaimDue, ClaimNow, ClaimHeld, storeVars

(* The heartbeat of q is not started or renewed.                            *)
HbKept(q) == job'[q].hb = "on" => job[q].hb = "on"
                                  /\ job'[q].beat = job[q].beat

LEMMA QuietBeat ==
    ASSUME SystemInv, SystemInv', HeartbeatsOnTime, NEW q \in RunIds,
           UNCHANGED clock, Protected(q), HbKept(q), job'[q].hb = "on"
    PROVE  Beating(q)'
<1>1. (StoreInv /\ RunsNamed
          => \A r \in RunIds : Live(r) => LeaseEnd(r) \in Nat)'
  BY LiveLeaseEnds, PTL
<1>2. Live(q)' => LeaseEnd(q)' \in Nat
  BY <1>1 DEF SystemInv
<1>3. Live(q) => LeaseEnd(q) \in Nat
  BY LiveLeaseEnds DEF SystemInv
<1>4. Beating(q) /\ job'[q].beat = job[q].beat
  BY DEF HeartbeatsOnTime, HbKept
<1>5. job[q].beat \in Nat /\ clock \in Nat /\ LeaseDuration \in Nat
      /\ HeartbeatInterval \in Nat /\ HeartbeatSlack \in Nat
  BY JobFacts, SystemFacts
<1>6. CASE ~Live(q)'
  BY <1>4, <1>6 DEF Beating
<1>7. CASE Live(q)'
  <2>1. Live(q)
    BY <1>7 DEF Protected
  <2>2. job[q].beat + LeaseDuration <= LeaseEnd(q)' + HeartbeatInterval
    BY <1>2, <1>3, <1>4, <1>5, <1>7, <2>1 DEF Protected, Beating
  <2> QED
    BY <1>4, <2>2 DEF Beating
<1> QED
  BY <1>6, <1>7

LEMMA FreshBeat ==
    ASSUME SystemInv, SystemInv', NEW q \in RunIds, NEW s \in Schedules,
           ExtendLease(s, q, clock), job'[q].beat = clock + HeartbeatInterval
    PROVE  Beating(q)' /\ q \in issued'
<1>1. /\ clock \in Nat /\ LeaseDuration \in Nat /\ HeartbeatInterval \in Nat
      /\ HeartbeatSlack \in Nat
  BY JobFacts, SystemFacts
<1>2. sched \in [Schedules -> Row]
  BY DEF SystemInv, StoreInv, TypeOK
<1>3. UNCHANGED <<clock, run, issued>> /\ run[q].schedule_id = s /\ Live(q)
  BY DEF ExtendLease, CanExtend, OwnsLease
<1>4. LeaseEnd(q)' = clock + LeaseDuration
  BY <1>2, <1>3 DEF LeaseEnd, ExtendLease, Row
<1>5. q \in issued
  BY <1>3 DEF SystemInv, StoreInv, UnissuedUnused, Live, LiveStatuses
<1> QED
  BY <1>1, <1>3, <1>4, <1>5 DEF Beating

LEMMA HbSteps ==
    ASSUME SystemInv, RuntimeNext, NEW q \in RunIds
    PROVE  \/ HbKept(q)
           \/ /\ ExtendLease(job[q].sid, q, clock) /\ job[q].sid \in Schedules
              /\ job'[q].beat = clock + HeartbeatInterval
<1>1. job \in [RunIds -> JobRow]
  BY DEF SystemInv, MemoryOK, JobsOK
<1>2. ASSUME UNCHANGED job PROVE HbKept(q)
  BY <1>2 DEF HbKept
<1>3. ASSUME NEW r \in RunIds, NEW p, NEW s,
             job' = [job EXCEPT ![r] = NewJob(p, s)]
      PROVE  HbKept(q)
  <2>1. NewJob(p, s).hb = "off"
    BY DEF NewJob, NoJob
  <2> QED
    BY <1>1, <1>3, <2>1 DEF HbKept
<1>4. ASSUME NEW p \in Procs, PollStep(p) PROVE HbKept(q)
  <2>1. \/ UNCHANGED job
        \/ \E s \in Schedules, r \in RunIds :
              job' = [job EXCEPT ![r] = NewJob(p, s)]
    BY <1>4, Zenon DEF PollStep, TickBegin, TickEnd, TickResume, TickLook,
                       TickClaimHeld, TickClaim
  <2> QED
    BY <1>2, <1>3, <2>1
<1>5. ASSUME NEW p \in Procs, NEW s \in Schedules,
             \/ RunNowLook(p, s) \/ RunNowHeld(p, s)
             \/ \E r \in RunIds : RunNow(p, s, r)
      PROVE  HbKept(q)
  BY <1>2, <1>3, <1>5 DEF RunNow, RunNowHeld, RunNowLook
<1>6. ASSUME NEW p \in Procs, Crash(p) PROVE HbKept(q)
  <2>1. [NoJob EXCEPT !.pc = "dead"].hb = "off"
    BY DEF NoJob
  <2> QED
    BY <1>6, <2>1 DEF Crash, HbKept
<1>7. ASSUME \/ \E p \in Procs : Restart(p) \/ ShowActive(p)
             \/ TimePasses \/ GoalChanges
      PROVE  HbKept(q)
  BY <1>2, <1>7 DEF Restart, ShowActive, TimePasses, GoalChanges, runtimeVars
<1>9. ASSUME NEW r \in RunIds, NEW x,
             Fail(r, x) \/ Postpone(r, x) \/ Step(r, x) \/ Return(r)
      PROVE  HbKept(q)
  <2>1. CASE Fail(r, x)
    BY <1>1, <2>1 DEF Fail, HbKept, JobRow
  <2>2. CASE Postpone(r, x)
    BY <1>1, <2>2 DEF Postpone, HbKept, JobRow
  <2>3. CASE Step(r, x)
    BY <1>1, <2>3 DEF Step, HbKept, JobRow
  <2>4. CASE Return(r)
    BY <1>1, <2>4 DEF Return, HbKept, JobRow
  <2> QED
    BY <1>9, <2>1, <2>2, <2>3, <2>4
<1>10. ASSUME NEW r \in RunIds,
              \/ SubmitError(r) \/ WaitForUsageProfile(r) \/ RejectTurn(r)
              \/ ReadGoal(r) \/ StartRun(r) \/ CheckOwnership(r)
              \/ FinishLook(r) \/ FinishWrite(r) \/ FinishMiss(r)
              \/ DeferWrite(r) \/ FinishError(r)
       PROVE  HbKept(q)
  BY <1>2, <1>9, <1>10
     DEF SubmitError, WaitForUsageProfile, RejectTurn, ReadGoal, StartRun,
         CheckOwnership, FinishLook, FinishWrite, FinishMiss, DeferWrite,
         FinishError
<1>11. ASSUME NEW r \in RunIds, PrepareGoal(r) PROVE HbKept(q)
  BY <1>1, <1>11 DEF PrepareGoal, HbKept, JobRow
<1>12. ASSUME NEW r \in RunIds, SubmitTurn(r) PROVE HbKept(q)
  <2>1. Fail(r, job[r].goal_id)
        \/ job' = [job EXCEPT ![r].pc = "turn", ![r].turn = TRUE]
    BY <1>12 DEF SubmitTurn
  <2>2. CASE job' = [job EXCEPT ![r].pc = "turn", ![r].turn = TRUE]
    BY <1>1, <2>2 DEF HbKept, JobRow
  <2> QED
    BY <1>9, <2>1, <2>2
<1>13. ASSUME NEW r \in RunIds, FinishRead(r) PROVE HbKept(q)
  <2>1. Return(r) \/ \E n :
           job' = [job EXCEPT ![r] = [job[r] EXCEPT !.pc = "finishing",
                                                    !.next = n]]
    BY <1>1, <1>13 DEF FinishRead
  <2>2. ASSUME NEW n, job' = [job EXCEPT ![r] =
                  [job[r] EXCEPT !.pc = "finishing", !.next = n]]
        PROVE  HbKept(q)
    BY <1>1, <2>2 DEF HbKept, JobRow
  <2> QED
    BY <1>9, <2>1, <2>2
<1>14. ASSUME NEW r \in RunIds, NEW failed \in BOOLEAN,
              TurnEnds(r, failed) \/ RecoverRun(r, failed)
       PROVE  HbKept(q)
  <2>1. CASE TurnEnds(r, failed)
    BY <1>1, <2>1 DEF TurnEnds, HbKept, JobRow
  <2>2. CASE RecoverRun(r, failed)
    BY <1>1, <2>2 DEF RecoverRun, HbKept, JobRow
  <2> QED
    BY <1>14, <2>1, <2>2
<1>15. ASSUME NEW r \in RunIds, HeartbeatError(r) PROVE HbKept(q)
  BY <1>1, <1>15 DEF HeartbeatError, HbKept, JobRow
<1>16. ASSUME NEW r \in RunIds, StartHeartbeat(r) \/ Heartbeat(r)
       PROVE  \/ HbKept(q)
              \/ /\ ExtendLease(job[q].sid, q, clock)
                 /\ job[q].sid \in Schedules
                 /\ job'[q].beat = clock + HeartbeatInterval
  <2>1. job[r].sid \in Schedules
    BY <1>16, JobFacts DEF StartHeartbeat, Heartbeat, At
  <2>2. q # r => HbKept(q)
    BY <1>1, <1>16 DEF StartHeartbeat, Heartbeat, Fail, HbKept
  <2>3. CASE q = r /\ ExtendLease(job[r].sid, r, clock)
                   /\ job'[r].beat = clock + HeartbeatInterval
    BY <2>1, <2>3
  <2>4. CASE Fail(r, job[r].goal_id)
    BY <1>9, <2>4
  <2>5. CASE job' = [job EXCEPT ![r].hb = "lost"]
    BY <1>1, <2>5 DEF HbKept, JobRow
  <2>6. \/ ExtendLease(job[r].sid, r, clock)
           /\ job'[r].beat = clock + HeartbeatInterval
        \/ Fail(r, job[r].goal_id)
        \/ job' = [job EXCEPT ![r].hb = "lost"]
    BY <1>1, <1>16, ZenonT(60) DEF StartHeartbeat, Heartbeat, JobRow
  <2> QED
    BY <2>2, <2>3, <2>4, <2>5, <2>6
<1> QED
  BY <1>4, <1>5, <1>6, <1>7, <1>10, <1>11, <1>12, <1>13, <1>14, <1>15, <1>16
     DEF RuntimeNext, JobStep, JobEvent

(* The clock never goes back; only TimePasses moves it. *)
LEMMA ClockSteps ==
    ASSUME SystemInv, RuntimeNext
    PROVE  TimePasses \/ UNCHANGED clock
<1>1. ASSUME NEW p \in Procs, PollStep(p) PROVE UNCHANGED clock
  BY <1>1 DEF PollStep, TickBegin, TickEnd, TickResume, TickLook,
              TickClaimHeld, TickClaim, ExpireSchedules, ClaimHeld, ReapAndPause, ClaimDue,
              GrantLease, storeVars
<1>2. ASSUME NEW p \in Procs, NEW s \in Schedules,
             \/ RunNowLook(p, s) \/ RunNowHeld(p, s)
             \/ \E r \in RunIds : RunNow(p, s, r)
      PROVE  UNCHANGED clock
  BY <1>2 DEF RunNow, RunNowHeld, RunNowLook, ClaimHeld, ReapAndPause,
              ClaimNow, GrantLease, storeVars
<1>3. ASSUME \/ \E p \in Procs : Crash(p) \/ Restart(p) \/ ShowActive(p)
             \/ GoalChanges
      PROVE  UNCHANGED clock
  BY <1>3 DEF Crash, Restart, ShowActive, GoalChanges, SessionHeartbeat,
              SessionPrune, SetGoal, storeVars
<1>4. ASSUME NEW r \in RunIds,
             \/ SubmitError(r) \/ WaitForUsageProfile(r) \/ RejectTurn(r)
             \/ ReadGoal(r) \/ PrepareGoal(r) \/ StartRun(r)
             \/ StartHeartbeat(r) \/ CheckOwnership(r) \/ SubmitTurn(r)
             \/ Heartbeat(r) \/ HeartbeatError(r)
      PROVE  UNCHANGED clock
  BY <1>4
     DEF SubmitError, WaitForUsageProfile, RejectTurn, ReadGoal, PrepareGoal,
         StartRun, StartHeartbeat, CheckOwnership, SubmitTurn, Heartbeat,
         HeartbeatError, SetGoal, MarkStarted, ExtendLease, storeVars
<1>5. ASSUME NEW r \in RunIds,
             \/ \E failed \in BOOLEAN : TurnEnds(r, failed)
                                        \/ RecoverRun(r, failed)
             \/ FinishRead(r) \/ FinishLook(r) \/ FinishWrite(r)
             \/ FinishMiss(r) \/ DeferWrite(r) \/ FinishError(r)
      PROVE  UNCHANGED clock
  BY <1>5 DEF TurnEnds, RecoverRun, FinishRead, FinishLook, FinishWrite,
              FinishMiss, DeferWrite, FinishError, FinishRun, DeferRun,
              storeVars
<1> QED
  BY <1>1, <1>2, <1>3, <1>4, <1>5 DEF RuntimeNext, JobStep, JobEvent

(* A polling loop takes the time when its tick begins.                      *)
LEMMA TickTimes ==
    ASSUME SystemInv, HeartbeatsOnTime, RuntimeNext, NEW p \in Procs
    PROVE  tick'[p].now <= clock
<1>1. tick \in [Procs -> TickRow] /\ tick[p].now <= clock /\ clock \in Nat
  BY DEF SystemInv, MemoryOK, TicksOK, HeartbeatsOnTime, StoreInv, TypeOK,
         Time
<1>2. IdleTick.now = 0
  BY DEF IdleTick
<1>3. ASSUME NEW d \in Procs, tick' = [tick EXCEPT ![d] = IdleTick]
      PROVE  tick'[p].now <= clock
  BY <1>1, <1>2, <1>3
<1>4. ASSUME UNCHANGED tick PROVE tick'[p].now <= clock
  BY <1>1, <1>4
<1>5. ASSUME NEW d \in Procs, TickBegin(d) PROVE tick'[p].now <= clock
  <2>1. PICK t : tick' = [tick EXCEPT ![d] = t] /\ t.now = clock
    <3>1. [IdleTick EXCEPT !.pc = "claiming", !.now = clock,
                           !.left = MaxClaimsPerTick].now = clock
      BY DEF IdleTick
    <3> QED
      BY <1>5, <3>1 DEF TickBegin
  <2>2. clock <= clock
    BY <1>1
  <2> QED
    BY <1>1, <2>1, <2>2
<1>6. ASSUME NEW d \in Procs, NEW s \in Schedules, NEW r \in RunIds,
             TickClaim(d, s, r)
      PROVE  tick'[p].now <= clock
  <2>1. tick'[p].now = tick[p].now
    BY <1>1, <1>6 DEF TickClaim, TickRow
  <2> QED
    BY <1>1, <2>1
<1>7. ASSUME NEW d \in Procs, TickResume(d) PROVE tick'[p].now <= clock
  <2>1. PICK k \in Int : k = tick[d].left - 1
    BY <1>1 DEF TickRow
  <2> DEFINE row == [tick[d] EXCEPT !.pc = "claiming", !.left = k,
                                    !.waits = NULL]
  <2>2. \/ tick' = [tick EXCEPT ![d] = IdleTick]
        \/ tick' = [tick EXCEPT ![d] = row]
    BY <1>1, <1>7, <2>1 DEF TickResume
  <2>3. row.now = tick[d].now
    BY <1>1 DEF TickRow
  <2> HIDE DEF row
  <2> QED
    BY <1>1, <1>3, <2>2, <2>3
<1>8. ASSUME NEW d \in Procs, PollStep(d) PROVE tick'[p].now <= clock
  BY <1>3, <1>4, <1>5, <1>6, <1>7, <1>8
     DEF PollStep, TickEnd, TickLook, TickClaimHeld
<1>9. ASSUME NEW d \in Procs, Crash(d) PROVE tick'[p].now <= clock
  BY <1>3, <1>9 DEF Crash
<1>10. ASSUME \/ \E d \in Procs, s \in Schedules :
                    \/ RunNowLook(d, s) \/ RunNowHeld(d, s)
                    \/ \E r \in RunIds : RunNow(d, s, r)
              \/ \E d \in Procs : Restart(d) \/ ShowActive(d)
              \/ TimePasses \/ GoalChanges
       PROVE  UNCHANGED tick
  BY <1>10 DEF RunNow, RunNowHeld, RunNowLook, Restart, ShowActive, TimePasses,
               GoalChanges, RuntimeRest, runtimeVars
<1>11. ASSUME NEW r \in RunIds,
              \/ JobStep(r) \/ JobEvent(r) \/ Heartbeat(r)
              \/ \E failed \in BOOLEAN : TurnEnds(r, failed)
       PROVE  UNCHANGED tick
  BY <1>11
     DEF JobStep, JobEvent, SubmitError, WaitForUsageProfile, RejectTurn,
         ReadGoal, PrepareGoal, StartRun, StartHeartbeat, CheckOwnership,
         SubmitTurn, Heartbeat, HeartbeatError, TurnEnds, RecoverRun,
         FinishRead, FinishLook, FinishWrite, FinishMiss, DeferWrite,
         FinishError, RuntimeRest
<1> QED
  BY <1>4, <1>8, <1>9, <1>10, <1>11 DEF RuntimeNext

LEMMA HeartbeatsKept ==
    ASSUME Times = Nat, SystemInv, HeartbeatsOnTime, [SystemNext]_vars
    PROVE  HeartbeatsOnTime'
<1>1. SystemInv' /\ [Next]_storeVars
  BY SystemStep
<1>2. issued \subseteq issued'
  BY <1>1, IssuedGrows
<1>3. /\ clock \in Nat /\ HeartbeatSlack \in Nat /\ HeartbeatInterval \in Nat
      /\ \A q \in RunIds : job[q].beat \in Nat
      /\ \A p \in Procs : tick[p].now \in Nat
  BY JobFacts, SystemFacts
     DEF SystemInv, StoreInv, TypeOK, Time, MemoryOK, TicksOK, TickRow
<1>4. StoreInv /\ RunsNamed
  BY DEF SystemInv
<1>5. ASSUME UNCHANGED <<job, tick, clock>>, [Request]_storeVars
      PROVE  HeartbeatsOnTime'
  <2>1. \A q \in RunIds : Protected(q) /\ HbKept(q)
    BY <1>4, <1>5, RequestProtects DEF HbKept
  <2> QED
    BY <1>1, <1>2, <1>5, <2>1, QuietBeat DEF HeartbeatsOnTime
<1>6. ASSUME NEW e \in Editors, RequestStep(e) PROVE HeartbeatsOnTime'
  <2>1. [Request]_storeVars /\ UNCHANGED <<job, tick>>
    BY <1>6, RequestSteps DEF runtimeVars
  <2>2. UNCHANGED clock
    BY <2>1 DEF Request, CreateSchedule, UpdateSchedule, ResumeSchedule,
                DeleteSchedule, storeVars
  <2> QED
    BY <1>5, <2>1, <2>2
<1>7. CASE TimePasses
  <2>1. clock' = clock + 1 /\ UNCHANGED <<job, tick, sched, run, issued>>
        /\ \A r \in RunIds : job[r].hb = "on" =>
              clock < job[r].beat + HeartbeatSlack
    BY <1>7 DEF TimePasses, Advance, runtimeVars
  <2>2. ASSUME NEW q \in RunIds, job'[q].hb = "on" PROVE Beating(q)'
    <3>1. Beating(q) /\ clock < job[q].beat + HeartbeatSlack
      BY <2>1, <2>2 DEF HeartbeatsOnTime
    <3>2. Live(q)' <=> Live(q)
      BY <2>1 DEF Live
    <3>3. LeaseEnd(q)' = LeaseEnd(q)
      BY <2>1 DEF LeaseEnd
    <3>4. /\ clock + 1 <= job[q].beat + HeartbeatSlack
          /\ job[q].beat <= clock + 1 + HeartbeatInterval
      BY <1>3, <3>1 DEF Beating
    <3> QED
      BY <2>1, <3>1, <3>2, <3>3, <3>4 DEF Beating
  <2>3. \A p \in Procs : tick'[p].now <= clock'
    BY <1>3, <2>1 DEF HeartbeatsOnTime
  <2> QED
    BY <2>1, <2>2, <2>3 DEF HeartbeatsOnTime
<1>8. CASE RuntimeNext /\ ~TimePasses
  <2>1. UNCHANGED clock /\ [Transaction]_storeVars
    BY <1>8, ClockSteps, RuntimeSteps DEF RuntimeEffect
  <2>2. ASSUME NEW q \in RunIds, job'[q].hb = "on"
        PROVE  Beating(q)' /\ q \in issued'
    <3>1. CASE /\ ExtendLease(job[q].sid, q, clock)
               /\ job[q].sid \in Schedules
               /\ job'[q].beat = clock + HeartbeatInterval
      BY <1>1, <3>1, FreshBeat
    <3>2. CASE HbKept(q)
      <4>1. q \in issued
        BY <2>2, <3>2 DEF HbKept, HeartbeatsOnTime
      <4>2. \A s, now, for : ~GrantLease(s, q, now, for)
        BY <4>1 DEF GrantLease, NextId, FreshIds
      <4>3. Protected(q)
        BY <1>4, <2>1, <4>2, TransactionProtects
      <4> QED
        BY <1>1, <1>2, <2>1, <2>2, <3>2, <4>1, <4>3, QuietBeat
    <3> QED
      BY <1>8, <3>1, <3>2, HbSteps
  <2>3. \A p \in Procs : tick'[p].now <= clock'
    BY <1>8, <2>1, TickTimes
  <2> QED
    BY <2>2, <2>3 DEF HeartbeatsOnTime
<1>9. CASE UNCHANGED vars
  <2>1. UNCHANGED <<job, tick, clock, storeVars>>
    BY <1>9 DEF vars, runtimeVars, storeVars
  <2> QED
    BY <1>5, <2>1
<1> QED
  BY <1>6, <1>7, <1>8, <1>9 DEF SystemNext

(* The lease of a run with a heartbeat is not free at any time a claim or   *)
(* an expiry can use.                                                       *)
LEMMA HealthyLease ==
    ASSUME SystemInv, HeartbeatsOnTime, NEW r \in RunIds, Live(r),
           job[r].hb = "on", NEW now \in Nat, now <= clock
    PROVE  ~LeaseFree(sched[run[r].schedule_id], now)
<1>1. Beating(r) /\ job[r].beat \in Nat /\ clock \in Nat
      /\ HeartbeatInterval \in Nat /\ HeartbeatSlack \in Nat
      /\ LeaseDuration \in Nat
      /\ HeartbeatInterval + HeartbeatSlack < LeaseDuration
  BY JobFacts, SystemFacts DEF HeartbeatsOnTime
<1>2. LeaseEnd(r) \in Nat /\ sched[run[r].schedule_id].lease_id = r
  BY LiveHasLease DEF SystemInv
<1>3. clock < LeaseEnd(r)
  BY <1>1, <1>2 DEF Beating
<1>4. ~(LeaseEnd(r) <= now)
  BY <1>1, <1>2, <1>3
<1> QED
  BY <1>2, <1>4, ConstantFacts DEF LeaseFree, LeaseEnd

(* Reaping ends no run but those of the schedule.                           *)
LEMMA ReapedRuns ==
    ASSUME StoreInv, NEW r \in RunIds, NEW ss, Live(r),
           run'[r] = FailLiveRuns(ss)[r], ~Live(r)'
    PROVE  run[r].schedule_id \in ss
<1>1. TypeOK
  BY DEF StoreInv
<1> QED
  BY <1>1, FailLiveRunsFacts DEF Live

LEMMA HealthyStep ==
    ASSUME Times = Nat, SystemInv, HeartbeatsOnTime, [SystemNext]_vars
    PROVE  [HealthyKept]_vars
<1> SUFFICES ASSUME SystemNext, NEW r \in RunIds, Live(r), ~Live(r)',
                    job[r].hb = "on", UNCHANGED <<edit, edits>>,
                    job'[r] = job[r]
             PROVE  FALSE
  BY DEF HealthyKept
<1>1. /\ StoreInv /\ clock \in Nat /\ job \in [RunIds -> JobRow]
      /\ run \in [RunIds -> RunRow] /\ EditsOK
      /\ \A p \in Procs : tick[p].now \in Nat /\ tick[p].now <= clock
  BY DEF SystemInv, StoreInv, TypeOK, Time, MemoryOK, JobsOK, TicksOK,
         TickRow, HeartbeatsOnTime
<1>2. ~(run'[r] = run[r])
  BY DEF Live
<1>3. clock <= clock
  BY <1>1
<1> DEFINE s == run[r].schedule_id
<1>4. ASSUME NEW t \in Schedules, NEW now \in Nat, now <= clock,
             LeaseFree(sched[t], now)
      PROVE  run'[r] # FailLiveRuns({t})[r]
  BY <1>1, <1>4, HealthyLease, ReapedRuns
<1>5. ASSUME NEW p \in Procs, NEW t \in Schedules, NEW n \in RunIds,
             NEW now \in Nat, now <= clock, NEW fresh,
             ClaimDue(p, t, n, now, fresh) \/ ClaimNow(p, t, n, now, fresh)
      PROVE  FALSE
  <2>1. LeaseFree(sched[t], now) /\ \E for : GrantLease(t, n, now, for)
    BY <1>5 DEF ClaimDue, ClaimNow, FirstDue, Due, Claimable
  <2>2. n \notin issued /\ r \in issued
    BY <1>1, <2>1 DEF GrantLease, NextId, FreshIds, HeartbeatsOnTime
  <2>3. run'[r] = FailLiveRuns({t})[r]
    BY <2>1, <2>2 DEF GrantLease, FailLiveRuns
  <2> QED
    BY <1>4, <1>5, <2>1, <2>3
<1>6. ASSUME NEW p \in Procs, NEW t \in Schedules, NEW now \in Nat,
             now <= clock, NEW fresh, ClaimHeld(p, t, now, fresh)
      PROVE  FALSE
  BY <1>4, <1>6 DEF ClaimHeld, Claimable, ReapAndPause
<1>7. ASSUME ExpireSchedules(clock) PROVE FALSE
  <2>1. run'[r] = FailLiveRuns(Expiring(clock))[r]
    BY <1>7 DEF ExpireSchedules
  <2>2. s \in Expiring(clock)
    BY <1>1, <2>1, ReapedRuns
  <2> QED
    BY <1>1, <1>3, <2>2, HealthyLease DEF Expiring
<1>8. ASSUME NEW p \in Procs, PollStep(p) PROVE FALSE
  <2>1. ~(UNCHANGED storeVars)
    BY <1>2 DEF storeVars
  <2> QED
    BY <1>1, <1>5, <1>6, <1>7, <1>8, <2>1
       DEF PollStep, TickBegin, TickEnd, TickResume, TickLook, TickClaim,
           TickClaimHeld
<1>9. ASSUME NEW p \in Procs, NEW t \in Schedules,
             \/ RunNowLook(p, t) \/ RunNowHeld(p, t)
             \/ \E n \in RunIds : RunNow(p, t, n)
      PROVE  FALSE
  <2>1. ~(UNCHANGED storeVars)
    BY <1>2 DEF storeVars
  <2> QED
    BY <1>5, <1>6, <1>9, <2>1, RequestTimeFacts
       DEF RunNow, RunNowHeld, RunNowLook
<1>10. ASSUME \/ \E p \in Procs : Crash(p) \/ Restart(p) \/ ShowActive(p)
              \/ TimePasses \/ GoalChanges
       PROVE  FALSE
  <2>1. UNCHANGED run
    BY <1>10 DEF Crash, Restart, ShowActive, TimePasses, GoalChanges,
                 SessionHeartbeat, SessionPrune, SetGoal, Advance, storeVars
  <2> QED
    BY <1>2, <2>1
<1>11. ASSUME NEW n \in RunIds,
              \/ SubmitError(n) \/ WaitForUsageProfile(n) \/ RejectTurn(n)
              \/ ReadGoal(n) \/ PrepareGoal(n) \/ SubmitTurn(n)
              \/ StartHeartbeat(n) \/ CheckOwnership(n) \/ Heartbeat(n)
              \/ HeartbeatError(n)
       PROVE  FALSE
  <2>1. UNCHANGED run
    BY <1>11 DEF SubmitError, WaitForUsageProfile, RejectTurn, ReadGoal,
                 PrepareGoal, SubmitTurn, StartHeartbeat, CheckOwnership,
                 Heartbeat, HeartbeatError, SetGoal, ExtendLease, storeVars
  <2> QED
    BY <1>2, <2>1
<1>12. ASSUME NEW n \in RunIds, StartRun(n) PROVE FALSE
  <2>1. \/ UNCHANGED run
        \/ \E g : run' = [run EXCEPT ![n].status = "running",
                                     ![n].goal_id = g]
    BY <1>12 DEF StartRun, MarkStarted, storeVars
  <2>2. run'[r] = run[r] \/ run'[r].status = "running"
    BY <1>1, <2>1 DEF RunRow
  <2> QED
    BY <1>2, <2>2 DEF Live, LiveStatuses
<1>13. ASSUME NEW n \in RunIds,
              \/ \E failed \in BOOLEAN : TurnEnds(n, failed)
                                         \/ RecoverRun(n, failed)
              \/ FinishRead(n) \/ FinishLook(n) \/ FinishMiss(n)
              \/ FinishError(n)
       PROVE  FALSE
  <2>1. UNCHANGED run
    BY <1>13 DEF TurnEnds, RecoverRun, FinishRead, FinishLook, FinishMiss,
                 FinishError, storeVars
  <2> QED
    BY <1>2, <2>1
<1>14. ASSUME NEW n \in RunIds, FinishWrite(n) \/ DeferWrite(n) PROVE FALSE
  <2>0. Return(n) /\ job[n].pc \in {"finishing", "deferring"}
    BY <1>14 DEF FinishWrite, DeferWrite, At
  <2>1. job'[n].pc = "done" /\ job[n].pc # "done"
    BY <1>1, <2>0 DEF Return, JobRow
  <2>2. n # r
    BY <2>1
  <2>3. \/ UNCHANGED run
        \/ \E status : run' = [run EXCEPT ![n].status = status]
    BY <1>14 DEF FinishWrite, DeferWrite, FinishRun, DeferRun, storeVars
  <2> QED
    BY <1>1, <1>2, <2>2, <2>3
<1>15. ASSUME NEW e \in Editors, RequestStep(e) PROVE FALSE
  <2>1. edit \in [Editors -> EditRow] /\ edits + 1 # edits
    BY <1>1 DEF EditsOK
  <2>2. ASSUME NEW q, Begin(e, q) PROVE FALSE
    BY <2>1, <2>2 DEF Begin
  <2>3. ASSUME Continue(e, NoEdit), edit[e].pc # "idle" PROVE FALSE
    <3>1. edit'[e] = NoEdit
      BY <2>1, <2>3 DEF Continue
    <3> QED
      BY <2>3, <3>1 DEF NoEdit
  <2>4. ~UpdateWrite(e)
    BY <2>3 DEF UpdateWrite
  <2>5. ASSUME \/ \E t \in Schedules, new \in NewSchedules :
                     CreateCheck(e, t, new)
               \/ CreateInsert(e) \/ UpdateRead(e) \/ ResumeWrite(e)
        PROVE  UNCHANGED run
    BY <2>5 DEF CreateCheck, CreateInsert, CreateSchedule, UpdateRead,
                ResumeWrite, ResumeSchedule, storeVars
  <2>6. ASSUME NEW t \in Schedules,
               \/ PauseLoad(e, t) \/ ResumeLoad(e, t) \/ Delete(e, t)
               \/ \E patch \in Patches : UpdateLoad(e, t, patch)
        PROVE  FALSE
    BY <2>2, <2>6 DEF PauseLoad, ResumeLoad, Delete, UpdateLoad
  <2> QED
    BY <1>2, <1>15, <2>4, <2>5, <2>6 DEF RequestStep
<1> QED
  BY <1>8, <1>9, <1>10, <1>11, <1>12, <1>13, <1>14, <1>15
     DEF SystemNext, RuntimeNext, JobStep, JobEvent

LEMMA HeartbeatsInvariance ==
    ASSUME Times = Nat PROVE SystemSpec => [](SystemInv /\ HeartbeatsOnTime)
<1>1. SystemInit => SystemInv /\ HeartbeatsOnTime
  <2> SUFFICES ASSUME SystemInit PROVE HeartbeatsOnTime
    BY SystemInitInv
  <2>0. 0 <= 0
    OBVIOUS
  <2>1. \A r \in RunIds : job[r].hb = "off"
    BY DEF SystemInit, RuntimeInit, NoJob
  <2>2. \A p \in Procs : tick[p].now <= clock
    BY <2>0 DEF SystemInit, Init, RuntimeInit, IdleTick
  <2> QED
    BY <2>1, <2>2 DEF HeartbeatsOnTime
<1>2. SystemInv /\ HeartbeatsOnTime /\ [SystemNext]_vars
         => SystemInv' /\ HeartbeatsOnTime'
  BY SystemStep, HeartbeatsKept
<1> QED
  BY <1>1, <1>2, PTL DEF SystemSpec

(***************************************************************************)
(* The lease protocol protects a healthy run, for every interval, slack    *)
(* and lease duration with interval + slack < duration, every number of    *)
(* processes, and clocks read however long before they are used: nobody    *)
(* but its own task, or a request that stops or deletes the schedule, ends *)
(* a run whose heartbeat is on.                                            *)
(***************************************************************************)
THEOREM HealthyRunsAreKept ==
    ASSUME Times = Nat PROVE SystemSpec => HealthyRunIsKept
<1>1. SystemInv /\ HeartbeatsOnTime /\ [SystemNext]_vars
         => [HealthyKept]_vars
  BY HealthyStep
<1> QED
  BY <1>1, HeartbeatsInvariance, PTL DEF SystemSpec, HealthyRunIsKept

-----------------------------------------------------------------------------
(***************************************************************************)
(* Held goals.  What ties a run to a goal is its row once it is running;   *)
(* the task finishes the run with the goal it remembers.  The two agree:   *)
(* a task that has not started its run has no running row, and one that    *)
(* has started it keeps the goal it started it with.                       *)
(***************************************************************************)
RemembersGoal(r) ==
    run[r].status = "running" =>
       /\ job[r].pc \notin Unstarted
       /\ job[r].pc \in Started => job[r].goal_id = run[r].goal_id
GoalRemembered == \A r \in RunIds : RemembersGoal(r)

(* The task of q does not move, or moves on without changing its goal,      *)
(* starts its run, ends, or learns the goal from the row.                   *)
SameGoal(q) ==
    \/ job'[q].pc \notin Unstarted \cup Started
    \/ job'[q].pc = job[q].pc /\ job'[q].goal_id = job[q].goal_id
    \/ job[q].pc \in Unstarted
    \/ /\ job[q].pc \in Started /\ job'[q].pc \in Started
       /\ job'[q].goal_id = job[q].goal_id
    \/ job'[q].pc = "ending" /\ job'[q].goal_id = run[q].goal_id
NoneStarts ==
    \A q \in RunIds : run'[q].status = "running" => run'[q] = run[q]

LEMMA GoalKept ==
    ASSUME GoalRemembered, NoneStarts, \A q \in RunIds : SameGoal(q)
    PROVE  GoalRemembered'
<1>1. ASSUME NEW q \in RunIds, run'[q].status = "running"
      PROVE  /\ job'[q].pc \notin Unstarted
             /\ job'[q].pc \in Started => job'[q].goal_id = run'[q].goal_id
  <2>1. run'[q] = run[q] /\ RemembersGoal(q) /\ SameGoal(q)
    BY <1>1 DEF NoneStarts, GoalRemembered
  <2> QED
    BY <1>1, <2>1 DEF RemembersGoal, SameGoal, Unstarted, Started
<1> QED
  BY <1>1 DEF GoalRemembered, RemembersGoal

(* Only mark_thread_schedule_run_started makes a run running. *)
LEMMA FewStart ==
    ASSUME StoreInv,
           \/ UNCHANGED run
           \/ \E ss : run' = FailLiveRuns(ss)
           \/ \E s \in Schedules, r \in RunIds :
                 \E now, for : GrantLease(s, r, now, for)
           \/ \E s \in Schedules, r \in RunIds :
                 \/ \E n : DeferRun(s, r, n)
                 \/ \E hold \in BOOLEAN : \E now, n, g, failed :
                   FinishRun(s, r, now, n, g, failed, hold)
           \/ \E s \in Schedules : DeleteSchedule(s)
    PROVE  NoneStarts
<1>1. run \in [RunIds -> RunRow]
  BY DEF StoreInv, TypeOK
<1>2. ASSUME NEW ss, NEW q \in RunIds, FailLiveRuns(ss)[q].status = "running"
      PROVE  FailLiveRuns(ss)[q] = run[q]
  BY <1>1, <1>2 DEF FailLiveRuns, RunRow
<1>3. ASSUME NEW ss, run' = FailLiveRuns(ss) PROVE NoneStarts
  BY <1>2, <1>3 DEF NoneStarts
<1>4. ASSUME NEW s \in Schedules, NEW r \in RunIds, NEW now, NEW for,
             GrantLease(s, r, now, for)
      PROVE  NoneStarts
  <2>1. \A q \in RunIds : \/ run'[q].status = "leased"
                           \/ run'[q] = FailLiveRuns({s})[q]
    BY <1>4 DEF GrantLease, FailLiveRuns
  <2> QED
    BY <1>2, <2>1 DEF NoneStarts
<1>5. ASSUME NEW s \in Schedules, NEW r \in RunIds,
             \/ \E n : DeferRun(s, r, n)
             \/ \E hold \in BOOLEAN : \E now, n, g, failed :
                   FinishRun(s, r, now, n, g, failed, hold)
      PROVE  NoneStarts
  <2>0. ASSUME NEW now, NEW n, NEW g, NEW failed, NEW hold,
               FinishRun(s, r, now, n, g, failed, hold)
        PROVE  \E st \in {"completed", "failed"} :
                  run' = [run EXCEPT ![r].status = st]
    BY <2>0, Zenon DEF FinishRun
  <2>1. \A q \in RunIds : run'[q].status # "running" \/ run'[q] = run[q]
    BY <1>1, <1>5, <2>0 DEF DeferRun, RunRow
  <2> QED
    BY <2>1 DEF NoneStarts
<1>6. ASSUME NEW s \in Schedules, DeleteSchedule(s) PROVE NoneStarts
  BY <1>6 DEF DeleteSchedule, NoRun, NoneStarts
<1>7. ASSUME UNCHANGED run PROVE NoneStarts
  BY <1>7 DEF NoneStarts
<1> QED
  BY <1>3, <1>4, <1>5, <1>6, <1>7

LEMMA RequestGoals ==
    ASSUME SystemInv, GoalRemembered, NEW e \in Editors, RequestStep(e)
    PROVE  GoalRemembered'
<1>1. UNCHANGED job
  BY DEF RequestStep, CreateCheck, CreateInsert, UpdateLoad, UpdateRead,
         UpdateWrite, PauseLoad, ResumeLoad, ResumeWrite, Delete, NotRuntime,
         runtimeVars
<1>2. \/ UNCHANGED run
      \/ \E ss : run' = FailLiveRuns(ss)
      \/ \E s \in Schedules : DeleteSchedule(s)
  <2>1. ASSUME UpdateWrite(e)
        PROVE  UNCHANGED run \/ \E ss : run' = FailLiveRuns(ss)
    <3>1. \/ UNCHANGED run
          \/ UpdateSchedule(edit[e].s, edit[e].merged, edit[e].reset)
      BY <2>1 DEF UpdateWrite, storeVars
    <3> QED
      BY <3>1 DEF UpdateSchedule
  <2>2. ASSUME \/ \E t \in Schedules, new \in NewSchedules :
                     CreateCheck(e, t, new)
               \/ \E t \in Schedules, patch \in Patches :
                     UpdateLoad(e, t, patch)
               \/ \E t \in Schedules : PauseLoad(e, t) \/ ResumeLoad(e, t)
               \/ UpdateRead(e)
        PROVE  UNCHANGED run
    BY <2>2 DEF CreateCheck, UpdateRead, UpdateLoad, PauseLoad, ResumeLoad,
                storeVars
  <2>3. ASSUME CreateInsert(e) \/ ResumeWrite(e) PROVE UNCHANGED run
    BY <2>3 DEF CreateInsert, CreateSchedule, ResumeWrite, ResumeSchedule,
                storeVars
  <2> QED
    BY <2>1, <2>2, <2>3 DEF RequestStep, Delete
<1>3. NoneStarts
  BY <1>2, FewStart DEF SystemInv
<1>4. \A q \in RunIds : SameGoal(q)
  BY <1>1 DEF SameGoal
<1> QED
  BY <1>3, <1>4, GoalKept

LEMMA ClaimGoals ==
    ASSUME SystemInv, GoalRemembered, NEW p \in Procs, NEW s \in Schedules,
           NEW r \in RunIds, NEW now, NEW for, GrantLease(s, r, now, for),
           job' = [job EXCEPT ![r] = NewJob(p, s)]
    PROVE  GoalRemembered'
<1>1. NoneStarts
  BY FewStart DEF SystemInv
<1>2. run'[r].status = "leased"
  BY DEF GrantLease, FailLiveRuns
<1>3. \A q \in RunIds \ {r} : job'[q] = job[q]
  BY DEF SystemInv, MemoryOK, JobsOK
<1>4. ASSUME NEW q \in RunIds, run'[q].status = "running"
      PROVE  /\ job'[q].pc \notin Unstarted
             /\ job'[q].pc \in Started => job'[q].goal_id = run'[q].goal_id
  <2>1. q # r /\ run'[q] = run[q]
    BY <1>1, <1>2, <1>4 DEF NoneStarts
  <2> QED
    BY <1>3, <1>4, <2>1 DEF GoalRemembered, RemembersGoal
<1> QED
  BY <1>4 DEF GoalRemembered, RemembersGoal

LEMMA PollGoals ==
    ASSUME SystemInv, GoalRemembered, NEW p \in Procs,
           \/ PollStep(p) \/ Crash(p) \/ Restart(p) \/ ShowActive(p)
           \/ \E s \in Schedules : RunNowLook(p, s) \/ RunNowHeld(p, s)
           \/ \E s \in Schedules, r \in RunIds : RunNow(p, s, r)
    PROVE  GoalRemembered'
<1>1. ASSUME UNCHANGED job,
             UNCHANGED run \/ \E ss : run' = FailLiveRuns(ss)
      PROVE  GoalRemembered'
  <2>1. NoneStarts
    BY <1>1, FewStart DEF SystemInv
  <2>2. \A q \in RunIds : SameGoal(q)
    BY <1>1 DEF SameGoal
  <2> QED
    BY <2>1, <2>2, GoalKept
<1>2. ASSUME TickBegin(p) PROVE GoalRemembered'
  BY <1>1, <1>2 DEF TickBegin, ExpireSchedules
<1>3. ASSUME TickEnd(p) \/ TickResume(p) \/ Restart(p) PROVE GoalRemembered'
  BY <1>1, <1>3 DEF TickEnd, TickResume, Restart, storeVars
<1>8. ASSUME NEW s \in Schedules, TickLook(p, s) \/ RunNowLook(p, s)
      PROVE  GoalRemembered'
  BY <1>1, <1>8 DEF TickLook, RunNowLook, storeVars
<1>4. ASSUME NEW s \in Schedules, TickClaimHeld(p, s) \/ RunNowHeld(p, s)
      PROVE  GoalRemembered'
  BY <1>1, <1>4 DEF TickClaimHeld, RunNowHeld, ClaimHeld, ReapAndPause,
                    runtimeVars
<1>5. ASSUME NEW s \in Schedules, NEW r \in RunIds,
             TickClaim(p, s, r) \/ RunNow(p, s, r)
      PROVE  GoalRemembered'
  <2>1. /\ job' = [job EXCEPT ![r] = NewJob(p, s)]
        /\ \E now, for : GrantLease(s, r, now, for)
    BY <1>5 DEF TickClaim, RunNow, ClaimDue, ClaimNow
  <2> QED
    BY <2>1, ClaimGoals
<1>6. ASSUME ShowActive(p) PROVE GoalRemembered'
  BY <1>1, <1>6 DEF ShowActive, SessionHeartbeat, SessionPrune, runtimeVars
<1>7. ASSUME Crash(p) PROVE GoalRemembered'
  <2>1. /\ UNCHANGED run
        /\ \A q \in RunIds : job'[q] = job[q] \/ job'[q].pc = "dead"
    BY <1>7 DEF Crash, NoJob, storeVars
  <2>2. \A q \in RunIds : SameGoal(q)
    BY <2>1 DEF SameGoal, Unstarted, Started
  <2>3. NoneStarts
    BY <2>1 DEF NoneStarts
  <2> QED
    BY <2>2, <2>3, GoalKept
<1> QED
  BY <1>2, <1>3, <1>4, <1>5, <1>6, <1>7, <1>8 DEF PollStep

(* A step of the task of r.                                                 *)
LEMMA JobGoals ==
    ASSUME SystemInv, GoalRemembered, NEW r \in RunIds,
           \/ JobStep(r) \/ JobEvent(r) \/ Heartbeat(r)
           \/ \E failed \in BOOLEAN : TurnEnds(r, failed)
    PROVE  GoalRemembered'
<1>1. /\ job \in [RunIds -> JobRow] /\ run \in [RunIds -> RunRow]
      /\ RemembersGoal(r) /\ StoreInv
  BY DEF SystemInv, MemoryOK, JobsOK, StoreInv, TypeOK, GoalRemembered
<1>2. ASSUME NoneStarts, SameGoal(r),
             \A q \in RunIds \ {r} : job'[q] = job[q]
      PROVE  GoalRemembered'
  <2>1. \A q \in RunIds : SameGoal(q)
    BY <1>2 DEF SameGoal
  <2> QED
    BY <1>2, <2>1, GoalKept
<1>3. ASSUME UNCHANGED run PROVE NoneStarts
  BY <1>3 DEF NoneStarts
<1>4. ASSUME NEW g, Fail(r, g) PROVE
             /\ \A q \in RunIds \ {r} : job'[q] = job[q]
             /\ job'[r].pc = "ending" /\ job'[r].goal_id = g
  BY <1>1, <1>4 DEF Fail, JobRow
<1>5. ASSUME Return(r) PROVE /\ \A q \in RunIds \ {r} : job'[q] = job[q]
                             /\ job'[r].pc = "done"
  BY <1>1, <1>5 DEF Return, JobRow
<1>6. ASSUME NEW at, Postpone(r, at) PROVE
             /\ \A q \in RunIds \ {r} : job'[q] = job[q]
             /\ job'[r].pc = "deferring" /\ job'[r].goal_id = job[r].goal_id
  BY <1>1, <1>6 DEF Postpone, JobRow
<1>7. ASSUME NEW pc, Step(r, pc) PROVE
             /\ \A q \in RunIds \ {r} : job'[q] = job[q]
             /\ job'[r].pc = pc /\ job'[r].goal_id = job[r].goal_id
  BY <1>1, <1>7 DEF Step, JobRow
<1>8. ASSUME \/ SubmitError(r) \/ WaitForUsageProfile(r) \/ ReadGoal(r)
             \/ PrepareGoal(r)
      PROVE  GoalRemembered'
  <2>1. UNCHANGED run
    BY <1>8 DEF SubmitError, WaitForUsageProfile, ReadGoal, PrepareGoal,
                SetGoal, storeVars
  <2>2. \A q \in RunIds \ {r} : job'[q] = job[q]
    BY <1>1, <1>4, <1>6, <1>7, <1>8
       DEF SubmitError, WaitForUsageProfile, ReadGoal, PrepareGoal
  <2>3. ASSUME SubmitError(r) PROVE SameGoal(r)
    BY <1>4, <2>3 DEF SubmitError, At, SameGoal, Unstarted, Started
  <2>4. ASSUME WaitForUsageProfile(r) \/ ReadGoal(r) \/ PrepareGoal(r)
        PROVE  SameGoal(r)
    BY <2>4 DEF WaitForUsageProfile, ReadGoal, PrepareGoal, At, SameGoal,
                Unstarted
  <2> QED
    BY <1>2, <1>3, <1>8, <2>1, <2>2, <2>3, <2>4
<1>9. ASSUME StartRun(r) PROVE GoalRemembered'
  <2>1. job[r].pc \in Unstarted
    BY <1>9 DEF StartRun, At, Unstarted
  <2>2. ASSUME Fail(r, job[r].goal_id), UNCHANGED storeVars
        PROVE  GoalRemembered'
    BY <1>2, <1>3, <1>4, <2>1, <2>2 DEF SameGoal, storeVars
  <2>3. ASSUME MarkStarted(job[r].sid, r, job[r].goal_id, clock),
               Step(r, "started")
        PROVE  GoalRemembered'
    <3>1. /\ \A q \in RunIds \ {r} : job'[q] = job[q] /\ run'[q] = run[q]
          /\ job'[r].pc = "started" /\ job'[r].goal_id = job[r].goal_id
      BY <1>1, <1>7, <2>3 DEF MarkStarted
    <3>2. run'[r].goal_id = job[r].goal_id
      BY <1>1, <2>3 DEF MarkStarted, RunRow
    <3>3. ASSUME NEW q \in RunIds, run'[q].status = "running"
          PROVE  /\ job'[q].pc \notin Unstarted
                 /\ job'[q].pc \in Started =>
                       job'[q].goal_id = run'[q].goal_id
      <4>1. CASE q = r
        BY <3>1, <3>2, <4>1 DEF Unstarted
      <4>2. CASE q # r
        BY <3>1, <3>3, <4>2 DEF GoalRemembered, RemembersGoal
      <4> QED
        BY <4>1, <4>2
    <3> QED
      BY <3>3 DEF GoalRemembered, RemembersGoal
  <2> QED
    BY <1>9, <2>2, <2>3 DEF StartRun
<1>10. ASSUME \/ StartHeartbeat(r) \/ CheckOwnership(r) \/ SubmitTurn(r)
              \/ RejectTurn(r) \/ Heartbeat(r) \/ HeartbeatError(r)
              \/ \E failed \in BOOLEAN : TurnEnds(r, failed)
       PROVE  GoalRemembered'
  <2>1. UNCHANGED run
    BY <1>10 DEF StartHeartbeat, CheckOwnership, SubmitTurn, RejectTurn,
                 Heartbeat, HeartbeatError, TurnEnds, ExtendLease, storeVars
  <2>2. ASSUME StartHeartbeat(r) \/ CheckOwnership(r) \/ SubmitTurn(r)
               \/ RejectTurn(r)
        PROVE  /\ \A q \in RunIds \ {r} : job'[q] = job[q]
               /\ job[r].pc \in Started /\ job'[r].pc \in Started
               /\ job'[r].goal_id = job[r].goal_id
    <3>1. job[r].pc \in Started
      BY <2>2 DEF StartHeartbeat, CheckOwnership, SubmitTurn, RejectTurn, At,
                  Started
    <3>2. CASE StartHeartbeat(r)
      BY <1>1, <1>4, <3>1, <3>2, ZenonT(60) DEF StartHeartbeat, Started, JobRow
    <3>3. CASE CheckOwnership(r)
      BY <1>4, <1>7, <3>1, <3>3 DEF CheckOwnership, Started
    <3>4. CASE SubmitTurn(r)
      BY <1>1, <1>4, <3>1, <3>4 DEF SubmitTurn, Started, JobRow
    <3>5. CASE RejectTurn(r)
      BY <1>4, <1>6, <3>1, <3>5 DEF RejectTurn, Started
    <3> QED
      BY <2>2, <3>2, <3>3, <3>4, <3>5
  <2>3. ASSUME Heartbeat(r) \/ HeartbeatError(r)
        PROVE  /\ \A q \in RunIds \ {r} : job'[q] = job[q]
               /\ job'[r].pc = job[r].pc /\ job'[r].goal_id = job[r].goal_id
    BY <1>1, <2>3 DEF Heartbeat, HeartbeatError, JobRow
  <2>4. ASSUME NEW failed \in BOOLEAN, TurnEnds(r, failed)
        PROVE  /\ \A q \in RunIds \ {r} : job'[q] = job[q]
               /\ job[r].pc \in Started /\ job'[r].pc \in Started
               /\ job'[r].goal_id = job[r].goal_id
    BY <1>1, <2>4 DEF TurnEnds, At, Started, JobRow
  <2> QED
    BY <1>2, <1>3, <1>10, <2>1, <2>2, <2>3, <2>4 DEF SameGoal
<1>11. ASSUME NEW failed \in BOOLEAN, RecoverRun(r, failed)
       PROVE  GoalRemembered'
  <2>1. /\ UNCHANGED run /\ \A q \in RunIds \ {r} : job'[q] = job[q]
        /\ job'[r].pc = "ending" /\ job'[r].goal_id = run[r].goal_id
    BY <1>1, <1>11 DEF RecoverRun, JobRow, storeVars
  <2> QED
    BY <1>2, <1>3, <2>1 DEF SameGoal
<1>12. ASSUME FinishRead(r) PROVE GoalRemembered'
  <2>1. UNCHANGED run
    BY <1>12 DEF FinishRead, storeVars
  <2>2. CASE Return(r)
    BY <1>2, <1>3, <1>5, <2>1, <2>2 DEF SameGoal, Unstarted, Started
  <2>3. CASE \E next : job' = [job EXCEPT ![r] =
                [job[r] EXCEPT !.pc = "finishing", !.next = next]]
    <3>1. job[r].pc = "ending"
      BY <1>12 DEF FinishRead, At
    <3>2. /\ \A q \in RunIds \ {r} : job'[q] = job[q]
          /\ job'[r].pc = "finishing" /\ job'[r].goal_id = job[r].goal_id
      BY <1>1, <2>3 DEF JobRow
    <3> QED
      BY <1>2, <1>3, <2>1, <3>1, <3>2 DEF SameGoal, Started
  <2> QED
    BY <1>1, <1>12, <2>2, <2>3 DEF FinishRead
<1>14. ASSUME FinishLook(r) PROVE GoalRemembered'
  <2>1. UNCHANGED <<run, job>>
    BY <1>14 DEF FinishLook, storeVars
  <2> QED
    BY <1>2, <1>3, <2>1 DEF SameGoal
<1>13. ASSUME \/ FinishWrite(r) \/ FinishMiss(r) \/ DeferWrite(r)
              \/ FinishError(r)
       PROVE  GoalRemembered'
  <2>1. Return(r)
    BY <1>13 DEF FinishWrite, FinishMiss, DeferWrite, FinishError
  <2>2. /\ SystemInv
        /\ job[r].pc \in {"finishing", "deferring"} =>
              job[r].sid \in Schedules
    BY JobFacts
  <2>3. \/ UNCHANGED run
        \/ \E s \in Schedules :
              \/ \E n : DeferRun(s, r, n)
              \/ \E hold \in BOOLEAN : \E now, n, g, failed :
                   FinishRun(s, r, now, n, g, failed, hold)
    BY <1>13, <2>2 DEF FinishWrite, FinishMiss, DeferWrite, FinishError, At,
                       storeVars
  <2>4. NoneStarts
    BY <1>1, <2>3, FewStart
  <2> QED
    BY <1>2, <1>5, <2>1, <2>4 DEF SameGoal, Unstarted, Started
<1> QED
  BY <1>8, <1>9, <1>10, <1>11, <1>12, <1>13, <1>14 DEF JobStep, JobEvent

LEMMA GoalsKept ==
    ASSUME SystemInv, GoalRemembered, [SystemNext]_vars PROVE GoalRemembered'
<1>1. CASE UNCHANGED vars
  <2>1. UNCHANGED <<run, job>>
    BY <1>1 DEF vars, storeVars, runtimeVars
  <2> QED
    BY <2>1 DEF GoalRemembered, RemembersGoal
<1>2. ASSUME NEW p \in Procs,
             \/ PollStep(p) \/ Crash(p) \/ Restart(p) \/ ShowActive(p)
             \/ \E s \in Schedules : RunNowLook(p, s) \/ RunNowHeld(p, s)
             \/ \E s \in Schedules, r \in RunIds : RunNow(p, s, r)
      PROVE  GoalRemembered'
  BY <1>2, PollGoals
<1>3. ASSUME TimePasses \/ GoalChanges PROVE GoalRemembered'
  <2>1. UNCHANGED <<run, job>>
    BY <1>3 DEF TimePasses, GoalChanges, Advance, SetGoal, runtimeVars
  <2> QED
    BY <2>1 DEF GoalRemembered, RemembersGoal
<1> QED
  BY <1>1, <1>2, <1>3, JobGoals, RequestGoals DEF SystemNext, RuntimeNext

(***************************************************************************)
(* Who writes the run table in a step of the system.                       *)
(***************************************************************************)
(* The open transaction is a claim or a finish of s that found none of the  *)
(* goals on hold.                                                           *)
FoundNoHold(s, goals) ==
    probe # NULL /\ probe.s = s /\ ~FoundHeld(probe.seen, goals)

RunWrite ==
    \/ \E s \in Schedules, r \in RunIds :
          /\ sched[s].status = "active"
          /\ ClaimLooks(s) => FoundNoHold(s, ReapedGoals(s))
          /\ \E now, for : GrantLease(s, r, now, for)
    \/ \E s \in Schedules : ReapAndPause(s)
    \/ \E s \in Schedules, r \in RunIds :
          \E g, now : MarkStarted(s, r, g, now)
    \/ \E r \in RunIds : FinishWrite(r) \/ DeferWrite(r)
    \/ \E now \in Nat : ExpireSchedules(now)
    \/ \E s \in Schedules, m \in Merged :
          \E reset : UpdateSchedule(s, m, reset)
    \/ \E s \in Schedules : DeleteSchedule(s)

LEMMA RunWriters ==
    ASSUME SystemInv, [SystemNext]_vars PROVE UNCHANGED run \/ RunWrite
<1>1. CASE UNCHANGED vars
  BY <1>1 DEF vars, storeVars
<1>2. ASSUME NEW p \in Procs, TickBegin(p) PROVE RunWrite
  BY <1>2 DEF TickBegin, RunWrite, SystemInv, StoreInv, TypeOK, Time
<1>3. ASSUME NEW p \in Procs, NEW s \in Schedules,
             TickClaimHeld(p, s) \/ RunNowHeld(p, s)
      PROVE  RunWrite
  BY <1>3 DEF TickClaimHeld, RunNowHeld, ClaimHeld, RunWrite
<1>10. ASSUME NEW p \in Procs, NEW s \in Schedules, NEW r \in RunIds,
              TickClaim(p, s, r) \/ RunNow(p, s, r)
       PROVE  RunWrite
  <2>1. ClaimLooks(s) => FoundNoHold(s, ReapedGoals(s))
    BY <1>10, Zenon DEF TickClaim, RunNow, Commit, Open, FoundNoHold,
                        ClaimLooks
  <2>2. sched[s].status = "active" /\ \E now, for : GrantLease(s, r, now, for)
    BY <1>10 DEF TickClaim, RunNow, ClaimDue, ClaimNow, FirstDue, Due,
                 Claimable
  <2> QED
    BY <2>1, <2>2 DEF RunWrite
<1>11. ASSUME NEW p \in Procs, NEW s \in Schedules,
              TickLook(p, s) \/ RunNowLook(p, s)
       PROVE  UNCHANGED run
  BY <1>11 DEF TickLook, RunNowLook, storeVars
<1>4. ASSUME NEW p \in Procs, \/ TickEnd(p) \/ TickResume(p) \/ Crash(p)
                              \/ Restart(p) \/ ShowActive(p)
      PROVE  UNCHANGED run
  BY <1>4 DEF TickEnd, TickResume, Crash, Restart, ShowActive,
              SessionHeartbeat, SessionPrune, storeVars
<1>5. ASSUME TimePasses \/ GoalChanges PROVE UNCHANGED run
  BY <1>5 DEF TimePasses, GoalChanges, Advance, SetGoal
<1>6. ASSUME NEW r \in RunIds,
             \/ SubmitError(r) \/ WaitForUsageProfile(r) \/ RejectTurn(r)
             \/ ReadGoal(r) \/ PrepareGoal(r) \/ SubmitTurn(r)
             \/ StartHeartbeat(r) \/ CheckOwnership(r) \/ Heartbeat(r)
             \/ HeartbeatError(r) \/ FinishRead(r) \/ FinishLook(r)
             \/ FinishMiss(r) \/ FinishError(r)
             \/ \E failed \in BOOLEAN : TurnEnds(r, failed)
                                        \/ RecoverRun(r, failed)
      PROVE  UNCHANGED run
  BY <1>6 DEF SubmitError, WaitForUsageProfile, RejectTurn, ReadGoal,
              PrepareGoal, SubmitTurn, StartHeartbeat, CheckOwnership,
              Heartbeat, HeartbeatError, TurnEnds, RecoverRun, FinishRead,
              FinishLook, FinishMiss, FinishError, SetGoal, ExtendLease,
              storeVars
<1>7. ASSUME NEW r \in RunIds, StartRun(r) PROVE UNCHANGED run \/ RunWrite
  <2>1. job[r].sid \in Schedules
    BY <1>7, JobFacts DEF StartRun, At
  <2> QED
    BY <1>7, <2>1 DEF StartRun, RunWrite, storeVars
<1>8. ASSUME NEW r \in RunIds, FinishWrite(r) \/ DeferWrite(r)
      PROVE  RunWrite
  BY <1>8 DEF RunWrite
<1>9. ASSUME NEW e \in Editors, RequestStep(e) PROVE UNCHANGED run \/ RunWrite
  <2>1. ASSUME UpdateWrite(e) PROVE UNCHANGED run \/ RunWrite
    <3>1. edit[e].s \in Schedules /\ edit[e].merged \in Merged
      BY <2>1, EditFacts DEF UpdateWrite, Merging, SystemInv, MemoryOK
    <3> QED
      BY <2>1, <3>1 DEF UpdateWrite, RunWrite, storeVars
  <2>2. ASSUME \/ \E t \in Schedules, new \in NewSchedules :
                     CreateCheck(e, t, new)
               \/ \E t \in Schedules, patch \in Patches :
                     UpdateLoad(e, t, patch)
               \/ \E t \in Schedules : PauseLoad(e, t) \/ ResumeLoad(e, t)
               \/ UpdateRead(e)
        PROVE  UNCHANGED run
    BY <2>2 DEF CreateCheck, UpdateRead, UpdateLoad, PauseLoad, ResumeLoad,
                storeVars
  <2>3. ASSUME CreateInsert(e) \/ ResumeWrite(e) PROVE UNCHANGED run
    BY <2>3 DEF CreateInsert, CreateSchedule, ResumeWrite, ResumeSchedule,
                storeVars
  <2>4. ASSUME NEW s \in Schedules, Delete(e, s) PROVE RunWrite
    BY <2>4 DEF Delete, RunWrite
  <2> QED
    BY <1>9, <2>1, <2>2, <2>3, <2>4 DEF RequestStep
<1> QED
  BY <1>1, <1>2, <1>3, <1>4, <1>5, <1>6, <1>7, <1>8, <1>9, <1>10, <1>11
     DEF SystemNext, RuntimeNext, PollStep, JobStep, JobEvent

LEMMA HeldStep ==
    ASSUME SystemInv, GoalRemembered, [SystemNext]_vars PROVE HeldStops
<1> SUFFICES ASSUME NEW s \in Schedules, NEW r \in RunIds,
                    run[r].schedule_id = s, run[r].status = "running",
                    GoalHeld(run[r].goal_id), sched[s].kind # "once",
                    run'[r].status \in {"completed", "failed"},
                    sched'[s].status = "active"
             PROVE  FoundNoHold(s, {run[r].goal_id})
  BY DEF HeldStops, FoundNoHold, FoundHeld, GoalHeld
<1>1. /\ sched \in [Schedules -> Row] /\ run \in [RunIds -> RunRow]
      /\ job \in [RunIds -> JobRow] /\ RemembersGoal(r) /\ TypeOK
      /\ StoreInv
  BY DEF SystemInv, StoreInv, TypeOK, MemoryOK, JobsOK, GoalRemembered
<1>2. Live(r) /\ run'[r] # run[r] /\ r \in issued
  BY <1>1 DEF Live, LiveStatuses, StoreInv, UnissuedUnused
<1>3. RunWrite
  BY <1>2, RunWriters
<1>4. ASSUME NEW ss, run'[r] = FailLiveRuns(ss)[r] PROVE s \in ss
  BY <1>1, <1>2, <1>4, FailLiveRunsFacts
<1>5. ASSUME NEW t \in Schedules, NEW n \in RunIds, NEW now, NEW for,
             GrantLease(t, n, now, for),
             ClaimLooks(t) => FoundNoHold(t, ReapedGoals(t))
      PROVE  FoundNoHold(s, {run[r].goal_id})
  <2>1. n # r
    BY <1>2, <1>5 DEF GrantLease, NextId, FreshIds
  <2>2. run'[r] = FailLiveRuns({t})[r]
    BY <1>5, <2>1 DEF GrantLease, FailLiveRuns
  <2>3. t = s
    BY <1>4, <2>2
  <2>4. ClaimLooks(s)
    BY <1>2 DEF ClaimLooks, GoalCanPause, ReapedGoals, LiveRuns, GoalHeld
  <2>5. run[r].goal_id \in ReapedGoals(s)
    BY <1>2 DEF ReapedGoals, LiveRuns
  <2> QED
    BY <1>5, <2>3, <2>4, <2>5 DEF FoundNoHold, FoundHeld
<1>6. ASSUME NEW t \in Schedules, ReapAndPause(t)
      PROVE  sched'[s].status = "paused"
  <2>1. t = s
    BY <1>4, <1>6 DEF ReapAndPause
  <2> QED
    BY <1>1, <1>6, <2>1 DEF ReapAndPause, Released, Row
<1>7. ASSUME NEW t \in Schedules, NEW n \in RunIds, NEW g, NEW now,
             MarkStarted(t, n, g, now)
      PROVE  FALSE
  <2>1. run'[r] = run[r] \/ run'[r].status = "running"
    BY <1>1, <1>7 DEF MarkStarted, RunRow
  <2> QED
    BY <1>2, <2>1
<1>8. ASSUME NEW n \in RunIds, FinishWrite(n)
      PROVE  FoundNoHold(s, {run[r].goal_id})
  <2> DEFINE j == job[n]
  <2>1. PICK hold \in BOOLEAN :
           /\ Commit("finish", j.proc, j.sid, n, {j.goal_id}, hold)
           /\ FinishRun(j.sid, n, j.at, j.next, j.goal_id, j.failed, hold)
    BY <1>8 DEF FinishWrite
  <2>2. n = r
    BY <1>1, <1>2, <2>1 DEF FinishRun
  <2>3. j.sid = s
    BY <2>1, <2>2 DEF FinishRun, CanFinish, OwnsLease
  <2>4. j.goal_id = run[r].goal_id
    BY <1>1, <1>8, <2>2 DEF FinishWrite, At, RemembersGoal, Started
  <2>5. GoalCanPause(j.sid, {j.goal_id})
    BY <2>3, <2>4 DEF GoalCanPause, GoalHeld
  <2>6. /\ probe # NULL /\ probe.s = s
        /\ hold = FoundHeld(probe.seen, {j.goal_id})
    BY <2>1, <2>3, <2>5, Zenon DEF Commit, Open
  <2>7. sched'[s].status = FinishedStatus(sched[s], j.at, hold, j.next)
    BY <1>1, <2>1, <2>3 DEF FinishRun, Released, Row
  <2>8. hold = FALSE
    BY <2>7 DEF FinishedStatus
  <2> QED
    BY <2>4, <2>6, <2>8 DEF FoundNoHold
<1>9. ASSUME NEW n \in RunIds, DeferWrite(n) PROVE FALSE
  <2>1. DeferRun(job[n].sid, n, job[n].at)
    BY <1>2, <1>9 DEF DeferWrite, storeVars
  <2>2. run'[r] = run[r] \/ run'[r].status = "deferred"
    BY <1>1, <2>1 DEF DeferRun, RunRow
  <2> QED
    BY <1>2, <2>2
<1>10. ASSUME NEW now \in Nat, ExpireSchedules(now)
       PROVE  sched'[s].status = "expired"
  <2>1. s \in Expiring(now)
    BY <1>4, <1>10 DEF ExpireSchedules
  <2> QED
    BY <1>1, <1>10, <2>1 DEF ExpireSchedules, Released, Row
<1>11. ASSUME NEW t \in Schedules, NEW m \in Merged, NEW reset,
              UpdateSchedule(t, m, reset)
       PROVE  sched'[s].status # "active"
  <2>1. m.status # "active" /\ run'[r] = FailLiveRuns({t})[r]
    BY <1>2, <1>11 DEF UpdateSchedule
  <2>2. t = s
    BY <1>4, <2>1
  <2> QED
    BY <1>1, <1>11, <2>1, <2>2 DEF UpdateSchedule
<1>12. ASSUME NEW t \in Schedules, DeleteSchedule(t) PROVE FALSE
  <2>1. run'[r] = run[r] \/ run'[r].status = "none"
    BY <1>12 DEF DeleteSchedule, NoRun
  <2> QED
    BY <1>2, <2>1
<1> QED
  BY <1>3, <1>5, <1>6, <1>7, <1>8, <1>9, <1>10, <1>11, <1>12 DEF RunWrite

(***************************************************************************)
(* A recurring schedule whose run worked on a goal that is on hold stops:  *)
(* whether the run's own task finishes it, a claim reaps it after a crash, *)
(* the schedule expires or a request stops it, the step that ends the run  *)
(* as completed or failed leaves the schedule paused or expired, unless it *)
(* commits a finish or a claim of this schedule that had looked at the goal*)
(* before the hold was placed.  (A deferral is no end: the run is handed   *)
(* back for a retry.)                                                      *)
(***************************************************************************)
THEOREM HeldGoalsStop ==
    ASSUME Times = Nat PROVE SystemSpec => HeldGoalStopsSchedule
<1>1. SystemInit => SystemInv /\ GoalRemembered
  <2> SUFFICES ASSUME SystemInit PROVE GoalRemembered
    BY SystemInitInv
  <2> QED
    BY DEF SystemInit, Init, NoRun, GoalRemembered, RemembersGoal
<1>2. SystemInv /\ GoalRemembered /\ [SystemNext]_vars
         => SystemInv' /\ GoalRemembered' /\ [HeldStops]_vars
  BY SystemStep, GoalsKept, HeldStep
<1> QED
  BY <1>1, <1>2, PTL DEF SystemSpec, HeldGoalStopsSchedule

-----------------------------------------------------------------------------
(***************************************************************************)
(* One-time schedules.  A completion leaves a one-time schedule expired,   *)
(* so a second one needs a step that makes the schedule active again.      *)
(* Resume requests do, and so does any patch that is merged into a row     *)
(* read while the schedule was active and written after the completion:    *)
(* what is left are requests that pause or expire.                         *)
(***************************************************************************)
OnlyStops(patch) == patch.status \in {"paused", "expired"} /\ patch.kind = Keep
NoReactivation == MayResume = {} /\ \A patch \in Patches : OnlyStops(patch)

Gone(s) == sched[s].status = "deleted"
NamedExist == \A r \in RunIds : run[r].schedule_id # NULL =>
                                    Exists(run[r].schedule_id)
Spent ==
    \A s \in Schedules, r \in RunIds :
       /\ run[r].schedule_id = s /\ run[r].status = "completed"
       /\ sched[s].kind = "once"
       => /\ sched[s].status # "active"
          /\ \A q \in RunIds : run[q].schedule_id = s
                                 /\ run[q].status = "completed" => q = r
StopsOnce(j) ==
    j.pc = "finishing" =>
       \/ Gone(j.sid)
       \/ /\ Exists(j.sid)
          /\ sched[j.sid].kind = "once" => j.next = NULL
StopEdit(q) ==
    /\ q.pc = "loaded" => OnlyStops(q.patch)
    /\ q.pc = "merged" =>
          /\ q.merged.status # "active"
          /\ \/ Gone(q.s)
             \/ Exists(q.s) /\ q.merged.kind = sched[q.s].kind
    /\ q.pc # "resuming"
OnceInv ==
    /\ NamedExist /\ Spent
    /\ \A r \in RunIds : StopsOnce(job[r])
    /\ \A e \in Editors : StopEdit(edit[e])

(* What every step does to a schedule that was created: it stays deleted,   *)
(* is deleted, or keeps its kind and is not made active.                    *)
RowKept(s) ==
    /\ Gone(s) => sched'[s] = sched[s]
    /\ Exists(s) => \/ DeleteSchedule(s)
                    \/ /\ sched'[s].status \in {"active", "paused", "expired"}
                       /\ sched'[s].kind = sched[s].kind
                       /\ sched'[s].status = "active" =>
                             sched[s].status = "active"
RowsKept == \A s \in Schedules : RowKept(s)

LEMMA OneRowKept ==
    ASSUME NEW s \in Schedules, RowKept(s),
           \A q \in Schedules \ {s} : sched'[q] = sched[q]
    PROVE  RowsKept
<1>1. ASSUME NEW q \in Schedules, sched'[q] = sched[q] PROVE RowKept(q)
  BY <1>1 DEF RowKept, Gone, Exists
<1> QED
  BY <1>1 DEF RowsKept

LEMMA TransactionRows ==
    ASSUME StoreInv, [Transaction]_storeVars PROVE RowsKept
<1>1. sched \in [Schedules -> Row] /\ NULL \notin RunIds
  BY ConstantFacts DEF StoreInv, TypeOK
<1>2. ASSUME NEW s \in Schedules,
             \A q \in Schedules \ {s} : sched'[q] = sched[q],
             sched[s].status = "active", sched'[s].kind = sched[s].kind,
             sched'[s].status \in {"active", "paused", "expired"}
      PROVE  RowsKept
  <2>1. RowKept(s)
    BY <1>2 DEF RowKept, Gone, Exists
  <2> QED
    BY <1>2, <2>1, OneRowKept
<1>3. ASSUME NEW s \in Schedules, NEW r \in RunIds, OwnsLease(s, r)
      PROVE  sched[s].status = "active"
  BY <1>1, <1>3 DEF OwnsLease, StoreInv, LeaseAgrees
<1>4. ASSUME NEW p, NEW s \in Schedules, NEW r \in RunIds, NEW now,
             NEW fresh,
             ClaimDue(p, s, r, now, fresh) \/ ClaimNow(p, s, r, now, fresh)
      PROVE  RowsKept
  <2>1. sched[s].status = "active" /\ \E for : GrantLease(s, r, now, for)
    BY <1>4 DEF ClaimDue, ClaimNow, FirstDue, Due, Claimable
  <2>2. /\ \A q \in Schedules \ {s} : sched'[q] = sched[q]
        /\ sched'[s].status = sched[s].status
        /\ sched'[s].kind = sched[s].kind
    BY <1>1, <2>1 DEF GrantLease, Row
  <2> QED
    BY <1>2, <2>1, <2>2
<1>5. ASSUME NEW p, NEW s \in Schedules, NEW now, NEW fresh,
             ClaimHeld(p, s, now, fresh)
      PROVE  RowsKept
  <2>1. /\ sched[s].status = "active"
        /\ \A q \in Schedules \ {s} : sched'[q] = sched[q]
        /\ sched'[s].status = "paused" /\ sched'[s].kind = sched[s].kind
    BY <1>1, <1>5 DEF ClaimHeld, Claimable, ReapAndPause, Released, Row
  <2> QED
    BY <1>2, <2>1
<1>6. ASSUME NEW s \in Schedules, NEW r \in RunIds, NEW now \in Nat, NEW g,
             MarkStarted(s, r, g, now) \/ ExtendLease(s, r, clock)
      PROVE  RowsKept
  <2>1. OwnsLease(s, r)
    BY <1>6 DEF MarkStarted, CanMarkStarted, ExtendLease, CanExtend
  <2>2. /\ \A q \in Schedules \ {s} : sched'[q] = sched[q]
        /\ sched'[s].status = sched[s].status
        /\ sched'[s].kind = sched[s].kind
    BY <1>1, <1>6 DEF MarkStarted, ExtendLease, Row
  <2> QED
    BY <1>2, <1>3, <2>1, <2>2
<1>7. ASSUME NEW s \in Schedules, NEW r \in RunIds, NEW now \in Nat,
             DeferRun(s, r, now)
      PROVE  RowsKept
  <2>1. OwnsLease(s, r)
    BY <1>7 DEF DeferRun, CanDefer
  <2>2. /\ \A q \in Schedules \ {s} : sched'[q] = sched[q]
        /\ sched'[s].status \in {"expired", sched[s].status}
        /\ sched'[s].kind = sched[s].kind
    BY <1>1, <1>7 DEF DeferRun, Released, Row
  <2> QED
    BY <1>2, <1>3, <2>1, <2>2
<1>8. ASSUME NEW s \in Schedules, NEW r \in RunIds, NEW now \in Nat,
             NEW n, NEW g, NEW failed \in BOOLEAN, NEW hold \in BOOLEAN,
             FinishRun(s, r, now, n, g, failed, hold)
      PROVE  RowsKept
  <2>1. OwnsLease(s, r)
    BY <1>8, Zenon DEF FinishRun, CanFinish
  <2>2. /\ \A q \in Schedules \ {s} : sched'[q] = sched[q]
        /\ sched'[s].status = FinishedStatus(sched[s], now, hold, n)
        /\ sched'[s].kind = sched[s].kind
    BY <1>1, <1>8 DEF FinishRun, Released, Row
  <2>3. FinishedStatus(sched[s], now, hold, n)
           \in {"expired", "paused", sched[s].status}
    BY DEF FinishedStatus
  <2> QED
    BY <1>2, <1>3, <2>1, <2>2, <2>3
<1>9. ASSUME NEW now \in Nat, ExpireSchedules(now) PROVE RowsKept
  <2> SUFFICES ASSUME NEW s \in Schedules PROVE RowKept(s)
    BY DEF RowsKept
  <2>1. CASE s \in Expiring(now)
    <3>1. /\ sched[s].status = "active" /\ sched'[s].status = "expired"
          /\ sched'[s].kind = sched[s].kind
      BY <1>1, <1>9, <2>1 DEF ExpireSchedules, Expiring, Released, Row
    <3> QED
      BY <3>1 DEF RowKept, Gone, Exists
  <2>2. CASE s \notin Expiring(now)
    <3>1. sched'[s] = sched[s]
      BY <1>9, <2>2 DEF ExpireSchedules
    <3> QED
      BY <3>1 DEF RowKept, Gone, Exists
  <2> QED
    BY <2>1, <2>2
<1>10. ASSUME UNCHANGED sched PROVE RowsKept
  BY <1>10 DEF RowsKept, RowKept, Gone, Exists
<1> QED
  BY <1>4, <1>5, <1>6, <1>7, <1>8, <1>9, <1>10
     DEF Transaction, Advance, SessionHeartbeat, SessionPrune, SetGoal,
         storeVars

LEMMA RequestRows ==
    ASSUME Times = Nat, NoReactivation, SystemInv, OnceInv, NEW e \in Editors,
           RequestStep(e)
    PROVE  RowsKept
<1>1. /\ sched \in [Schedules -> Row] /\ EditsOK /\ StopEdit(edit[e])
  BY DEF SystemInv, StoreInv, TypeOK, MemoryOK, OnceInv
<1>2. ASSUME UNCHANGED storeVars PROVE RowsKept
  BY <1>2, TransactionRows DEF SystemInv
<1>3. ASSUME NEW s \in Schedules, Delete(e, s) PROVE RowsKept
  <2>1. \A q \in Schedules \ {s} : sched'[q] = sched[q]
    BY <1>1, <1>3 DEF Delete, DeleteSchedule
  <2>2. RowKept(s)
    BY <1>3 DEF Delete, DeleteSchedule, RowKept, Gone, Exists
  <2> QED
    BY <2>1, <2>2, OneRowKept
<1>4. ASSUME CreateInsert(e) PROVE RowsKept
  <2> DEFINE s == edit[e].s
  <2>1. s \in Schedules
    BY <1>1, <1>4, EditFacts DEF CreateInsert, Creating
  <2>2. /\ \A q \in Schedules \ {s} : sched'[q] = sched[q]
        /\ sched[s].status = "absent"
    BY <1>1, <1>4 DEF CreateInsert, CreateSchedule
  <2>3. RowKept(s)
    BY <2>2 DEF RowKept, Gone, Exists
  <2> QED
    BY <2>1, <2>2, <2>3, OneRowKept
<1>5. ASSUME UpdateWrite(e) PROVE RowsKept
  <2> DEFINE s == edit[e].s
             m == edit[e].merged
  <2>1. s \in Schedules /\ m \in Merged
    BY <1>1, <1>5, EditFacts DEF UpdateWrite, Merging
  <2>2. CASE UNCHANGED storeVars
    BY <1>2, <2>2
  <2>3. CASE UpdateSchedule(s, m, edit[e].reset)
    <3>1. /\ \A q \in Schedules \ {s} : sched'[q] = sched[q]
          /\ sched'[s].status = m.status /\ sched'[s].kind = m.kind
          /\ Exists(s)
      BY <1>1, <2>1, <2>3 DEF UpdateSchedule
    <3>2. m.status \in {"paused", "expired"}
      BY <1>1, <1>5, <2>1 DEF UpdateWrite, StopEdit, Merged
    <3>3. m.kind = sched[s].kind
      BY <1>1, <1>5, <3>1 DEF UpdateWrite, StopEdit, Gone, Exists
    <3> HIDE DEF s, m
    <3>4. RowKept(s)
      BY <3>1, <3>2, <3>3 DEF RowKept, Gone, Exists
    <3> QED
      BY <2>1, <3>1, <3>4, OneRowKept
  <2> QED
    BY <1>5, <2>2, <2>3 DEF UpdateWrite
<1>6. ~ResumeWrite(e)
  BY <1>1 DEF ResumeWrite, StopEdit
<1>7. ASSUME \/ \E t \in Schedules, new \in NewSchedules :
                   CreateCheck(e, t, new)
             \/ \E t \in Schedules, patch \in Patches : UpdateLoad(e, t, patch)
             \/ \E t \in Schedules : PauseLoad(e, t) \/ ResumeLoad(e, t)
             \/ UpdateRead(e)
      PROVE  UNCHANGED storeVars
  BY <1>7 DEF CreateCheck, UpdateRead, UpdateLoad, PauseLoad, ResumeLoad
<1> QED
  BY <1>2, <1>3, <1>4, <1>5, <1>6, <1>7 DEF RequestStep

(* Runs keep their schedule, are deleted with it, or are granted on an      *)
(* active one.                                                              *)
LEMMA NamedExistKept ==
    ASSUME SystemInv, SystemInv', NamedExist, RowsKept, [SystemNext]_vars
    PROVE  NamedExist'
<1>1. /\ sched \in [Schedules -> Row] /\ run \in [RunIds -> RunRow] /\ TypeOK
      /\ run' \in [RunIds -> RunRow]
  BY DEF SystemInv, StoreInv, TypeOK
<1>2. ASSUME NEW q \in RunIds, run'[q].schedule_id # NULL
      PROVE  run'[q].schedule_id \in Schedules
  BY <1>1, <1>2 DEF RunRow
<1> SUFFICES ASSUME NEW q \in RunIds, NEW s \in Schedules,
                    run'[q].schedule_id = s
             PROVE  Exists(s)'
  BY <1>2 DEF NamedExist, Exists
<1>3. ASSUME run[q].schedule_id = s PROVE Exists(s)'
  <2>1. Exists(s) /\ RowKept(s)
    BY <1>3, SystemFacts DEF NamedExist, RowsKept
  <2>2. ~DeleteSchedule(s)
    BY <1>3, SystemFacts DEF DeleteSchedule, NoRun
  <2> QED
    BY <2>1, <2>2 DEF RowKept, Exists
<1>4. ASSUME NEW ss, run'[q] = FailLiveRuns(ss)[q]
      PROVE  run[q].schedule_id = s
  BY <1>1, <1>4, FailLiveRunsFacts
<1>5. ASSUME NEW t \in Schedules, NEW r \in RunIds, NEW now, NEW for,
             GrantLease(t, r, now, for), sched[t].status = "active"
      PROVE  run[q].schedule_id = s \/ Exists(s)'
  <2>1. CASE q # r
    <3>1. run'[q] = FailLiveRuns({t})[q]
      BY <1>5, <2>1 DEF GrantLease, FailLiveRuns
    <3> QED
      BY <1>4, <3>1
  <2>2. CASE q = r
    <3>1. s = t
      BY <1>5, <2>2 DEF GrantLease, FailLiveRuns
    <3>2. sched'[t].status = sched[t].status
      BY <1>1, <1>5 DEF GrantLease, Row
    <3> QED
      BY <1>5, <3>1, <3>2 DEF Exists
  <2> QED
    BY <2>1, <2>2
<1>6. ASSUME NEW t \in Schedules,
             \/ ReapAndPause(t)
             \/ \E m \in Merged : \E reset : UpdateSchedule(t, m, reset)
             \/ DeleteSchedule(t)
      PROVE  run[q].schedule_id = s
  BY <1>4, <1>6, SystemFacts
     DEF ReapAndPause, UpdateSchedule, DeleteSchedule, NoRun
<1>7. ASSUME NEW t \in Schedules, NEW r \in RunIds,
             \E g, now : MarkStarted(t, r, g, now)
      PROVE  run[q].schedule_id = s
  BY <1>1, <1>7 DEF MarkStarted, RunRow
<1>8. ASSUME NEW r \in RunIds, FinishWrite(r) \/ DeferWrite(r)
      PROVE  run[q].schedule_id = s
  <2>1. \/ UNCHANGED run
        \/ \E status : run' = [run EXCEPT ![r].status = status]
    BY <1>8, Zenon DEF FinishWrite, DeferWrite, FinishRun, DeferRun, storeVars
  <2> QED
    BY <1>1, <2>1 DEF RunRow
<1>9. ASSUME NEW now \in Nat, ExpireSchedules(now)
      PROVE  run[q].schedule_id = s
  BY <1>4, <1>9 DEF ExpireSchedules
<1> QED
  BY <1>3, <1>5, <1>6, <1>7, <1>8, <1>9, RunWriters DEF RunWrite

(* Only a finish completes a run. *)
LEMMA OnlyFinishCompletes ==
    ASSUME SystemInv, [SystemNext]_vars, NEW q \in RunIds,
           run'[q].status = "completed"
    PROVE  \/ run'[q] = run[q]
           \/ /\ FinishWrite(q)
              /\ \E hold \in BOOLEAN :
                    FinishRun(job[q].sid, q, job[q].at, job[q].next,
                              job[q].goal_id, job[q].failed, hold)
              /\ \A r \in RunIds \ {q} : run'[r] = run[r]
<1>1. run \in [RunIds -> RunRow]
  BY DEF SystemInv, StoreInv, TypeOK
<1>2. ASSUME NEW ss, run'[q] = FailLiveRuns(ss)[q] PROVE run'[q] = run[q]
  BY <1>1, <1>2 DEF FailLiveRuns, RunRow
<1>3. ASSUME NEW t \in Schedules, NEW r \in RunIds, NEW now, NEW for,
             GrantLease(t, r, now, for)
      PROVE  run'[q] = run[q]
  <2>1. run'[q] = FailLiveRuns({t})[q] \/ run'[q].status = "leased"
    BY <1>3 DEF GrantLease, FailLiveRuns
  <2> QED
    BY <1>2, <2>1
<1>4. ASSUME NEW t \in Schedules,
             \/ ReapAndPause(t)
             \/ \E m \in Merged : \E reset : UpdateSchedule(t, m, reset)
             \/ DeleteSchedule(t)
      PROVE  run'[q] = run[q]
  BY <1>2, <1>4 DEF ReapAndPause, UpdateSchedule, DeleteSchedule, NoRun
<1>5. ASSUME NEW t \in Schedules, NEW r \in RunIds,
             \E g, now : MarkStarted(t, r, g, now)
      PROVE  run'[q] = run[q]
  BY <1>1, <1>5 DEF MarkStarted, RunRow
<1>6. ASSUME NEW r \in RunIds, DeferWrite(r) PROVE run'[q] = run[q]
  BY <1>1, <1>6 DEF DeferWrite, DeferRun, RunRow, storeVars
<1>7. ASSUME NEW r \in RunIds, FinishWrite(r), run'[q] # run[q]
      PROVE  /\ r = q
             /\ \E hold \in BOOLEAN :
                   FinishRun(job[q].sid, q, job[q].at, job[q].next,
                             job[q].goal_id, job[q].failed, hold)
             /\ \A n \in RunIds \ {q} : run'[n] = run[n]
  <2>1. \E hold \in BOOLEAN :
           FinishRun(job[r].sid, r, job[r].at, job[r].next, job[r].goal_id,
                     job[r].failed, hold)
    BY <1>7 DEF FinishWrite
  <2>3. \E st : run' = [run EXCEPT ![r].status = st]
    BY <2>1, Zenon DEF FinishRun
  <2>2. \A n \in RunIds \ {r} : run'[n] = run[n]
    BY <1>1, <2>3
  <2> QED
    BY <1>7, <2>1, <2>2
<1>8. ASSUME NEW now \in Nat, ExpireSchedules(now) PROVE run'[q] = run[q]
  BY <1>2, <1>8 DEF ExpireSchedules
<1> QED
  BY <1>3, <1>4, <1>5, <1>6, <1>7, <1>8, RunWriters DEF RunWrite

LEMMA SpentKept ==
    ASSUME SystemInv, SystemInv', OnceInv, RowsKept, NamedExist',
           [SystemNext]_vars
    PROVE  Spent'
<1>1. /\ sched \in [Schedules -> Row] /\ run \in [RunIds -> RunRow]
      /\ StoreInv /\ NULL \notin Schedules /\ NULL \notin RunIds
  BY SystemFacts DEF SystemInv, StoreInv, TypeOK
<1> SUFFICES ASSUME NEW s \in Schedules, NEW r \in RunIds,
                    run'[r].schedule_id = s, run'[r].status = "completed",
                    sched'[s].kind = "once"
             PROVE  /\ sched'[s].status # "active"
                    /\ \A q \in RunIds : run'[q].schedule_id = s
                          /\ run'[q].status = "completed" => q = r
  BY DEF Spent
<1>2. Exists(s)' /\ RowKept(s) /\ ~DeleteSchedule(s)
  BY <1>1 DEF NamedExist, RowsKept, DeleteSchedule, NoRow, Exists
<1> DEFINE Won(q) == run[q].schedule_id = s /\ run[q].status = "completed"
<1>3. ASSUME NEW q \in RunIds, Won(q)
      PROVE  /\ sched[s].kind = "once" /\ sched'[s].status # "active"
             /\ sched[s].status # "active"
             /\ \A n \in RunIds : Won(n) => n = q
  <2>1. Exists(s)
    BY <1>1, <1>3 DEF OnceInv, NamedExist
  <2>2. /\ sched[s].kind = "once"
        /\ sched'[s].status = "active" => sched[s].status = "active"
    BY <1>2, <2>1 DEF RowKept
  <2> QED
    BY <1>3, <2>2 DEF OnceInv, Spent
<1>4. ASSUME NEW q \in RunIds, run'[q].schedule_id = s,
             run'[q].status = "completed", run'[q] # run[q]
      PROVE  /\ \A n \in RunIds : ~Won(n)
             /\ sched'[s].status # "active"
             /\ \A n \in RunIds \ {q} : run'[n] = run[n]
  <2> DEFINE j == job[q]
  <2>0. /\ FinishWrite(q)
        /\ \A n \in RunIds \ {q} : run'[n] = run[n]
    BY <1>4, OnlyFinishCompletes
  <2>1. PICK hold \in BOOLEAN :
           FinishRun(j.sid, q, j.at, j.next, j.goal_id, j.failed, hold)
    BY <1>4, OnlyFinishCompletes
  <2>9. /\ \E st : run' = [run EXCEPT ![q].status = st]
        /\ OwnsLease(j.sid, q)
    BY <2>1, Zenon DEF FinishRun, CanFinish
  <2>2. run[q].schedule_id = s
    BY <1>1, <1>4, <2>9 DEF RunRow
  <2>3. j.sid = s /\ OwnsLease(s, q)
    BY <2>9, <2>2 DEF OwnsLease
  <2>4. sched[s].status = "active" /\ Exists(s)
    BY <1>1, <2>3 DEF OwnsLease, StoreInv, LeaseAgrees, Exists
  <2>5. sched[s].kind = "once"
    BY <1>2, <2>4 DEF RowKept
  <2>6. j.next = NULL
    BY <2>0, <2>3, <2>4, <2>5
       DEF FinishWrite, At, OnceInv, StopsOnce, Gone
  <2>7. sched'[s].status = FinishedStatus(sched[s], j.at, hold, j.next)
    BY <1>1, <2>1, <2>3 DEF FinishRun, Released, Row
  <2>8. FinishedStatus(sched[s], j.at, hold, j.next) # "active"
    BY <2>4, <2>6 DEF FinishedStatus
  <2> QED
    BY <1>3, <2>0, <2>4, <2>7, <2>8
<1>5. CASE run'[r] = run[r]
  <2>1. Won(r) /\ sched'[s].status # "active"
    BY <1>3, <1>5
  <2>2. ASSUME NEW q \in RunIds, run'[q].schedule_id = s,
               run'[q].status = "completed"
        PROVE  q = r
    <3>1. run'[q] = run[q]
      BY <1>4, <2>1, <2>2
    <3> QED
      BY <1>3, <2>1, <2>2, <3>1
  <2> QED
    BY <2>1, <2>2
<1>6. CASE run'[r] # run[r]
  BY <1>4, <1>6
<1> QED
  BY <1>5, <1>6

(* A task comes to its finish only by reading its schedule. *)
LEMMA FinishingJobs ==
    ASSUME SystemInv, [SystemNext]_vars, NEW q \in RunIds,
           job'[q].pc = "finishing"
    PROVE  \/ FinishRead(q)
           \/ /\ job[q].pc = "finishing" /\ job'[q].sid = job[q].sid
              /\ job'[q].next = job[q].next
<1> DEFINE Same == /\ job[q].pc = "finishing" /\ job'[q].sid = job[q].sid
                   /\ job'[q].next = job[q].next
<1>1. job \in [RunIds -> JobRow]
  BY DEF SystemInv, MemoryOK, JobsOK
<1>2. ASSUME job'[q] = job[q] PROVE Same
  BY <1>2
<1>3. ASSUME UNCHANGED job PROVE Same
  BY <1>3
<1>4. ASSUME NEW r \in RunIds, NEW row, job' = [job EXCEPT ![r] = row],
             row.pc # "finishing"
      PROVE  Same
  BY <1>1, <1>2, <1>4
<1>5. ASSUME NEW r \in RunIds,
             \/ \E pc : pc # "finishing" /\ Step(r, pc)
             \/ Return(r)
             \/ \E g : Fail(r, g)
             \/ \E at : Postpone(r, at)
      PROVE  Same
  <2>1. \A n \in RunIds \ {r} : job'[n] = job[n]
    BY <1>1, <1>5 DEF Step, Return, Fail, Postpone
  <2>2. job'[r].pc # "finishing"
    BY <1>1, <1>5, ZenonT(60) DEF Step, Return, Fail, Postpone, JobRow
  <2> QED
    BY <1>2, <2>1, <2>2
<1>6. ASSUME NEW e \in Editors, RequestStep(e) PROVE UNCHANGED job
  BY <1>6 DEF RequestStep, CreateCheck, CreateInsert, UpdateLoad, UpdateRead,
              UpdateWrite, PauseLoad, ResumeLoad, ResumeWrite, Delete,
              NotRuntime, runtimeVars
<1>7. ASSUME NEW p \in Procs,
             \/ TickBegin(p) \/ TickEnd(p) \/ TickResume(p) \/ Restart(p)
             \/ ShowActive(p)
             \/ \E s \in Schedules :
                   \/ TickLook(p, s) \/ TickClaimHeld(p, s)
                   \/ RunNowLook(p, s) \/ RunNowHeld(p, s)
      PROVE  UNCHANGED job
  BY <1>7 DEF TickBegin, TickEnd, TickResume, Restart, ShowActive, TickLook,
              TickClaimHeld, RunNowLook, RunNowHeld, runtimeVars
<1>8. ASSUME NEW p \in Procs, NEW s \in Schedules, NEW r \in RunIds,
             TickClaim(p, s, r) \/ RunNow(p, s, r)
      PROVE  Same
  <2>1. job' = [job EXCEPT ![r] = NewJob(p, s)]
    BY <1>8 DEF TickClaim, RunNow
  <2>2. NewJob(p, s).pc # "finishing"
    BY DEF NewJob, NoJob
  <2> QED
    BY <1>4, <2>1, <2>2
<1>9. ASSUME NEW p \in Procs, Crash(p) PROVE Same
  <2>1. \A n \in RunIds : job'[n] = job[n] \/ job'[n].pc = "dead"
    BY <1>9 DEF Crash, NoJob
  <2> QED
    BY <1>2, <2>1
<1>10. ASSUME TimePasses \/ GoalChanges \/ \E r \in RunIds : FinishLook(r)
       PROVE  UNCHANGED job
  BY <1>10 DEF TimePasses, GoalChanges, FinishLook, runtimeVars
<1>11. ASSUME NEW r \in RunIds,
              \/ SubmitError(r) \/ WaitForUsageProfile(r) \/ RejectTurn(r)
              \/ ReadGoal(r) \/ CheckOwnership(r) \/ StartRun(r)
              \/ FinishWrite(r) \/ FinishMiss(r) \/ DeferWrite(r)
              \/ FinishError(r)
       PROVE  Same
  BY <1>5, <1>11 DEF SubmitError, WaitForUsageProfile, RejectTurn, ReadGoal,
                     CheckOwnership, StartRun, FinishWrite, FinishMiss,
                     DeferWrite, FinishError
<1>12. ASSUME NEW r \in RunIds, PrepareGoal(r) \/ SubmitTurn(r)
       PROVE  Same
  <2>1. \/ \E g : Fail(r, g)
        \/ /\ \A n \in RunIds \ {r} : job'[n] = job[n]
           /\ job'[r].pc # "finishing"
    BY <1>1, <1>12, ZenonT(60) DEF PrepareGoal, SubmitTurn, JobRow
  <2> QED
    BY <1>2, <1>5, <2>1
<1>13. ASSUME NEW r \in RunIds,
              \/ StartHeartbeat(r)
              \/ \E failed \in BOOLEAN : TurnEnds(r, failed)
                                         \/ RecoverRun(r, failed)
       PROVE  Same
  <2>1. \/ \E g : Fail(r, g)
        \/ /\ \A n \in RunIds \ {r} : job'[n] = job[n]
           /\ job'[r].pc # "finishing"
    BY <1>1, <1>13, ZenonT(60) DEF StartHeartbeat, TurnEnds, RecoverRun, JobRow
  <2> QED
    BY <1>2, <1>5, <2>1
<1>14. ASSUME NEW r \in RunIds, Heartbeat(r) \/ HeartbeatError(r) PROVE Same
  <2>1. /\ \A n \in RunIds \ {r} : job'[n] = job[n]
        /\ job'[r].pc = job[r].pc /\ job'[r].sid = job[r].sid
        /\ job'[r].next = job[r].next
    BY <1>1, <1>14 DEF Heartbeat, HeartbeatError, JobRow
  <2> QED
    BY <2>1
<1>15. ASSUME NEW r \in RunIds, FinishRead(r) PROVE FinishRead(q) \/ Same
  <2>1. \A n \in RunIds \ {r} : job'[n] = job[n]
    BY <1>1, <1>5, <1>15 DEF FinishRead, Return
  <2> QED
    BY <1>2, <1>15, <2>1
<1>16. CASE UNCHANGED vars
  BY <1>3, <1>16 DEF vars, runtimeVars
<1> QED
  BY <1>3, <1>6, <1>7, <1>8, <1>9, <1>10, <1>11, <1>12, <1>13, <1>14, <1>15,
     <1>16
     DEF SystemNext, RuntimeNext, PollStep, JobStep, JobEvent

LEMMA StopsOnceKept ==
    ASSUME SystemInv, OnceInv, RowsKept, [SystemNext]_vars
    PROVE  \A q \in RunIds : StopsOnce(job[q])'
<1> SUFFICES ASSUME NEW q \in RunIds, job'[q].pc = "finishing"
             PROVE  StopsOnce(job[q])'
  BY DEF StopsOnce
<1>1. job \in [RunIds -> JobRow] /\ \A s \in Schedules : sched[s] \in Row
  BY DEF SystemInv, MemoryOK, JobsOK, StoreInv, TypeOK
<1>2. CASE FinishRead(q)
  <2> DEFINE j == job[q]
             s == job[q].sid
             next == NextAfterFinish(sched[s], run[q].scheduled_for, j.at,
                                     j.failed, Cadence)
  <2>1. s \in Schedules /\ j.at \in Nat /\ j.failed \in BOOLEAN
    BY <1>2, JobFacts DEF FinishRead, At
  <2>2. run[q].scheduled_for \in OptTime
    BY DEF SystemInv, StoreInv, TypeOK, RunRow
  <2>3. sched[s].kind = "once" => next = NULL
    BY <1>1, <2>1, <2>2, NextAfterFinishIsTime
  <2>4. ASSUME Return(q) PROVE FALSE
    <3>1. job'[q].pc = "done"
      BY <1>1, <2>4 DEF Return, JobRow
    <3> QED
      BY <3>1
  <2>5. /\ UNCHANGED sched /\ Exists(s)
        /\ job' = [job EXCEPT ![q] =
                      [job[q] EXCEPT !.pc = "finishing", !.next = next]]
    BY <1>2, <2>4 DEF FinishRead, storeVars
  <2> HIDE DEF next
  <2>6. job'[q].sid = s /\ job'[q].next = next
    BY <1>1, <2>5 DEF JobRow
  <2> QED
    BY <2>3, <2>5, <2>6 DEF StopsOnce, Exists
<1>3. CASE /\ job[q].pc = "finishing" /\ job'[q].sid = job[q].sid
           /\ job'[q].next = job[q].next
  <2>1. PICK s \in Schedules : s = job[q].sid
    BY <1>3, JobFacts
  <2>2. StopsOnce(job[q]) /\ RowKept(s)
    BY DEF OnceInv, RowsKept
  <2>3. \/ sched'[s].status = "deleted"
        \/ /\ sched'[s].status \in {"active", "paused", "expired"}
           /\ sched'[s].kind = "once" => job[q].next = NULL
    BY <1>1, <1>3, <2>1, <2>2
       DEF StopsOnce, RowKept, Gone, Exists, DeleteSchedule, NoRow, SystemInv,
           StoreInv, TypeOK
  <2>4. job'[q].sid = s /\ job'[q].next = job[q].next
    BY <1>3, <2>1
  <2> QED
    BY <2>3, <2>4 DEF StopsOnce, Gone, Exists
<1> QED
  BY <1>2, <1>3, FinishingJobs

LEMMA OtherEditsStop ==
    ASSUME SystemInv, RowsKept, NEW e \in Editors, StopEdit(edit[e]),
           edit'[e] = edit[e]
    PROVE  StopEdit(edit[e])'
<1>1. EditsOK /\ sched \in [Schedules -> Row]
  BY DEF SystemInv, MemoryOK, StoreInv, TypeOK
<1>2. CASE edit[e].pc = "merged"
  <2>1. PICK s \in Schedules : s = edit[e].s
    BY <1>1, <1>2, EditFacts DEF Merging
  <2>2. RowKept(s)
    BY DEF RowsKept
  <2>3. \/ sched'[s].status = "deleted"
        \/ /\ sched'[s].status \in {"active", "paused", "expired"}
           /\ edit[e].merged.kind = sched'[s].kind
    BY <1>1, <1>2, <2>1, <2>2
       DEF StopEdit, RowKept, Gone, Exists, DeleteSchedule, NoRow
  <2>4. edit'[e].s = s /\ edit'[e] = edit[e]
    BY <2>1
  <2> QED
    BY <1>2, <2>3, <2>4 DEF StopEdit, Gone, Exists
<1>3. CASE edit[e].pc # "merged"
  BY <1>3 DEF StopEdit
<1> QED
  BY <1>2, <1>3

(* The request a client goes on with only stops schedules. *)
LEMMA OwnEditStops ==
    ASSUME Times = Nat, NoReactivation, SystemInv, OnceInv, NEW e \in Editors,
           RequestStep(e)
    PROVE  /\ \A d \in Editors \ {e} : edit'[d] = edit[d]
           /\ StopEdit(edit[e])'
<1>1. /\ edit \in [Editors -> EditRow] /\ EditsOK /\ StopEdit(edit[e])
      /\ sched \in [Schedules -> Row] /\ clock \in Nat
  BY DEF SystemInv, MemoryOK, EditsOK, OnceInv, StoreInv, TypeOK, Time
<1>2. ASSUME NEW q, Begin(e, q) \/ Continue(e, q)
      PROVE  edit'[e] = q /\ \A d \in Editors \ {e} : edit'[d] = edit[d]
  BY <1>1, <1>2 DEF Begin, Continue
<1>3. ASSUME NEW q, Begin(e, q) \/ Continue(e, q),
             q.pc \notin {"loaded", "merged", "resuming"}
      PROVE  /\ \A d \in Editors \ {e} : edit'[d] = edit[d]
             /\ StopEdit(edit[e])'
  BY <1>2, <1>3 DEF StopEdit
<1>4. ASSUME NEW s, NEW patch, OnlyStops(patch),
             Begin(e, [pc |-> "loaded", s |-> s, patch |-> patch])
      PROVE  /\ \A d \in Editors \ {e} : edit'[d] = edit[d]
             /\ StopEdit(edit[e])'
  BY <1>2, <1>4 DEF StopEdit
<1>5. NoEdit.pc = "idle"
  BY DEF NoEdit
<1>6. ASSUME CreateInsert(e) \/ UpdateWrite(e) \/ ResumeWrite(e)
             \/ \E s \in Schedules : Delete(e, s)
      PROVE  Begin(e, NoEdit) \/ Continue(e, NoEdit)
  BY <1>6 DEF CreateInsert, UpdateWrite, ResumeWrite, Delete
<1>7. ASSUME NEW s \in Schedules, NEW new \in NewSchedules,
             CreateCheck(e, s, new)
      PROVE  \E q : Continue(e, q) /\ q.pc = "creating"
  BY <1>7 DEF CreateCheck
<1>8. ASSUME NEW s \in Schedules, NEW patch \in Patches,
             UpdateLoad(e, s, patch)
      PROVE  \E sent : OnlyStops(sent)
                /\ Begin(e, [pc |-> "loaded", s |-> s, patch |-> sent])
  <2>1. OnlyStops(PatchToSend(sched[s], patch))
    BY <1>1, KeepFacts, PatchToSendFacts DEF OnlyStops, NoReactivation
  <2> QED
    BY <1>8, <2>1 DEF UpdateLoad
<1>9. ASSUME NEW s \in Schedules, PauseLoad(e, s)
      PROVE  \E sent : OnlyStops(sent)
                /\ Begin(e, [pc |-> "loaded", s |-> s, patch |-> sent])
  <2>1. OnlyStops([KeepAll EXCEPT !.status = "paused"])
    BY DEF OnlyStops, KeepAll
  <2> QED
    BY <1>9, <2>1 DEF PauseLoad
<1>10. ASSUME NEW s \in Schedules, ResumeLoad(e, s) PROVE FALSE
  BY <1>10 DEF ResumeLoad, NoReactivation
<1>11. ASSUME UpdateRead(e)
       PROVE  /\ \A d \in Editors \ {e} : edit'[d] = edit[d]
              /\ StopEdit(edit[e])'
  <2> DEFINE patch == edit[e].patch
             m == Merge(patch, sched[edit[e].s])
             read == [pc |-> "merged", s |-> edit[e].s, merged |-> m,
                      reset |-> patch.status = "active"]
  <2>1. PICK s \in Schedules : s = edit[e].s
    BY <1>1, <1>11, EditFacts DEF UpdateRead, Loaded
  <2>2. OnlyStops(patch) /\ UNCHANGED sched
    BY <1>1, <1>11 DEF UpdateRead, StopEdit, storeVars
  <2>3. m.status # "active" /\ m.kind = sched[s].kind
    BY <2>1, <2>2, KeepFacts DEF Merge, Or, OnlyStops
  <2>4. \/ Exists(s) /\ Continue(e, read)
        \/ Continue(e, NoEdit)
    BY <1>11, <2>1 DEF UpdateRead
  <2> HIDE DEF m
  <2>5. CASE Exists(s) /\ Continue(e, read)
    <3>1. /\ edit'[e].pc = "merged" /\ edit'[e].s = s
          /\ edit'[e].merged = m
          /\ \A d \in Editors \ {e} : edit'[d] = edit[d]
      BY <1>2, <2>1, <2>5
    <3> QED
      BY <2>2, <2>3, <2>5, <3>1 DEF StopEdit, Exists
  <2>6. CASE Continue(e, NoEdit)
    BY <1>3, <1>5, <2>6
  <2> QED
    BY <2>4, <2>5, <2>6
<1> QED
  BY <1>3, <1>4, <1>5, <1>6, <1>7, <1>8, <1>9, <1>10, <1>11 DEF RequestStep

LEMMA OnceKept ==
    ASSUME Times = Nat, NoReactivation, SystemInv, OnceInv, [SystemNext]_vars
    PROVE  SystemInv' /\ OnceInv'
<1>1. SystemInv'
  BY SystemStep
<1>2. RowsKept
  <2>1. ASSUME RuntimeNext PROVE RowsKept
    BY <2>1, RuntimeSteps, TransactionRows DEF RuntimeEffect, SystemInv
  <2>2. ASSUME UNCHANGED vars PROVE RowsKept
    BY <2>2, TransactionRows DEF vars, SystemInv
  <2> QED
    BY <2>1, <2>2, RequestRows DEF SystemNext
<1>3. NamedExist'
  BY <1>1, <1>2, NamedExistKept DEF OnceInv
<1>4. Spent'
  BY <1>1, <1>2, <1>3, SpentKept
<1>5. \A r \in RunIds : StopsOnce(job[r])'
  BY <1>2, StopsOnceKept
<1>6. ASSUME NEW d \in Editors PROVE StopEdit(edit[d])'
  <2>1. ASSUME edit'[d] = edit[d] PROVE StopEdit(edit[d])'
    BY <1>2, <2>1, OtherEditsStop DEF OnceInv
  <2>2. ASSUME NEW e \in Editors, RequestStep(e) PROVE StopEdit(edit[d])'
    BY <2>1, <2>2, OwnEditStops
  <2>3. ASSUME UNCHANGED edit PROVE StopEdit(edit[d])'
    BY <2>1, <2>3
  <2> QED
    BY <2>2, <2>3 DEF SystemNext, vars
<1> QED
  BY <1>1, <1>3, <1>4, <1>5, <1>6 DEF OnceInv

(***************************************************************************)
(* While requests only pause, expire, create, delete and run schedules, a  *)
(* one-time schedule is completed at most once, whatever crashed or slow   *)
(* owners, takeovers of the lease, immediate runs and repeated terminal    *)
(* events try to finish it.                                                *)
(***************************************************************************)
THEOREM OnceIsOnce ==
    ASSUME Times = Nat, NoReactivation
    PROVE  SystemSpec => []OnceCompletesOnce
<1>1. SystemInit => SystemInv /\ OnceInv
  <2> SUFFICES ASSUME SystemInit PROVE SystemInv /\ OnceInv
    OBVIOUS
  <2>1. \A r \in RunIds : run[r] = NoRun /\ job[r] = NoJob
    BY DEF SystemInit, Init, RuntimeInit
  <2>2. \A e \in Editors : edit[e] = NoEdit
    BY DEF SystemInit
  <2>3. NamedExist /\ Spent
    BY <2>1 DEF NamedExist, Spent, NoRun
  <2>4. \A r \in RunIds : StopsOnce(job[r])
    BY <2>1 DEF StopsOnce, NoJob
  <2>5. \A e \in Editors : StopEdit(edit[e])
    BY <2>2 DEF StopEdit, NoEdit
  <2> QED
    BY <2>3, <2>4, <2>5, SystemInitInv DEF OnceInv
<1>2. SystemInv /\ OnceInv /\ [SystemNext]_vars => SystemInv' /\ OnceInv'
  BY OnceKept
<1>3. OnceInv => OnceCompletesOnce
  <2> SUFFICES ASSUME OnceInv, NEW s \in Schedules, sched[s].kind = "once"
               PROVE  Cardinality({r \in RunIds : run[r].schedule_id = s
                                     /\ run[r].status = "completed"}) <= 1
    BY DEF OnceCompletesOnce
  <2> DEFINE won == {r \in RunIds : run[r].schedule_id = s
                                      /\ run[r].status = "completed"}
  <2>1. won = {} \/ \E r \in RunIds : won = {r}
    BY DEF OnceInv, Spent
  <2>2. Cardinality({}) = 0
    BY FS_EmptySet
  <2>3. \A r : Cardinality({r}) = 1
    BY FS_Singleton
  <2> HIDE DEF won
  <2>4. Cardinality(won) = 0 \/ Cardinality(won) = 1
    BY <2>1, <2>2, <2>3
  <2>5. Cardinality(won) <= 1
    BY <2>4
  <2> QED
    BY <2>5 DEF won
<1> QED
  BY <1>1, <1>2, <1>3, PTL DEF SystemSpec

==============================================================================
