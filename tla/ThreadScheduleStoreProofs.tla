---------------------- MODULE ThreadScheduleStoreProofs ----------------------
(***************************************************************************)
(* Proofs about the thread-schedule tables, for any number of schedules,   *)
(* runs and processes and for callers that may call any transaction with   *)
(* any arguments at any time.                                              *)
(*                                                                         *)
(* TypeOK and LeaseMatchesRun are proved together: mark_thread_schedule_   *)
(* run_started takes the maximum of two lease expiries, which is a time    *)
(* only because a lease that is held has one.  The third conjunct of the   *)
(* inductive invariant says what a fresh lease id is: no row names it.     *)
(***************************************************************************)
EXTENDS ThreadScheduleStore, TLAPS

(* LeaseMatchesRun without sets: lease and run name each other.             *)
LeaseAgrees ==
    \A s \in Schedules :
       /\ \A r \in RunIds : sched[s].lease_id = r <=>
                               (run[r].schedule_id = s /\ Live(r))
       /\ sched[s].lease_id # NULL => sched[s].status = "active"
       /\ (sched[s].lease_id = NULL) <=> (sched[s].lease_expires_at = NULL)

(* An id no claim has made yet is on no run row.                            *)
UnissuedUnused == \A r \in RunIds \ issued : run[r].status = "none"

StoreInv == TypeOK /\ LeaseAgrees /\ UnissuedUnused

-----------------------------------------------------------------------------
(* Constants callers pass are times, and NULL is neither a run id nor a time *)
LEMMA ConstantFacts ==
    /\ NULL \notin RunIds /\ NULL \notin Nat
    /\ OptTimes \subseteq OptTime /\ Times \subseteq Nat
    /\ LeaseDuration \in Nat
<1>1. \A x \in Nat : x \in Int
  OBVIOUS
<1>2. NULL \notin RunIds /\ NULL \notin Nat
  BY <1>1, StoreAssumption, NULLAssumption, Zenon
<1> QED
  BY <1>2, StoreAssumption DEF OptTimes, OptTime

(* The set form and the pointwise form of the lease invariant agree.        *)
LEMMA LeaseForms == TypeOK => (LeaseAgrees => LeaseMatchesRun)
<1> SUFFICES ASSUME TypeOK, LeaseAgrees, NEW s \in Schedules
             PROVE  /\ LiveRuns(s) = IF sched[s].lease_id = NULL THEN {}
                                     ELSE {sched[s].lease_id}
                    /\ sched[s].lease_id # NULL => sched[s].status = "active"
                    /\ (sched[s].lease_id = NULL)
                          <=> (sched[s].lease_expires_at = NULL)
  BY DEF LeaseMatchesRun
<1>1. NULL \notin RunIds
  BY ConstantFacts
<1>2. sched[s].lease_id \in RunIds \cup {NULL}
  BY DEF TypeOK, Row
<1>3. LiveRuns(s) = {r \in RunIds : sched[s].lease_id = r}
  BY DEF LiveRuns, LeaseAgrees
<1> QED
  BY <1>1, <1>2, <1>3 DEF LeaseAgrees

LEMMA InitInv == Init => StoreInv
<1> SUFFICES ASSUME Init PROVE StoreInv
  OBVIOUS
<1>1. TypeOK
  BY NULLAssumption DEF Init, TypeOK, Row, RunRow, NoRow, NoRun, Statuses,
       Kinds, OptTime, Time, LiveStatuses, Terminal
<1>2. LeaseAgrees
  BY StoreAssumption, NULLAssumption
     DEF Init, LeaseAgrees, Live, NoRow, NoRun, LiveStatuses
<1>3. UnissuedUnused
  BY DEF Init, UnissuedUnused, NoRun
<1> QED
  BY <1>1, <1>2, <1>3 DEF StoreInv

(* FailLiveRuns writes well-typed rows, ends every live run of ss and       *)
(* touches no other run.                                                    *)
LEMMA FailLiveRunsFacts ==
    ASSUME TypeOK, NEW ss
    PROVE  /\ FailLiveRuns(ss) \in [RunIds -> RunRow]
           /\ \A r \in RunIds :
                 /\ FailLiveRuns(ss)[r].schedule_id = run[r].schedule_id
                 /\ run[r].schedule_id \in ss =>
                       FailLiveRuns(ss)[r].status \notin LiveStatuses
                 /\ run[r].schedule_id \notin ss =>
                       FailLiveRuns(ss)[r] = run[r]
                 /\ run[r].status \notin LiveStatuses =>
                       FailLiveRuns(ss)[r] = run[r]
  BY DEF TypeOK, FailLiveRuns, RunRow, Live, LiveStatuses, Terminal

-----------------------------------------------------------------------------
(* The three ways a transaction treats a lease.                             *)

(* It keeps the lease of s and the run that holds it.                       *)
LEMMA KeepLease ==
    ASSUME LeaseAgrees, NEW s \in Schedules,
           \A q \in Schedules \ {s} : sched'[q] = sched[q],
           sched'[s].lease_id = sched[s].lease_id,
           (sched'[s].lease_expires_at = NULL)
              <=> (sched[s].lease_expires_at = NULL),
           sched'[s].lease_id # NULL => sched'[s].status = "active",
           \A r \in RunIds : /\ run'[r].schedule_id = run[r].schedule_id
                             /\ Live(r)' <=> Live(r)
    PROVE  LeaseAgrees'
<1> SUFFICES ASSUME NEW q \in Schedules
             PROVE  /\ \A r \in RunIds : sched'[q].lease_id = r <=>
                                    (run'[r].schedule_id = q /\ Live(r)')
                    /\ sched'[q].lease_id # NULL => sched'[q].status = "active"
                    /\ (sched'[q].lease_id = NULL)
                          <=> (sched'[q].lease_expires_at = NULL)
  BY DEF LeaseAgrees
<1>1. CASE q = s
  BY <1>1 DEF LeaseAgrees
<1>2. CASE q # s
  <2>1. sched'[q] = sched[q]
    BY <1>2
  <2> QED
    BY <2>1 DEF LeaseAgrees
<1> QED
  BY <1>1, <1>2

(* It clears the lease of s and ends every live run of s.                   *)
LEMMA ClearLease ==
    ASSUME LeaseAgrees, NEW s \in Schedules,
           \A q \in Schedules \ {s} : sched'[q] = sched[q],
           sched'[s].lease_id = NULL, sched'[s].lease_expires_at = NULL,
           \A r \in RunIds : run[r].schedule_id # s =>
              /\ run'[r].schedule_id = run[r].schedule_id
              /\ Live(r)' <=> Live(r),
           \A r \in RunIds : run[r].schedule_id = s => ~Live(r)'
    PROVE  LeaseAgrees'
<1> SUFFICES ASSUME NEW q \in Schedules
             PROVE  /\ \A r \in RunIds : sched'[q].lease_id = r <=>
                                    (run'[r].schedule_id = q /\ Live(r)')
                    /\ sched'[q].lease_id # NULL => sched'[q].status = "active"
                    /\ (sched'[q].lease_id = NULL)
                          <=> (sched'[q].lease_expires_at = NULL)
  BY DEF LeaseAgrees
<1>1. CASE q = s
  BY <1>1, ConstantFacts
<1>2. CASE q # s
  <2>1. sched'[q] = sched[q]
    BY <1>2
  <2>2. \A r \in RunIds : (run'[r].schedule_id = q /\ Live(r)')
                             <=> (run[r].schedule_id = q /\ Live(r))
    BY <1>2
  <2> QED
    BY <2>1, <2>2 DEF LeaseAgrees
<1> QED
  BY <1>1, <1>2

(* It gives s the lease n, whose run is new, and ends the run s had.        *)
LEMMA NewLease ==
    ASSUME LeaseAgrees, NEW s \in Schedules, NEW n \in RunIds, ~Live(n),
           \A q \in Schedules \ {s} : sched'[q] = sched[q],
           sched'[s].lease_id = n, sched'[s].lease_expires_at # NULL,
           sched'[s].status = "active",
           run'[n].schedule_id = s, Live(n)',
           \A r \in RunIds \ {n} : run'[r].schedule_id = run[r].schedule_id,
           \A r \in RunIds \ {n} : run[r].schedule_id # s =>
              (Live(r)' <=> Live(r)),
           \A r \in RunIds \ {n} : run[r].schedule_id = s => ~Live(r)'
    PROVE  LeaseAgrees'
<1> SUFFICES ASSUME NEW q \in Schedules
             PROVE  /\ \A r \in RunIds : sched'[q].lease_id = r <=>
                                    (run'[r].schedule_id = q /\ Live(r)')
                    /\ sched'[q].lease_id # NULL => sched'[q].status = "active"
                    /\ (sched'[q].lease_id = NULL)
                          <=> (sched'[q].lease_expires_at = NULL)
  BY DEF LeaseAgrees
<1>1. CASE q = s
  BY <1>1, ConstantFacts
<1>2. CASE q # s
  <2>1. sched'[q] = sched[q]
    BY <1>2
  <2>2. \A r \in RunIds : (run'[r].schedule_id = q /\ Live(r)')
                             <=> (run[r].schedule_id = q /\ Live(r))
    BY <1>2
  <2> QED
    BY <2>1, <2>2 DEF LeaseAgrees
<1> QED
  BY <1>1, <1>2

-----------------------------------------------------------------------------
(* One lemma per transaction *)

LEMMA CreateInv ==
    ASSUME StoreInv, NEW s \in Schedules, NEW k \in Kinds,
           NEW n \in OptTimes, NEW e \in OptTimes, CreateSchedule(s, k, n, e)
    PROVE  StoreInv'
<1> USE DEF StoreInv
<1>0. OptTimes \subseteq OptTime
  BY StoreAssumption DEF OptTimes, OptTime
<1>1. NewRow(k, n, e) \in Row
  BY <1>0, NULLAssumption DEF NewRow, NoRow, Row, Statuses, Kinds, OptTime
<1>2. TypeOK'
  BY <1>1 DEF TypeOK, CreateSchedule
<1>3. LeaseAgrees'
  <2>1. sched[s].lease_id = NULL
    BY DEF LeaseAgrees, CreateSchedule
  <2>2. sched'[s] = NewRow(k, n, e)
    BY DEF CreateSchedule, TypeOK
  <2>3. \A q \in Schedules \ {s} : sched'[q] = sched[q]
    BY DEF CreateSchedule, TypeOK
  <2>4. /\ sched'[s].lease_id = NULL /\ sched'[s].lease_expires_at = NULL
        /\ sched'[s].status = "active"
    BY <2>2 DEF NewRow, NoRow
  <2> QED
    BY <2>1, <2>3, <2>4 DEF LeaseAgrees, CreateSchedule, Live
<1>4. UnissuedUnused'
  BY DEF UnissuedUnused, CreateSchedule
<1> QED
  BY <1>2, <1>3, <1>4

LEMMA UpdateInv ==
    ASSUME StoreInv, NEW s \in Schedules, NEW m \in Merged,
           NEW reset \in BOOLEAN, UpdateSchedule(s, m, reset)
    PROVE  StoreInv'
<1> USE DEF StoreInv
<1>1. /\ m.status \in {"active", "paused", "expired"} /\ m.kind \in Kinds
      /\ m.next_run_at \in OptTime /\ m.expires_at \in OptTime
  BY ConstantFacts DEF Merged, OptTimes
<1>2. /\ sched' \in [Schedules -> Row]
      /\ \A q \in Schedules \ {s} : sched'[q] = sched[q]
  BY <1>1 DEF TypeOK, UpdateSchedule, Row, Statuses, OptTime
<1>3. CASE m.status = "active"
  <2>1. /\ sched'[s].lease_id = sched[s].lease_id
        /\ sched'[s].lease_expires_at = sched[s].lease_expires_at
        /\ sched'[s].status = "active"
        /\ run' = run
    BY <1>3 DEF TypeOK, UpdateSchedule, Row
  <2>2. LeaseAgrees'
    BY <2>1, <1>2, KeepLease DEF Live
  <2> QED
    BY <1>2, <2>1, <2>2 DEF TypeOK, UnissuedUnused, UpdateSchedule
<1>4. CASE m.status # "active"
  <2>1. /\ sched'[s].lease_id = NULL
        /\ sched'[s].lease_expires_at = NULL
        /\ run' = FailLiveRuns({s})
    BY <1>4 DEF TypeOK, UpdateSchedule, Row
  <2>2. LeaseAgrees'
    BY <2>1, <1>2, ClearLease, FailLiveRunsFacts DEF Live
  <2>3. UnissuedUnused'
    BY <2>1, FailLiveRunsFacts DEF UnissuedUnused, UpdateSchedule,
                                   LiveStatuses
  <2> QED
    BY <1>2, <2>1, <2>2, <2>3, FailLiveRunsFacts DEF TypeOK, UpdateSchedule
<1> QED
  BY <1>3, <1>4

LEMMA ResumeInv ==
    ASSUME StoreInv, NEW s \in Schedules, NEW n \in OptTimes,
           ResumeSchedule(s, n)
    PROVE  StoreInv'
<1> USE DEF StoreInv
<1>1. n \in OptTime
  BY ConstantFacts
<1> DEFINE new == [sched[s] EXCEPT !.status = "active",
                     !.next_run_at = IF n = NULL THEN sched[s].next_run_at ELSE n,
                     !.failure_count = 0]
<1>a. /\ new \in Row
      /\ new.lease_id = sched[s].lease_id
      /\ new.lease_expires_at = sched[s].lease_expires_at
      /\ new.status = "active"
  BY <1>1 DEF TypeOK, Row, Statuses
<1>b. sched' = [sched EXCEPT ![s] = new] /\ run' = run
  BY DEF ResumeSchedule
<1> HIDE DEF new
<1>2. /\ sched' \in [Schedules -> Row]
      /\ \A q \in Schedules \ {s} : sched'[q] = sched[q]
      /\ sched'[s].lease_id = sched[s].lease_id
      /\ sched'[s].lease_expires_at = sched[s].lease_expires_at
      /\ sched'[s].status = "active"
      /\ run' = run
  BY <1>a, <1>b DEF TypeOK
<1>3. LeaseAgrees'
  BY <1>2, KeepLease DEF Live
<1> QED
  BY <1>2, <1>3 DEF TypeOK, UnissuedUnused, ResumeSchedule

LEMMA DeleteInv ==
    ASSUME StoreInv, NEW s \in Schedules, DeleteSchedule(s)
    PROVE  StoreInv'
<1> USE DEF StoreInv
<1>1. /\ NoRow \in Row /\ NoRun \in RunRow
      /\ [NoRow EXCEPT !.status = "deleted"] \in Row
      /\ [NoRow EXCEPT !.status = "deleted"].lease_id = NULL
      /\ [NoRow EXCEPT !.status = "deleted"].lease_expires_at = NULL
  BY DEF Row, NoRow, NoRun, RunRow, Statuses, Kinds, OptTime
<1>2. /\ sched' \in [Schedules -> Row]
      /\ \A q \in Schedules \ {s} : sched'[q] = sched[q]
      /\ sched'[s].lease_id = NULL /\ sched'[s].lease_expires_at = NULL
  BY <1>1 DEF TypeOK, DeleteSchedule
<1>3. /\ run' \in [RunIds -> RunRow]
      /\ \A r \in RunIds : run[r].schedule_id = s => run'[r] = NoRun
      /\ \A r \in RunIds : run[r].schedule_id # s => run'[r] = run[r]
  BY <1>1 DEF TypeOK, DeleteSchedule
<1>4. LeaseAgrees'
  <2>1. NoRun.status \notin LiveStatuses
    BY DEF NoRun, LiveStatuses
  <2> QED
    BY <1>2, <1>3, <2>1, ClearLease DEF Live
<1>5. UnissuedUnused'
  BY <1>3 DEF UnissuedUnused, DeleteSchedule, NoRun
<1> QED
  BY <1>2, <1>3, <1>4, <1>5 DEF TypeOK, DeleteSchedule

(* Writing the columns that end a run keeps a row well typed.               *)
LEMMA ReleasedRow ==
    ASSUME NEW row \in Row, NEW st \in Statuses, NEW n \in OptTime,
           NEW f \in Nat
    PROVE  /\ Released(row, st, n, f) \in Row
           /\ Released(row, st, n, f).lease_id = NULL
           /\ Released(row, st, n, f).lease_expires_at = NULL
  BY DEF Released, Row, OptTime

LEMMA ReapAndPauseInv ==
    ASSUME StoreInv, NEW s \in Schedules, ReapAndPause(s)
    PROVE  StoreInv'
<1> USE DEF StoreInv
<1> DEFINE new == Released(sched[s], "paused", NULL,
                           sched[s].failure_count + 1)
<1>1. new \in Row /\ new.lease_id = NULL /\ new.lease_expires_at = NULL
  <2>1. sched[s] \in Row /\ sched[s].failure_count + 1 \in Nat
    BY DEF TypeOK, Row
  <2> QED
    BY <2>1, ReleasedRow DEF Statuses, OptTime
<1>2. sched' = [sched EXCEPT ![s] = new] /\ run' = FailLiveRuns({s})
  BY DEF ReapAndPause
<1> HIDE DEF new
<1>3. /\ sched' \in [Schedules -> Row]
      /\ \A q \in Schedules \ {s} : sched'[q] = sched[q]
      /\ sched'[s].lease_id = NULL /\ sched'[s].lease_expires_at = NULL
  BY <1>1, <1>2 DEF TypeOK
<1>4. LeaseAgrees'
  BY <1>2, <1>3, ClearLease, FailLiveRunsFacts DEF Live
<1>5. UnissuedUnused'
  BY <1>2, FailLiveRunsFacts DEF UnissuedUnused, ReapAndPause, LiveStatuses
<1> QED
  BY <1>2, <1>3, <1>4, <1>5, FailLiveRunsFacts DEF TypeOK, ReapAndPause

LEMMA GrantLeaseInv ==
    ASSUME StoreInv, NEW p \in Procs, NEW s \in Schedules, NEW r \in RunIds,
           NEW now \in Times, NEW fresh \in Times,
           NEW scheduledFor \in OptTime,
           Claimable(p, s, now, fresh), GrantLease(s, r, now, scheduledFor)
    PROVE  StoreInv'
<1> USE DEF StoreInv
<1> DEFINE new == [sched[s] EXCEPT
                     !.lease_id = r, !.lease_expires_at = now + LeaseDuration,
                     !.failure_count = IF LiveRuns(s) # {}
                                       THEN sched[s].failure_count + 1
                                       ELSE sched[s].failure_count]
           newRun == [status |-> "leased", schedule_id |-> s, goal_id |-> NULL,
                      scheduled_for |-> scheduledFor]
<1>1. now + LeaseDuration \in Nat /\ now + LeaseDuration # NULL
  BY ConstantFacts
<1>2. /\ new \in Row /\ new.lease_id = r
      /\ new.lease_expires_at = now + LeaseDuration
      /\ new.status = "active"
  <2> DEFINE count == IF LiveRuns(s) # {} THEN sched[s].failure_count + 1
                      ELSE sched[s].failure_count
  <2>1. sched[s] \in Row /\ count \in Nat
    BY DEF TypeOK, Row
  <2>2. sched[s].status = "active"
    BY DEF Claimable
  <2> HIDE DEF count
  <2>3. [sched[s] EXCEPT !.lease_id = r,
                         !.lease_expires_at = now + LeaseDuration,
                         !.failure_count = count] \in Row
    BY <1>1, <2>1 DEF Row, OptTime
  <2> QED
    BY <1>1, <2>1, <2>2, <2>3 DEF count, Row
<1>3. /\ newRun \in RunRow /\ newRun.schedule_id = s
      /\ newRun.status = "leased"
  BY DEF RunRow, LiveStatuses
<1>4. /\ sched' = [sched EXCEPT ![s] = new]
      /\ run' = [FailLiveRuns({s}) EXCEPT ![r] = newRun]
      /\ issued' = issued \cup {r}
      /\ r \notin issued
  BY DEF GrantLease, NextId, FreshIds
<1> HIDE DEF new, newRun
<1>5. /\ sched' \in [Schedules -> Row]
      /\ \A q \in Schedules \ {s} : sched'[q] = sched[q]
      /\ sched'[s].lease_id = r /\ sched'[s].lease_expires_at # NULL
      /\ sched'[s].status = "active"
  BY <1>1, <1>2, <1>4 DEF TypeOK
<1>6. /\ run' \in [RunIds -> RunRow]
      /\ run'[r] = newRun
      /\ \A q \in RunIds \ {r} : run'[q] = FailLiveRuns({s})[q]
  BY <1>3, <1>4, FailLiveRunsFacts DEF TypeOK
<1>7. LeaseAgrees'
  <2>1. ~Live(r)
    BY <1>4 DEF UnissuedUnused, Live, LiveStatuses
  <2>2. Live(r)' /\ run'[r].schedule_id = s
    BY <1>3, <1>6 DEF Live, LiveStatuses
  <2>3. \A q \in RunIds \ {r} :
           /\ run'[q].schedule_id = run[q].schedule_id
           /\ run[q].schedule_id # s => (Live(q)' <=> Live(q))
           /\ run[q].schedule_id = s => ~Live(q)'
    BY <1>6, FailLiveRunsFacts DEF Live
  <2> QED
    BY <1>5, <2>1, <2>2, <2>3, NewLease
<1>8. UnissuedUnused'
  BY <1>4, <1>6, FailLiveRunsFacts DEF UnissuedUnused, LiveStatuses
<1> QED
  BY <1>4, <1>5, <1>6, <1>7, <1>8 DEF TypeOK, GrantLease

LEMMA MarkStartedInv ==
    ASSUME StoreInv, NEW s \in Schedules, NEW r \in RunIds,
           NEW g \in OptGoals, NEW now \in Times, MarkStarted(s, r, g, now)
    PROVE  StoreInv'
<1> USE DEF StoreInv
<1>1. /\ sched[s].lease_id = r /\ run[r].schedule_id = s
      /\ run[r].status = "leased"
  BY DEF MarkStarted, CanMarkStarted, OwnsLease
<1>2. sched[s].lease_expires_at \in Nat
  <2>1. sched[s].lease_expires_at # NULL
    BY <1>1, ConstantFacts DEF LeaseAgrees
  <2> QED
    BY <2>1 DEF TypeOK, Row, OptTime
<1> DEFINE until == MaxOf(sched[s].lease_expires_at, now + LeaseDuration)
<1>3. until \in Nat
  BY <1>2, ConstantFacts DEF MaxOf
<1>4. /\ sched' = [sched EXCEPT ![s].lease_expires_at = until]
      /\ run' = [run EXCEPT ![r].status = "running", ![r].goal_id = g]
  BY DEF MarkStarted
<1> HIDE DEF until
<1>5. /\ sched' \in [Schedules -> Row]
      /\ \A q \in Schedules \ {s} : sched'[q] = sched[q]
      /\ sched'[s].lease_id = sched[s].lease_id
      /\ sched'[s].lease_expires_at = until
      /\ sched'[s].status = sched[s].status
  BY <1>3, <1>4 DEF TypeOK, Row, OptTime
<1>6. /\ run' \in [RunIds -> RunRow]
      /\ \A q \in RunIds \ {r} : run'[q] = run[q]
      /\ run'[r].schedule_id = run[r].schedule_id
      /\ run'[r].status = "running"
  BY <1>4 DEF TypeOK, RunRow, LiveStatuses, OptGoals
<1>7. LeaseAgrees'
  <2>1. \A q \in RunIds : /\ run'[q].schedule_id = run[q].schedule_id
                          /\ Live(q)' <=> Live(q)
    BY <1>1, <1>6 DEF Live, LiveStatuses
  <2>2. /\ until # NULL /\ sched[s].lease_expires_at # NULL
        /\ sched[s].status = "active"
    BY <1>1, <1>2, <1>3, ConstantFacts DEF LeaseAgrees
  <2> QED
    BY <1>5, <2>1, <2>2, KeepLease
<1>8. UnissuedUnused'
  BY <1>1, <1>6 DEF UnissuedUnused, MarkStarted
<1> QED
  BY <1>5, <1>6, <1>7, <1>8 DEF TypeOK, MarkStarted

LEMMA ExtendLeaseInv ==
    ASSUME StoreInv, NEW s \in Schedules, NEW r \in RunIds,
           NEW now \in Times, ExtendLease(s, r, now)
    PROVE  StoreInv'
<1> USE DEF StoreInv
<1>1. now + LeaseDuration \in Nat /\ now + LeaseDuration # NULL
  BY ConstantFacts
<1>2. /\ sched[s].lease_id = r /\ sched[s].status = "active"
      /\ sched' = [sched EXCEPT ![s].lease_expires_at = now + LeaseDuration]
      /\ run' = run
  BY DEF ExtendLease, CanExtend, OwnsLease
<1>3. /\ sched' \in [Schedules -> Row]
      /\ \A q \in Schedules \ {s} : sched'[q] = sched[q]
      /\ sched'[s].lease_id = sched[s].lease_id
      /\ sched'[s].lease_expires_at # NULL
      /\ sched'[s].status = "active"
  BY <1>1, <1>2 DEF TypeOK, Row, OptTime
<1>4. LeaseAgrees'
  <2>1. sched[s].lease_expires_at # NULL
    BY <1>2, ConstantFacts DEF LeaseAgrees
  <2> QED
    BY <1>2, <1>3, <2>1, KeepLease DEF Live
<1> QED
  BY <1>2, <1>3, <1>4 DEF TypeOK, UnissuedUnused, ExtendLease

(* Ending run r, which holds the lease of s, on both rows.                  *)
LEMMA EndRunInv ==
    ASSUME StoreInv, NEW s \in Schedules, NEW r \in RunIds, OwnsLease(s, r),
           NEW st \in Statuses, NEW n \in OptTime, NEW f \in Nat,
           NEW outcome \in Terminal, run[r].status # "none",
           sched' = [sched EXCEPT ![s] = Released(sched[s], st, n, f)],
           run' = [run EXCEPT ![r].status = outcome],
           UNCHANGED <<issued, goal, session, clock>>
    PROVE  StoreInv'
<1> USE DEF StoreInv
<1>1. sched[s].lease_id = r /\ run[r].schedule_id = s
  BY DEF OwnsLease
<1>2. /\ sched' \in [Schedules -> Row]
      /\ \A q \in Schedules \ {s} : sched'[q] = sched[q]
      /\ sched'[s].lease_id = NULL /\ sched'[s].lease_expires_at = NULL
  BY ReleasedRow DEF TypeOK
<1>3. /\ run' \in [RunIds -> RunRow]
      /\ \A q \in RunIds \ {r} : run'[q] = run[q]
      /\ run'[r].schedule_id = s /\ run'[r].status = outcome
  BY <1>1 DEF TypeOK, RunRow, Terminal
<1>4. LeaseAgrees'
  <2>1. \A q \in RunIds : run[q].schedule_id = s /\ Live(q) => q = r
    BY <1>1 DEF LeaseAgrees
  <2>2. ~Live(r)'
    BY <1>3 DEF Live, LiveStatuses, Terminal
  <2>3. \A q \in RunIds : run[q].schedule_id = s => ~Live(q)'
    BY <1>3, <2>1, <2>2 DEF Live
  <2>4. \A q \in RunIds : run[q].schedule_id # s =>
           run'[q].schedule_id = run[q].schedule_id /\ (Live(q)' <=> Live(q))
    BY <1>1, <1>3 DEF Live
  <2> QED
    BY <1>2, <2>3, <2>4, ClearLease
<1>5. UnissuedUnused'
  BY <1>3 DEF UnissuedUnused
<1> QED
  BY <1>2, <1>3, <1>4, <1>5 DEF TypeOK

LEMMA DeferInv ==
    ASSUME StoreInv, NEW s \in Schedules, NEW r \in RunIds,
           NEW next \in Times, DeferRun(s, r, next)
    PROVE  StoreInv'
<1> DEFINE past == PastExpiry(sched[s], next)
           st == IF past THEN "expired" ELSE sched[s].status
           n == IF past \/ sched[s].status \in {"expired", "paused"}
                THEN NULL ELSE next
<1>1. /\ sched' = [sched EXCEPT ![s] =
                     Released(sched[s], st, n, sched[s].failure_count)]
      /\ run' = [run EXCEPT ![r].status = "deferred"]
      /\ UNCHANGED <<issued, goal, session, clock>>
      /\ OwnsLease(s, r) /\ run[r].status # "none"
  BY DEF DeferRun, CanDefer
<1>2. st \in Statuses /\ n \in OptTime /\ sched[s].failure_count \in Nat
  BY ConstantFacts DEF StoreInv, TypeOK, Row, OptTime, Statuses
<1> HIDE DEF st, n
<1> QED
  BY <1>1, <1>2, EndRunInv DEF Terminal

LEMMA FinishInv ==
    ASSUME StoreInv, NEW s \in Schedules, NEW r \in RunIds,
           NEW completedAt \in Times, NEW next \in OptTimes,
           NEW g \in OptGoals, NEW failed \in BOOLEAN, NEW hold \in BOOLEAN,
           FinishRun(s, r, completedAt, next, g, failed, hold)
    PROVE  StoreInv'
<1> DEFINE stays == /\ sched[s].status = "active" /\ ~hold
                    /\ ~PastExpiry(sched[s], completedAt)
           st == FinishedStatus(sched[s], completedAt, hold, next)
           n == IF stays THEN next ELSE NULL
           f == IF failed THEN sched[s].failure_count + 1 ELSE 0
           outcome == IF failed THEN "failed" ELSE "completed"
<1>1. /\ sched' = [sched EXCEPT ![s] = Released(sched[s], st, n, f)]
      /\ run' = [run EXCEPT ![r].status = outcome]
      /\ UNCHANGED <<issued, goal, session, clock>>
      /\ OwnsLease(s, r) /\ Live(r)
  BY DEF FinishRun, CanFinish
<1>2. st \in Statuses
  BY DEF FinishedStatus, StoreInv, TypeOK, Row, Statuses
<1>3. n \in OptTime /\ f \in Nat /\ outcome \in Terminal
  BY ConstantFacts DEF StoreInv, TypeOK, Row, OptTime, Terminal
<1>4. run[r].status # "none"
  BY <1>1 DEF Live, LiveStatuses
<1> HIDE DEF st, n, f, outcome
<1> QED
  BY <1>1, <1>2, <1>3, <1>4, EndRunInv

LEMMA ExpireInv ==
    ASSUME StoreInv, NEW now \in Times, ExpireSchedules(now)
    PROVE  StoreInv'
<1> USE DEF StoreInv
<1> DEFINE E == Expiring(now)
<1>1. /\ run' = FailLiveRuns(E)
      /\ sched' = [q \in Schedules |->
            IF q \in E
            THEN Released(sched[q], "expired", NULL, sched[q].failure_count)
            ELSE sched[q]]
      /\ UNCHANGED <<issued, goal, session, clock>>
  BY DEF ExpireSchedules
<1> HIDE DEF E
<1>2. \A q \in Schedules :
         /\ sched[q] \in Row /\ sched[q].failure_count \in Nat
         /\ "expired" \in Statuses /\ NULL \in OptTime
  BY DEF TypeOK, Row, Statuses, OptTime
<1>3. \A q \in Schedules :
         /\ sched'[q] \in Row
         /\ q \in E => /\ sched'[q].lease_id = NULL
                       /\ sched'[q].lease_expires_at = NULL
         /\ q \notin E => sched'[q] = sched[q]
  BY <1>1, <1>2, ReleasedRow
<1>4. /\ run' \in [RunIds -> RunRow]
      /\ \A r \in RunIds :
            /\ run'[r].schedule_id = run[r].schedule_id
            /\ run[r].schedule_id \in E => ~Live(r)'
            /\ run[r].schedule_id \notin E => (Live(r)' <=> Live(r))
            /\ run[r].status = "none" => run'[r].status = "none"
  BY <1>1, FailLiveRunsFacts DEF Live, LiveStatuses
<1>5. LeaseAgrees'
  <2> SUFFICES ASSUME NEW q \in Schedules
               PROVE  /\ \A r \in RunIds : sched'[q].lease_id = r <=>
                                    (run'[r].schedule_id = q /\ Live(r)')
                      /\ sched'[q].lease_id # NULL =>
                            sched'[q].status = "active"
                      /\ (sched'[q].lease_id = NULL)
                            <=> (sched'[q].lease_expires_at = NULL)
    BY DEF LeaseAgrees
  <2>1. CASE q \in E
    BY <2>1, <1>3, <1>4, ConstantFacts
  <2>2. CASE q \notin E
    <3>1. sched'[q] = sched[q]
      BY <2>2, <1>3
    <3>2. \A r \in RunIds : (run'[r].schedule_id = q /\ Live(r)')
                               <=> (run[r].schedule_id = q /\ Live(r))
      BY <2>2, <1>4
    <3> QED
      BY <3>1, <3>2 DEF LeaseAgrees
  <2> QED
    BY <2>1, <2>2
<1>6. UnissuedUnused'
  BY <1>1, <1>4 DEF UnissuedUnused
<1>7. sched' \in [Schedules -> Row]
  BY <1>1, <1>3
<1> QED
  BY <1>1, <1>4, <1>5, <1>6, <1>7 DEF TypeOK

(* Steps that leave both schedule tables alone.                             *)
LEMMA OtherTablesInv ==
    ASSUME StoreInv, UNCHANGED <<sched, run, issued>>,
           goal' \in [goal_id : Schedules \cup {NULL}, held : BOOLEAN],
           session' \in [owner : Procs \cup {NULL}, last_seen : Time],
           clock' \in Time
    PROVE  StoreInv'
  BY DEF StoreInv, TypeOK, LeaseAgrees, UnissuedUnused, Live

LEMMA NextInv == StoreInv /\ [Next]_storeVars => StoreInv'
<1> SUFFICES ASSUME StoreInv, [Next]_storeVars PROVE StoreInv'
  OBVIOUS
<1>1. CASE \E s \in Schedules, k \in Kinds, n, e \in OptTimes :
              CreateSchedule(s, k, n, e)
  BY <1>1, CreateInv
<1>2. CASE \E s \in Schedules, m \in Merged, reset \in BOOLEAN :
              UpdateSchedule(s, m, reset)
  BY <1>2, UpdateInv
<1>3. CASE \E s \in Schedules, n \in OptTimes : ResumeSchedule(s, n)
  BY <1>3, ResumeInv
<1>4. CASE \E s \in Schedules : DeleteSchedule(s)
  BY <1>4, DeleteInv
<1>5. ASSUME NEW p \in Procs, NEW s \in Schedules, NEW now \in Times,
             NEW fresh \in Times, NEW r \in RunIds,
             ClaimDue(p, s, r, now, fresh) \/ ClaimNow(p, s, r, now, fresh)
      PROVE  StoreInv'
  <2>1. now \in OptTime /\ sched[s].next_run_at \in OptTime
    BY ConstantFacts DEF OptTime, StoreInv, TypeOK, Row
  <2>2. CASE ClaimDue(p, s, r, now, fresh)
    BY <2>1, <2>2, GrantLeaseInv DEF ClaimDue, FirstDue, Due
  <2>3. CASE ClaimNow(p, s, r, now, fresh)
    BY <2>1, <2>3, GrantLeaseInv DEF ClaimNow
  <2> QED
    BY <1>5, <2>2, <2>3
<1>6. CASE \E p \in Procs, s \in Schedules, now, fresh \in Times :
              ClaimHeld(p, s, now, fresh)
  BY <1>6, ReapAndPauseInv DEF ClaimHeld
<1>7. ASSUME NEW s \in Schedules, NEW r \in RunIds, NEW now \in Times,
             \/ \E g \in OptGoals : MarkStarted(s, r, g, now)
             \/ ExtendLease(s, r, now)
             \/ DeferRun(s, r, now)
             \/ \E n \in OptTimes, g \in OptGoals, failed, hold \in BOOLEAN :
                   FinishRun(s, r, now, n, g, failed, hold)
      PROVE  StoreInv'
  BY <1>7, MarkStartedInv, ExtendLeaseInv, DeferInv, FinishInv
<1>8. CASE \E now \in Times : ExpireSchedules(now)
  BY <1>8, ExpireInv
<1>9. ASSUME NEW now \in Times,
             Advance(now) \/ \E p \in Procs : \/ SessionHeartbeat(p, now)
                                              \/ SessionPrune(p, now)
      PROVE  StoreInv'
  <2>1. now \in Time
    BY ConstantFacts DEF Time
  <2>2. /\ UNCHANGED <<sched, run, issued, goal>>
        /\ session' \in [owner : Procs \cup {NULL}, last_seen : Time]
        /\ clock' \in Time
    BY <1>9, <2>1 DEF Advance, SessionHeartbeat, SessionPrune, StoreInv,
                      TypeOK, Time
  <2> QED
    BY <2>2, OtherTablesInv DEF StoreInv, TypeOK
<1>10. CASE \E g \in OptGoals, held \in BOOLEAN : SetGoal(g, held)
  BY <1>10, OtherTablesInv DEF SetGoal, OptGoals, StoreInv, TypeOK
<1>11. CASE UNCHANGED storeVars
  BY <1>11, OtherTablesInv DEF storeVars, StoreInv, TypeOK
<1> QED
  BY <1>1, <1>2, <1>3, <1>4, <1>5, <1>6, <1>7, <1>8, <1>9, <1>10, <1>11
     DEF Next

-----------------------------------------------------------------------------
LEMMA StoreInvariance == Spec => []StoreInv
  BY InitInv, NextInv, PTL DEF Spec

(***************************************************************************)
(* Every column of the schedule tables keeps its type, whatever callers do.*)
(***************************************************************************)
THEOREM TypeCorrect == Spec => []TypeOK
<1>1. StoreInv => TypeOK
  BY DEF StoreInv
<1> QED
  BY <1>1, StoreInvariance, PTL

(***************************************************************************)
(* A schedule has a leased or running run exactly when its lease names that*)
(* run, for any schedules, runs, processes, times and lease duration.      *)
(***************************************************************************)
THEOREM LeaseIntegrity == Spec => []LeaseMatchesRun
<1>1. StoreInv => LeaseMatchesRun
  BY LeaseForms DEF StoreInv
<1> QED
  BY <1>1, StoreInvariance, PTL

(* FailLiveRuns leaves runs with an outcome alone.                          *)
LEMMA FailedKeepsOutcomes ==
    ASSUME TypeOK, NEW ss, NEW r \in RunIds, run[r].status \in Terminal
    PROVE  FailLiveRuns(ss)[r].status = run[r].status
  BY FailLiveRunsFacts DEF Terminal, LiveStatuses

LEMMA OutcomesStep == StoreInv /\ [Next]_storeVars => [OutcomesKept]_storeVars
<1> SUFFICES ASSUME StoreInv, Next, NEW r \in RunIds,
                    run[r].status \in Terminal
             PROVE  run'[r].status \in {run[r].status, "none"}
  BY DEF OutcomesKept
<1> USE DEF StoreInv
<1>1. CASE UNCHANGED run
  BY <1>1
<1>2. ASSUME NEW ss, run' = FailLiveRuns(ss)
      PROVE  run'[r].status = run[r].status
  BY <1>2, FailedKeepsOutcomes
<1>3. CASE \E s \in Schedules : DeleteSchedule(s)
  BY <1>3 DEF DeleteSchedule, NoRun, TypeOK
<1>4. ASSUME NEW s \in Schedules, NEW n \in RunIds, NEW now, NEW for,
             GrantLease(s, n, now, for)
      PROVE  run'[r].status = run[r].status
  <2>1. r # n
    BY <1>4 DEF GrantLease, NextId, FreshIds, UnissuedUnused, Terminal
  <2>2. run'[r] = FailLiveRuns({s})[r]
    BY <1>4, <2>1, FailLiveRunsFacts DEF GrantLease
  <2> QED
    BY <2>2, FailedKeepsOutcomes
<1>5. ASSUME NEW s \in Schedules, NEW n \in RunIds, OwnsLease(s, n),
             \A q \in RunIds \ {n} : run'[q] = run[q]
      PROVE  run'[r].status = run[r].status
  <2>1. Live(n)
    BY <1>5 DEF LeaseAgrees, OwnsLease
  <2>2. r # n
    BY <2>1 DEF Live, LiveStatuses, Terminal
  <2> QED
    BY <1>5, <2>2
<1>6. ASSUME NEW s \in Schedules, NEW n \in RunIds, NEW now \in Times,
             \/ \E g \in OptGoals : MarkStarted(s, n, g, now)
             \/ DeferRun(s, n, now)
             \/ \E x \in OptTimes, g \in OptGoals, failed, hold \in BOOLEAN :
                   FinishRun(s, n, now, x, g, failed, hold)
      PROVE  run'[r].status = run[r].status
  <2>1. OwnsLease(s, n) /\ \A q \in RunIds \ {n} : run'[q] = run[q]
    BY <1>6 DEF MarkStarted, CanMarkStarted, DeferRun, CanDefer, FinishRun,
                CanFinish, TypeOK
  <2> QED
    BY <1>5, <2>1
<1>7. CASE \E s \in Schedules, m \in Merged, reset \in BOOLEAN :
              UpdateSchedule(s, m, reset)
  BY <1>1, <1>2, <1>7 DEF UpdateSchedule
<1>8. CASE \E p \in Procs, s \in Schedules, now, fresh \in Times, n \in RunIds :
              \/ ClaimDue(p, s, n, now, fresh)
              \/ ClaimNow(p, s, n, now, fresh)
  BY <1>4, <1>8 DEF ClaimDue, ClaimNow
<1>9. CASE \E p \in Procs, s \in Schedules, now, fresh \in Times :
              ClaimHeld(p, s, now, fresh)
  BY <1>2, <1>9 DEF ClaimHeld, ReapAndPause
<1>10. CASE \E now \in Times : ExpireSchedules(now)
  BY <1>2, <1>10 DEF ExpireSchedules
<1>11. CASE \E s \in Schedules, n \in RunIds, now \in Times :
               ExtendLease(s, n, now)
  BY <1>1, <1>11 DEF ExtendLease
<1> QED
  BY <1>1, <1>3, <1>6, <1>7, <1>8, <1>9, <1>10, <1>11
     DEF Next, CreateSchedule, ResumeSchedule, Advance, SessionHeartbeat,
         SessionPrune, SetGoal

(***************************************************************************)
(* The outcome of a run is final: a late defer or finish of a process whose*)
(* lease was taken over, or any other transaction, never rewrites it.  The *)
(* lease invariant is what makes this true of defer_thread_schedule_run,   *)
(* which checks the lease but not the status of the run.                   *)
(***************************************************************************)
THEOREM OutcomesFinal == Spec => OutcomesAreFinal
  BY StoreInvariance, OutcomesStep, PTL DEF Spec, OutcomesAreFinal

=============================================================================
