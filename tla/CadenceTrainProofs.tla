-------------------------- MODULE CadenceTrainProofs --------------------------
(***************************************************************************)
(* The run times of a recurring schedule, for every period, phase, backoff *)
(* and failure limit, and for completions as late as the bound allows,     *)
(* whatever the bound.  The invariant keeps the number of periods since the*)
(* origin: that due is a beat is seen from it, and the remainder of the    *)
(* property is not what a step preserves.                                  *)
(***************************************************************************)
EXTENDS CadenceTrain, TLAPS

OnBeat(t) == \E k \in Nat : t = Origin + Period * k
Bound == MaxOf(Period, BackoffCap)

TrainInv ==
    /\ due \in Nat \cup {NULL} /\ done \in Int /\ streak \in Nat
    /\ clean \in BOOLEAN
    /\ StopsAtMaxFailures
    /\ clean => /\ streak = 0
                /\ OnBeat(due)
                /\ due - Period <= done

-----------------------------------------------------------------------------
(* The arithmetic of ScheduleCadence *)

Power(n) == 2 ^ n

(* The exponents schedule_failure_backoff_run_at clamps to.                 *)
LEMMA Powers == ASSUME NEW n \in 0 .. 7 PROVE 2 ^ n \in Nat \ {0}
<1>1. /\ Power(0) = 1 /\ Power(1) = 2 /\ Power(2) = 4 /\ Power(3) = 8
      /\ Power(4) = 16 /\ Power(5) = 32 /\ Power(6) = 64 /\ Power(7) = 128
  BY DEF Power
<1>2. n = 0 \/ n = 1 \/ n = 2 \/ n = 3 \/ n = 4 \/ n = 5 \/ n = 6 \/ n = 7
  OBVIOUS
<1>3. Power(n) \in Nat \ {0}
  BY <1>1, <1>2
<1> QED
  BY <1>3 DEF Power

(* A backoff delays, and never by more than the cap.                        *)
LEMMA BackoffBounds ==
    ASSUME NEW base \in Nat \ {0}, NEW cap \in Nat \ {0},
           NEW failures \in Nat
    PROVE  BackoffDelay(base, cap, failures) \in 1 .. cap
<1> DEFINE n == MaxOf(0, MinOf(7, failures - 1))
<1>1. n \in 0 .. 7
  BY DEF MaxOf, MinOf
<1>2. 2 ^ n \in Nat \ {0}
  BY <1>1, Powers
<1> HIDE DEF n
<1>3. base * 2 ^ n \in Nat \ {0}
  <2> DEFINE m == 2 ^ n
  <2> m \in Nat \ {0}
    BY <1>2
  <2> HIDE DEF m
  <2>1. base * m \in Nat \ {0}
    OBVIOUS
  <2> QED
    BY <2>1 DEF m
<1>4. BackoffDelay(base, cap, failures) = MinOf(base * 2 ^ n, cap)
  BY DEF BackoffDelay, n
<1> QED
  BY <1>3, <1>4 DEF MinOf

(* The next beat is the first one after the completion.                     *)
LEMMA NextBeatAfter ==
   ASSUME NEW period \in Nat \ {0}, NEW from \in Nat, NEW at \in Nat
   PROVE  /\ NextBeat(period, from, at) \in Nat
          /\ at >= from => /\ NextBeat(period, from, at) > at
                           /\ NextBeat(period, from, at) <= at + period
          /\ \E k \in Nat \ {0} :
                NextBeat(period, from, at) = from + period * k
<1>1. CASE from + period > at
  <2>1. NextBeat(period, from, at) = from + period * 1
    BY <1>1 DEF NextBeat
  <2> QED
    BY <2>1, <1>1
<1>2. CASE ~(from + period > at)
  <2> DEFINE d == (at - from) \div period
  <2>1. at - from \in Nat 
    BY <1>2
  <2>2. d \in Nat /\ period * d <= at - from /\ at - from < period * d + period
    BY <2>1
  <2>3. NextBeat(period, from, at) = from + period * (d + 1)
    BY <1>2 DEF NextBeat
  <2> HIDE DEF d
  <2>4. period * (d + 1) = period * d + period
    BY <2>2
  <2>5. period * d \in Nat
    BY <2>2
  <2>6. d + 1 \in Nat \ {0}
    BY <2>2
  <2>7. /\ NextBeat(period, from, at) \in Nat
        /\ NextBeat(period, from, at) > at
        /\ NextBeat(period, from, at) <= at + period
    BY <2>1, <2>2, <2>3, <2>4, <2>5
  <2> QED
    BY <2>7, <2>6, <2>3
<1> QED
  BY <1>1, <1>2

-----------------------------------------------------------------------------
LEMMA TrainInitInv == TrainInit => TrainInv
<1> SUFFICES ASSUME TrainInit PROVE TrainInv
  OBVIOUS
<1>1. Origin = Origin + Period * 0
  BY CadenceAssumption
<1>2. OnBeat(due)
  BY <1>1 DEF OnBeat, TrainInit
<1>3. StopsAtMaxFailures
  BY CadenceAssumption, NULLAssumption
     DEF TrainInit, StopsAtMaxFailures, MaxOf
<1> QED
  BY <1>2, <1>3, CadenceAssumption DEF TrainInit, TrainInv

(* What one completion makes of the run times. *)
LEMMA CompleteInv ==
    ASSUME TrainInv, NEW t \in 0 .. Horizon, NEW failed \in BOOLEAN,
           Complete(t, failed)
    PROVE  TrainInv'
<1> DEFINE beat == NextBeat(Period, due, t)
           delay == BackoffDelay(BackoffBase, BackoffCap, streak + 1)
<1>1. /\ due \in Nat /\ t \in Nat /\ t >= due /\ streak \in Nat
      /\ due - done \in 1 .. Bound /\ done \in Int
      /\ streak < MaxFailures
  BY CadenceAssumption DEF TrainInv, Complete, StopsAtMaxFailures, Bound
<1>2. Period \in Nat \ {0} /\ MaxFailures \in Nat \ {0} /\ BackoffCap \in Nat
  BY CadenceAssumption
<1>3. /\ beat \in Nat /\ beat > t /\ beat <= t + Period
      /\ \E k \in Nat \ {0} : beat = due + Period * k
  BY <1>1, <1>2, NextBeatAfter
<1>4. delay \in 1 .. BackoffCap
  BY <1>1, CadenceAssumption, BackoffBounds
<1>5. done' = t /\ streak' = (IF failed THEN streak + 1 ELSE 0)
      /\ clean' = (clean /\ ~failed)
  BY DEF Complete
<1>6. beat # NULL
  BY <1>3, NULLAssumption
<1>7. due' = IF ~failed THEN beat
             ELSE IF streak + 1 >= MaxFailures THEN NULL
             ELSE MaxOf(beat, t + delay)
  BY <1>1, <1>6, NULLAssumption
     DEF Complete, NextAfterFinish, NextRunAfterCompletion, TrainCadence,
         FailureBackoffRunAt
<1> HIDE DEF beat, delay
<1>8. CASE failed
  <2>1. MaxOf(beat, t + delay) \in Nat
        /\ MaxOf(beat, t + delay) - t \in 1 .. Bound
    BY <1>1, <1>2, <1>3, <1>4 DEF MaxOf, Bound
  <2>2. StopsAtMaxFailures'
    BY <1>1, <1>2, <1>5, <1>7, <1>8, <2>1, NULLAssumption
       DEF StopsAtMaxFailures, Bound
  <2>3. ~clean' /\ clean' \in BOOLEAN
    BY <1>5, <1>8, Zenon
  <2>4. due' \in Nat \cup {NULL} /\ done' \in Int /\ streak' \in Nat
    BY <1>1, <1>5, <1>7, <1>8, <2>1
  <2> QED
    BY <2>2, <2>3, <2>4 DEF TrainInv
<1>9. CASE ~failed
  <2>0. (clean' <=> clean) /\ clean' \in BOOLEAN
    BY <1>5, <1>9, Zenon
  <2>1. due' = beat /\ streak' = 0
    BY <1>5, <1>7, <1>9
  <2>2. beat - t \in 1 .. Bound
    BY <1>1, <1>2, <1>3 DEF MaxOf, Bound
  <2>3. StopsAtMaxFailures'
    BY <1>2, <1>5, <1>6, <2>1, <2>2 DEF StopsAtMaxFailures, Bound
  <2>4. clean => OnBeat(beat)
    <3> SUFFICES ASSUME clean PROVE OnBeat(beat)
      OBVIOUS
    <3>1. PICK k \in Nat : due = Origin + Period * k
      BY DEF TrainInv, OnBeat
    <3>2. PICK m \in Nat \ {0} : beat = due + Period * m
      BY <1>3
    <3>3. beat = Origin + Period * (k + m)
      BY <1>2, <3>1, <3>2, CadenceAssumption
    <3> QED
      BY <3>3 DEF OnBeat
  <2>5. beat - Period <= t
    BY <1>1, <1>2, <1>3
  <2>6. OnBeat(due)' <=> OnBeat(beat)
    BY <2>1 DEF OnBeat
  <2> QED
    BY <1>1, <1>3, <1>5, <2>0, <2>1, <2>3, <2>4, <2>5, <2>6 DEF TrainInv
<1> QED
  BY <1>8, <1>9

LEMMA TrainInvariance == TrainSpec => []TrainInv
<1>1. TrainInit => TrainInv
  BY TrainInitInv
<1>2. TrainInv /\ [TrainNext]_trainVars => TrainInv'
  <2> SUFFICES ASSUME TrainInv, [TrainNext]_trainVars PROVE TrainInv'
    OBVIOUS
  <2>1. CASE TrainNext
    BY <2>1, CompleteInv DEF TrainNext
  <2>2. CASE UNCHANGED trainVars
    BY <2>2 DEF trainVars, TrainInv, StopsAtMaxFailures, OnBeat
  <2> QED
    BY <2>1, <2>2
<1> QED
  BY <1>1, <1>2, PTL DEF TrainSpec

(***************************************************************************)
(* A schedule that has not failed keeps its phase for ever, whatever its   *)
(* period and however late its runs complete: the next run is the first    *)
(* beat after the last completion.                                         *)
(***************************************************************************)
THEOREM PhaseIsKept == TrainSpec => []NextIsFirstBeat
<1>1. TrainInv => NextIsFirstBeat
  <2> SUFFICES ASSUME TrainInv, clean
               PROVE  /\ due # NULL
                      /\ (due - Origin) % Period = 0
                      /\ due > done /\ due - Period <= done
    BY DEF NextIsFirstBeat
  <2>1. PICK k \in Nat : due = Origin + Period * k
    BY DEF TrainInv, OnBeat
  <2>2. due \in Nat /\ due # NULL
    BY <2>1, CadenceAssumption, NULLAssumption DEF TrainInv
  <2>3. (due - Origin) % Period = 0
    <3>1. due - Origin = Period * k
      BY <2>1, CadenceAssumption
    <3>2. (Period * k) % Period = 0
      BY CadenceAssumption
    <3> QED
      BY <3>1, <3>2
  <2>4. due > done
    BY <2>2, CadenceAssumption DEF TrainInv, StopsAtMaxFailures
  <2> QED
    BY <2>2, <2>3, <2>4 DEF TrainInv
<1> QED
  BY <1>1, TrainInvariance, PTL

(***************************************************************************)
(* The schedule stops with the failure that makes the streak MaxFailures   *)
(* long, never later and never earlier, and until then its next run is in  *)
(* the future and at most a period or the backoff cap away.                *)
(***************************************************************************)
THEOREM FailuresStop == TrainSpec => []StopsAtMaxFailures
<1>1. TrainInv => StopsAtMaxFailures
  BY DEF TrainInv
<1> QED
  BY <1>1, TrainInvariance, PTL

==============================================================================
