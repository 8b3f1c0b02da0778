----------------------- MODULE MailboxDispatcherProofs -----------------------
(***************************************************************************)
(* The dispatchers, the clients and the target threads, with every crash,  *)
(* lost reply and late answer of MailboxDispatcher, do nothing to the      *)
(* mailbox tables but what MailboxStore lets a caller do: SystemSpec       *)
(* implements the specification of the store.  What is proved about the    *)
(* tables therefore holds of the running system.                           *)
(*                                                                         *)
(* The store's Spec takes moments and durations from Times; here they are  *)
(* the clock plus a delay, so Times is all of Nat.                         *)
(*                                                                         *)
(* The second part is about the hand-over between leases and session rows: *)
(* dispatchers that keep up with the clock never load a thread twice.      *)
(***************************************************************************)
EXTENDS MailboxDispatcher, MailboxStoreProofs, FiniteSetTheorems

(* A dispatcher works on a claim in these places of its loop.               *)
WithClaim == {"lookup", "resuming", "enqueue", "acking", "failing",
              "advertise", "release"}
LoopRow == [pc : {"idle", "claiming"} \cup WithClaim, fresh : Nat, left : Int,
            m : Messages \cup {NULL}, a : OptAttempt, next : OptTime,
            since : Nat, shown : Nat]
HasClaim(d) == d.pc \in WithClaim => d.m \in Messages /\ d.a \in Attempts

(* What a dispatcher remembers between two calls are rows of the tables.    *)
LoopsOK ==
    /\ disp \in [Procs -> LoopRow]
    /\ \A p \in Procs : HasClaim(disp[p])

SystemInv == StoreInv /\ LoopsOK

-----------------------------------------------------------------------------
LEMMA SystemFacts ==
    /\ LeaseDuration \in Nat /\ RetryDelay \in Nat /\ StaleAfter \in Nat
    /\ MaxClaimsPerTick \in Nat
    /\ \A e \in Enqueues : e.next \in Nat /\ e.expires \in Nat \cup {NULL}
    /\ NULL \notin Nat /\ NULL \notin Messages
  BY DispatcherAssumption, MailboxAssumption

(* A step that gives one loop a proper row keeps LoopsOK.                   *)
LEMMA LoopRowKept ==
    ASSUME LoopsOK, NEW p \in Procs, NEW row \in LoopRow, HasClaim(row),
           disp' = [disp EXCEPT ![p] = row]
    PROVE  LoopsOK'
<1>1. disp' \in [Procs -> LoopRow]
  BY DEF LoopsOK
<1>2. ASSUME NEW q \in Procs PROVE HasClaim(disp'[q])
  BY DEF LoopsOK
<1> QED
  BY <1>1, <1>2 DEF LoopsOK, HasClaim

LEMMA IdleRow ==
    ASSUME NEW shown \in Nat
    PROVE  IdleLoop(shown) \in LoopRow /\ HasClaim(IdleLoop(shown))
  BY DEF IdleLoop, Unclaiming, LoopRow, HasClaim, WithClaim, OptAttempt,
         OptTime

LEMMA ClaimingRow ==
    ASSUME NEW fresh \in Nat, NEW left \in Int, NEW shown \in Nat
    PROVE  /\ ClaimLoop(fresh, left, shown) \in LoopRow
           /\ HasClaim(ClaimLoop(fresh, left, shown))
  BY DEF ClaimLoop, Unclaiming, LoopRow, HasClaim, WithClaim, OptAttempt,
         OptTime

LEMMA NextClaimKept ==
    ASSUME LoopsOK, NEW p \in Procs, NEW d \in LoopRow, NextClaim(p, d)
    PROVE  LoopsOK'
<1>1. d.fresh \in Nat /\ d.shown \in Nat /\ d.left \in Int
  BY DEF LoopRow
<1>2. d.left - 1 \in Int
  BY <1>1
<1>3. CASE d.left = 1
  <2>1. disp' = [disp EXCEPT ![p] = IdleLoop(d.shown)]
    BY <1>3 DEF NextClaim
  <2> QED
    BY <1>1, <2>1, IdleRow, LoopRowKept
<1>4. CASE d.left # 1
  <2>1. disp' = [disp EXCEPT ![p] = ClaimLoop(d.fresh, d.left - 1, d.shown)]
    BY <1>4 DEF NextClaim
  <2> QED
    BY <1>1, <1>2, <2>1, ClaimingRow, LoopRowKept
<1> QED
  BY <1>3, <1>4

LEMMA GoKept ==
    ASSUME LoopsOK, NEW p \in Procs, NEW pc \in WithClaim, Go(p, pc),
           disp[p].pc \in WithClaim
    PROVE  LoopsOK'
<1> DEFINE row == [disp[p] EXCEPT !.pc = pc]
<1>1. row \in LoopRow /\ HasClaim(row)
  BY DEF LoopsOK, LoopRow, HasClaim
<1>2. disp' = [disp EXCEPT ![p] = row]
  BY DEF Go, LoopsOK
<1> HIDE DEF row
<1> QED
  BY <1>1, <1>2, LoopRowKept

LEMMA RetryKept ==
    ASSUME LoopsOK, NEW p \in Procs, NEW at \in OptTime, Retry(p, at),
           disp[p].pc \in WithClaim
    PROVE  LoopsOK'
<1> DEFINE row == [disp[p] EXCEPT !.pc = "failing", !.next = at]
<1>1. row \in LoopRow /\ HasClaim(row)
  BY DEF LoopsOK, LoopRow, HasClaim, WithClaim
<1>2. disp' = [disp EXCEPT ![p] = row]
  BY DEF Retry, LoopsOK
<1> HIDE DEF row
<1> QED
  BY <1>1, <1>2, LoopRowKept

-----------------------------------------------------------------------------
(* The calls a dispatcher makes are transactions of the store.              *)

LEMMA WriteIsStoreStep ==
    ASSUME Times = Nat, SystemInv, NEW p \in Procs, Writing(p), Write(p)
    PROVE  Next
<1>1. disp[p].m \in Messages /\ disp[p].a \in Attempts
      /\ disp[p].next \in OptTime
  BY DEF SystemInv, LoopsOK, LoopRow, HasClaim, Writing, At, WithClaim
<1> DEFINE m == disp[p].m
           a == disp[p].a
           n == disp[p].next
<1>2. AckMessage(m, a) \/ (n # NULL /\ FailForRetry(m, a, n))
      \/ FailTerminal(m, a)
  BY DEF Write
<1>3. m \in Messages /\ a \in Attempts /\ (n # NULL => n \in Times)
  BY <1>1 DEF OptTime
<1> HIDE DEF m, a, n
<1> QED
  BY <1>2, <1>3 DEF Next

LEMMA ShowIsStoreStep ==
    ASSUME Times = Nat, SystemInv, NEW p \in Procs,
           ShowSessions(p, LiveIn(p), clock)
    PROVE  Next
<1>1. LiveIn(p) \in SUBSET Threads /\ clock \in Times
  BY DEF LiveIn, SystemInv, StoreInv, TypeOK
<1> QED
  BY <1>1 DEF Next

-----------------------------------------------------------------------------
(* Each step of a dispatcher is a step of the store or none, and keeps its  *)
(* memory sound.                                                            *)

LEMMA TickSteps ==
    ASSUME Times = Nat, SystemInv, NEW p \in Procs,
           \/ TickBegin(p) \/ TickEnd(p) \/ TickError(p)
           \/ \E m \in Messages, a \in Attempts : TickClaim(p, m, a)
    PROVE  [Next]_storeVars /\ LoopsOK'
<1>1. clock \in Nat /\ disp[p] \in LoopRow /\ FreshAfter(clock) \in Nat
  BY SystemFacts DEF SystemInv, StoreInv, TypeOK, LoopsOK, FreshAfter
<1>2. disp[p].shown \in Nat /\ disp[p].fresh \in Nat
  BY <1>1 DEF LoopRow
<1>3. LoopsOK
  BY DEF SystemInv
<1>4. ASSUME NEW shown \in Nat,
             disp' = [disp EXCEPT ![p] =
               ClaimLoop(FreshAfter(clock), MaxClaimsPerTick, shown)]
      PROVE  LoopsOK'
  <2> DEFINE row == ClaimLoop(FreshAfter(clock), MaxClaimsPerTick, shown)
  <2>1. MaxClaimsPerTick \in Int
    BY SystemFacts
  <2>2. row \in LoopRow /\ HasClaim(row)
    BY <1>1, <2>1, ClaimingRow
  <2> HIDE DEF row
  <2> QED
    BY <1>3, <1>4, <2>2, LoopRowKept DEF row
<1>5. CASE TickBegin(p)
  <2>1. Next
    BY <1>5, ShowIsStoreStep DEF TickBegin
  <2>2. LoopsOK'
    BY <1>1, <1>4, <1>5 DEF TickBegin
  <2> QED
    BY <2>1, <2>2
<1>6. CASE TickEnd(p)
  <2>1. Next \/ UNCHANGED storeVars
    BY <1>1, <1>2, <1>6 DEF TickEnd, Next
  <2>2. LoopsOK'
    BY <1>2, <1>3, <1>6, IdleRow, LoopRowKept DEF TickEnd
  <2> QED
    BY <2>1, <2>2
<1>7. CASE TickError(p)
  <2>1. UNCHANGED storeVars
    BY <1>7 DEF TickError
  <2>2. LoopsOK'
    BY <1>2, <1>3, <1>4, <1>7, IdleRow, LoopRowKept DEF TickError
  <2> QED
    BY <2>1, <2>2
<1>8. ASSUME NEW m \in Messages, NEW a \in Attempts, TickClaim(p, m, a)
      PROVE  [Next]_storeVars /\ LoopsOK'
  <2>1. Next
    BY <1>1, <1>2, <1>8, SystemFacts DEF TickClaim, Next
  <2> DEFINE row == [disp[p] EXCEPT !.pc = "lookup", !.m = m, !.a = a,
                                    !.since = clock]
  <2>2. row \in LoopRow /\ HasClaim(row)
    BY <1>1 DEF LoopRow, HasClaim, WithClaim, OptAttempt
  <2>3. disp' = [disp EXCEPT ![p] = row]
    BY <1>3, <1>8 DEF TickClaim, LoopsOK
  <2> HIDE DEF row
  <2>4. LoopsOK'
    BY <1>3, <2>2, <2>3, LoopRowKept
  <2> QED
    BY <2>1, <2>4
<1> QED
  BY <1>5, <1>6, <1>7, <1>8

(* Delivery touches memory only, but for the row a new listener shows.      *)
LEMMA DeliverySteps ==
    ASSUME Times = Nat, SystemInv, NEW p \in Procs,
           \/ Lookup(p) \/ DeliveryFails(p) \/ Resume(p) \/ ResumeFails(p)
           \/ Enqueue(p)
    PROVE  [Next]_storeVars /\ LoopsOK'
<1>0. disp[p].pc = "resuming" => Thread(p) \in Threads
  BY MailboxAssumption DEF SystemInv, LoopsOK, HasClaim, WithClaim, Thread
<1>1. Next \/ UNCHANGED storeVars
  <2>1. ASSUME Resume(p) PROVE Next \/ UNCHANGED storeVars
    <3>1. clock \in Times /\ Thread(p) \in Threads
      BY <1>0, <2>1 DEF Resume, At, SystemInv, StoreInv, TypeOK
    <3> QED
      BY <2>1, <3>1 DEF Resume, Next
  <2> QED
    BY <2>1 DEF Lookup, DeliveryFails, ResumeFails, Enqueue
<1>2. LoopsOK /\ clock + RetryDelay \in OptTime /\ NULL \in OptTime
  BY SystemFacts DEF SystemInv, StoreInv, TypeOK, OptTime
<1>3. disp[p].pc \in WithClaim
  BY DEF Lookup, DeliveryFails, Resume, ResumeFails, Enqueue, At, WithClaim
<1>4. \/ Go(p, "enqueue") \/ Go(p, "resuming") \/ Go(p, "acking")
      \/ Retry(p, clock + RetryDelay) \/ Retry(p, NULL)
  BY DEF Lookup, DeliveryFails, Resume, ResumeFails, Enqueue, DelayedRetry
<1>5. {"enqueue", "resuming", "acking"} \subseteq WithClaim
  BY DEF WithClaim
<1>6. LoopsOK'
  BY <1>2, <1>3, <1>4, <1>5, GoKept, RetryKept
<1> QED
  BY <1>1, <1>6

LEMMA TransitionSteps ==
    ASSUME Times = Nat, SystemInv, NEW p \in Procs,
           Transition(p) \/ LostReply(p) \/ GiveUp(p)
    PROVE  [Next]_storeVars /\ LoopsOK'
<1>1. LoopsOK /\ disp[p] \in LoopRow /\ "advertise" \in WithClaim
  BY DEF SystemInv, LoopsOK, WithClaim
<1>2. Writing(p)
  BY DEF Transition, LostReply, GiveUp
<1>3. disp[p].pc \in WithClaim
  BY <1>2 DEF Writing, At, WithClaim
<1>4. Write(p) \/ UNCHANGED storeVars
  BY DEF Transition, LostReply, GiveUp
<1>5. Next \/ UNCHANGED storeVars
  BY <1>2, <1>4, WriteIsStoreStep
<1>6. Go(p, "advertise") \/ NextClaim(p, disp[p]) \/ UNCHANGED disp
  BY DEF Transition, LostReply, GiveUp
<1>7. ASSUME UNCHANGED disp PROVE LoopsOK'
  BY <1>1, <1>7 DEF LoopsOK, HasClaim
<1>8. LoopsOK'
  BY <1>1, <1>3, <1>6, <1>7, GoKept, NextClaimKept
<1> QED
  BY <1>5, <1>8

LEMMA HandOverSteps ==
    ASSUME Times = Nat, SystemInv, NEW p \in Procs,
           Advertise(p) \/ AdvertiseFails(p) \/ Release(p)
    PROVE  [Next]_storeVars /\ LoopsOK'
<1>1. LoopsOK /\ disp[p] \in LoopRow /\ clock \in Nat
  BY DEF SystemInv, LoopsOK, StoreInv, TypeOK
<1>2. disp[p].pc \in WithClaim
  BY DEF Advertise, AdvertiseFails, Release, At, WithClaim
<1>3. disp[p].m \in Messages /\ disp[p].a \in Attempts
  BY <1>1, <1>2 DEF LoopsOK, HasClaim
<1>4. Thread(p) \in Threads
  BY <1>3, MailboxAssumption DEF Thread
<1>5. CASE Advertise(p)
  <2> DEFINE d == [disp[p] EXCEPT !.shown = clock]
             row == [disp[p] EXCEPT !.pc = "release", !.shown = clock]
  <2>1. Next
    BY <1>5, ShowIsStoreStep DEF Advertise
  <2>2. d \in LoopRow
    BY <1>1 DEF LoopRow
  <2>3. row \in LoopRow /\ HasClaim(row)
    BY <1>1, <1>3 DEF LoopRow, HasClaim, WithClaim
  <2>4. disp' = [disp EXCEPT ![p] = row] \/ NextClaim(p, d)
    BY <1>1, <1>5 DEF Advertise, LoopsOK
  <2> HIDE DEF d, row
  <2>5. LoopsOK'
    BY <1>1, <2>2, <2>3, <2>4, LoopRowKept, NextClaimKept
  <2> QED
    BY <2>1, <2>5
<1>6. CASE AdvertiseFails(p)
  BY <1>1, <1>6, NextClaimKept DEF AdvertiseFails
<1>7. CASE Release(p)
  <2>1. ReleaseTarget(p, Thread(p), disp[p].a) \/ UNCHANGED storeVars
    BY <1>7 DEF Release
  <2>2. Next \/ UNCHANGED storeVars
    BY <1>3, <1>4, <2>1 DEF Next
  <2>3. LoopsOK'
    BY <1>1, <1>7, NextClaimKept DEF Release
  <2> QED
    BY <2>2, <2>3
<1> QED
  BY <1>5, <1>6, <1>7

(* Turns, wake tasks and unloading never touch the tables.                  *)
LEMMA ThreadSteps ==
    ASSUME SystemInv, NEW p \in Procs, NEW t \in Threads,
           \/ TurnStep(p, t) \/ Wake(p, t) \/ WakeGivesUp(p, t)
           \/ UserTurn(p, t) \/ Unload(p, t)
    PROVE  UNCHANGED storeVars /\ LoopsOK'
<1>1. UNCHANGED <<disp, storeVars>>
  BY DEF TurnStep, Drain, TurnEnds, Wake, WakeGivesUp, UserTurn, Unload,
         UnloadBegin, UnloadComplete, UnloadFails, ThreadRest
<1> QED
  BY <1>1 DEF SystemInv, LoopsOK, HasClaim

(* A crash and a restart forget the loop; the tables are as they were.      *)
LEMMA CrashSteps ==
    ASSUME SystemInv, NEW p \in Procs, Crash(p) \/ Restart(p)
    PROVE  UNCHANGED storeVars /\ LoopsOK'
<1>1. UNCHANGED storeVars
  BY DEF Crash, Restart
<1>2. clock \in Nat /\ LoopsOK
  BY DEF SystemInv, StoreInv, TypeOK
<1>3. \/ disp' = [disp EXCEPT ![p] = IdleLoop(0)]
      \/ disp' = [disp EXCEPT ![p] = IdleLoop(clock)]
  BY DEF Crash, Restart
<1>4. LoopsOK'
  BY <1>2, <1>3, IdleRow, LoopRowKept
<1> QED
  BY <1>1, <1>4

LEMMA RequestSteps ==
    ASSUME Times = Nat, SystemInv,
           \/ \E m \in Messages, e \in Enqueues : EnqueueRequest(m, e)
           \/ \E m \in Messages, a \in Attempts : ClientClaim(m, a)
                                                  \/ ClientAnswer(m, a)
           \/ TimePasses
    PROVE  Next /\ LoopsOK'
<1>1. clock \in Times /\ clock + 1 \in Times
  BY DEF SystemInv, StoreInv, TypeOK
<1>2. UNCHANGED disp
  BY DEF EnqueueRequest, ClientClaim, ClientAnswer, TimePasses, dispatchVars
<1>3. LoopsOK'
  BY <1>2 DEF SystemInv, LoopsOK, HasClaim
<1>4. ASSUME NEW m \in Messages, NEW e \in Enqueues, EnqueueRequest(m, e)
      PROVE  Next
  <2>1. clock + e.next \in Times /\ e.expires \in Times \cup {NULL}
    BY <1>1, SystemFacts
  <2> QED
    BY <1>4, <2>1 DEF EnqueueRequest, Next
<1>5. ASSUME NEW m \in Messages, NEW a \in Attempts, ClientClaim(m, a)
      PROVE  Next
  BY <1>1, <1>5, SystemFacts DEF ClientClaim, Next
<1>6. ASSUME NEW m \in Messages, NEW a \in Attempts, ClientAnswer(m, a)
      PROVE  Next
  BY <1>1, <1>6 DEF ClientAnswer, Next
<1>7. ASSUME TimePasses PROVE Next
  BY <1>1, <1>7 DEF TimePasses, Next
<1> QED
  BY <1>3, <1>4, <1>5, <1>6, <1>7

-----------------------------------------------------------------------------
LEMMA SystemStep ==
    ASSUME Times = Nat, SystemInv, [SystemNext]_vars
    PROVE  [Next]_storeVars /\ SystemInv'
<1>1. CASE SystemNext
  <2>1. ASSUME NEW p \in Procs,
               \/ DispatchStep(p) \/ LostReply(p) \/ GiveUp(p)
               \/ TickError(p) \/ AdvertiseFails(p) \/ Crash(p) \/ Restart(p)
        PROVE  [Next]_storeVars /\ LoopsOK'
    BY <2>1, TickSteps, DeliverySteps, TransitionSteps, HandOverSteps,
       CrashSteps DEF DispatchStep
  <2>2. [Next]_storeVars /\ LoopsOK'
    BY <1>1, <2>1, ThreadSteps, RequestSteps DEF SystemNext
  <2> QED
    BY <2>2, StepInv DEF SystemInv
<1>2. CASE UNCHANGED vars
  <2>1. UNCHANGED <<storeVars, disp>>
    BY <1>2 DEF vars, dispatchVars
  <2>2. LoopsOK'
    BY <2>1 DEF SystemInv, LoopsOK, HasClaim
  <2> QED
    BY <2>1, <2>2, StepInv DEF SystemInv
<1> QED
  BY <1>1, <1>2

LEMMA SystemInitInv == SystemInit => Init /\ SystemInv
<1> SUFFICES ASSUME SystemInit PROVE Init /\ SystemInv
  OBVIOUS
<1>1. Init /\ StoreInv
  BY InitInv DEF SystemInit
<1>2. IdleLoop(0) \in LoopRow /\ HasClaim(IdleLoop(0))
  BY IdleRow
<1>3. LoopsOK
  BY <1>2 DEF SystemInit, LoopsOK
<1> QED
  BY <1>1, <1>3 DEF SystemInv

(***************************************************************************)
(* The mailbox system implements its store: whatever dispatchers, crashes, *)
(* lost replies and clients do, the tables only ever change by one of the  *)
(* transactions of mailbox.rs, with arguments of the right kind.           *)
(***************************************************************************)
THEOREM DispatcherImplementsStore ==
    ASSUME Times = Nat PROVE SystemSpec => Spec
<1>1. SystemInit => Init /\ SystemInv
  BY SystemInitInv
<1>2. SystemInv /\ [SystemNext]_vars => [Next]_storeVars /\ SystemInv'
  BY SystemStep
<1> QED
  BY <1>1, <1>2, PTL DEF SystemSpec, Spec

(***************************************************************************)
(* In the running system a message is claimed exactly when the one attempt *)
(* its lease names is, and is attempted no more often than it may be.      *)
(***************************************************************************)
THEOREM SystemClaimIntegrity ==
    ASSUME Times = Nat PROVE SystemSpec => []ClaimMatchesAttempt
  BY DispatcherImplementsStore, ClaimIntegrity, PTL

(***************************************************************************)
(* In the running system no late acknowledgement, lost reply or sweep      *)
(* changes a message that is settled.                                      *)
(***************************************************************************)
THEOREM SystemSettledFinal ==
    ASSUME Times = Nat PROVE SystemSpec => SettledIsFinal
  BY DispatcherImplementsStore, SettledFinal, PTL

-----------------------------------------------------------------------------
(* One owner per thread.                                                    *)

(* What a dispatcher that keeps up with its clock respects: no client       *)
(* loads threads behind its back, none is being unloaded, a dispatch and a  *)
(* refresh take less than the lease, and a session row is not stale before  *)
(* the next refresh.  The code polls every second, leases for 60 and calls  *)
(* a row stale after 30.                                                    *)
KeepsUp ==
    /\ LoadedAtStart = {} /\ MayUnload = FALSE
    /\ DispatchTime < LeaseDuration /\ RefreshTime < LeaseDuration
    /\ RefreshTime <= StaleAfter

(* p shows t as live in the directory, as of its last refresh.              *)
Shows(p, t) ==
    session[t].owner = p /\ session[t].last_seen >= disp[p].shown

(* p holds the dispatch lease of t until after its next refresh.            *)
Leases(p, t) ==
    /\ tlease[t].owner = p
    /\ tlease[t].lease_expires_at > disp[p].shown + RefreshTime

Sole(p, t) == \A q \in Procs : <<q, t>> \in loaded => q = p

(* What a dispatcher calls fresh is fresh, and it is not late.              *)
InTime(p) ==
    /\ \/ disp[p].fresh = 0
       \/ disp[p].fresh + StaleAfter <= clock
    /\ disp[p].shown <= clock
    /\ up[p] => clock <= disp[p].shown + RefreshTime

(* Between its claim and the load of the target, p has the target reserved. *)
Early == {"lookup", "resuming"}
Reserved(p, t) ==
    /\ tlease[t].owner = p
    /\ tlease[t].lease_expires_at >= disp[p].since + LeaseDuration
    /\ disp[p].shown <= disp[p].since
    /\ clock <= disp[p].since + DispatchTime
    /\ Sole(p, t)

MemoryOK == loaded \subseteq Procs \X Threads /\ up \in [Procs -> BOOLEAN]
SessionsPast == \A t \in Threads : session[t].last_seen <= clock
ClocksOK == \A p \in Procs : InTime(p)
LoadedCovered ==
    \A p \in Procs, t \in Threads :
       <<p, t>> \in loaded =>
          up[p] /\ Sole(p, t) /\ (Shows(p, t) \/ Leases(p, t))
EarlyReserved ==
    \A p \in Procs :
       up[p] /\ disp[p].pc \in Early => Reserved(p, Thread(p))
ReleaseShown ==
    \A p \in Procs :
       up[p] /\ disp[p].pc = "release" /\ <<p, Thread(p)>> \in loaded
         => Shows(p, Thread(p))

(* The inductive invariant of OneOwnerPerThread: a loaded thread is covered *)
(* by a row other dispatchers respect, at every moment.                     *)
OwnerInv == /\ MemoryOK /\ SessionsPast /\ ClocksOK /\ LoadedCovered
            /\ EarlyReserved /\ ReleaseShown

(* No unload is pending, so a process shows all that it has loaded.         *)
NoneClosing == closing = {}

LEMMA BoundFacts ==
    /\ LeaseDuration \in Nat /\ StaleAfter \in Nat /\ DispatchTime \in Nat
    /\ RefreshTime \in Nat
  BY DispatcherAssumption

LEMMA RowFacts ==
    ASSUME SystemInv, NEW p \in Procs
    PROVE  /\ disp[p] \in LoopRow /\ clock \in Nat
           /\ disp[p].fresh \in Nat /\ disp[p].since \in Nat
           /\ disp[p].shown \in Nat
           /\ disp[p].pc \in WithClaim
                => disp[p].m \in Messages /\ Thread(p) \in Threads
<1>1. disp[p] \in LoopRow /\ HasClaim(disp[p]) /\ clock \in Nat
  BY DEF SystemInv, LoopsOK, StoreInv, TypeOK
<1>2. disp[p].fresh \in Nat /\ disp[p].since \in Nat /\ disp[p].shown \in Nat
  BY <1>1 DEF LoopRow
<1>3. ASSUME disp[p].pc \in WithClaim
      PROVE  disp[p].m \in Messages /\ Thread(p) \in Threads
  BY <1>1, <1>3, MailboxAssumption DEF HasClaim, Thread
<1> QED
  BY <1>1, <1>2, <1>3

LEMMA EarlyRowFacts ==
    ASSUME SystemInv, NEW p \in Procs,
           disp[p].pc \in Early \/ disp[p].pc = "release"
    PROVE  disp[p].m \in Messages /\ Thread(p) \in Threads
<1>1. disp[p].pc \in WithClaim
  BY DEF Early, WithClaim
<1> QED
  BY <1>1, RowFacts

LEMMA CoverFacts ==
    ASSUME SystemInv, NEW t \in Threads
    PROVE  /\ tlease[t].lease_expires_at \in Nat
           /\ session[t].last_seen \in Nat
<1>1. tlease[t] \in TargetLease /\ session[t] \in SessionRow
  BY DEF SystemInv, StoreInv, TypeOK
<1> QED
  BY <1>1 DEF TargetLease, SessionRow

LEMMA FreshFacts ==
    ASSUME NEW now \in Nat
    PROVE  /\ FreshAfter(now) \in Nat
           /\ \/ FreshAfter(now) = 0
              \/ FreshAfter(now) + StaleAfter <= now
  BY BoundFacts DEF FreshAfter

(* A lease that covers a thread or a reservation has not lapsed.            *)
LEMMA CoverIsAlive ==
    ASSUME KeepsUp, SystemInv, OwnerInv, NEW p \in Procs, NEW t \in Threads,
           up[p], Leases(p, t) \/ Reserved(p, t)
    PROVE  tlease[t].owner = p /\ tlease[t].lease_expires_at > clock
<1>1. tlease[t].owner = p
  BY DEF Leases, Reserved
<1>2. /\ tlease[t].lease_expires_at \in Nat /\ clock \in Nat
      /\ disp[p].shown \in Nat /\ disp[p].since \in Nat
  BY RowFacts, CoverFacts
<1>3. clock <= disp[p].shown + RefreshTime
  BY DEF OwnerInv, ClocksOK, InTime
<1>4. CASE Leases(p, t)
  BY <1>1, <1>2, <1>3, <1>4, BoundFacts DEF Leases
<1>5. CASE Reserved(p, t)
  BY <1>1, <1>2, <1>5, BoundFacts DEF Reserved, KeepsUp
<1> QED
  BY <1>4, <1>5

-----------------------------------------------------------------------------
(* Most steps disturb no cover: they neither write the directory nor load   *)
(* anything, delete leases only after they lapse, and move a loop along     *)
(* without reserving, or forget it together with all it had loaded.         *)

QuietLoop(d, e) ==
    /\ e.shown = d.shown
    /\ e.fresh \in {d.fresh, 0, FreshAfter(clock)}
    /\ e.pc \in Early => d.pc \in Early /\ e.m = d.m /\ e.since = d.since
    /\ e.pc = "release" => d.pc = "release" /\ e.m = d.m
QuietRow(p) ==
    \/ (up'[p] <=> up[p]) /\ QuietLoop(disp[p], disp'[p])
    \/ /\ disp'[p] = IdleLoop(IF up'[p] THEN clock ELSE 0)
       /\ \A t \in Threads : <<p, t>> \notin loaded'
QuietStep ==
    /\ session' = session /\ clock' = clock
    /\ loaded' \subseteq loaded /\ up' \in [Procs -> BOOLEAN]
    /\ \A t \in Threads :
          tlease[t].lease_expires_at > clock => tlease'[t] = tlease[t]
    /\ \A p \in Procs : QuietRow(p)

LEMMA IdleFields ==
    ASSUME NEW shown
    PROVE  /\ IdleLoop(shown).pc = "idle" /\ IdleLoop(shown).fresh = 0
           /\ IdleLoop(shown).shown = shown
  BY DEF IdleLoop, Unclaiming

LEMMA ForgottenRow ==
    ASSUME NEW p \in Procs, disp'[p] = IdleLoop(IF up'[p] THEN clock ELSE 0)
    PROVE  /\ disp'[p].pc = "idle" /\ disp'[p].fresh = 0
           /\ disp'[p].shown = IF up'[p] THEN clock ELSE 0
  BY IdleFields

LEMMA QuietClocks ==
    ASSUME SystemInv, OwnerInv, QuietStep
    PROVE  ClocksOK'
<1> SUFFICES ASSUME NEW p \in Procs PROVE InTime(p)'
  BY DEF ClocksOK
<1>1. clock' = clock /\ QuietRow(p) /\ InTime(p)
  BY DEF QuietStep, OwnerInv, ClocksOK
<1>2. /\ clock \in Nat /\ disp[p].shown \in Nat /\ disp[p].fresh \in Nat
      /\ FreshAfter(clock) \in Nat
      /\ FreshAfter(clock) = 0 \/ FreshAfter(clock) + StaleAfter <= clock
  BY RowFacts, FreshFacts
<1>3. CASE (up'[p] <=> up[p]) /\ QuietLoop(disp[p], disp'[p])
  <2>1. /\ disp'[p].fresh = 0 \/ disp'[p].fresh + StaleAfter <= clock
        /\ disp'[p].shown = disp[p].shown
    BY <1>1, <1>2, <1>3, BoundFacts DEF QuietLoop, InTime
  <2> QED
    BY <1>1, <1>3, <2>1 DEF InTime
<1>4. CASE disp'[p] = IdleLoop(IF up'[p] THEN clock ELSE 0)
  <2>1. disp'[p].fresh = 0 /\ disp'[p].shown = IF up'[p] THEN clock ELSE 0
    BY <1>4, ForgottenRow
  <2>2. disp'[p].shown <= clock
        /\ (up'[p] => clock <= disp'[p].shown + RefreshTime)
    BY <1>2, <2>1, BoundFacts
  <2> QED
    BY <1>1, <2>1, <2>2 DEF InTime
<1> QED
  BY <1>1, <1>3, <1>4 DEF QuietRow

LEMMA QuietLoaded ==
    ASSUME KeepsUp, SystemInv, OwnerInv, QuietStep
    PROVE  LoadedCovered'
<1> SUFFICES ASSUME NEW p \in Procs, NEW t \in Threads, <<p, t>> \in loaded'
             PROVE  up'[p] /\ Sole(p, t)' /\ (Shows(p, t)' \/ Leases(p, t)')
  BY DEF LoadedCovered
<1>1. <<p, t>> \in loaded
  BY DEF QuietStep
<1>2. up[p] /\ Sole(p, t) /\ (Shows(p, t) \/ Leases(p, t))
  BY <1>1 DEF OwnerInv, LoadedCovered
<1>3. (up'[p] <=> up[p]) /\ QuietLoop(disp[p], disp'[p])
  BY DEF QuietStep, QuietRow
<1>4. disp'[p].shown = disp[p].shown
  BY <1>3 DEF QuietLoop
<1>5. Sole(p, t)'
  BY <1>2 DEF QuietStep, Sole
<1>6. CASE Shows(p, t)
  BY <1>2, <1>3, <1>4, <1>5, <1>6 DEF Shows, QuietStep
<1>7. CASE Leases(p, t)
  <2>1. tlease'[t] = tlease[t]
    BY <1>2, <1>7, CoverIsAlive DEF QuietStep
  <2> QED
    BY <1>2, <1>3, <1>4, <1>5, <1>7, <2>1 DEF Leases
<1> QED
  BY <1>2, <1>6, <1>7

LEMMA QuietEarly ==
    ASSUME KeepsUp, SystemInv, OwnerInv, QuietStep
    PROVE  EarlyReserved'
<1> SUFFICES ASSUME NEW p \in Procs, up'[p], disp'[p].pc \in Early
             PROVE  Reserved(p, Thread(p))'
  BY DEF EarlyReserved
<1>1. up[p] /\ QuietLoop(disp[p], disp'[p])
  <2>1. "idle" \notin Early
    BY DEF Early
  <2> QED
    BY <2>1, ForgottenRow DEF QuietStep, QuietRow
<1>2. /\ disp[p].pc \in Early /\ disp'[p].m = disp[p].m
      /\ disp'[p].since = disp[p].since /\ disp'[p].shown = disp[p].shown
  BY <1>1 DEF QuietLoop
<1>3. PICK t \in Threads : t = Thread(p) /\ Reserved(p, t)
  BY <1>1, <1>2, EarlyRowFacts DEF OwnerInv, EarlyReserved
<1>4. Thread(p)' = t
  BY <1>2, <1>3 DEF Thread
<1>5. tlease'[t] = tlease[t]
  BY <1>1, <1>3, CoverIsAlive DEF QuietStep
<1>6. Sole(p, t)'
  BY <1>3 DEF Reserved, Sole, QuietStep
<1>7. clock' = clock
  BY DEF QuietStep
<1>8. Reserved(p, t)'
  BY <1>2, <1>3, <1>5, <1>6, <1>7 DEF Reserved
<1> QED
  BY <1>4, <1>8 DEF Reserved, Sole

LEMMA QuietRelease ==
    ASSUME SystemInv, OwnerInv, QuietStep
    PROVE  ReleaseShown'
<1> SUFFICES ASSUME NEW p \in Procs, up'[p], disp'[p].pc = "release",
                    <<p, Thread(p)'>> \in loaded'
             PROVE  Shows(p, Thread(p))'
  BY DEF ReleaseShown
<1>1. up[p] /\ QuietLoop(disp[p], disp'[p])
  BY ForgottenRow DEF QuietStep, QuietRow
<1>2. /\ disp[p].pc = "release" /\ disp'[p].m = disp[p].m
      /\ disp'[p].shown = disp[p].shown
  BY <1>1 DEF QuietLoop
<1>3. Thread(p)' = Thread(p)
  BY <1>2 DEF Thread
<1>4. <<p, Thread(p)>> \in loaded /\ session' = session
  BY <1>3 DEF QuietStep
<1>5. Shows(p, Thread(p))
  BY <1>1, <1>2, <1>4 DEF OwnerInv, ReleaseShown
<1> QED
  BY <1>2, <1>3, <1>4, <1>5 DEF Shows

LEMMA QuietKeeps ==
    ASSUME KeepsUp, SystemInv, OwnerInv, QuietStep
    PROVE  OwnerInv'
<1>1. MemoryOK' /\ SessionsPast'
  BY DEF OwnerInv, QuietStep, MemoryOK, SessionsPast
<1> QED
  BY <1>1, QuietClocks, QuietLoaded, QuietEarly, QuietRelease DEF OwnerInv

-----------------------------------------------------------------------------
(* The quiet steps.                                                         *)

LEMMA SameLoopQuiet ==
    ASSUME NEW d PROVE QuietLoop(d, d)
  BY DEF QuietLoop

(* One loop moves quietly, the others not at all.                           *)
LEMMA OneLoopQuiet ==
    ASSUME LoopsOK, MemoryOK, NEW p \in Procs, NEW row,
           disp' = [disp EXCEPT ![p] = row], QuietLoop(disp[p], row),
           session' = session, clock' = clock, up' = up,
           loaded' \subseteq loaded,
           \A t \in Threads :
              tlease[t].lease_expires_at > clock => tlease'[t] = tlease[t]
    PROVE  QuietStep
<1>1. up' \in [Procs -> BOOLEAN]
  BY DEF MemoryOK
<1>2. ASSUME NEW q \in Procs PROVE QuietRow(q)
  <2>1. disp'[q] = IF q = p THEN row ELSE disp[q]
    BY DEF LoopsOK
  <2>2. QuietLoop(disp[q], disp'[q])
    BY <2>1, SameLoopQuiet
  <2> QED
    BY <2>2 DEF QuietRow
<1> QED
  BY <1>1, <1>2 DEF QuietStep

(* Steps that leave every loop where it is.                                 *)
LEMMA StillQuiet ==
    ASSUME MemoryOK, UNCHANGED <<disp, session, clock, tlease, up>>,
           loaded' \subseteq loaded
    PROVE  QuietStep
<1>1. up' \in [Procs -> BOOLEAN]
  BY DEF MemoryOK
<1>2. ASSUME NEW q \in Procs PROVE QuietRow(q)
  BY SameLoopQuiet DEF QuietRow
<1> QED
  BY <1>1, <1>2 DEF QuietStep

LEMMA NextClaimQuiet ==
    ASSUME NEW p \in Procs, NextClaim(p, disp[p])
    PROVE  \E row : /\ disp' = [disp EXCEPT ![p] = row]
                    /\ QuietLoop(disp[p], row)
<1> DEFINE d == disp[p]
           idle == IdleLoop(d.shown)
           next == ClaimLoop(d.fresh, d.left - 1, d.shown)
<1>1. QuietLoop(d, idle) /\ QuietLoop(d, next)
  BY DEF QuietLoop, IdleLoop, ClaimLoop, Unclaiming, Early
<1>2. \/ disp' = [disp EXCEPT ![p] = idle]
      \/ disp' = [disp EXCEPT ![p] = next]
  BY DEF NextClaim
<1> HIDE DEF idle, next
<1> QED
  BY <1>1, <1>2

LEMMA GoQuiet ==
    ASSUME LoopsOK, NEW p \in Procs, NEW pc, Go(p, pc), pc # "release",
           pc \in Early => disp[p].pc \in Early
    PROVE  \E row : /\ disp' = [disp EXCEPT ![p] = row]
                    /\ QuietLoop(disp[p], row)
<1> DEFINE row == [disp[p] EXCEPT !.pc = pc]
<1>1. disp' = [disp EXCEPT ![p] = row]
  BY DEF Go, LoopsOK
<1>2. disp[p] \in LoopRow
  BY DEF LoopsOK
<1>3. QuietLoop(disp[p], row)
  BY <1>2 DEF QuietLoop, LoopRow
<1> HIDE DEF row
<1> QED
  BY <1>1, <1>3

LEMMA RetryQuiet ==
    ASSUME LoopsOK, NEW p \in Procs, NEW at, Retry(p, at)
    PROVE  \E row : /\ disp' = [disp EXCEPT ![p] = row]
                    /\ QuietLoop(disp[p], row)
<1> DEFINE row == [disp[p] EXCEPT !.pc = "failing", !.next = at]
<1>1. disp' = [disp EXCEPT ![p] = row]
  BY DEF Retry, LoopsOK
<1>2. disp[p] \in LoopRow
  BY DEF LoopsOK
<1>3. QuietLoop(disp[p], row)
  BY <1>2 DEF QuietLoop, LoopRow, Early
<1> HIDE DEF row
<1> QED
  BY <1>1, <1>3

LEMMA WriteTouches ==
    ASSUME NEW p \in Procs, Write(p)
    PROVE  UNCHANGED <<tlease, session, clock>>
  BY DEF Write, AckMessage, FailForRetry, FailTerminal, Close

LEMMA QuietTick ==
    ASSUME SystemInv, OwnerInv, NEW p \in Procs, TickEnd(p) \/ TickError(p)
    PROVE  QuietStep
<1>1. LoopsOK /\ MemoryOK
  BY DEF SystemInv, OwnerInv
<1> DEFINE d == disp[p]
           idle == IdleLoop(d.shown)
           begin == ClaimLoop(FreshAfter(clock), MaxClaimsPerTick, d.shown)
<1>2. QuietLoop(d, idle) /\ QuietLoop(d, begin)
  BY DEF QuietLoop, IdleLoop, ClaimLoop, Unclaiming, Early
<1>3. \/ disp' = [disp EXCEPT ![p] = idle]
      \/ disp' = [disp EXCEPT ![p] = begin]
  BY DEF TickEnd, TickError
<1> HIDE DEF idle, begin
<1>4. session' = session /\ clock' = clock /\ up' = up /\ loaded' = loaded
  BY DEF TickEnd, TickError, DispatchNothing, Rest, storeVars
<1>5. ASSUME NEW t \in Threads, tlease[t].lease_expires_at > clock
      PROVE  tlease'[t] = tlease[t]
  <2>1. ~ tlease[t].lease_expires_at <= clock
    BY <1>5, RowFacts, CoverFacts
  <2> QED
    BY <2>1 DEF TickEnd, TickError, DispatchNothing, SweptLease, storeVars
<1> QED
  BY <1>1, <1>2, <1>3, <1>4, <1>5, OneLoopQuiet

LEMMA QuietDispatch ==
    ASSUME SystemInv, OwnerInv, NEW p \in Procs,
           \/ Lookup(p) \/ DeliveryFails(p) \/ Enqueue(p)
           \/ Transition(p) \/ LostReply(p) \/ GiveUp(p) \/ AdvertiseFails(p)
    PROVE  QuietStep
<1>1. LoopsOK /\ MemoryOK
  BY DEF SystemInv, OwnerInv
<1>2. UNCHANGED <<up, loaded>>
  BY DEF Lookup, DeliveryFails, Enqueue, Transition, LostReply, GiveUp,
         AdvertiseFails, Rest
<1>3. UNCHANGED <<session, clock, tlease>>
  <2>1. Write(p) \/ UNCHANGED storeVars
    BY DEF Lookup, DeliveryFails, Enqueue, Transition, LostReply, GiveUp,
           AdvertiseFails
  <2> QED
    BY <2>1, WriteTouches DEF storeVars
<1>4. \/ UNCHANGED disp
      \/ \E row : /\ disp' = [disp EXCEPT ![p] = row]
                  /\ QuietLoop(disp[p], row)
  <2>1. CASE Lookup(p)
    <3>1. disp[p].pc \in Early
      BY <2>1 DEF Lookup, At, Early
    <3>2. Go(p, "enqueue") \/ Go(p, "resuming")
      BY <2>1 DEF Lookup
    <3> QED
      BY <1>1, <3>1, <3>2, GoQuiet
  <2>2. CASE DeliveryFails(p)
    BY <1>1, <2>2, RetryQuiet DEF DeliveryFails, DelayedRetry
  <2>3. CASE Enqueue(p) \/ Transition(p)
    <3>1. "acking" \notin Early /\ "advertise" \notin Early
      BY DEF Early
    <3>2. \/ Go(p, "acking") \/ Go(p, "advertise") \/ NextClaim(p, disp[p])
      BY <2>3 DEF Enqueue, Transition
    <3> QED
      BY <1>1, <3>1, <3>2, GoQuiet, NextClaimQuiet
  <2>4. CASE LostReply(p)
    BY <2>4 DEF LostReply
  <2>5. CASE GiveUp(p) \/ AdvertiseFails(p)
    BY <2>5, NextClaimQuiet DEF GiveUp, AdvertiseFails
  <2> QED
    BY <2>1, <2>2, <2>3, <2>4, <2>5
<1> QED
  BY <1>1, <1>2, <1>3, <1>4, OneLoopQuiet, StillQuiet

LEMMA QuietThread ==
    ASSUME OwnerInv, NEW p \in Procs, NEW t \in Threads,
           \/ TurnStep(p, t) \/ Wake(p, t) \/ WakeGivesUp(p, t)
           \/ UserTurn(p, t) \/ Unload(p, t)
    PROVE  QuietStep
<1>1. UNCHANGED <<up, disp, storeVars>>
  BY DEF TurnStep, Drain, TurnEnds, Wake, WakeGivesUp, UserTurn, Unload,
         UnloadBegin, UnloadComplete, UnloadFails, ThreadRest
<1>2. loaded' \subseteq loaded
  BY DEF TurnStep, Drain, TurnEnds, Wake, WakeGivesUp, UserTurn, Unload,
         UnloadBegin, UnloadComplete, UnloadFails
<1> QED
  BY <1>1, <1>2, StillQuiet DEF OwnerInv, storeVars

LEMMA QuietRequest ==
    ASSUME OwnerInv,
           \/ \E m \in Messages, e \in Enqueues : EnqueueRequest(m, e)
           \/ \E m \in Messages, a \in Attempts : ClientClaim(m, a)
                                                  \/ ClientAnswer(m, a)
    PROVE  QuietStep
<1>1. UNCHANGED dispatchVars
  BY DEF EnqueueRequest, ClientClaim, ClientAnswer
<1>2. UNCHANGED <<session, clock, tlease>>
  <2>1. ASSUME NEW m \in Messages, NEW a \in Attempts, ClientAnswer(m, a)
        PROVE  UNCHANGED <<session, clock, tlease>>
    BY <2>1 DEF ClientAnswer, AckMessage, FailTerminal, FailForRetry, Close
  <2>2. ASSUME NEW m \in Messages, NEW a \in Attempts, ClientClaim(m, a)
        PROVE  UNCHANGED <<session, clock, tlease>>
    BY <2>2 DEF ClientClaim, ClaimForTarget
  <2>3. ASSUME NEW m \in Messages, NEW e \in Enqueues, EnqueueRequest(m, e)
        PROVE  UNCHANGED <<session, clock, tlease>>
    <3>1. PICK next, expires : EnqueueMessage(m, next, expires)
      BY <2>3 DEF EnqueueRequest
    <3> QED
      BY <3>1 DEF EnqueueMessage
  <2> QED
    BY <2>1, <2>2, <2>3
<1> QED
  BY <1>1, <1>2, StillQuiet DEF OwnerInv, dispatchVars

LEMMA QuietCrash ==
    ASSUME SystemInv, OwnerInv, NEW p \in Procs, Crash(p) \/ Restart(p)
    PROVE  QuietStep
<1>1. LoopsOK /\ MemoryOK /\ UNCHANGED storeVars
  BY DEF SystemInv, OwnerInv, Crash, Restart
<1>2. loaded' \subseteq loaded
  BY DEF Crash, Restart
<1>3. up' \in [Procs -> BOOLEAN]
  BY <1>1, Zenon DEF Crash, Restart, MemoryOK
<1>4. \A t \in Threads : <<p, t>> \notin loaded'
  <2>1. CASE Crash(p)
    BY <2>1 DEF Crash
  <2>2. CASE Restart(p)
    BY <2>2 DEF Restart, OwnerInv, LoadedCovered
  <2> QED
    BY <2>1, <2>2
<1>5. disp'[p] = IdleLoop(IF up'[p] THEN clock ELSE 0)
  <2>1. CASE Crash(p)
    <3>1. ~up'[p] /\ disp'[p] = IdleLoop(0)
      BY <1>1, <2>1 DEF Crash, MemoryOK, LoopsOK
    <3> QED
      BY <3>1
  <2>2. CASE Restart(p)
    <3>1. up'[p] /\ disp'[p] = IdleLoop(clock)
      BY <1>1, <2>2 DEF Restart, MemoryOK, LoopsOK
    <3> QED
      BY <3>1
  <2> QED
    BY <2>1, <2>2
<1>6. ASSUME NEW q \in Procs, q # p
      PROVE  (up'[q] <=> up[q]) /\ disp'[q] = disp[q]
  BY <1>1, <1>6 DEF Crash, Restart, MemoryOK, LoopsOK
<1>7. ASSUME NEW q \in Procs PROVE QuietRow(q)
  BY <1>4, <1>5, <1>6, SameLoopQuiet DEF QuietRow
<1> QED
  BY <1>1, <1>2, <1>3, <1>7 DEF QuietStep, storeVars

-----------------------------------------------------------------------------
(* A refresh: what p has loaded is shown from now on; the rows of the       *)
(* others stay, because nobody else has those threads.                      *)

ShowStep(p) ==
    /\ ShowSessions(p, LiveIn(p), clock)
    /\ UNCHANGED <<up, loaded>>
    /\ \A q \in Procs \ {p} : disp'[q] = disp[q]
    /\ disp'[p].shown = clock
    /\ disp'[p].fresh \in {disp[p].fresh, 0, FreshAfter(clock)}
    /\ disp'[p].pc \notin Early

LEMMA ShownOwn ==
    ASSUME SystemInv, OwnerInv, NoneClosing, NEW p \in Procs, ShowStep(p),
           NEW t \in Threads, <<p, t>> \in loaded
    PROVE  Shows(p, t)'
<1>1. t \in LiveIn(p) /\ session[t].last_seen <= clock
  BY DEF LiveIn, NoneClosing, OwnerInv, SessionsPast
<1>2. session'[t] = [owner |-> p, last_seen |-> clock]
  BY <1>1 DEF ShowStep, ShowSessions, Shown
<1>3. session'[t].owner = p /\ session'[t].last_seen = clock
  BY <1>2
<1>4. disp'[p].shown = clock /\ clock \in Nat
  BY RowFacts DEF ShowStep
<1>5. session'[t].last_seen >= disp'[p].shown
  BY <1>3, <1>4
<1> QED
  BY <1>3, <1>5 DEF Shows

LEMMA ShowKeeps ==
    ASSUME KeepsUp, SystemInv, OwnerInv, NoneClosing, NEW p \in Procs,
           ShowStep(p)
    PROVE  OwnerInv'
<1>1. clock' = clock /\ tlease' = tlease /\ up' = up /\ loaded' = loaded
  BY DEF ShowStep, ShowSessions
<1>2. MemoryOK'
  BY <1>1 DEF OwnerInv, MemoryOK
<1>3. SessionsPast'
  <2> SUFFICES ASSUME NEW t \in Threads PROVE session'[t].last_seen <= clock'
    BY DEF SessionsPast
  <2>1. session[t].last_seen <= clock /\ clock \in Nat
    BY RowFacts DEF OwnerInv, SessionsPast
  <2>2. \/ session'[t] = [owner |-> p, last_seen |-> clock]
        \/ session'[t] = NoSession \/ session'[t] = session[t]
    BY DEF ShowStep, ShowSessions, Shown
  <2>3. \/ session'[t].last_seen = clock \/ session'[t].last_seen = 0
        \/ session'[t].last_seen = session[t].last_seen
    BY <2>2 DEF NoSession
  <2> QED
    BY <1>1, <2>1, <2>3
<1>4. ClocksOK'
  <2> SUFFICES ASSUME NEW q \in Procs PROVE InTime(q)'
    BY DEF ClocksOK
  <2>1. InTime(q) /\ clock \in Nat /\ disp[q].fresh \in Nat
    BY RowFacts DEF OwnerInv, ClocksOK
  <2>2. CASE q = p
    <3>1. /\ FreshAfter(clock) \in Nat
          /\ \/ FreshAfter(clock) = 0
             \/ FreshAfter(clock) + StaleAfter <= clock
      BY <2>1, FreshFacts
    <3>2. /\ \/ disp'[p].fresh = 0
             \/ disp'[p].fresh + StaleAfter <= clock
          /\ disp'[p].shown = clock
      BY <2>1, <2>2, <3>1 DEF ShowStep, InTime
    <3>3. clock <= clock /\ clock <= clock + RefreshTime
      BY <2>1, BoundFacts
    <3> QED
      BY <1>1, <2>2, <3>2, <3>3 DEF InTime
  <2>3. CASE q # p
    <3>1. disp'[q] = disp[q]
      BY <2>3 DEF ShowStep
    <3> QED
      BY <1>1, <2>1, <3>1 DEF InTime
  <2> QED
    BY <2>2, <2>3
<1>5. LoadedCovered'
  <2> SUFFICES ASSUME NEW q \in Procs, NEW t \in Threads,
                      <<q, t>> \in loaded
               PROVE  up'[q] /\ Sole(q, t)' /\ (Shows(q, t)' \/ Leases(q, t)')
    BY <1>1 DEF LoadedCovered
  <2>1. up[q] /\ Sole(q, t) /\ (Shows(q, t) \/ Leases(q, t))
    BY DEF OwnerInv, LoadedCovered
  <2>2. up'[q] /\ Sole(q, t)'
    BY <1>1, <2>1 DEF Sole
  <2>3. CASE q = p
    BY <2>2, <2>3, ShownOwn
  <2>4. CASE q # p
    <3>1. disp'[q] = disp[q] /\ t \notin LiveIn(p)
      BY <2>1, <2>4 DEF ShowStep, LiveIn, Sole
    <3>2. CASE Shows(q, t)
      <4>1. session[t].owner = q /\ session[t].last_seen >= disp[q].shown
        BY <3>2 DEF Shows
      <4>2. session'[t] = session[t]
        BY <2>4, <3>1, <4>1 DEF ShowStep, ShowSessions, Shown
      <4> QED
        BY <2>2, <3>1, <4>1, <4>2 DEF Shows
    <3>3. CASE Leases(q, t)
      BY <1>1, <2>2, <3>1, <3>3 DEF Leases
    <3> QED
      BY <2>1, <3>2, <3>3
  <2> QED
    BY <2>3, <2>4
<1>6. EarlyReserved'
  <2> SUFFICES ASSUME NEW q \in Procs, up'[q], disp'[q].pc \in Early
               PROVE  Reserved(q, Thread(q))'
    BY DEF EarlyReserved
  <2>1. q # p
    BY DEF ShowStep
  <2>2. disp'[q] = disp[q]
    BY <2>1 DEF ShowStep
  <2>3. Reserved(q, Thread(q))
    BY <1>1, <2>2 DEF OwnerInv, EarlyReserved
  <2>4. Thread(q)' = Thread(q)
    BY <2>2 DEF Thread
  <2> QED
    BY <1>1, <2>2, <2>3, <2>4 DEF Reserved, Sole
<1>7. ReleaseShown'
  <2> SUFFICES ASSUME NEW q \in Procs, up'[q], disp'[q].pc = "release",
                      <<q, Thread(q)'>> \in loaded'
               PROVE  Shows(q, Thread(q))'
    BY DEF ReleaseShown
  <2>1. CASE q = p
    <3>1. PICK t : t = Thread(p)'
      OBVIOUS
    <3>2. <<p, t>> \in loaded /\ t \in Threads
      BY <1>1, <2>1, <3>1 DEF OwnerInv, MemoryOK
    <3>3. Shows(p, t)'
      BY <3>2, ShownOwn
    <3> QED
      BY <2>1, <3>1, <3>3 DEF Shows
  <2>2. CASE q # p
    <3>1. disp'[q] = disp[q]
      BY <2>2 DEF ShowStep
    <3>2. Thread(q)' = Thread(q)
      BY <3>1 DEF Thread
    <3>3. PICK t : t = Thread(q)
      OBVIOUS
    <3>4. <<q, t>> \in loaded /\ up[q] /\ disp[q].pc = "release"
      BY <1>1, <3>1, <3>2, <3>3
    <3>5. t \in Threads /\ Shows(q, t)
      BY <3>3, <3>4 DEF OwnerInv, ReleaseShown, MemoryOK
    <3>6. Sole(q, t)
      BY <3>4, <3>5 DEF OwnerInv, LoadedCovered
    <3>7. t \notin LiveIn(p)
      BY <2>2, <3>6 DEF LiveIn, Sole
    <3>8. session[t].owner = q /\ session[t].last_seen >= disp[q].shown
      BY <3>5 DEF Shows
    <3>9. session'[t] = session[t]
      BY <2>2, <3>5, <3>7, <3>8 DEF ShowStep, ShowSessions, Shown
    <3> QED
      BY <3>1, <3>2, <3>3, <3>8, <3>9 DEF Shows
  <2> QED
    BY <2>1, <2>2
<1> QED
  BY <1>2, <1>3, <1>4, <1>5, <1>6, <1>7 DEF OwnerInv

LEMMA RefreshKeeps ==
    ASSUME KeepsUp, SystemInv, OwnerInv, NoneClosing, NEW p \in Procs,
           TickBegin(p) \/ Advertise(p)
    PROVE  OwnerInv'
<1>1. LoopsOK /\ disp[p] \in LoopRow
  BY DEF SystemInv, LoopsOK
<1> DEFINE d == [disp[p] EXCEPT !.shown = clock]
           release == [disp[p] EXCEPT !.pc = "release", !.shown = clock]
           begin == ClaimLoop(FreshAfter(clock), MaxClaimsPerTick, clock)
           idle == IdleLoop(d.shown)
           next == ClaimLoop(d.fresh, d.left - 1, d.shown)
           Good(row) == /\ row.shown = clock
                        /\ row.fresh \in {disp[p].fresh, 0, FreshAfter(clock)}
                        /\ row.pc \notin Early
<1>2. Good(release) /\ Good(begin) /\ Good(idle) /\ Good(next)
  BY <1>1 DEF LoopRow, ClaimLoop, IdleLoop, Unclaiming, Early
<1>3. \/ disp' = [disp EXCEPT ![p] = begin]
      \/ disp' = [disp EXCEPT ![p] = release]
      \/ disp' = [disp EXCEPT ![p] = idle]
      \/ disp' = [disp EXCEPT ![p] = next]
  BY <1>1 DEF TickBegin, Advertise, NextClaim, LoopsOK
<1> HIDE DEF release, begin, idle, next
<1>4. PICK row : Good(row) /\ disp' = [disp EXCEPT ![p] = row]
  BY <1>2, <1>3
<1>5. disp'[p] = row /\ \A q \in Procs \ {p} : disp'[q] = disp[q]
  BY <1>1, <1>4 DEF LoopsOK
<1>6. ShowSessions(p, LiveIn(p), clock) /\ UNCHANGED <<up, loaded>>
  BY DEF TickBegin, Advertise, Rest
<1>7. ShowStep(p)
  BY <1>4, <1>5, <1>6 DEF ShowStep
<1> QED
  BY <1>7, ShowKeeps

-----------------------------------------------------------------------------
(* A claim: the filter on foreign sessions and foreign leases leaves only   *)
(* targets that no other process has loaded or reserved.                    *)

LEMMA ClaimFilter ==
    ASSUME NEW p \in Procs, NEW m \in Messages, NEW a \in Attempts,
           TickClaim(p, m, a)
    PROVE  /\ ~ForeignSession(p, TargetOf[m], disp[p].fresh)
           /\ ~ForeignLease(p, TargetOf[m], clock)
  BY DEF TickClaim, ClaimForDispatch, FirstOf, ForDispatch

LEMMA OtherIsVisible ==
    ASSUME KeepsUp, SystemInv, OwnerInv, NEW p \in Procs, NEW q \in Procs,
           q # p, up[q], NEW t \in Threads,
           ~ForeignLease(p, t, clock)
    PROVE  ~Leases(q, t) /\ ~Reserved(q, t)
<1>1. q # NULL
  BY MailboxAssumption
<1>2. ASSUME Leases(q, t) \/ Reserved(q, t) PROVE FALSE
  <2>1. tlease[t].owner = q /\ tlease[t].lease_expires_at > clock
    BY <1>2, CoverIsAlive
  <2> QED
    BY <1>1, <2>1 DEF ForeignLease
<1> QED
  BY <1>2

LEMMA ClaimIsSole ==
    ASSUME KeepsUp, SystemInv, OwnerInv, NEW p \in Procs, NEW t \in Threads,
           ~ForeignSession(p, t, disp[p].fresh), ~ForeignLease(p, t, clock)
    PROVE  /\ Sole(p, t)
           /\ \A q \in Procs \ {p} :
                 up[q] /\ disp[q].pc \in Early => Thread(q) # t
<1>1. ASSUME NEW q \in Procs, <<q, t>> \in loaded, q # p
      PROVE  FALSE
  <2>1. up[q] /\ (Shows(q, t) \/ Leases(q, t)) /\ q # NULL
    BY <1>1, MailboxAssumption DEF OwnerInv, LoadedCovered
  <2>2. session[t].owner = q /\ session[t].last_seen >= disp[q].shown
    BY <1>1, <2>1, OtherIsVisible DEF Shows
  <2>3. /\ session[t].last_seen \in Nat /\ clock \in Nat
        /\ disp[q].shown \in Nat /\ disp[p].fresh \in Nat
    BY RowFacts, CoverFacts
  <2>4. /\ clock <= disp[q].shown + RefreshTime
        /\ disp[p].fresh = 0 \/ disp[p].fresh + StaleAfter <= clock
    BY <2>1 DEF OwnerInv, ClocksOK, InTime
  <2>5. session[t].last_seen >= disp[p].fresh
    BY <2>2, <2>3, <2>4, BoundFacts DEF KeepsUp
  <2> QED
    BY <1>1, <2>1, <2>2, <2>5 DEF ForeignSession
<1>2. ASSUME NEW q \in Procs \ {p}, up[q], disp[q].pc \in Early
      PROVE  Thread(q) # t
  <2>1. Reserved(q, Thread(q))
    BY <1>2 DEF OwnerInv, EarlyReserved
  <2> QED
    BY <1>2, <2>1, OtherIsVisible
<1> QED
  BY <1>1, <1>2 DEF Sole

LEMMA ClaimKeeps ==
    ASSUME KeepsUp, SystemInv, OwnerInv, NEW p \in Procs, NEW m \in Messages,
           NEW a \in Attempts, TickClaim(p, m, a)
    PROVE  OwnerInv'
<1>1. PICK t \in Threads : t = TargetOf[m]
  BY MailboxAssumption
<1>2. /\ Sole(p, t)
      /\ \A q \in Procs \ {p} :
            up[q] /\ disp[q].pc \in Early => Thread(q) # t
  BY <1>1, ClaimFilter, ClaimIsSole
<1>3. UNCHANGED <<session, clock, up, loaded>>
  BY DEF TickClaim, ClaimForDispatch, Rest
<1>4. LoopsOK /\ disp[p] \in LoopRow /\ clock \in Nat /\ disp[p].shown \in Nat
  BY RowFacts DEF SystemInv
<1>5. tlease'[t] = [owner |-> p, lease_id |-> a,
                    lease_expires_at |-> clock + LeaseDuration]
  BY <1>1 DEF TickClaim, ClaimForDispatch
<1>6. tlease'[t].owner = p
      /\ tlease'[t].lease_expires_at = clock + LeaseDuration
  BY <1>5
<1>7. ASSUME NEW s \in Threads, s # t, tlease[s].lease_expires_at > clock
      PROVE  tlease'[s] = tlease[s]
  <2>1. ~ tlease[s].lease_expires_at <= clock
    BY <1>7, RowFacts, CoverFacts
  <2> QED
    BY <1>1, <1>7, <2>1 DEF TickClaim, ClaimForDispatch, SweptLease
<1>8. /\ disp'[p].pc = "lookup" /\ disp'[p].m = m /\ disp'[p].since = clock
      /\ disp'[p].shown = disp[p].shown /\ disp'[p].fresh = disp[p].fresh
  <2>1. disp'[p] = [disp[p] EXCEPT !.pc = "lookup", !.m = m, !.a = a,
                                   !.since = clock]
    BY <1>4 DEF TickClaim, LoopsOK
  <2> QED
    BY <1>4, <2>1 DEF LoopRow
<1>9. \A q \in Procs \ {p} : disp'[q] = disp[q]
  BY <1>4 DEF TickClaim, LoopsOK
<1>10. MemoryOK' /\ SessionsPast'
  BY <1>3 DEF OwnerInv, MemoryOK, SessionsPast
<1>11. ClocksOK'
  <2> SUFFICES ASSUME NEW q \in Procs PROVE InTime(q)'
    BY DEF ClocksOK
  <2>1. InTime(q)
    BY DEF OwnerInv, ClocksOK
  <2>2. disp'[q].shown = disp[q].shown /\ disp'[q].fresh = disp[q].fresh
    BY <1>8, <1>9
  <2> QED
    BY <1>3, <2>1, <2>2 DEF InTime
<1>12. LoadedCovered'
  <2> SUFFICES ASSUME NEW q \in Procs, NEW s \in Threads, <<q, s>> \in loaded
               PROVE  up'[q] /\ Sole(q, s)' /\ (Shows(q, s)' \/ Leases(q, s)')
    BY <1>3 DEF LoadedCovered
  <2>1. up[q] /\ Sole(q, s) /\ (Shows(q, s) \/ Leases(q, s))
    BY DEF OwnerInv, LoadedCovered
  <2>2. up'[q] /\ Sole(q, s)'
    BY <1>3, <2>1 DEF Sole
  <2>3. disp'[q].shown = disp[q].shown
    BY <1>8, <1>9
  <2>4. CASE Shows(q, s)
    BY <1>3, <2>2, <2>3, <2>4 DEF Shows
  <2>5. CASE Leases(q, s) /\ s # t
    <3>1. tlease'[s] = tlease[s]
      BY <1>7, <2>1, <2>5, CoverIsAlive
    <3> QED
      BY <2>2, <2>3, <2>5, <3>1 DEF Leases
  <2>6. CASE Leases(q, s) /\ s = t
    <3>1. q = p
      BY <1>2, <2>6 DEF Sole
    <3>2. disp[p].shown <= clock
      BY DEF OwnerInv, ClocksOK, InTime
    <3>3. clock + LeaseDuration > disp[p].shown + RefreshTime
      BY <1>4, <3>2, BoundFacts DEF KeepsUp
    <3> QED
      BY <1>6, <1>8, <2>2, <2>6, <3>1, <3>3 DEF Leases
  <2> QED
    BY <2>1, <2>4, <2>5, <2>6
<1>13. EarlyReserved'
  <2> SUFFICES ASSUME NEW q \in Procs, up'[q], disp'[q].pc \in Early
               PROVE  Reserved(q, Thread(q))'
    BY DEF EarlyReserved
  <2>1. CASE q = p
    <3>1. Thread(p)' = t
      BY <1>1, <1>8 DEF Thread
    <3>2. Sole(p, t)'
      BY <1>2, <1>3 DEF Sole
    <3>3. disp[p].shown <= clock
      BY DEF OwnerInv, ClocksOK, InTime
    <3>4. clock <= clock + DispatchTime
          /\ clock + LeaseDuration >= clock + LeaseDuration
      BY <1>4, BoundFacts
    <3>5. Reserved(p, t)'
      BY <1>3, <1>6, <1>8, <3>2, <3>3, <3>4 DEF Reserved
    <3> QED
      BY <2>1, <3>1, <3>5 DEF Reserved, Sole
  <2>2. CASE q # p
    <3>1. disp'[q] = disp[q] /\ up[q]
      BY <1>3, <1>9, <2>2
    <3>2. PICK s \in Threads : s = Thread(q)
      BY <3>1, EarlyRowFacts
    <3>3. Reserved(q, s) /\ s # t /\ Thread(q)' = s
      BY <1>2, <2>2, <3>1, <3>2 DEF OwnerInv, EarlyReserved, Thread
    <3>4. tlease'[s] = tlease[s]
      BY <1>7, <3>1, <3>3, CoverIsAlive
    <3>5. Reserved(q, s)'
      BY <1>3, <3>1, <3>3, <3>4 DEF Reserved, Sole
    <3> QED
      BY <3>3, <3>5 DEF Reserved, Sole
  <2> QED
    BY <2>1, <2>2
<1>14. ReleaseShown'
  <2> SUFFICES ASSUME NEW q \in Procs, up'[q], disp'[q].pc = "release",
                      <<q, Thread(q)'>> \in loaded'
               PROVE  Shows(q, Thread(q))'
    BY DEF ReleaseShown
  <2>1. q # p /\ disp'[q] = disp[q]
    BY <1>8, <1>9
  <2>2. Thread(q)' = Thread(q)
    BY <2>1 DEF Thread
  <2>3. Shows(q, Thread(q))
    BY <1>3, <2>1, <2>2 DEF OwnerInv, ReleaseShown
  <2> QED
    BY <1>3, <2>1, <2>2, <2>3 DEF Shows
<1> QED
  BY <1>10, <1>11, <1>12, <1>13, <1>14 DEF OwnerInv

-----------------------------------------------------------------------------
(* The load of a reserved target, when the resume works or fails halfway.   *)

LEMMA LoadKeeps ==
    ASSUME KeepsUp, SystemInv, OwnerInv, NEW p \in Procs,
           At(p, "resuming"), loaded' = loaded \cup {<<p, Thread(p)>>},
           UNCHANGED <<up, clock, tlease>>,
           \A s \in Threads \ {Thread(p)} : session'[s] = session[s],
           session'[Thread(p)].last_seen <= clock,
           NEW row, disp' = [disp EXCEPT ![p] = row],
           row.shown = disp[p].shown, row.fresh = disp[p].fresh,
           row.pc \notin Early, row.pc # "release"
    PROVE  OwnerInv'
<1>1. up[p] /\ disp[p].pc \in Early
  BY DEF At, Early
<1>2. PICK t \in Threads : t = Thread(p)
  BY <1>1, EarlyRowFacts
<1>3. Reserved(p, t) /\ loaded' = loaded \cup {<<p, t>>}
  BY <1>1, <1>2 DEF OwnerInv, EarlyReserved
<1>4. disp'[p] = row /\ \A q \in Procs \ {p} : disp'[q] = disp[q]
  BY DEF SystemInv, LoopsOK
<1>5. ASSUME NEW q \in Procs
      PROVE  disp'[q].shown = disp[q].shown /\ disp'[q].fresh = disp[q].fresh
  BY <1>4
<1>6. /\ disp[p].shown \in Nat /\ disp[p].since \in Nat
      /\ tlease[t].lease_expires_at \in Nat
  BY RowFacts, CoverFacts
<1>7. Leases(p, t)
  BY <1>3, <1>6, BoundFacts DEF Leases, Reserved, KeepsUp
<1>8. ASSUME NEW q \in Procs, NEW s \in Threads, Sole(q, s),
             s # t \/ q = p
      PROVE  Sole(q, s)'
  BY <1>3, <1>8 DEF Sole
<1>9. Sole(p, t)
  BY <1>3 DEF Reserved
<1>10. MemoryOK' /\ SessionsPast'
  BY <1>2, <1>3 DEF OwnerInv, MemoryOK, SessionsPast
<1>11. ClocksOK'
  BY <1>5 DEF OwnerInv, ClocksOK, InTime
<1>12. LoadedCovered'
  <2> SUFFICES ASSUME NEW q \in Procs, NEW s \in Threads, <<q, s>> \in loaded'
               PROVE  up'[q] /\ Sole(q, s)' /\ (Shows(q, s)' \/ Leases(q, s)')
    BY DEF LoadedCovered
  <2>1. (q = p /\ s = t) \/ <<q, s>> \in loaded
    BY <1>3
  <2>2. up[q] /\ Sole(q, s) /\ (Shows(q, s) \/ Leases(q, s))
    BY <1>1, <1>7, <1>9, <2>1 DEF OwnerInv, LoadedCovered
  <2>3. s # t \/ q = p
    BY <1>9, <2>1 DEF Sole
  <2>4. Sole(q, s)'
    BY <1>8, <2>2, <2>3
  <2>5. Shows(q, s)' \/ Leases(q, s)'
    <3>1. CASE s = t
      BY <1>5, <1>7, <2>3, <3>1 DEF Leases
    <3>2. CASE s # t
      BY <1>2, <1>5, <2>2, <3>2 DEF Shows, Leases
    <3> QED
      BY <3>1, <3>2
  <2> QED
    BY <2>2, <2>4, <2>5
<1>13. EarlyReserved'
  <2> SUFFICES ASSUME NEW q \in Procs, up'[q], disp'[q].pc \in Early
               PROVE  Reserved(q, Thread(q))'
    BY DEF EarlyReserved
  <2>1. q # p /\ disp'[q] = disp[q] /\ up[q]
    BY <1>4
  <2>2. PICK s \in Threads : s = Thread(q)
    BY <2>1, EarlyRowFacts
  <2>3. Reserved(q, s) /\ Thread(q)' = s
    BY <2>1, <2>2 DEF OwnerInv, EarlyReserved, Thread
  <2>4. s # t
    BY <1>3, <2>1, <2>3 DEF Reserved
  <2>5. Sole(q, s)'
    BY <1>8, <2>3, <2>4 DEF Reserved
  <2>6. Reserved(q, s)'
    BY <2>1, <2>3, <2>5 DEF Reserved
  <2> QED
    BY <2>3, <2>6 DEF Reserved, Sole
<1>14. ReleaseShown'
  <2> SUFFICES ASSUME NEW q \in Procs, up'[q], disp'[q].pc = "release",
                      <<q, Thread(q)'>> \in loaded'
               PROVE  Shows(q, Thread(q))'
    BY DEF ReleaseShown
  <2>1. q # p /\ disp'[q] = disp[q]
    BY <1>4
  <2>2. Thread(q)' = Thread(q)
    BY <2>1 DEF Thread
  <2>3. <<q, Thread(q)>> \in loaded
    BY <1>3, <2>1, <2>2
  <2>4. Shows(q, Thread(q))
    BY <2>1, <2>3 DEF OwnerInv, ReleaseShown
  <2>5. Thread(q) \in Threads /\ Thread(q) # t
    BY <1>9, <2>1, <2>3 DEF Sole, OwnerInv, MemoryOK
  <2> QED
    BY <1>2, <2>1, <2>2, <2>4, <2>5 DEF Shows
<1> QED
  BY <1>10, <1>11, <1>12, <1>13, <1>14 DEF OwnerInv

LEMMA ResumeKeeps ==
    ASSUME KeepsUp, SystemInv, OwnerInv, NEW p \in Procs,
           Resume(p) \/ ResumeFails(p)
    PROVE  OwnerInv'
<1>1. LoopsOK /\ MemoryOK /\ disp[p] \in LoopRow
  BY RowFacts DEF SystemInv, OwnerInv
<1>2. /\ At(p, "resuming") /\ UNCHANGED <<up, clock, tlease>>
      /\ \/ loaded' = loaded /\ UNCHANGED session
         \/ loaded' = loaded \cup {<<p, Thread(p)>>}
  BY DEF Resume, ResumeFails, HeartbeatSession, storeVars
<1>8. Thread(p) \in Threads
  BY <1>2, EarlyRowFacts DEF At, Early
<1>9. /\ \A s \in Threads \ {Thread(p)} : session'[s] = session[s]
      /\ session'[Thread(p)].last_seen <= clock
  <2> DEFINE t == Thread(p)
  <2>1. session \in [Threads -> SessionRow] /\ session[t].last_seen <= clock
        /\ clock \in Nat
    BY <1>8 DEF SystemInv, StoreInv, TypeOK, OwnerInv, SessionsPast
  <2>2. CASE UNCHANGED session
    BY <2>1, <2>2
  <2>3. CASE HeartbeatSession(p, t, clock)
    <3>1. session' = [session EXCEPT ![t] = Shown(p, t, {t}, clock)]
      BY <2>3 DEF HeartbeatSession
    <3>2. Shown(p, t, {t}, clock).last_seen <= clock
      BY <2>1 DEF Shown
    <3> QED
      BY <1>8, <2>1, <3>1, <3>2
  <2> QED
    BY <2>2, <2>3 DEF Resume, ResumeFails, storeVars
<1>3. Go(p, "enqueue") \/ Retry(p, NULL) \/ Retry(p, clock + RetryDelay)
  BY DEF Resume, ResumeFails, DelayedRetry
<1>4. "enqueue" \notin Early /\ "failing" \notin Early
  BY DEF Early
<1>5. PICK row : /\ disp' = [disp EXCEPT ![p] = row]
                 /\ QuietLoop(disp[p], row)
                 /\ row.shown = disp[p].shown /\ row.fresh = disp[p].fresh
                 /\ row.pc \notin Early /\ row.pc # "release"
  <2>1. ASSUME Go(p, "enqueue")
        PROVE  \E row : /\ disp' = [disp EXCEPT ![p] = row]
                        /\ row.shown = disp[p].shown
                        /\ row.fresh = disp[p].fresh
                        /\ row.pc = "enqueue"
    <3> DEFINE row == [disp[p] EXCEPT !.pc = "enqueue"]
    <3>1. disp' = [disp EXCEPT ![p] = row]
      BY <1>1, <2>1 DEF Go, LoopsOK
    <3>2. /\ row.shown = disp[p].shown /\ row.fresh = disp[p].fresh
          /\ row.pc = "enqueue"
      BY <1>1 DEF LoopRow
    <3> HIDE DEF row
    <3> QED
      BY <3>1, <3>2
  <2>2. ASSUME NEW at, Retry(p, at)
        PROVE  \E row : /\ disp' = [disp EXCEPT ![p] = row]
                        /\ row.shown = disp[p].shown
                        /\ row.fresh = disp[p].fresh
                        /\ row.pc = "failing"
    <3> DEFINE row == [disp[p] EXCEPT !.pc = "failing", !.next = at]
    <3>1. disp' = [disp EXCEPT ![p] = row]
      BY <1>1, <2>2 DEF Retry, LoopsOK
    <3>2. /\ row.shown = disp[p].shown /\ row.fresh = disp[p].fresh
          /\ row.pc = "failing"
      BY <1>1 DEF LoopRow
    <3> HIDE DEF row
    <3> QED
      BY <3>1, <3>2
  <2> QED
    BY <1>3, <1>4, <2>1, <2>2 DEF QuietLoop
<1>6. CASE loaded' = loaded /\ UNCHANGED session
  <2>1. QuietStep
    BY <1>1, <1>2, <1>5, <1>6, OneLoopQuiet
  <2> QED
    BY <2>1, QuietKeeps
<1>7. CASE loaded' = loaded \cup {<<p, Thread(p)>>}
  BY <1>2, <1>5, <1>7, <1>9, LoadKeeps
<1> QED
  BY <1>2, <1>6, <1>7

-----------------------------------------------------------------------------
(* The release of the dispatch lease: the session row is there already.     *)

LEMMA ReleaseKeeps ==
    ASSUME KeepsUp, SystemInv, OwnerInv, NEW p \in Procs, Release(p)
    PROVE  OwnerInv'
<1>1. LoopsOK /\ up[p] /\ disp[p].pc = "release"
  BY DEF SystemInv, Release, At
<1>2. PICK t \in Threads : t = Thread(p)
  BY <1>1, EarlyRowFacts
<1>3. UNCHANGED <<up, loaded, session, clock>>
  BY DEF Release, Rest, ReleaseTarget, storeVars
<1>4. ASSUME NEW s \in Threads
      PROVE  tlease'[s] = tlease[s] \/ (s = t /\ tlease[t].owner = p)
  BY <1>2 DEF Release, ReleaseTarget, storeVars, SystemInv, StoreInv, TypeOK
<1>5. PICK row : /\ disp' = [disp EXCEPT ![p] = row]
                 /\ row.shown = disp[p].shown
                 /\ row.fresh \in {disp[p].fresh, 0}
                 /\ row.pc \notin Early /\ row.pc # "release"
  <2> DEFINE d == disp[p]
             idle == IdleLoop(d.shown)
             next == ClaimLoop(d.fresh, d.left - 1, d.shown)
             Good(r) == /\ r.shown = d.shown /\ r.fresh \in {d.fresh, 0}
                        /\ r.pc \notin Early /\ r.pc # "release"
  <2>1. Good(idle) /\ Good(next)
    BY DEF IdleLoop, ClaimLoop, Unclaiming, Early
  <2>2. \/ disp' = [disp EXCEPT ![p] = idle]
        \/ disp' = [disp EXCEPT ![p] = next]
    BY DEF Release, NextClaim
  <2> HIDE DEF idle, next
  <2> QED
    BY <2>1, <2>2
<1>6. disp'[p] = row /\ \A q \in Procs \ {p} : disp'[q] = disp[q]
  BY <1>1, <1>5 DEF LoopsOK
<1>7. MemoryOK' /\ SessionsPast'
  BY <1>3 DEF OwnerInv, MemoryOK, SessionsPast
<1>8. ClocksOK'
  <2> SUFFICES ASSUME NEW q \in Procs PROVE InTime(q)'
    BY DEF ClocksOK
  <2>1. InTime(q)
    BY DEF OwnerInv, ClocksOK
  <2>2. /\ disp'[q].shown = disp[q].shown
        /\ disp'[q].fresh = disp[q].fresh \/ disp'[q].fresh = 0
    BY <1>5, <1>6
  <2> QED
    BY <1>3, <2>1, <2>2 DEF InTime
<1>9. LoadedCovered'
  <2> SUFFICES ASSUME NEW q \in Procs, NEW s \in Threads, <<q, s>> \in loaded
               PROVE  up'[q] /\ Sole(q, s)' /\ (Shows(q, s)' \/ Leases(q, s)')
    BY <1>3 DEF LoadedCovered
  <2>1. up[q] /\ Sole(q, s) /\ (Shows(q, s) \/ Leases(q, s))
    BY DEF OwnerInv, LoadedCovered
  <2>2. up'[q] /\ Sole(q, s)'
    BY <1>3, <2>1 DEF Sole
  <2>3. disp'[q].shown = disp[q].shown
    BY <1>5, <1>6
  <2>4. CASE Shows(q, s)
    BY <1>3, <2>2, <2>3, <2>4 DEF Shows
  <2>5. CASE Leases(q, s) /\ tlease'[s] = tlease[s]
    BY <2>2, <2>3, <2>5 DEF Leases
  <2>6. CASE Leases(q, s) /\ tlease'[s] # tlease[s]
    <3>1. s = t /\ q = p
      BY <1>4, <2>6 DEF Leases
    <3>2. Shows(q, s)
      BY <1>1, <1>2, <3>1 DEF OwnerInv, ReleaseShown
    <3> QED
      BY <2>4, <3>2
  <2> QED
    BY <2>1, <2>4, <2>5, <2>6
<1>10. EarlyReserved'
  <2> SUFFICES ASSUME NEW q \in Procs, up'[q], disp'[q].pc \in Early
               PROVE  Reserved(q, Thread(q))'
    BY DEF EarlyReserved
  <2>1. q # p /\ disp'[q] = disp[q] /\ up[q]
    BY <1>3, <1>5, <1>6
  <2>2. PICK s \in Threads : s = Thread(q)
    BY <2>1, EarlyRowFacts
  <2>3. Reserved(q, s) /\ Thread(q)' = s
    BY <2>1, <2>2 DEF OwnerInv, EarlyReserved, Thread
  <2>4. tlease'[s] = tlease[s]
    BY <1>4, <2>1, <2>3 DEF Reserved
  <2>5. Reserved(q, s)'
    BY <1>3, <2>1, <2>3, <2>4 DEF Reserved, Sole
  <2> QED
    BY <2>3, <2>5 DEF Reserved, Sole
<1>11. ReleaseShown'
  <2> SUFFICES ASSUME NEW q \in Procs, up'[q], disp'[q].pc = "release",
                      <<q, Thread(q)'>> \in loaded'
               PROVE  Shows(q, Thread(q))'
    BY DEF ReleaseShown
  <2>1. q # p /\ disp'[q] = disp[q]
    BY <1>5, <1>6
  <2>2. Thread(q)' = Thread(q)
    BY <2>1 DEF Thread
  <2>3. Shows(q, Thread(q))
    BY <1>3, <2>1, <2>2 DEF OwnerInv, ReleaseShown
  <2> QED
    BY <1>3, <2>1, <2>2, <2>3 DEF Shows
<1> QED
  BY <1>7, <1>8, <1>9, <1>10, <1>11 DEF OwnerInv

(* The clock advances only while every dispatcher is punctual.              *)
LEMMA TimeKeeps ==
    ASSUME SystemInv, OwnerInv, TimePasses
    PROVE  OwnerInv'
<1>1. UNCHANGED <<up, disp, loaded, tlease, session>> /\ clock' = clock + 1
  BY DEF TimePasses, Advance, dispatchVars
<1>2. clock \in Nat
  BY DEF SystemInv, StoreInv, TypeOK
<1>3. MemoryOK'
  BY <1>1 DEF OwnerInv, MemoryOK
<1>4. SessionsPast'
  <2> SUFFICES ASSUME NEW t \in Threads PROVE session'[t].last_seen <= clock'
    BY DEF SessionsPast
  <2>1. session[t].last_seen <= clock /\ session[t].last_seen \in Nat
    BY CoverFacts DEF OwnerInv, SessionsPast
  <2> QED
    BY <1>1, <1>2, <2>1
<1>5. ClocksOK'
  <2> SUFFICES ASSUME NEW p \in Procs PROVE InTime(p)'
    BY DEF ClocksOK
  <2>1. InTime(p) /\ Punctual(p)
    BY DEF OwnerInv, ClocksOK, TimePasses
  <2>2. disp[p].fresh \in Nat /\ disp[p].shown \in Nat
    BY RowFacts
  <2>3. /\ \/ disp[p].fresh = 0
           \/ disp[p].fresh + StaleAfter <= clock + 1
        /\ disp[p].shown <= clock + 1
    BY <1>2, <2>1, <2>2, BoundFacts DEF InTime
  <2>4. ASSUME up[p] PROVE clock + 1 <= disp[p].shown + RefreshTime
    BY <1>2, <2>1, <2>2, <2>4, BoundFacts DEF Punctual
  <2> QED
    BY <1>1, <2>3, <2>4 DEF InTime
<1>6. LoadedCovered'
  BY <1>1 DEF OwnerInv, LoadedCovered, Sole, Shows, Leases
<1>7. EarlyReserved'
  <2> SUFFICES ASSUME NEW p \in Procs, up[p], disp[p].pc \in Early
               PROVE  Reserved(p, Thread(p))'
    BY <1>1 DEF EarlyReserved
  <2>1. Reserved(p, Thread(p))
    BY DEF OwnerInv, EarlyReserved
  <2>2. disp[p].m # NULL /\ disp[p].since \in Nat
    BY EarlyRowFacts, RowFacts, SystemFacts
  <2>3. clock < disp[p].since + DispatchTime
    BY <2>2 DEF TimePasses, Punctual
  <2>4. clock + 1 <= disp[p].since + DispatchTime
    BY <1>2, <2>2, <2>3, BoundFacts
  <2>5. Thread(p)' = Thread(p)
    BY <1>1 DEF Thread
  <2> QED
    BY <1>1, <2>1, <2>4, <2>5 DEF Reserved, Sole
<1>8. ReleaseShown'
  BY <1>1 DEF OwnerInv, ReleaseShown, Shows, Thread
<1> QED
  BY <1>3, <1>4, <1>5, <1>6, <1>7, <1>8 DEF OwnerInv

-----------------------------------------------------------------------------
LEMMA OwnerInit ==
    ASSUME KeepsUp, SystemInit PROVE OwnerInv
<1>1. loaded = {} /\ clock = 0 /\ up = [p \in Procs |-> TRUE]
  BY DEF SystemInit, KeepsUp, Init
<1>2. ASSUME NEW p \in Procs
      PROVE  disp[p].pc = "idle" /\ disp[p].fresh = 0 /\ disp[p].shown = 0
  BY IdleFields DEF SystemInit
<1>3. MemoryOK /\ LoadedCovered /\ ReleaseShown
  BY <1>1 DEF MemoryOK, LoadedCovered, ReleaseShown
<1>4. SessionsPast
  BY <1>1 DEF SystemInit, Init, NoSession, SessionsPast
<1>5. ClocksOK
  BY <1>1, <1>2, BoundFacts DEF ClocksOK, InTime
<1>6. EarlyReserved
  BY <1>2 DEF EarlyReserved, Early
<1> QED
  BY <1>3, <1>4, <1>5, <1>6 DEF OwnerInv

LEMMA NoneCloses ==
    ASSUME KeepsUp, NoneClosing, [SystemNext]_vars
    PROVE  NoneClosing'
<1>1. ASSUME NEW p \in Procs,
             \/ DispatchStep(p) \/ LostReply(p) \/ GiveUp(p)
             \/ TickError(p) \/ AdvertiseFails(p) \/ Restart(p)
      PROVE  UNCHANGED closing
  BY <1>1 DEF DispatchStep, TickBegin, TickEnd, TickClaim, Lookup, Resume,
              ResumeFails, Enqueue, DeliveryFails, Transition, Advertise,
              Release, LostReply, GiveUp, TickError, AdvertiseFails, Restart,
              Rest
<1>2. ASSUME NEW p \in Procs, Crash(p) PROVE NoneClosing'
  BY <1>2 DEF Crash, NoneClosing
<1>3. ASSUME NEW p \in Procs, NEW t \in Threads,
             \/ TurnStep(p, t) \/ Wake(p, t) \/ WakeGivesUp(p, t)
             \/ UserTurn(p, t)
      PROVE  UNCHANGED closing
  BY <1>3 DEF TurnStep, Drain, TurnEnds, Wake, WakeGivesUp, UserTurn
<1>4. ASSUME NEW p \in Procs, NEW t \in Threads, Unload(p, t) PROVE FALSE
  BY <1>4 DEF Unload, UnloadBegin, UnloadComplete, UnloadFails, KeepsUp,
              NoneClosing
<1>5. ASSUME \/ \E m \in Messages, e \in Enqueues : EnqueueRequest(m, e)
             \/ \E m \in Messages, a \in Attempts : ClientClaim(m, a)
                                                    \/ ClientAnswer(m, a)
             \/ TimePasses \/ UNCHANGED vars
      PROVE  UNCHANGED closing
  BY <1>5 DEF EnqueueRequest, ClientClaim, ClientAnswer, TimePasses,
              dispatchVars, vars
<1> QED
  BY <1>1, <1>2, <1>3, <1>4, <1>5 DEF SystemNext, NoneClosing

LEMMA OwnerStep ==
    ASSUME KeepsUp, SystemInv, OwnerInv, NoneClosing, [SystemNext]_vars
    PROVE  OwnerInv'
<1>1. ASSUME NEW p \in Procs,
             \/ DispatchStep(p) \/ LostReply(p) \/ GiveUp(p)
             \/ TickError(p) \/ AdvertiseFails(p) \/ Crash(p) \/ Restart(p)
      PROVE  OwnerInv'
  <2>1. CASE TickBegin(p) \/ Advertise(p)
    BY <2>1, RefreshKeeps
  <2>2. CASE TickEnd(p) \/ TickError(p)
    BY <2>2, QuietTick, QuietKeeps
  <2>3. CASE \E m \in Messages, a \in Attempts : TickClaim(p, m, a)
    BY <2>3, ClaimKeeps
  <2>4. CASE \/ Lookup(p) \/ DeliveryFails(p) \/ Enqueue(p)
             \/ Transition(p) \/ LostReply(p) \/ GiveUp(p)
             \/ AdvertiseFails(p)
    BY <2>4, QuietDispatch, QuietKeeps
  <2>5. CASE Resume(p) \/ ResumeFails(p)
    BY <2>5, ResumeKeeps
  <2>6. CASE Release(p)
    BY <2>6, ReleaseKeeps
  <2>7. CASE Crash(p) \/ Restart(p)
    BY <2>7, QuietCrash, QuietKeeps
  <2> QED
    BY <1>1, <2>1, <2>2, <2>3, <2>4, <2>5, <2>6, <2>7 DEF DispatchStep
<1>2. CASE UNCHANGED vars
  <2>1. QuietStep
    BY <1>2, StillQuiet DEF vars, dispatchVars, storeVars, OwnerInv
  <2> QED
    BY <2>1, QuietKeeps
<1>3. CASE SystemNext
  <2>1. ASSUME NEW p \in Procs, NEW t \in Threads,
               \/ TurnStep(p, t) \/ Wake(p, t) \/ WakeGivesUp(p, t)
               \/ UserTurn(p, t) \/ Unload(p, t)
        PROVE  OwnerInv'
    BY <2>1, QuietThread, QuietKeeps
  <2>2. ASSUME \/ \E m \in Messages, e \in Enqueues : EnqueueRequest(m, e)
               \/ \E m \in Messages, a \in Attempts : ClientClaim(m, a)
                                                      \/ ClientAnswer(m, a)
        PROVE  OwnerInv'
    BY <2>2, QuietRequest, QuietKeeps
  <2> QED
    BY <1>1, <1>3, <2>1, <2>2, TimeKeeps DEF SystemNext
<1> QED
  BY <1>2, <1>3

LEMMA SoleOwner ==
    ASSUME OwnerInv PROVE OneOwnerPerThread
<1> SUFFICES ASSUME NEW t \in Threads
             PROVE  Cardinality({p \in Procs : <<p, t>> \in loaded}) <= 1
  BY DEF OneOwnerPerThread
<1> DEFINE owners == {p \in Procs : <<p, t>> \in loaded}
<1>1. CASE owners = {}
  <2>1. Cardinality(owners) = 0
    BY <1>1, FS_EmptySet
  <2> QED
    BY <2>1
<1>2. CASE owners # {}
  <2>1. PICK p \in Procs : <<p, t>> \in loaded
    BY <1>2
  <2>2. Sole(p, t)
    BY <2>1 DEF OwnerInv, LoadedCovered
  <2>3. owners = {p}
    BY <2>1, <2>2 DEF Sole
  <2> HIDE DEF owners
  <2>4. Cardinality(owners) = 1
    BY <2>3, FS_Singleton
  <2> QED
    BY <2>4 DEF owners
<1> QED
  BY <1>1, <1>2

(***************************************************************************)
(* No thread runs twice: dispatchers that keep up with the clock never have*)
(* one thread loaded in two processes, however they crash, lose replies or *)
(* fail halfway through a resume, for any number of processes, threads and *)
(* messages, as long as no thread is being unloaded.  A loaded thread is   *)
(* covered at every moment by the dispatch lease of its process or by a    *)
(* session row that is not stale, because dispatch_claim refreshes before  *)
(* it releases.                                                            *)
(***************************************************************************)
THEOREM OneOwner ==
    ASSUME Times = Nat, KeepsUp PROVE SystemSpec => []OneOwnerPerThread
<1>1. SystemInit => SystemInv /\ OwnerInv /\ NoneClosing
  BY SystemInitInv, OwnerInit DEF SystemInit, NoneClosing
<1>2. SystemInv /\ OwnerInv /\ NoneClosing /\ [SystemNext]_vars
         => SystemInv' /\ OwnerInv' /\ NoneClosing'
  BY SystemStep, OwnerStep, NoneCloses
<1>3. OwnerInv => OneOwnerPerThread
  BY SoleOwner
<1> QED
  BY <1>1, <1>2, <1>3, PTL DEF SystemSpec

==============================================================================
