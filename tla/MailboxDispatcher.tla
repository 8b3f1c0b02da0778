-------------------------- MODULE MailboxDispatcher --------------------------
(***************************************************************************)
(* The mailbox dispatchers of the processes that share the state database  *)
(* (app-server/src/request_processors/thread_mailbox_dispatcher_runtime.rs)*)
(* the thread/mailbox requests of clients, and as much of the target       *)
(* threads as delivery touches: the in-memory queue a delivered message    *)
(* waits in (core/src/session/input_queue.rs) and the turns that drain it. *)
(*                                                                         *)
(* A copy of a message in memory is identified by the attempt that         *)
(* enqueued it, because an attempt enqueues at most once.                  *)
(***************************************************************************)
EXTENDS MailboxStore, FiniteSets

CONSTANTS
    Control,             \* messages of kind control
    ClientMessages,      \* messages clients claim by hand
    Crashable,           \* processes that may crash
    LoadedAtStart,       \* <<process, thread>> pairs loaded by a client
    UserTurns,           \* may a user start turns on loaded threads
    MayUnload,           \* may idle threads be unloaded
    MayRefuse,           \* may the task policy refuse a turn
    LeaseDuration,       \* MAILBOX_DISPATCH_LEASE_DURATION
    RetryDelay,          \* MAILBOX_DISPATCH_RETRY_DELAY_SECONDS
    StaleAfter,          \* MAILBOX_LOCAL_ACTIVE_SESSION_STALE_AFTER
    MaxClaimsPerTick,    \* MAX_MAILBOX_DISPATCH_CLAIMS_PER_TICK
    Enqueues,            \* [next, expires] of enqueue requests
    DispatchTime,        \* longest time a dispatch may take
    RefreshTime,         \* longest time between two session refreshes
    MaxClock,            \* bound: wall-clock time
    MaxCrashes,          \* bound: crashes
    LastCrash,           \* bound: time of the last crash
    LastEnqueue,         \* bound: time of the last enqueue request
    MaxDbErrors          \* bound: database calls that fail

ASSUME DispatcherAssumption ==
    /\ Control \subseteq Messages /\ ClientMessages \subseteq Messages
    /\ Crashable \subseteq Procs
    /\ LoadedAtStart \subseteq Procs \X Threads
    /\ {UserTurns, MayUnload, MayRefuse} \subseteq BOOLEAN
    /\ {LeaseDuration, RetryDelay, MaxClaimsPerTick} \subseteq Nat \ {0}
    /\ {StaleAfter, DispatchTime, RefreshTime, MaxClock, MaxCrashes,
        LastCrash, LastEnqueue, MaxDbErrors} \subseteq Nat
    /\ \A e \in Enqueues : e.next \in Nat /\ e.expires \in Nat \cup {NULL}

VARIABLES
    up,        \* processes that are running
    disp,      \* the dispatcher loop of each process
    loaded,    \* <<p, t>>: thread t is loaded in process p
    closing,   \* <<p, t>>: and is being unloaded (pending_thread_unloads)
    busy,      \* <<p, t>>: and has a turn running
    inbox,     \* copies waiting in memory, per process
    wakes,     \* <<p, t>>: a pending-work wake task runs
    consumed,  \* copies drained into the thread's persisted history
    stranded,  \* copies left in memory with nobody to wake their thread
    crashes,   \* crashes so far
    dbErrors   \* failed database calls so far

dispatchVars == <<up, disp, loaded, closing, busy, inbox, wakes, consumed,
                  stranded, crashes, dbErrors>>
vars == <<storeVars, dispatchVars>>

-----------------------------------------------------------------------------
(* next: retry time of a failed dispatch, NULL for a terminal failure.      *)
(* since: when the claim in progress was made; shown: the last refresh.     *)
Unclaiming(pc, fresh, left, shown) ==
    [pc |-> pc, fresh |-> fresh, left |-> left, m |-> NULL, a |-> NULL,
     next |-> NULL, since |-> 0, shown |-> shown]
IdleLoop(shown) == Unclaiming("idle", 0, 0, shown)
ClaimLoop(fresh, left, shown) == Unclaiming("claiming", fresh, left, shown)

At(p, pc) == up[p] /\ disp[p].pc = pc
Thread(p) == TargetOf[disp[p].m]
Go(p, pc) == disp' = [disp EXCEPT ![p].pc = pc]

(* The claim is dealt with: the next of the tick, or the end of the tick.   *)
NextClaim(p, d) ==
    disp' = [disp EXCEPT ![p] =
      IF d.left = 1 THEN IdleLoop(d.shown)
      ELSE ClaimLoop(d.fresh, d.left - 1, d.shown)]

Retry(p, at) ==
    disp' = [disp EXCEPT ![p].pc = "failing", ![p].next = at]

DelayedRetry(p) == Retry(p, clock + RetryDelay)

Rest == UNCHANGED <<up, loaded, closing, busy, inbox, wakes, consumed,
                    stranded, crashes, dbErrors>>

(* The directory of live threads leaves out those that are being unloaded.  *)
LiveIn(p) == {t \in Threads : <<p, t>> \in loaded \ closing}
FreshAfter(now) == IF now >= StaleAfter THEN now - StaleAfter ELSE 0

(* mailbox_delivery_mode *)
Triggers(m) == Policy[m] = "resume" \/ (Policy[m] = "live" /\ m \notin Control)
Waiting(p, t) == {a \in inbox[p] : TargetOf[attempt[a].message_id] = t}
WakeWorthy(p, t) == \E a \in Waiting(p, t) : Triggers(attempt[a].message_id)

DbError == dbErrors < MaxDbErrors /\ dbErrors' = dbErrors + 1

-----------------------------------------------------------------------------
(* The tick *)

TickBegin(p) ==
    /\ At(p, "idle")
    /\ ShowSessions(p, LiveIn(p), clock)
    /\ disp' = [disp EXCEPT ![p] =
         ClaimLoop(FreshAfter(clock), MaxClaimsPerTick, clock)]
    /\ Rest

TickClaim(p, m, a) ==
    /\ At(p, "claiming")
    /\ ClaimForDispatch(p, m, a, clock, disp[p].fresh, LeaseDuration)
    /\ disp' = [disp EXCEPT ![p].pc = "lookup", ![p].m = m, ![p].a = a,
                            ![p].since = clock]
    /\ Rest

(* The refresh or the claim fails: a warning; the latter ends the tick.     *)
TickError(p) ==
    /\ DbError
    /\ \/ /\ At(p, "idle")
          /\ disp' = [disp EXCEPT ![p] =
               ClaimLoop(FreshAfter(clock), MaxClaimsPerTick, disp[p].shown)]
       \/ /\ At(p, "claiming")
          /\ disp' = [disp EXCEPT ![p] = IdleLoop(disp[p].shown)]
    /\ UNCHANGED <<up, loaded, closing, busy, inbox, wakes, consumed, stranded,
                   crashes, storeVars>>

TickEnd(p) ==
    /\ At(p, "claiming")
    /\ \/ DispatchNothing(p, clock, disp[p].fresh)
       \/ /\ FreshIds = {}     \* the bound on attempts
          /\ ForDispatch(p, clock, disp[p].fresh) # {}
          /\ UNCHANGED storeVars
    /\ disp' = [disp EXCEPT ![p] = IdleLoop(disp[p].shown)]
    /\ Rest

-----------------------------------------------------------------------------
(* deliver_claim *)

Lookup(p) ==
    /\ At(p, "lookup")
    /\ \/ Thread(p) \in LiveIn(p) /\ Go(p, "enqueue")
       \/ /\ Thread(p) \notin LiveIn(p) /\ Policy[disp[p].m] = "resume"
          /\ Go(p, "resuming")
    /\ Rest /\ UNCHANGED storeVars

(* The target is not live, its queue is full or the directory cannot be     *)
(* read: try again later.                                                   *)
DeliveryFails(p) ==
    /\ \/ At(p, "lookup") \/ At(p, "enqueue")
    /\ DelayedRetry(p)
    /\ Rest /\ UNCHANGED storeVars

(* resume_mailbox_target loads the thread from its rollout, if it is not    *)
(* loaded, and starts its listener, which shows the thread as live as far   *)
(* as the database allows ...                                               *)
Resume(p) ==
    /\ At(p, "resuming")
    /\ <<p, Thread(p)>> \notin closing
    /\ loaded' = loaded \cup {<<p, Thread(p)>>}
    /\ \/ HeartbeatSession(p, Thread(p), clock) /\ UNCHANGED dbErrors
       \/ DbError /\ UNCHANGED storeVars
    /\ Go(p, "enqueue")
    /\ UNCHANGED <<up, closing, busy, inbox, wakes, consumed, stranded, crashes>>

(* ... or fails: for good, until an auth profile is available, or for now,  *)
(* because the thread is being unloaded, or with the thread loaded when only*)
(* its listener could not be started.                                       *)
ResumeFails(p) ==
    /\ At(p, "resuming")
    /\ \/ /\ <<p, Thread(p)>> \notin loaded
          /\ Retry(p, NULL) /\ UNCHANGED loaded
       \/ /\ DelayedRetry(p)
          /\ loaded' \in {loaded, loaded \cup {<<p, Thread(p)>>}}
    /\ UNCHANGED <<up, closing, busy, inbox, wakes, consumed, stranded, crashes,
                   dbErrors, storeVars>>

(* enqueue_for_pending_work: only into memory, and without waking anyone.   *)
Enqueue(p) ==
    /\ At(p, "enqueue")
    /\ Thread(p) \in LiveIn(p)
    /\ inbox' = [inbox EXCEPT ![p] = @ \cup {disp[p].a}]
    /\ Go(p, "acking")
    /\ UNCHANGED <<up, loaded, closing, busy, wakes, consumed, stranded, crashes,
                   dbErrors, storeVars>>

-----------------------------------------------------------------------------
(* dispatch_claim after the delivery *)

(* The durable transition succeeded: wake, then advertise the target.       *)
Woken(p, m) == IF Triggers(m) THEN {<<p, TargetOf[m]>>} ELSE {}

(* ack_dispatch_claim and fail_dispatch_claim: the write, if the claim still *)
(* holds, and the outcome that makes a repeated call succeed.               *)
Write(p) ==
    LET m == disp[p].m
        a == disp[p].a
    IN  IF At(p, "acking") THEN AckMessage(m, a)
        ELSE IF disp[p].next # NULL THEN FailForRetry(m, a, disp[p].next)
        ELSE FailTerminal(m, a)
Outcome(p) == IF At(p, "acking") THEN "acknowledged" ELSE "failed"
Writing(p) == At(p, "acking") \/ At(p, "failing")

Transition(p) ==
    LET m == disp[p].m
        a == disp[p].a
        holds == HoldsClaim(m, a)
    IN
    /\ Writing(p)
    /\ IF holds THEN Write(p) ELSE UNCHANGED storeVars
    /\ IF holds \/ attempt[a].status = Outcome(p)
       THEN /\ Go(p, "advertise")
            /\ wakes' = IF At(p, "acking") THEN wakes \cup Woken(p, m)
                        ELSE wakes
       ELSE NextClaim(p, disp[p]) /\ UNCHANGED wakes
    /\ UNCHANGED <<up, loaded, closing, busy, inbox, consumed, stranded, crashes,
                   dbErrors>>

(* The write commits but the call reports an error: it is repeated.         *)
LostReply(p) ==
    /\ Writing(p)
    /\ Write(p)
    /\ DbError
    /\ UNCHANGED <<up, disp, loaded, closing, busy, inbox, wakes, consumed,
                   stranded, crashes>>

(* Every repetition fails, although one of them may have committed: the     *)
(* leases are left to lapse, and nobody wakes the target for its copy.      *)
GiveUp(p) ==
    /\ Writing(p)
    /\ DbError
    /\ Write(p) \/ UNCHANGED storeVars
    /\ stranded' = IF At(p, "acking") THEN stranded \cup {disp[p].a}
                   ELSE stranded
    /\ NextClaim(p, disp[p])
    /\ UNCHANGED <<up, loaded, closing, busy, inbox, wakes, consumed, crashes>>

(* Show the target as live before its dispatch lease is released.           *)
Advertise_Late(p) ==  \* mutant: release without advertising
    /\ At(p, "advertise")
    /\ Go(p, "release")
    /\ Rest /\ UNCHANGED storeVars
Advertise(p) ==
    LET d == [disp[p] EXCEPT !.shown = clock] IN
    /\ At(p, "advertise")
    /\ ShowSessions(p, LiveIn(p), clock)
    /\ IF Thread(p) \in LiveIn(p)
       THEN disp' = [disp EXCEPT ![p].pc = "release", ![p].shown = clock]
       ELSE NextClaim(p, d)
    /\ Rest

AdvertiseFails(p) ==
    /\ At(p, "advertise")
    /\ DbError
    /\ NextClaim(p, disp[p])
    /\ UNCHANGED <<up, loaded, closing, busy, inbox, wakes, consumed, stranded,
                   crashes, storeVars>>

Release(p) ==
    /\ At(p, "release")
    /\ LET t == Thread(p) IN
       IF tlease[t].owner = p /\ tlease[t].lease_id = disp[p].a
       THEN ReleaseTarget(p, t, disp[p].a) ELSE UNCHANGED storeVars
    /\ NextClaim(p, disp[p])
    /\ Rest

-----------------------------------------------------------------------------
(* The target thread *)

ThreadRest == UNCHANGED <<up, disp, crashes, dbErrors, storeVars>>

(* The wake task: start a turn when the thread is idle and has work.        *)
Wake(p, t) ==
    /\ up[p] /\ <<p, t>> \in wakes
    /\ <<p, t>> \in loaded => <<p, t>> \notin busy
    /\ busy' = IF <<p, t>> \in loaded /\ WakeWorthy(p, t)
               THEN busy \cup {<<p, t>>} ELSE busy
    /\ wakes' = wakes \ {<<p, t>>}
    /\ UNCHANGED <<loaded, closing, inbox, consumed, stranded>> /\ ThreadRest

(* It tries a fixed number of times.  A turn that was running meanwhile     *)
(* looks for wake-worthy mail when it ends; when it was the task policy     *)
(* that refused the turn each time, the mail is left.                       *)
WakeGivesUp(p, t) ==
    /\ up[p] /\ <<p, t>> \in wakes
    /\ \/ <<p, t>> \in busy /\ UNCHANGED stranded
       \/ /\ MayRefuse /\ <<p, t>> \in loaded \ busy /\ WakeWorthy(p, t)
          /\ stranded' = stranded \cup Waiting(p, t)
    /\ wakes' = wakes \ {<<p, t>>}
    /\ UNCHANGED <<loaded, closing, busy, inbox, consumed>> /\ ThreadRest

UserTurn(p, t) ==
    /\ UserTurns /\ up[p] /\ <<p, t>> \in loaded \ busy
    /\ busy' = busy \cup {<<p, t>>}
    /\ UNCHANGED <<loaded, closing, inbox, wakes, consumed, stranded>>
    /\ ThreadRest

(* get_pending_input: a running turn drains whatever is queued.             *)
Drain(p, t) ==
    /\ up[p] /\ <<p, t>> \in busy /\ Waiting(p, t) # {}
    /\ consumed' = consumed \cup Waiting(p, t)
    /\ stranded' = stranded \ Waiting(p, t)
    /\ inbox' = [inbox EXCEPT ![p] = @ \ Waiting(p, t)]
    /\ UNCHANGED <<loaded, closing, busy, wakes>> /\ ThreadRest

(* The turn ends; wake-worthy mail starts the next one at once, unless the  *)
(* task policy refuses it.                                                  *)
TurnEnds_Idle(p, t) ==  \* mutant: mail that arrived late is not looked for
    /\ up[p] /\ <<p, t>> \in busy
    /\ busy' = busy \ {<<p, t>>}
    /\ UNCHANGED <<loaded, closing, inbox, wakes, consumed, stranded>>
    /\ ThreadRest
TurnEnds(p, t) ==
    /\ up[p] /\ <<p, t>> \in busy
    /\ \/ ~WakeWorthy(p, t) /\ UNCHANGED stranded
       \/ /\ MayRefuse /\ WakeWorthy(p, t)
          /\ stranded' = stranded \cup Waiting(p, t)
    /\ busy' = busy \ {<<p, t>>}
    /\ UNCHANGED <<loaded, closing, inbox, wakes, consumed>> /\ ThreadRest

(* unload_thread_without_subscribers: a pending unload takes an idle thread *)
(* out of the directory while it shuts down ...                             *)
UnloadBegin(p, t) ==
    /\ MayUnload /\ up[p] /\ <<p, t>> \in loaded \ (busy \cup closing)
    /\ closing' = closing \cup {<<p, t>>}
    /\ UNCHANGED <<loaded, busy, inbox, wakes, consumed, stranded>>
    /\ ThreadRest

(* ... and then it is gone, with what is queued in memory ...               *)
UnloadComplete(p, t) ==
    /\ up[p] /\ <<p, t>> \in closing
    /\ loaded' = loaded \ {<<p, t>>}
    /\ closing' = closing \ {<<p, t>>}
    /\ busy' = busy \ {<<p, t>>}
    /\ inbox' = [inbox EXCEPT ![p] = @ \ Waiting(p, t)]
    /\ stranded' = stranded \ Waiting(p, t)
    /\ UNCHANGED <<wakes, consumed>> /\ ThreadRest

(* ... or its shutdown cannot be submitted or takes too long: it is live    *)
(* again.                                                                   *)
UnloadFails(p, t) ==
    /\ up[p] /\ <<p, t>> \in closing
    /\ closing' = closing \ {<<p, t>>}
    /\ UNCHANGED <<loaded, busy, inbox, wakes, consumed, stranded>>
    /\ ThreadRest

Unload(p, t) == UnloadBegin(p, t) \/ UnloadComplete(p, t) \/ UnloadFails(p, t)

-----------------------------------------------------------------------------
(* Clients and the environment *)

EnqueueRequest(m, e) ==
    /\ clock <= LastEnqueue
    /\ EnqueueMessage(m, clock + e.next, e.expires)
    /\ UNCHANGED dispatchVars

(* thread/mailbox/claim, ack and fail.  A client answers when it likes.     *)
ClientClaim(m, a) ==
    /\ m \in ClientMessages
    /\ ClaimForTarget(m, a, clock, LeaseDuration)
    /\ UNCHANGED dispatchVars

ClientAnswer(m, a) ==
    /\ attempt[a].lease_owner = "client"
    /\ AckMessage(m, a) \/ FailTerminal(m, a) \/ FailForRetry(m, a, clock)
    /\ UNCHANGED dispatchVars

Crash(p) ==
    /\ p \in Crashable /\ up[p] /\ crashes < MaxCrashes /\ clock <= LastCrash
    /\ up' = [up EXCEPT ![p] = FALSE]
    /\ disp' = [disp EXCEPT ![p] = IdleLoop(0)]
    /\ loaded' = {l \in loaded : l[1] # p}
    /\ closing' = {l \in closing : l[1] # p}
    /\ busy' = {l \in busy : l[1] # p}
    /\ wakes' = {l \in wakes : l[1] # p}
    /\ inbox' = [inbox EXCEPT ![p] = {}]
    /\ stranded' = stranded \ inbox[p]
    /\ crashes' = crashes + 1
    /\ UNCHANGED <<consumed, dbErrors, storeVars>>

Restart(p) ==
    /\ ~up[p]
    /\ up' = [up EXCEPT ![p] = TRUE]
    /\ disp' = [disp EXCEPT ![p] = IdleLoop(clock)]
    /\ UNCHANGED <<loaded, closing, busy, inbox, wakes, consumed, stranded,
                   crashes, dbErrors, storeVars>>

(* A dispatch takes at most DispatchTime, and a running process refreshes   *)
(* its sessions at least every RefreshTime.                                 *)
Punctual(p) ==
    up[p] => /\ clock < disp[p].shown + RefreshTime
             /\ disp[p].m # NULL => clock < disp[p].since + DispatchTime
TimePasses ==
    /\ clock < MaxClock
    /\ \A p \in Procs : Punctual(p)
    /\ Advance(clock + 1)
    /\ UNCHANGED dispatchVars

-----------------------------------------------------------------------------
SystemInit ==
    /\ Init
    /\ up = [p \in Procs |-> TRUE]
    /\ disp = [p \in Procs |-> IdleLoop(0)]
    /\ loaded = LoadedAtStart
    /\ closing = {} /\ busy = {} /\ wakes = {}
    /\ consumed = {} /\ stranded = {}
    /\ inbox = [p \in Procs |-> {}]
    /\ crashes = 0 /\ dbErrors = 0

DispatchStep(p) ==
    \/ TickBegin(p) \/ TickEnd(p)
    \/ \E m \in Messages, a \in Attempts : TickClaim(p, m, a)
    \/ Lookup(p) \/ Resume(p) \/ ResumeFails(p)
    \/ Enqueue(p) \/ DeliveryFails(p)
    \/ Transition(p) \/ Advertise(p) \/ Release(p)

TurnStep(p, t) == Drain(p, t) \/ TurnEnds(p, t)

SystemNext ==
    \/ \E p \in Procs : \/ DispatchStep(p) \/ LostReply(p) \/ GiveUp(p)
                        \/ TickError(p)
                        \/ AdvertiseFails(p) \/ Crash(p) \/ Restart(p)
    \/ \E p \in Procs, t \in Threads :
          \/ TurnStep(p, t) \/ Wake(p, t) \/ WakeGivesUp(p, t)
          \/ UserTurn(p, t) \/ Unload(p, t)
    \/ \E m \in Messages, e \in Enqueues : EnqueueRequest(m, e)
    \/ \E m \in Messages, a \in Attempts : ClientClaim(m, a)
                                           \/ ClientAnswer(m, a)
    \/ TimePasses

SystemSpec == SystemInit /\ [][SystemNext]_vars

(***************************************************************************)
(* Fairness.  A running dispatcher polls and its dispatch goes on; wake    *)
(* tasks and turns run; a turn with mail drains it before it ends for good;*)
(* time passes.  Crashes, restarts, errors and requests are never owed.    *)
(***************************************************************************)
Fairness ==
    /\ \A p \in Procs : WF_vars(DispatchStep(p))
    /\ \A p \in Procs, t \in Threads :
          WF_vars(TurnStep(p, t)) /\ WF_vars(Wake(p, t))
    /\ WF_vars(TimePasses)

FairSpec == SystemSpec /\ Fairness

-----------------------------------------------------------------------------
(* Properties *)

(***************************************************************************)
(* Dispatchers do not run a thread twice: with no other way to load a      *)
(* thread, and while none is unloaded, at most one process has it loaded,  *)
(* because the target lease covers the resume and a fresh session row      *)
(* covers what follows, with no gap between them (dispatch_claim refreshes *)
(* before it releases).  A pending unload opens such a gap: the thread is  *)
(* still loaded, and stays so if its shutdown times out, but no longer     *)
(* shown.                                                                  *)
(***************************************************************************)
OneOwnerPerThread ==
    \A t \in Threads :
       Cardinality({p \in Procs : <<p, t>> \in loaded}) <= 1

(***************************************************************************)
(* Every message settles: however dispatches fail, crash or lose their     *)
(* leases, a message a dispatcher may claim is in the end acknowledged,    *)
(* failed, expired or poisoned.                                            *)
(***************************************************************************)
EveryMessageSettles ==
    \A m \in Messages :
       msg[m].status \in {"queued", "claimed"} ~> msg[m].status \in Settled

(* A dispatcher has acknowledged m, which asks for a turn.                  *)
AcknowledgedFor(m) ==
    /\ msg[m].status = "acknowledged" /\ Triggers(m)
    /\ attempt[msg[m].last_attempt_id].lease_owner # "client"

(***************************************************************************)
(* A message that a dispatcher acknowledges and that asks for a turn       *)
(* reaches the model: the wake after the acknowledgement, or the end of a  *)
(* turn that was running then, starts the turn that drains it.  It waits in*)
(* memory meanwhile, so a crash loses it; and it is left there, until some *)
(* other turn comes by, when the task policy refuses the turn, or when the *)
(* acknowledgement commits but every call of it reports an error, because  *)
(* dispatch_claim then returns before the wake.  Nothing else loses it     *)
(* (threads are not unloaded here).                                        *)
(***************************************************************************)
AcknowledgedIsConsumed ==
    \A m \in Messages :
       AcknowledgedFor(m) ~>
          crashes > 0 \/ msg[m].last_attempt_id \in consumed \cup stranded

==============================================================================
