---------------------------- MODULE MailboxStore ----------------------------
(***************************************************************************)
(* The durable thread mailbox: the tables of migrations 0046 and 0052 and  *)
(* the transactions of state/src/runtime/mailbox.rs, called by any number  *)
(* of dispatchers and clients in any order with any arguments.             *)
(*                                                                         *)
(* Every transaction is one step (BEGIN IMMEDIATE, retried from its first  *)
(* statement when the database is busy).  A claim makes one lease id and   *)
(* one attempt id, both fresh; the model uses one identifier for both.  A  *)
(* message is its idempotency key: enqueuing it again returns the row that *)
(* exists and changes nothing.                                             *)
(***************************************************************************)
EXTENDS Integers, Sequences

CONSTANTS
    NULL,          \* Option::None
    Messages,      \* messages, one per (target, idempotency key)
    Threads,       \* target threads
    Attempts,      \* attempt / lease ids, naturals issued in order
    Procs,         \* app-server processes (local_active_owner_id)
    Times,         \* the moments and durations callers can name
    TargetOf,      \* target_thread_id of each message
    Policy,        \* delivery policy parsed from each message's payload;
                   \* "manual" when the claim filter finds none in it
    Priority,      \* priority of each message
    MaxAttempts    \* max_attempts of each message

ASSUME MailboxAssumption ==
    /\ Attempts \subseteq Nat
    /\ Times \subseteq Nat
    /\ NULL \notin Nat \cup Messages \cup Threads \cup Procs
    /\ TargetOf \in [Messages -> Threads]
    /\ Policy \in [Messages -> {"manual", "live", "queue", "resume"}]
    /\ Priority \in [Messages -> Int]
    /\ MaxAttempts \in [Messages -> Nat \ {0}]

VARIABLES
    msg,       \* thread_mailbox_messages
    attempt,   \* thread_mailbox_delivery_attempts
    dead,      \* thread_mailbox_dead_letters: failed_attempt_id
    receipts,  \* thread_mailbox_receipts, in order
    tlease,    \* thread_mailbox_target_leases
    session,   \* local_active_sessions
    clock      \* wall-clock time

tableVars == <<msg, attempt, dead, receipts>>
storeVars == <<tableVars, tlease, session, clock>>

-----------------------------------------------------------------------------
(* Rows *)

OptTime == Nat \cup {NULL}
OptAttempt == Attempts \cup {NULL}
Settled == {"acknowledged", "failed", "poisoned", "expired"}

(* "none" is a row that does not exist.  The status "canceled" of the table *)
(* is never written.                                                        *)
MessageRow == [status : {"none", "queued", "claimed"} \cup Settled,
               attempt_count : Nat, next_attempt_at : Nat,
               lease_id : OptAttempt, lease_expires_at : OptTime,
               last_attempt_id : OptAttempt, expires_at : OptTime]
Owners == {"dispatcher", "client"}
AttemptRow == [status : {"none", "claimed", "acknowledged", "failed",
                         "expired"},
               message_id : Messages \cup {NULL}, attempt_number : Nat,
               lease_owner : Owners \cup {NULL}]
Receipt == [kind : {"enqueued", "claimed", "acknowledged", "failed",
                    "poisoned", "expired", "lease_expired"},
            status_after : {"queued", "claimed"} \cup Settled,
            attempt_id : OptAttempt]
TargetLease == [owner : Procs \cup {NULL}, lease_id : OptAttempt,
                lease_expires_at : Nat]
SessionRow == [owner : Procs \cup {NULL}, last_seen : Nat]

NoMessage == [status |-> "none", attempt_count |-> 0, next_attempt_at |-> 0,
              lease_id |-> NULL, lease_expires_at |-> NULL,
              last_attempt_id |-> NULL, expires_at |-> NULL]
NoAttempt == [status |-> "none", message_id |-> NULL, attempt_number |-> 0,
              lease_owner |-> NULL]
NoLease == [owner |-> NULL, lease_id |-> NULL, lease_expires_at |-> 0]
NoSession == [owner |-> NULL, last_seen |-> 0]

Entry(kind, status, a) ==
    [kind |-> kind, status_after |-> status, attempt_id |-> a]

(* The claim of a row ends: its lease columns become NULL.                  *)
Unclaimed(row, status, next) ==
    [row EXCEPT !.status = status, !.next_attempt_at = next,
                !.lease_id = NULL, !.lease_expires_at = NULL]

(* attempt_count >= max_attempts *)
Spent_OneEarly(m) == msg[m].attempt_count + 1 >= MaxAttempts[m]  \* mutant
Spent(m) == msg[m].attempt_count >= MaxAttempts[m]

-----------------------------------------------------------------------------
EnqueueMessage_OverSettled(m, next, expires) ==  \* mutant
    /\ msg[m].status \notin {"queued", "claimed"}
    /\ msg' = [msg EXCEPT ![m] =
         [NoMessage EXCEPT !.status = "queued", !.next_attempt_at = next,
                           !.expires_at = expires]]
    /\ receipts' = [receipts EXCEPT ![m] =
                      <<Entry("enqueued", "queued", NULL)>>]
    /\ UNCHANGED <<attempt, dead, tlease, session, clock>>
EnqueueMessage(m, next, expires) ==
    /\ msg[m].status = "none"
    /\ msg' = [msg EXCEPT ![m] =
         [NoMessage EXCEPT !.status = "queued", !.next_attempt_at = next,
                           !.expires_at = expires]]
    /\ receipts' = [receipts EXCEPT ![m] =
                      <<Entry("enqueued", "queued", NULL)>>]
    /\ UNCHANGED <<attempt, dead, tlease, session, clock>>

-----------------------------------------------------------------------------
(* The sweep at the start of every claim transaction *)

(* expire_stale_mailbox_leases_in_tx: a claim whose lease has lapsed is     *)
(* queued again, or poisoned when it was the last attempt.                  *)
Lapsed(now) == {m \in Messages : /\ msg[m].status = "claimed"
                                 /\ msg[m].lease_expires_at <= now}
LapsedStatus_AlwaysQueued(m) == "queued"  \* mutant
LapsedStatus_Kind(m) == IF Spent(m) THEN "poisoned" ELSE "lease_expired"  \* mutant
LapsedStatus(m) == IF Spent(m) THEN "poisoned" ELSE "queued"

(* expire_due_messages_in_tx, which also sees what was just queued again.   *)
AfterLapse(m, now) ==
    IF m \in Lapsed(now)
    THEN Unclaimed(msg[m], LapsedStatus(m), msg[m].next_attempt_at)
    ELSE msg[m]
Overdue(now) ==
    {m \in Messages : /\ AfterLapse(m, now).status = "queued"
                      /\ msg[m].expires_at # NULL
                      /\ msg[m].expires_at <= now}

Swept(m, now) == IF m \in Overdue(now)
                 THEN [AfterLapse(m, now) EXCEPT !.status = "expired"]
                 ELSE AfterLapse(m, now)

SweptAttempt_Kept(a, now) == attempt[a]  \* mutant
SweptAttempt(a, now) ==
    IF /\ attempt[a].status = "claimed"
       /\ \E m \in Lapsed(now) : msg[m].last_attempt_id = a
    THEN [attempt[a] EXCEPT !.status = "expired"]
    ELSE attempt[a]

SweptDead(m, now) ==
    IF m \in Lapsed(now) /\ LapsedStatus(m) = "poisoned"
    THEN msg[m].last_attempt_id ELSE dead[m]

LapseReceipt_Queued(m) ==  \* mutant: as if never poisoned
    Entry("lease_expired", "queued", msg[m].last_attempt_id)
LapseReceipt(m) ==
    Entry(IF Spent(m) THEN "poisoned" ELSE "lease_expired",
          LapsedStatus(m), msg[m].last_attempt_id)
SweptReceipts(m, now) ==
    LET lapsed == IF m \in Lapsed(now)
                  THEN Append(receipts[m], LapseReceipt(m)) ELSE receipts[m]
    IN  IF m \in Overdue(now)
        THEN Append(lapsed, Entry("expired", "expired", NULL)) ELSE lapsed

-----------------------------------------------------------------------------
(* Claiming *)

Claimable(m, now) ==
    LET row == Swept(m, now) IN
    /\ row.status = "queued"
    /\ row.next_attempt_at <= now
    /\ row.expires_at # NULL => row.expires_at > now
    /\ row.attempt_count < MaxAttempts[m]

(* ORDER BY priority DESC, next_attempt_at_ms, ...; later ties either way.  *)
Before(m, q) ==
    \/ Priority[m] > Priority[q]
    \/ Priority[m] = Priority[q]
         /\ msg[m].next_attempt_at <= msg[q].next_attempt_at
FirstOf(m, set) == m \in set /\ \A q \in set : Before(m, q)

(* Another process showed the thread live at or after fresh_after; another  *)
(* process holds the target's dispatch lease.                               *)
ForeignSession(p, t, freshAfter) ==
    session[t].owner \notin {NULL, p} /\ session[t].last_seen >= freshAfter
ForeignLease(p, t, now) ==
    tlease[t].owner \notin {NULL, p} /\ tlease[t].lease_expires_at > now

ForTarget(t, now) == {m \in Messages : TargetOf[m] = t /\ Claimable(m, now)}
ForDispatch(p, now, freshAfter) ==
    {m \in Messages : /\ Claimable(m, now)
                      /\ Policy[m] # "manual"
                      /\ ~ForeignSession(p, TargetOf[m], freshAfter)
                      /\ ~ForeignLease(p, TargetOf[m], now)}

FreshIds == {a \in Attempts : attempt[a].status = "none"}
NextId(a) == a \in FreshIds /\ \A b \in FreshIds : a <= b

(* Sweep, then give message m to attempt a. *)
Grant(m, a, now, duration, owner) ==
    LET row == Swept(m, now)
        number == row.attempt_count + 1
    IN
    /\ NextId(a)
    /\ msg' = [q \in Messages |->
         IF q = m THEN [status |-> "claimed", attempt_count |-> number,
                        next_attempt_at |-> row.next_attempt_at,
                        lease_id |-> a, lease_expires_at |-> now + duration,
                        last_attempt_id |-> a, expires_at |-> row.expires_at]
         ELSE Swept(q, now)]
    /\ attempt' = [b \in Attempts |->
         IF b = a THEN [status |-> "claimed", message_id |-> m,
                        attempt_number |-> number, lease_owner |-> owner]
         ELSE SweptAttempt(b, now)]
    /\ dead' = [q \in Messages |-> SweptDead(q, now)]
    /\ receipts' = [q \in Messages |->
         IF q = m THEN Append(SweptReceipts(q, now),
                              Entry("claimed", "claimed", a))
         ELSE SweptReceipts(q, now)]

SweepOnly(now) ==
    /\ msg' = [m \in Messages |-> Swept(m, now)]
    /\ attempt' = [a \in Attempts |-> SweptAttempt(a, now)]
    /\ dead' = [m \in Messages |-> SweptDead(m, now)]
    /\ receipts' = [m \in Messages |-> SweptReceipts(m, now)]

(* DELETE FROM thread_mailbox_target_leases WHERE lease_expires_at_ms <= ?  *)
SweptLease(t, now) ==
    IF tlease[t].lease_expires_at <= now THEN NoLease ELSE tlease[t]

(* claim_next_message: by a client, for one target, whatever the policy.    *)
ClaimForTarget(m, a, now, duration) ==
    /\ FirstOf(m, ForTarget(TargetOf[m], now))
    /\ Grant(m, a, now, duration, "client")
    /\ UNCHANGED <<tlease, session, clock>>

(* ... and when there is nothing to claim, the sweep is still committed.    *)
ClaimNothing(t, now) ==
    /\ ForTarget(t, now) = {}
    /\ SweepOnly(now)
    /\ UNCHANGED <<tlease, session, clock>>

(* claim_next_due_message: by a dispatcher; reserves the target as well.    *)
ClaimForDispatch(p, m, a, now, freshAfter, duration) ==
    /\ FirstOf(m, ForDispatch(p, now, freshAfter))
    /\ Grant(m, a, now, duration, "dispatcher")
    /\ tlease' = [t \in Threads |->
         IF t = TargetOf[m]
         THEN [owner |-> p, lease_id |-> a, lease_expires_at |-> now + duration]
         ELSE SweptLease(t, now)]
    /\ UNCHANGED <<session, clock>>

DispatchNothing(p, now, freshAfter) ==
    /\ ForDispatch(p, now, freshAfter) = {}
    /\ SweepOnly(now)
    /\ tlease' = [t \in Threads |-> SweptLease(t, now)]
    /\ UNCHANGED <<session, clock>>

-----------------------------------------------------------------------------
(* Ending a claim *)

(* select_attempt_for_lease_in_tx finds a claimed attempt and the message   *)
(* still carries its lease.  Whether the lease has lapsed is not looked at. *)
HoldsClaim(m, a) ==
    /\ attempt[a].message_id = m /\ attempt[a].status = "claimed"
    /\ msg[m].lease_id = a /\ msg[m].status = "claimed"

Close(m, a, row, outcome, entry) ==
    /\ HoldsClaim(m, a)
    /\ msg' = [msg EXCEPT ![m] = row]
    /\ attempt' = [attempt EXCEPT ![a] =
                     [attempt[a] EXCEPT !.status = outcome]]
    /\ receipts' = [receipts EXCEPT ![m] = Append(receipts[m], entry)]
    /\ UNCHANGED <<tlease, session, clock>>

AckMessage(m, a) ==
    /\ Close(m, a, Unclaimed(msg[m], "acknowledged", msg[m].next_attempt_at),
             "acknowledged", Entry("acknowledged", "acknowledged", a))
    /\ UNCHANGED dead

(* update_failed_claim_for_retry *)
FailForRetry(m, a, next) ==
    LET status == IF Spent(m) THEN "poisoned" ELSE "queued" IN
    /\ Close(m, a, Unclaimed(msg[m], status, next), "failed",
             Entry(IF Spent(m) THEN "poisoned" ELSE "failed", status, a))
    /\ dead' = IF Spent(m) THEN [dead EXCEPT ![m] = a] ELSE dead

(* update_failed_claim_terminal *)
FailTerminal(m, a) ==
    /\ Close(m, a, Unclaimed(msg[m], "failed", msg[m].next_attempt_at),
             "failed", Entry("failed", "failed", a))
    /\ UNCHANGED dead

(* release_dispatch_target_lease *)
ReleaseTarget(p, t, a) ==
    /\ tlease[t].owner = p /\ tlease[t].lease_id = a
    /\ tlease' = [tlease EXCEPT ![t] = NoLease]
    /\ UNCHANGED <<tableVars, session, clock>>

(* heartbeat_session for the threads in live, then prune_owner_sessions.    *)
Shown(p, t, live, now) ==
    IF t \in live
    THEN IF session[t].owner = NULL \/ session[t].last_seen <= now
         THEN [owner |-> p, last_seen |-> now] ELSE session[t]
    ELSE IF session[t].owner = p /\ session[t].last_seen < now
         THEN NoSession ELSE session[t]
ShowSessions(p, live, now) ==
    /\ session' = [t \in Threads |-> Shown(p, t, live, now)]
    /\ UNCHANGED <<tableVars, tlease, clock>>

(* heartbeat_session for one thread.                                        *)
HeartbeatSession(p, t, now) ==
    /\ session' = [session EXCEPT ![t] = Shown(p, t, {t}, now)]
    /\ UNCHANGED <<tableVars, tlease, clock>>

Advance(t) ==
    /\ t > clock
    /\ clock' = t
    /\ UNCHANGED <<tableVars, tlease, session>>

-----------------------------------------------------------------------------
Init ==
    /\ msg = [m \in Messages |-> NoMessage]
    /\ attempt = [a \in Attempts |-> NoAttempt]
    /\ dead = [m \in Messages |-> NULL]
    /\ receipts = [m \in Messages |-> <<>>]
    /\ tlease = [t \in Threads |-> NoLease]
    /\ session = [t \in Threads |-> NoSession]
    /\ clock = 0

Next ==
    \/ \E m \in Messages, n \in Times, e \in Times \cup {NULL} :
          EnqueueMessage(m, n, e)
    \/ \E m \in Messages, a \in Attempts, now, d, fresh \in Times :
          \/ ClaimForTarget(m, a, now, d)
          \/ \E p \in Procs : ClaimForDispatch(p, m, a, now, fresh, d)
    \/ \E now, fresh \in Times :
          \/ \E t \in Threads : ClaimNothing(t, now)
          \/ \E p \in Procs : DispatchNothing(p, now, fresh)
    \/ \E m \in Messages, a \in Attempts :
          \/ AckMessage(m, a)
          \/ \E n \in Times : FailForRetry(m, a, n)
          \/ FailTerminal(m, a)
    \/ \E p \in Procs, t \in Threads, a \in Attempts : ReleaseTarget(p, t, a)
    \/ \E p \in Procs, live \in SUBSET Threads, now \in Times :
          ShowSessions(p, live, now)
    \/ \E p \in Procs, t \in Threads, now \in Times :
          HeartbeatSession(p, t, now)
    \/ \E t \in Times : Advance(t)

Spec == Init /\ [][Next]_storeVars

-----------------------------------------------------------------------------
(* Properties *)

(* Types of the tables. *)
TypeOK ==
    /\ msg \in [Messages -> MessageRow]
    /\ attempt \in [Attempts -> AttemptRow]
    /\ dead \in [Messages -> OptAttempt]
    /\ receipts \in [Messages -> Seq(Receipt)]
    /\ tlease \in [Threads -> TargetLease]
    /\ session \in [Threads -> SessionRow]
    /\ clock \in Nat

(***************************************************************************)
(* A message and its attempts agree, whoever claims, acknowledges, fails or*)
(* sweeps, however late: a message is claimed exactly when one of its      *)
(* attempts is, that attempt is the one its lease names, and no message is *)
(* attempted more than max_attempts times.                                 *)
(***************************************************************************)
ClaimMatchesAttempt ==
    \A m \in Messages :
       /\ {a \in Attempts : /\ attempt[a].message_id = m
                            /\ attempt[a].status = "claimed"}
            = IF msg[m].status = "claimed" THEN {msg[m].lease_id} ELSE {}
       /\ (msg[m].status = "claimed") <=> (msg[m].lease_id # NULL)
       /\ msg[m].attempt_count <= MaxAttempts[m]

(***************************************************************************)
(* A message is poisoned exactly when there is a dead letter for it, after *)
(* its last permitted attempt, and the dead letter names that attempt; both*)
(* the failed retry and the lapsed lease write it.                         *)
(***************************************************************************)
PoisonedIsDeadLetter ==
    \A m \in Messages :
       /\ (msg[m].status = "poisoned") <=> (dead[m] # NULL)
       /\ dead[m] # NULL => /\ dead[m] = msg[m].last_attempt_id
                            /\ msg[m].attempt_count = MaxAttempts[m]

(***************************************************************************)
(* The receipts tell the status of a message: the last one carries the     *)
(* status of the row, and no receipt before it a final status.             *)
(***************************************************************************)
ReceiptsTellStatus ==
    \A m \in Messages :
       LET log == receipts[m] IN
       /\ (log = <<>>) <=> (msg[m].status = "none")
       /\ log # <<>> => log[Len(log)].status_after = msg[m].status
       /\ \A i \in 1 .. Len(log) :
             log[i].status_after \in Settled => i = Len(log)

(* No message leaves a settled status in this step.                         *)
SettledKept ==
    \A m \in Messages : msg[m].status \in Settled => msg'[m] = msg[m]

(***************************************************************************)
(* A settled message stays as it is: no late acknowledgement or failure, no*)
(* sweep and no repeated enqueue brings it back or changes its outcome.    *)
(***************************************************************************)
SettledIsFinal == [][SettledKept]_storeVars

==============================================================================
