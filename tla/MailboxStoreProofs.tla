-------------------------- MODULE MailboxStoreProofs --------------------------
(***************************************************************************)
(* Proofs about the mailbox tables, for any messages, attempts, processes  *)
(* and times and for callers that may call any transaction with any        *)
(* arguments at any time.                                                  *)
(*                                                                         *)
(* The inductive invariant adds to the checked properties that the lease   *)
(* of a claimed message is also its last attempt: the sweep finds the      *)
(* attempt to expire, and the dead letter to write, through that column.   *)
(***************************************************************************)
EXTENDS MailboxStore, TLAPS

(* ClaimMatchesAttempt without sets: message and attempt name each other.   *)
ClaimsAgree ==
    /\ \A m \in Messages :
          /\ (msg[m].status = "claimed") <=> (msg[m].lease_id # NULL)
          /\ msg[m].lease_id # NULL =>
                /\ msg[m].last_attempt_id = msg[m].lease_id
                /\ attempt[msg[m].lease_id].message_id = m
                /\ attempt[msg[m].lease_id].status = "claimed"
          /\ msg[m].attempt_count <= MaxAttempts[m]
    /\ \A a \in Attempts : attempt[a].status = "claimed" =>
          /\ attempt[a].message_id \in Messages
          /\ msg[attempt[a].message_id].lease_id = a

StoreInv == TypeOK /\ ClaimsAgree /\ PoisonedIsDeadLetter

-----------------------------------------------------------------------------
(* What the assumption on the constants says, in the form the steps use.    *)
LEMMA ConstantFacts ==
    /\ Attempts \subseteq Nat /\ Times \subseteq Nat
    /\ NULL \notin Attempts /\ NULL \notin Nat
    /\ NULL \notin Messages /\ NULL \notin Procs
    /\ TargetOf \in [Messages -> Threads]
    /\ \A m \in Messages : MaxAttempts[m] \in Nat \ {0}
  BY MailboxAssumption, Zenon

(* The set form and the pointwise form of the claim invariant agree.        *)
LEMMA ClaimForms == TypeOK /\ ClaimsAgree => ClaimMatchesAttempt
<1> SUFFICES ASSUME TypeOK, ClaimsAgree, NEW m \in Messages
             PROVE  {a \in Attempts : /\ attempt[a].message_id = m
                                      /\ attempt[a].status = "claimed"}
                      = IF msg[m].status = "claimed" THEN {msg[m].lease_id}
                        ELSE {}
  BY DEF ClaimMatchesAttempt, ClaimsAgree
<1>1. msg[m].lease_id \in Attempts \cup {NULL} /\ NULL \notin Attempts
  BY ConstantFacts DEF TypeOK, MessageRow, OptAttempt
<1>2. ASSUME NEW a \in Attempts
      PROVE  attempt[a].message_id = m /\ attempt[a].status = "claimed"
                <=> msg[m].lease_id = a
  BY <1>1, <1>2 DEF ClaimsAgree
<1>3. {a \in Attempts : /\ attempt[a].message_id = m
                        /\ attempt[a].status = "claimed"}
        = {a \in Attempts : msg[m].lease_id = a}
  BY <1>2
<1>4. (msg[m].status = "claimed") <=> (msg[m].lease_id # NULL)
  BY DEF ClaimsAgree
<1> QED
  BY <1>1, <1>3, <1>4

LEMMA InitInv == Init => StoreInv
<1> SUFFICES ASSUME Init PROVE StoreInv
  OBVIOUS
<1>1. TypeOK
  <2>1. msg \in [Messages -> MessageRow] /\ attempt \in [Attempts -> AttemptRow]
    BY DEF Init, MessageRow, AttemptRow, NoMessage, NoAttempt, OptTime,
           OptAttempt
  <2>2. tlease \in [Threads -> TargetLease] /\ session \in [Threads -> SessionRow]
    BY DEF Init, TargetLease, SessionRow, NoLease, NoSession, OptAttempt
  <2> QED
    BY <2>1, <2>2 DEF Init, TypeOK, OptAttempt
<1>2. ClaimsAgree
  BY ConstantFacts DEF Init, ClaimsAgree, NoMessage, NoAttempt
<1>3. PoisonedIsDeadLetter
  BY DEF Init, PoisonedIsDeadLetter, NoMessage
<1> QED
  BY <1>1, <1>2, <1>3 DEF StoreInv

-----------------------------------------------------------------------------
(* The sweep *)

(* What the sweep leaves of one message: it only ends lapsed claims and     *)
(* expires what is queued, and never counts or touches an attempt number.   *)
LEMMA SweptFacts ==
    ASSUME StoreInv, NEW m \in Messages, NEW now \in Times
    PROVE  /\ Swept(m, now) \in MessageRow
           /\ Swept(m, now).attempt_count = msg[m].attempt_count
           /\ Swept(m, now).last_attempt_id = msg[m].last_attempt_id
           /\ Swept(m, now).status = "claimed" =>
                 m \notin Lapsed(now) /\ Swept(m, now) = msg[m]
           /\ Swept(m, now).status # "claimed" =>
                 Swept(m, now).lease_id = NULL
           /\ m \in Lapsed(now) => Swept(m, now).status # "claimed"
           /\ msg[m].status \in Settled => Swept(m, now) = msg[m]
<1>1. msg[m] \in MessageRow
  BY DEF StoreInv, TypeOK
<1>2. AfterLapse(m, now) \in MessageRow
  BY <1>1 DEF AfterLapse, Unclaimed, LapsedStatus, MessageRow, OptAttempt,
              OptTime, Settled
<1>3. /\ AfterLapse(m, now).attempt_count = msg[m].attempt_count
      /\ AfterLapse(m, now).last_attempt_id = msg[m].last_attempt_id
      /\ m \in Lapsed(now) => /\ AfterLapse(m, now).status # "claimed"
                              /\ AfterLapse(m, now).lease_id = NULL
      /\ m \notin Lapsed(now) => AfterLapse(m, now) = msg[m]
  BY <1>1 DEF AfterLapse, Unclaimed, LapsedStatus, MessageRow
<1>4. msg[m].status # "claimed" => m \notin Lapsed(now) /\ msg[m].lease_id = NULL
  BY DEF Lapsed, StoreInv, ClaimsAgree
<1>5. CASE m \in Overdue(now)
  <2>1. Swept(m, now) = [AfterLapse(m, now) EXCEPT !.status = "expired"]
    BY <1>5 DEF Swept
  <2>2. AfterLapse(m, now).status = "queued"
    BY <1>5 DEF Overdue
  <2>3. Swept(m, now) \in MessageRow
    BY <2>1, <1>2 DEF MessageRow, Settled
  <2>4. /\ Swept(m, now).status = "expired"
        /\ Swept(m, now).attempt_count = AfterLapse(m, now).attempt_count
        /\ Swept(m, now).last_attempt_id = AfterLapse(m, now).last_attempt_id
        /\ Swept(m, now).lease_id = AfterLapse(m, now).lease_id
    BY <2>1, <1>2 DEF MessageRow
  <2>5. AfterLapse(m, now).lease_id = NULL
    BY <1>3, <1>4, <2>2
  <2>6. msg[m].status \notin Settled
    BY <1>3, <1>4, <2>2 DEF Settled
  <2> QED
    BY <1>3, <2>3, <2>4, <2>5, <2>6
<1>6. CASE m \notin Overdue(now)
  <2>1. Swept(m, now) = AfterLapse(m, now)
    BY <1>6 DEF Swept
  <2> QED
    BY <2>1, <1>2, <1>3, <1>4 DEF Settled
<1> QED
  BY <1>5, <1>6

(* The dead letter the sweep writes is the one of the poisoned row.         *)
LEMMA SweptDeadFacts ==
    ASSUME StoreInv, NEW m \in Messages, NEW now \in Times
    PROVE  /\ SweptDead(m, now) \in OptAttempt
           /\ (Swept(m, now).status = "poisoned")
                 <=> (SweptDead(m, now) # NULL)
           /\ SweptDead(m, now) # NULL =>
                 /\ SweptDead(m, now) = msg[m].last_attempt_id
                 /\ msg[m].attempt_count = MaxAttempts[m]
<1>1. msg[m] \in MessageRow /\ dead[m] \in OptAttempt
  BY DEF StoreInv, TypeOK
<1>2. CASE m \in Lapsed(now) /\ Spent(m)
  <2>1. msg[m].last_attempt_id \in Attempts
    BY <1>1, <1>2 DEF Lapsed, StoreInv, ClaimsAgree, MessageRow, OptAttempt
  <2>2. AfterLapse(m, now).status = "poisoned"
    BY <1>1, <1>2 DEF AfterLapse, LapsedStatus, Unclaimed, MessageRow
  <2>3. Swept(m, now).status = "poisoned"
    BY <2>2 DEF Swept, Overdue
  <2>4. SweptDead(m, now) = msg[m].last_attempt_id
    BY <1>2 DEF SweptDead, LapsedStatus
  <2>5. msg[m].attempt_count = MaxAttempts[m]
    BY <1>1, <1>2, ConstantFacts
       DEF Spent, StoreInv, ClaimsAgree, MessageRow
  <2> QED
    BY <2>1, <2>3, <2>4, <2>5, ConstantFacts DEF OptAttempt
<1>3. CASE ~(m \in Lapsed(now) /\ Spent(m))
  <2>1. SweptDead(m, now) = dead[m]
    BY <1>3 DEF SweptDead, LapsedStatus
  <2>2. AfterLapse(m, now).status = "poisoned" <=> msg[m].status = "poisoned"
    BY <1>1, <1>3 DEF AfterLapse, LapsedStatus, Unclaimed, MessageRow, Lapsed
  <2>3. Swept(m, now).status = "poisoned" <=> msg[m].status = "poisoned"
    <3>1. AfterLapse(m, now) \in MessageRow
      BY <1>1 DEF AfterLapse, Unclaimed, LapsedStatus, MessageRow, OptAttempt,
                  OptTime, Settled
    <3> QED
      BY <2>2, <3>1 DEF Swept, Overdue, MessageRow
  <2> QED
    BY <1>1, <2>1, <2>3 DEF StoreInv, PoisonedIsDeadLetter
<1> QED
  BY <1>2, <1>3

(* A claimed attempt survives the sweep exactly with its message's claim.   *)
LEMMA SweptAttemptFacts ==
    ASSUME StoreInv, NEW a \in Attempts, NEW now \in Times
    PROVE  /\ SweptAttempt(a, now) \in AttemptRow
           /\ SweptAttempt(a, now).message_id = attempt[a].message_id
           /\ attempt[a].status # "claimed" => SweptAttempt(a, now) = attempt[a]
           /\ SweptAttempt(a, now).status = "claimed" =>
                 SweptAttempt(a, now) = attempt[a]
           /\ attempt[a].status = "claimed" =>
                 (SweptAttempt(a, now).status = "claimed"
                    <=> attempt[a].message_id \notin Lapsed(now))
<1>1. attempt[a] \in AttemptRow
  BY DEF StoreInv, TypeOK
<1>2. ASSUME attempt[a].status = "claimed", NEW m \in Lapsed(now),
             msg[m].last_attempt_id = a
      PROVE  attempt[a].message_id = m
  BY <1>2 DEF Lapsed, StoreInv, ClaimsAgree
<1>3. ASSUME attempt[a].status = "claimed", attempt[a].message_id \in Lapsed(now)
      PROVE  msg[attempt[a].message_id].last_attempt_id = a
  BY <1>3, ConstantFacts DEF StoreInv, ClaimsAgree
<1> QED
  BY <1>1, <1>2, <1>3 DEF SweptAttempt, AttemptRow

(* Receipts stay sequences of receipts.                                     *)
LEMMA SweptReceiptsType ==
    ASSUME StoreInv, NEW m \in Messages, NEW now \in Times
    PROVE  SweptReceipts(m, now) \in Seq(Receipt)
<1>1. receipts[m] \in Seq(Receipt) /\ msg[m] \in MessageRow
  BY DEF StoreInv, TypeOK
<1>2. LapseReceipt(m) \in Receipt
  BY <1>1 DEF LapseReceipt, Entry, LapsedStatus, Receipt, MessageRow, Settled
<1>3. Entry("expired", "expired", NULL) \in Receipt
  BY DEF Entry, Receipt, OptAttempt, Settled
<1> QED
  BY <1>1, <1>2, <1>3 DEF SweptReceipts

LEMMA SweepOnlyInv ==
    ASSUME StoreInv, NEW now \in Times, SweepOnly(now),
           tlease' \in [Threads -> TargetLease], UNCHANGED <<session, clock>>
    PROVE  StoreInv'
<1>1. TypeOK'
  BY SweptFacts, SweptAttemptFacts, SweptDeadFacts, SweptReceiptsType
     DEF SweepOnly, TypeOK, StoreInv
<1>2. ASSUME NEW m \in Messages
      PROVE  /\ (msg'[m].status = "claimed") <=> (msg'[m].lease_id # NULL)
             /\ msg'[m].lease_id # NULL =>
                   /\ msg'[m].last_attempt_id = msg'[m].lease_id
                   /\ attempt'[msg'[m].lease_id].message_id = m
                   /\ attempt'[msg'[m].lease_id].status = "claimed"
             /\ msg'[m].attempt_count <= MaxAttempts[m]
  <2>1. msg'[m] = Swept(m, now)
    BY DEF SweepOnly
  <2>2. CASE Swept(m, now).status = "claimed"
    <3>1. msg'[m] = msg[m] /\ m \notin Lapsed(now) /\ msg[m].status = "claimed"
      BY <2>1, <2>2, SweptFacts
    <3>2. /\ msg[m].lease_id \in Attempts /\ msg[m].lease_id # NULL
          /\ attempt[msg[m].lease_id].status = "claimed"
          /\ attempt[msg[m].lease_id].message_id = m
      BY <3>1 DEF StoreInv, TypeOK, ClaimsAgree, MessageRow, OptAttempt
    <3>3. attempt'[msg[m].lease_id] = SweptAttempt(msg[m].lease_id, now)
      BY <3>2 DEF SweepOnly
    <3>4. SweptAttempt(msg[m].lease_id, now).status = "claimed"
      BY <3>1, <3>2, SweptAttemptFacts
    <3> QED
      BY <3>1, <3>2, <3>3, <3>4, SweptAttemptFacts DEF StoreInv, ClaimsAgree
  <2>3. CASE Swept(m, now).status # "claimed"
    BY <2>1, <2>3, SweptFacts DEF StoreInv, ClaimsAgree
  <2> QED
    BY <2>2, <2>3
<1>3. ASSUME NEW a \in Attempts, attempt'[a].status = "claimed"
      PROVE  /\ attempt'[a].message_id \in Messages
             /\ msg'[attempt'[a].message_id].lease_id = a
  <2>1. attempt'[a] = SweptAttempt(a, now)
    BY DEF SweepOnly
  <2>2. attempt'[a] = attempt[a] /\ attempt[a].status = "claimed"
        /\ attempt[a].message_id \notin Lapsed(now)
    BY <1>3, <2>1, SweptAttemptFacts
  <2>3. PICK m \in Messages : attempt[a].message_id = m /\ msg[m].lease_id = a
    BY <2>2 DEF StoreInv, ClaimsAgree
  <2>4. msg[m].status = "claimed" /\ m \notin Lapsed(now)
    BY <2>2, <2>3, ConstantFacts DEF StoreInv, ClaimsAgree
  <2>5. Swept(m, now) = msg[m]
    BY <2>4 DEF Swept, AfterLapse, Overdue
  <2> QED
    BY <2>2, <2>3, <2>5 DEF SweepOnly
<1>4. PoisonedIsDeadLetter'
  BY SweptFacts, SweptDeadFacts DEF SweepOnly, PoisonedIsDeadLetter
<1> QED
  BY <1>1, <1>2, <1>3, <1>4 DEF StoreInv, ClaimsAgree

LEMMA GrantInv ==
    ASSUME StoreInv, NEW m \in Messages, NEW a \in Attempts, NEW now \in Times,
           NEW duration \in Times, NEW owner \in Owners, Claimable(m, now),
           Grant(m, a, now, duration, owner),
           tlease' \in [Threads -> TargetLease], UNCHANGED <<session, clock>>
    PROVE  StoreInv'
<1>1. attempt[a].status = "none"
  BY DEF Grant, NextId, FreshIds
<1>2. /\ Swept(m, now).status = "queued"
      /\ Swept(m, now).attempt_count < MaxAttempts[m]
      /\ Swept(m, now) \in MessageRow
  BY SweptFacts DEF Claimable
<1>3. /\ msg'[m].status = "claimed"
      /\ msg'[m].attempt_count = Swept(m, now).attempt_count + 1
      /\ msg'[m].lease_id = a /\ msg'[m].last_attempt_id = a
      /\ msg'[m] \in MessageRow
  BY <1>2, ConstantFacts DEF Grant, MessageRow, OptTime, OptAttempt
<1>4. /\ attempt'[a].status = "claimed" /\ attempt'[a].message_id = m
      /\ attempt'[a] \in AttemptRow
  BY <1>2, ConstantFacts DEF Grant, AttemptRow, MessageRow
<1>5. /\ \A q \in Messages \ {m} : msg'[q] = Swept(q, now)
      /\ \A b \in Attempts \ {a} : attempt'[b] = SweptAttempt(b, now)
      /\ \A q \in Messages : dead'[q] = SweptDead(q, now)
  BY DEF Grant
<1>6. TypeOK'
  <2>1. msg' \in [Messages -> MessageRow]
    <3>1. \A q \in Messages : msg'[q] \in MessageRow
      BY <1>3, <1>5, SweptFacts
    <3> QED
      BY <3>1 DEF Grant
  <2>2. attempt' \in [Attempts -> AttemptRow]
    <3>1. \A b \in Attempts : attempt'[b] \in AttemptRow
      BY <1>4, <1>5, SweptAttemptFacts
    <3> QED
      BY <3>1 DEF Grant
  <2>3. receipts' \in [Messages -> Seq(Receipt)]
    <3>1. Entry("claimed", "claimed", a) \in Receipt
      BY DEF Entry, Receipt, OptAttempt
    <3>2. \A q \in Messages : SweptReceipts(q, now) \in Seq(Receipt)
      BY SweptReceiptsType
    <3> QED
      BY <3>1, <3>2 DEF Grant
  <2>4. dead' \in [Messages -> OptAttempt]
    BY SweptDeadFacts DEF Grant
  <2> QED
    BY <2>1, <2>2, <2>3, <2>4 DEF TypeOK, StoreInv
<1>7. ASSUME NEW q \in Messages
      PROVE  /\ (msg'[q].status = "claimed") <=> (msg'[q].lease_id # NULL)
             /\ msg'[q].lease_id # NULL =>
                   /\ msg'[q].last_attempt_id = msg'[q].lease_id
                   /\ attempt'[msg'[q].lease_id].message_id = q
                   /\ attempt'[msg'[q].lease_id].status = "claimed"
             /\ msg'[q].attempt_count <= MaxAttempts[q]
  <2>1. CASE q = m
    <3>1. msg'[q].attempt_count <= MaxAttempts[q]
      BY <2>1, <1>2, <1>3, ConstantFacts DEF MessageRow
    <3> QED
      BY <2>1, <3>1, <1>3, <1>4, ConstantFacts
  <2>2. CASE q # m /\ Swept(q, now).status = "claimed"
    <3>1. msg'[q] = msg[q] /\ q \notin Lapsed(now) /\ msg[q].status = "claimed"
      BY <1>5, <2>2, SweptFacts
    <3>2. /\ msg[q].lease_id \in Attempts /\ msg[q].lease_id # NULL
          /\ attempt[msg[q].lease_id].status = "claimed"
          /\ attempt[msg[q].lease_id].message_id = q
      BY <3>1 DEF StoreInv, TypeOK, ClaimsAgree, MessageRow, OptAttempt
    <3>3. attempt'[msg[q].lease_id] = SweptAttempt(msg[q].lease_id, now)
      BY <1>1, <1>5, <3>2
    <3>4. SweptAttempt(msg[q].lease_id, now).status = "claimed"
      BY <3>1, <3>2, SweptAttemptFacts
    <3> QED
      BY <3>1, <3>2, <3>3, <3>4, SweptAttemptFacts DEF StoreInv, ClaimsAgree
  <2>3. CASE q # m /\ Swept(q, now).status # "claimed"
    BY <1>5, <2>3, SweptFacts DEF StoreInv, ClaimsAgree
  <2> QED
    BY <2>1, <2>2, <2>3
<1>8. ASSUME NEW b \in Attempts, attempt'[b].status = "claimed"
      PROVE  /\ attempt'[b].message_id \in Messages
             /\ msg'[attempt'[b].message_id].lease_id = b
  <2>1. CASE b = a
    BY <2>1, <1>3, <1>4
  <2>2. CASE b # a
    <3>1. attempt'[b] = SweptAttempt(b, now)
      BY <1>5, <2>2
    <3>2. attempt'[b] = attempt[b] /\ attempt[b].status = "claimed"
          /\ attempt[b].message_id \notin Lapsed(now)
      BY <1>8, <3>1, SweptAttemptFacts
    <3>3. PICK q \in Messages : attempt[b].message_id = q /\ msg[q].lease_id = b
      BY <3>2 DEF StoreInv, ClaimsAgree
    <3>4. msg[q].status = "claimed" /\ q \notin Lapsed(now)
      BY <3>2, <3>3, ConstantFacts DEF StoreInv, ClaimsAgree
    <3>5. Swept(q, now) = msg[q]
      BY <3>4 DEF Swept, AfterLapse, Overdue
    <3>6. q # m
      BY <1>2, <3>4, <3>5
    <3> QED
      BY <1>5, <3>2, <3>3, <3>5, <3>6
  <2> QED
    BY <2>1, <2>2
<1>9. PoisonedIsDeadLetter'
  <2>1. SweptDead(m, now) = NULL
    BY <1>2, SweptDeadFacts
  <2>2. ASSUME NEW q \in Messages
        PROVE  /\ (msg'[q].status = "poisoned") <=> (dead'[q] # NULL)
               /\ dead'[q] # NULL => /\ dead'[q] = msg'[q].last_attempt_id
                                     /\ msg'[q].attempt_count = MaxAttempts[q]
    <3>1. CASE q = m
      BY <3>1, <1>3, <1>5, <2>1
    <3>2. CASE q # m
      BY <3>2, <1>5, SweptFacts, SweptDeadFacts
    <3> QED
      BY <3>1, <3>2
  <2> QED
    BY <2>2 DEF PoisonedIsDeadLetter
<1> QED
  BY <1>6, <1>7, <1>8, <1>9 DEF StoreInv, ClaimsAgree

-----------------------------------------------------------------------------
(* The other transactions *)

LEMMA EnqueueInv ==
    ASSUME StoreInv, NEW m \in Messages, NEW next \in Times,
           NEW expires \in Times \cup {NULL}, EnqueueMessage(m, next, expires)
    PROVE  StoreInv'
<1>1. /\ msg'[m].status = "queued" /\ msg'[m].attempt_count = 0
      /\ msg'[m].lease_id = NULL /\ msg'[m] \in MessageRow
      /\ \A q \in Messages \ {m} : msg'[q] = msg[q]
      /\ msg' \in [Messages -> MessageRow]
  BY ConstantFacts DEF EnqueueMessage, NoMessage, MessageRow, OptTime,
                       OptAttempt, StoreInv, TypeOK
<1>2. Entry("enqueued", "queued", NULL) \in Receipt
  BY DEF Entry, Receipt, OptAttempt
<1>3. TypeOK'
  BY <1>1, <1>2 DEF EnqueueMessage, StoreInv, TypeOK
<1>4. msg[m].status = "none" /\ msg[m].lease_id = NULL /\ dead[m] = NULL
  BY DEF EnqueueMessage, StoreInv, ClaimsAgree, PoisonedIsDeadLetter
<1>5. ClaimsAgree'
  <2>1. \A a \in Attempts : attempt[a].status = "claimed" =>
           attempt[a].message_id # m
    BY <1>4, ConstantFacts DEF StoreInv, ClaimsAgree
  <2> QED
    BY <1>1, <2>1, ConstantFacts DEF EnqueueMessage, StoreInv, ClaimsAgree
<1>6. PoisonedIsDeadLetter'
  BY <1>1, <1>4 DEF EnqueueMessage, StoreInv, PoisonedIsDeadLetter
<1> QED
  BY <1>3, <1>5, <1>6 DEF StoreInv

(* Ending a claim by its owner: acknowledged, failed, queued or poisoned.   *)
LEMMA CloseInv ==
    ASSUME StoreInv, NEW m \in Messages, NEW a \in Attempts,
           NEW status \in {"queued"} \cup Settled, NEW next \in Nat,
           NEW outcome \in {"acknowledged", "failed"},
           NEW entry \in Receipt,
           Close(m, a, Unclaimed(msg[m], status, next), outcome, entry),
           dead' = IF status = "poisoned" THEN [dead EXCEPT ![m] = a] ELSE dead,
           status = "poisoned" => Spent(m)
    PROVE  StoreInv'
<1>1. HoldsClaim(m, a) /\ msg[m] \in MessageRow /\ attempt[a] \in AttemptRow
  BY DEF Close, StoreInv, TypeOK
<1>2. /\ msg'[m].status = status
      /\ msg'[m].attempt_count = msg[m].attempt_count
      /\ msg'[m].lease_id = NULL
      /\ msg'[m].last_attempt_id = msg[m].last_attempt_id
      /\ msg'[m] \in MessageRow
      /\ \A q \in Messages \ {m} : msg'[q] = msg[q]
      /\ msg' \in [Messages -> MessageRow]
  BY <1>1 DEF Close, Unclaimed, MessageRow, OptTime, OptAttempt, Settled,
              StoreInv, TypeOK
<1>3. /\ attempt'[a].status = outcome /\ attempt' \in [Attempts -> AttemptRow]
      /\ \A b \in Attempts \ {a} : attempt'[b] = attempt[b]
  BY <1>1 DEF Close, AttemptRow, StoreInv, TypeOK
<1>4. TypeOK'
  <2>1. receipts' \in [Messages -> Seq(Receipt)]
    BY DEF Close, StoreInv, TypeOK
  <2>2. dead' \in [Messages -> OptAttempt]
    BY DEF OptAttempt, StoreInv, TypeOK
  <2> QED
    BY <1>2, <1>3, <2>1, <2>2 DEF Close, StoreInv, TypeOK
<1>5. \A b \in Attempts : attempt'[b].status = "claimed" =>
         b # a /\ attempt[b].status = "claimed" /\ attempt[b].message_id # m
  BY <1>1, <1>3 DEF HoldsClaim, StoreInv, ClaimsAgree
<1>6. \A q \in Messages \ {m} : msg[q].lease_id # a
  BY <1>1, ConstantFacts DEF HoldsClaim, StoreInv, ClaimsAgree
<1>7. ClaimsAgree'
  <2>1. ASSUME NEW q \in Messages
        PROVE  /\ (msg'[q].status = "claimed") <=> (msg'[q].lease_id # NULL)
               /\ msg'[q].lease_id # NULL =>
                     /\ msg'[q].last_attempt_id = msg'[q].lease_id
                     /\ attempt'[msg'[q].lease_id].message_id = q
                     /\ attempt'[msg'[q].lease_id].status = "claimed"
               /\ msg'[q].attempt_count <= MaxAttempts[q]
    <3>1. CASE q = m
      BY <3>1, <1>2 DEF Settled, StoreInv, ClaimsAgree
    <3>2. CASE q # m
      <4>1. msg'[q] = msg[q] /\ msg[q].lease_id \in Attempts \cup {NULL}
        BY <3>2, <1>2 DEF StoreInv, TypeOK, MessageRow, OptAttempt
      <4>2. msg[q].lease_id # NULL => attempt'[msg[q].lease_id]
                                         = attempt[msg[q].lease_id]
        BY <3>2, <4>1, <1>3, <1>6
      <4> QED
        BY <4>1, <4>2 DEF StoreInv, ClaimsAgree
    <3> QED
      BY <3>1, <3>2
  <2>2. ASSUME NEW b \in Attempts, attempt'[b].status = "claimed"
        PROVE  /\ attempt'[b].message_id \in Messages
               /\ msg'[attempt'[b].message_id].lease_id = b
    BY <2>2, <1>2, <1>3, <1>5 DEF StoreInv, ClaimsAgree
  <2> QED
    BY <2>1, <2>2 DEF ClaimsAgree
<1>8. PoisonedIsDeadLetter'
  <2>1. msg[m].status = "claimed" /\ msg[m].last_attempt_id = a /\ dead[m] = NULL
    BY <1>1, ConstantFacts
       DEF HoldsClaim, StoreInv, ClaimsAgree, PoisonedIsDeadLetter
  <2>2. status = "poisoned" => msg[m].attempt_count = MaxAttempts[m]
    BY <1>1, ConstantFacts DEF Spent, StoreInv, ClaimsAgree, MessageRow
  <2>3. ASSUME NEW q \in Messages
        PROVE  /\ (msg'[q].status = "poisoned") <=> (dead'[q] # NULL)
               /\ dead'[q] # NULL => /\ dead'[q] = msg'[q].last_attempt_id
                                     /\ msg'[q].attempt_count = MaxAttempts[q]
    <3>1. CASE q = m
      BY <3>1, <1>2, <2>1, <2>2, ConstantFacts DEF StoreInv, TypeOK
    <3>2. CASE q # m
      BY <3>2, <1>2 DEF StoreInv, PoisonedIsDeadLetter, TypeOK
    <3> QED
      BY <3>1, <3>2
  <2> QED
    BY <2>3 DEF PoisonedIsDeadLetter
<1> QED
  BY <1>4, <1>7, <1>8 DEF StoreInv

(* The three answers to a claim are such endings.                           *)
LEMMA AnswerInv ==
    ASSUME StoreInv, NEW m \in Messages, NEW a \in Attempts,
           \/ AckMessage(m, a) \/ FailTerminal(m, a)
           \/ \E next \in Times : FailForRetry(m, a, next)
    PROVE  StoreInv'
<1>1. msg[m].next_attempt_at \in Nat /\ Times \subseteq Nat
  BY ConstantFacts DEF StoreInv, TypeOK, MessageRow
<1>2. CASE AckMessage(m, a)
  <2>1. Entry("acknowledged", "acknowledged", a) \in Receipt
    BY DEF Entry, Receipt, OptAttempt, Settled
  <2> QED
    BY <1>1, <1>2, <2>1, CloseInv DEF AckMessage, Settled
<1>3. CASE FailTerminal(m, a)
  <2>1. Entry("failed", "failed", a) \in Receipt
    BY DEF Entry, Receipt, OptAttempt, Settled
  <2> QED
    BY <1>1, <1>3, <2>1, CloseInv DEF FailTerminal, Settled
<1>4. ASSUME NEW next \in Times, FailForRetry(m, a, next), Spent(m)
      PROVE  StoreInv'
  <2>1. Entry("poisoned", "poisoned", a) \in Receipt
    BY DEF Entry, Receipt, OptAttempt, Settled
  <2> QED
    BY <1>1, <1>4, <2>1, CloseInv DEF FailForRetry, Settled
<1>5. ASSUME NEW next \in Times, FailForRetry(m, a, next), ~Spent(m)
      PROVE  StoreInv'
  <2>1. Entry("failed", "queued", a) \in Receipt
    BY DEF Entry, Receipt, OptAttempt
  <2> QED
    BY <1>1, <1>5, <2>1, CloseInv DEF FailForRetry, Settled
<1> QED
  BY <1>2, <1>3, <1>4, <1>5

(* Target leases and session rows keep their types.                         *)
LEMMA LeaseTypes ==
    ASSUME TypeOK, NEW p \in Procs, NEW now \in Times
    PROVE  /\ \A t \in Threads : SweptLease(t, now) \in TargetLease
           /\ NoLease \in TargetLease
           /\ \A a \in Attempts, d \in Times :
                 [owner |-> p, lease_id |-> a, lease_expires_at |-> now + d]
                    \in TargetLease
           /\ \A t \in Threads, live \in SUBSET Threads :
                 Shown(p, t, live, now) \in SessionRow
  BY ConstantFacts DEF TypeOK, SweptLease, NoLease, TargetLease, OptAttempt,
                       Shown, NoSession, SessionRow

LEMMA StepInv == StoreInv /\ [Next]_storeVars => StoreInv'
<1> SUFFICES ASSUME StoreInv, [Next]_storeVars PROVE StoreInv'
  OBVIOUS
<1> USE DEF storeVars, tableVars
<1>1. CASE \E m \in Messages, n \in Times, e \in Times \cup {NULL} :
              EnqueueMessage(m, n, e)
  BY <1>1, EnqueueInv
<1>2. ASSUME NEW m \in Messages, NEW a \in Attempts, NEW now \in Times,
             NEW d \in Times, ClaimForTarget(m, a, now, d)
      PROVE  StoreInv'
  <2>1. Claimable(m, now)
    BY <1>2 DEF ClaimForTarget, FirstOf, ForTarget
  <2> QED
    BY <1>2, <2>1, GrantInv DEF ClaimForTarget, Owners, StoreInv, TypeOK
<1>3. ASSUME NEW m \in Messages, NEW a \in Attempts, NEW now \in Times,
             NEW d \in Times, NEW fresh \in Times, NEW p \in Procs,
             ClaimForDispatch(p, m, a, now, fresh, d)
      PROVE  StoreInv'
  <2>1. Claimable(m, now)
    BY <1>3 DEF ClaimForDispatch, FirstOf, ForDispatch
  <2>2. tlease' \in [Threads -> TargetLease]
    BY <1>3, LeaseTypes DEF ClaimForDispatch, StoreInv
  <2> QED
    BY <1>3, <2>1, <2>2, GrantInv DEF ClaimForDispatch, Owners
<1>4. ASSUME NEW now \in Times, NEW t \in Threads, ClaimNothing(t, now)
      PROVE  StoreInv'
  BY <1>4, SweepOnlyInv DEF ClaimNothing, StoreInv, TypeOK
<1>5. ASSUME NEW now \in Times, NEW fresh \in Times, NEW p \in Procs,
             DispatchNothing(p, now, fresh)
      PROVE  StoreInv'
  <2>1. tlease' \in [Threads -> TargetLease]
    BY <1>5, LeaseTypes DEF DispatchNothing, StoreInv
  <2> QED
    BY <1>5, <2>1, SweepOnlyInv DEF DispatchNothing
<1>6. CASE \E m \in Messages, a \in Attempts :
              \/ AckMessage(m, a)
              \/ \E n \in Times : FailForRetry(m, a, n)
              \/ FailTerminal(m, a)
  BY <1>6, AnswerInv
<1>7. ASSUME UNCHANGED tableVars, TypeOK' PROVE StoreInv'
  BY <1>7 DEF StoreInv, ClaimsAgree, PoisonedIsDeadLetter
<1>8. CASE \E p \in Procs, t \in Threads, a \in Attempts : ReleaseTarget(p, t, a)
  <2>1. TypeOK'
    BY <1>8 DEF ReleaseTarget, StoreInv, TypeOK, NoLease, TargetLease, OptAttempt
  <2> QED
    BY <1>7, <1>8, <2>1 DEF ReleaseTarget
<1>9. CASE \E p \in Procs, live \in SUBSET Threads, now \in Times :
              ShowSessions(p, live, now)
  <2>1. TypeOK'
    BY <1>9, LeaseTypes DEF ShowSessions, StoreInv, TypeOK
  <2> QED
    BY <1>7, <1>9, <2>1 DEF ShowSessions
<1>12. CASE \E p \in Procs, t \in Threads, now \in Times :
               HeartbeatSession(p, t, now)
  <2>1. TypeOK'
    BY <1>12, LeaseTypes DEF HeartbeatSession, StoreInv, TypeOK
  <2> QED
    BY <1>7, <1>12, <2>1 DEF HeartbeatSession
<1>10. CASE \E t \in Times : Advance(t)
  <2>1. TypeOK'
    BY <1>10, ConstantFacts DEF Advance, StoreInv, TypeOK
  <2> QED
    BY <1>7, <1>10, <2>1 DEF Advance
<1>11. CASE UNCHANGED storeVars
  BY <1>7, <1>11 DEF StoreInv, TypeOK
<1> QED
  BY <1>1, <1>2, <1>3, <1>4, <1>5, <1>6, <1>8, <1>9, <1>10, <1>11,
     <1>12 DEF Next

LEMMA StoreInvariance == Spec => []StoreInv
  BY InitInv, StepInv, PTL DEF Spec

-----------------------------------------------------------------------------
(* Theorems *)

(***************************************************************************)
(* The mailbox tables keep their column types under every sequence of      *)
(* transactions of mailbox.rs.                                             *)
(***************************************************************************)
THEOREM TypeCorrect == Spec => []TypeOK
<1>1. StoreInv => TypeOK
  BY DEF StoreInv
<1> QED
  BY <1>1, StoreInvariance, PTL

(***************************************************************************)
(* A message is claimed exactly when one of its attempts is, and that one  *)
(* is named by its lease; no message has more attempts than it may.  So a  *)
(* late acknowledgement or failure, which looks at the attempt and not at  *)
(* the expiry of the lease, can only answer the claim that is current.     *)
(***************************************************************************)
THEOREM ClaimIntegrity == Spec => []ClaimMatchesAttempt
<1>1. StoreInv => ClaimMatchesAttempt
  BY ClaimForms DEF StoreInv
<1> QED
  BY <1>1, StoreInvariance, PTL

(***************************************************************************)
(* A message is poisoned, by a failed retry or by the sweep of a lapsed    *)
(* lease, exactly when a dead letter names its last permitted attempt.     *)
(***************************************************************************)
THEOREM DeadLetters == Spec => []PoisonedIsDeadLetter
<1>1. StoreInv => PoisonedIsDeadLetter
  BY DEF StoreInv
<1> QED
  BY <1>1, StoreInvariance, PTL

(* No transaction writes the row of a settled message.                      *)
LEMMA SettledStep == StoreInv /\ [Next]_storeVars => [SettledKept]_storeVars
<1> SUFFICES ASSUME StoreInv, Next, NEW m \in Messages,
                    msg[m].status \in Settled
             PROVE  msg'[m] = msg[m]
  BY DEF SettledKept
<1>1. ASSUME NEW q \in Messages, NEW a \in Attempts, HoldsClaim(q, a),
             NEW row, msg' = [msg EXCEPT ![q] = row]
      PROVE  msg'[m] = msg[m]
  <2>1. q # m
    BY <1>1 DEF HoldsClaim, Settled
  <2> QED
    BY <1>1, <2>1 DEF StoreInv, TypeOK
<1>2. CASE \E q \in Messages, a \in Attempts :
              \/ AckMessage(q, a)
              \/ \E n \in Times : FailForRetry(q, a, n)
              \/ FailTerminal(q, a)
  BY <1>1, <1>2 DEF AckMessage, FailForRetry, FailTerminal, Close
<1>3. ASSUME NEW q \in Messages, NEW a, NEW now \in Times, NEW d, NEW owner,
             Claimable(q, now), Grant(q, a, now, d, owner)
      PROVE  msg'[m] = msg[m]
  <2>1. Swept(m, now) = msg[m]
    BY SweptFacts
  <2>2. q # m
    BY <1>3, <2>1 DEF Claimable, Settled
  <2> QED
    BY <1>3, <2>1, <2>2 DEF Grant
<1>4. CASE \E q \in Messages, a \in Attempts, now, d, fresh \in Times :
              \/ ClaimForTarget(q, a, now, d)
              \/ \E p \in Procs : ClaimForDispatch(p, q, a, now, fresh, d)
  BY <1>3, <1>4 DEF ClaimForTarget, ClaimForDispatch, FirstOf, ForTarget,
                    ForDispatch
<1>5. CASE \E now, fresh \in Times :
              \/ \E t \in Threads : ClaimNothing(t, now)
              \/ \E p \in Procs : DispatchNothing(p, now, fresh)
  BY <1>5, SweptFacts DEF ClaimNothing, DispatchNothing, SweepOnly
<1>6. CASE \E q \in Messages, n \in Times, e \in Times \cup {NULL} :
              EnqueueMessage(q, n, e)
  BY <1>6 DEF EnqueueMessage, Settled, StoreInv, TypeOK
<1> QED
  BY <1>2, <1>4, <1>5, <1>6
     DEF Next, ReleaseTarget, ShowSessions, HeartbeatSession, Advance,
         tableVars

(***************************************************************************)
(* A settled message is final: no late answer, sweep or repeated enqueue   *)
(* changes its row.                                                        *)
(***************************************************************************)
THEOREM SettledFinal == Spec => SettledIsFinal
  BY StoreInvariance, SettledStep, PTL DEF Spec, SettledIsFinal

-----------------------------------------------------------------------------
(* Receipts *)

(* The log of one message tells its status.                                 *)
Tells(log, status) ==
    /\ (log = <<>>) <=> (status = "none")
    /\ log # <<>> => log[Len(log)].status_after = status
    /\ \A i \in 1 .. Len(log) : log[i].status_after \in Settled => i = Len(log)

(* A receipt appended for an unsettled message tells the new status.        *)
LEMMA AppendTells ==
    ASSUME NEW log \in Seq(Receipt), NEW e \in Receipt, NEW status,
           Tells(log, status), status \notin Settled
    PROVE  Tells(Append(log, e), e.status_after)
<1>1. e.status_after # "none"
  BY DEF Receipt, Settled
<1>2. /\ Append(log, e) # <<>> /\ Len(Append(log, e)) = Len(log) + 1
      /\ Append(log, e)[Len(log) + 1] = e
      /\ \A i \in 1 .. Len(log) : Append(log, e)[i] = log[i]
      /\ Len(log) \in Nat /\ (log = <<>> <=> Len(log) = 0)
  OBVIOUS
<1>3. \A i \in 1 .. Len(log) : log[i].status_after \notin Settled
  BY <1>2 DEF Tells
<1>4. ASSUME NEW i \in 1 .. Len(Append(log, e)),
             Append(log, e)[i].status_after \in Settled
      PROVE  i = Len(Append(log, e))
  BY <1>2, <1>3, <1>4
<1> QED
  BY <1>1, <1>2, <1>4 DEF Tells

LEMMA TellsForms ==
    ReceiptsTellStatus <=> \A m \in Messages : Tells(receipts[m], msg[m].status)
  BY DEF ReceiptsTellStatus, Tells

(* The receipts the sweep adds tell the status it leaves.                   *)
LEMMA SweptTells ==
    ASSUME StoreInv, ReceiptsTellStatus, NEW m \in Messages, NEW now \in Times
    PROVE  Tells(SweptReceipts(m, now), Swept(m, now).status)
<1> DEFINE log == IF m \in Lapsed(now) THEN Append(receipts[m], LapseReceipt(m))
                  ELSE receipts[m]
<1>1. receipts[m] \in Seq(Receipt) /\ msg[m] \in MessageRow
  BY DEF StoreInv, TypeOK
<1>2. LapseReceipt(m) \in Receipt /\ LapseReceipt(m).status_after = LapsedStatus(m)
  BY <1>1 DEF LapseReceipt, Entry, LapsedStatus, Receipt, MessageRow, Settled
<1>3. Entry("expired", "expired", NULL) \in Receipt
      /\ Entry("expired", "expired", NULL).status_after = "expired"
  BY DEF Entry, Receipt, OptAttempt, Settled
<1>4. Tells(receipts[m], msg[m].status)
  BY TellsForms
<1>5. log \in Seq(Receipt) /\ Tells(log, AfterLapse(m, now).status)
  <2>1. CASE m \in Lapsed(now)
    <3>1. msg[m].status = "claimed"
      BY <2>1 DEF Lapsed
    <3>2. AfterLapse(m, now).status = LapsedStatus(m)
      BY <1>1, <2>1 DEF AfterLapse, Unclaimed, MessageRow
    <3>3. Tells(Append(receipts[m], LapseReceipt(m)), LapsedStatus(m))
      BY <1>1, <1>2, <1>4, <3>1, AppendTells DEF Settled
    <3> QED
      BY <1>1, <1>2, <2>1, <3>2, <3>3
  <2>2. CASE m \notin Lapsed(now)
    BY <1>1, <1>4, <2>2 DEF AfterLapse
  <2> QED
    BY <2>1, <2>2
<1>6. CASE m \in Overdue(now)
  <2>1. AfterLapse(m, now).status = "queued"
    BY <1>6 DEF Overdue
  <2>2. Swept(m, now).status = "expired"
    <3>1. AfterLapse(m, now) \in MessageRow
      BY <1>1 DEF AfterLapse, Unclaimed, LapsedStatus, MessageRow, OptAttempt,
                  OptTime, Settled
    <3> QED
      BY <1>6, <3>1 DEF Swept, MessageRow
  <2>3. SweptReceipts(m, now) = Append(log, Entry("expired", "expired", NULL))
    BY <1>6 DEF SweptReceipts
  <2> HIDE DEF log
  <2>4. Tells(Append(log, Entry("expired", "expired", NULL)), "expired")
    BY <1>3, <1>5, <2>1, AppendTells DEF Settled
  <2> QED
    BY <2>2, <2>3, <2>4
<1>7. CASE m \notin Overdue(now)
  BY <1>5, <1>7 DEF SweptReceipts, Swept
<1> QED
  BY <1>6, <1>7

(* An answer appends the receipt of the status it writes.                   *)
LEMMA CloseTells ==
    ASSUME StoreInv, ReceiptsTellStatus, NEW m \in Messages, NEW a \in Attempts,
           NEW row, NEW outcome, NEW entry \in Receipt,
           Close(m, a, row, outcome, entry), row.status = entry.status_after
    PROVE  ReceiptsTellStatus'
<1> SUFFICES ASSUME NEW q \in Messages
             PROVE  Tells(receipts'[q], msg'[q].status)
  BY DEF ReceiptsTellStatus, Tells
<1>1. receipts[m] \in Seq(Receipt) /\ Tells(receipts[q], msg[q].status)
  BY TellsForms DEF StoreInv, TypeOK
<1>2. CASE q = m
  <2>1. msg[m].status \notin Settled
    BY DEF Close, HoldsClaim, Settled
  <2>2. Tells(Append(receipts[m], entry), entry.status_after)
    BY <1>1, <1>2, <2>1, AppendTells
  <2>3. receipts'[m] = Append(receipts[m], entry) /\ msg'[m] = row
    BY DEF Close, StoreInv, TypeOK
  <2> QED
    BY <1>2, <2>2, <2>3
<1>3. CASE q # m
  <2>1. receipts'[q] = receipts[q] /\ msg'[q] = msg[q]
    BY <1>3 DEF Close, StoreInv, TypeOK
  <2> QED
    BY <1>1, <2>1
<1> QED
  BY <1>2, <1>3

LEMMA ReceiptsStep ==
    StoreInv /\ ReceiptsTellStatus /\ [Next]_storeVars => ReceiptsTellStatus'
<1> SUFFICES ASSUME StoreInv, ReceiptsTellStatus, [Next]_storeVars
             PROVE  ReceiptsTellStatus'
  OBVIOUS
<1>1. ASSUME NEW m \in Messages, NEW a \in Attempts,
             \/ AckMessage(m, a) \/ FailTerminal(m, a)
             \/ \E n \in Times : FailForRetry(m, a, n)
      PROVE  ReceiptsTellStatus'
  <2>1. msg[m] \in MessageRow
    BY DEF StoreInv, TypeOK
  <2>2. \A status, n : Unclaimed(msg[m], status, n).status = status
    BY <2>1 DEF Unclaimed, MessageRow
  <2>3. /\ \A kind \in {"acknowledged", "failed", "poisoned"},
              status \in {"queued"} \cup Settled :
             Entry(kind, status, a) \in Receipt
        /\ \A kind, status : Entry(kind, status, a).status_after = status
    BY DEF Entry, Receipt, OptAttempt, Settled
  <2>4. CASE AckMessage(m, a)
    BY <2>2, <2>3, <2>4, CloseTells DEF AckMessage, Settled
  <2>5. CASE FailTerminal(m, a)
    BY <2>2, <2>3, <2>5, CloseTells DEF FailTerminal, Settled
  <2>6. ASSUME NEW n \in Times, FailForRetry(m, a, n)
        PROVE  ReceiptsTellStatus'
    <3>1. CASE Spent(m)
      BY <2>2, <2>3, <2>6, <3>1, CloseTells DEF FailForRetry, Settled
    <3>2. CASE ~Spent(m)
      BY <2>2, <2>3, <2>6, <3>2, CloseTells DEF FailForRetry, Settled
    <3> QED
      BY <3>1, <3>2
  <2> QED
    BY <1>1, <2>4, <2>5, <2>6
<1>2. ASSUME NEW m \in Messages, NEW a \in Attempts, NEW now \in Times, NEW d,
             NEW owner, Claimable(m, now), Grant(m, a, now, d, owner)
      PROVE  ReceiptsTellStatus'
  <2> SUFFICES ASSUME NEW q \in Messages
               PROVE  Tells(receipts'[q], msg'[q].status)
    BY DEF ReceiptsTellStatus, Tells
  <2>1. Tells(SweptReceipts(q, now), Swept(q, now).status)
        /\ SweptReceipts(q, now) \in Seq(Receipt)
    BY SweptTells, SweptReceiptsType
  <2>2. CASE q = m
    <3>1. Entry("claimed", "claimed", a) \in Receipt
          /\ Entry("claimed", "claimed", a).status_after = "claimed"
      BY DEF Entry, Receipt, OptAttempt
    <3>2. Swept(m, now).status \notin Settled
      BY <1>2 DEF Claimable, Settled
    <3>3. Tells(Append(SweptReceipts(m, now), Entry("claimed", "claimed", a)),
                "claimed")
      BY <2>1, <2>2, <3>1, <3>2, AppendTells
    <3>4. receipts'[m] = Append(SweptReceipts(m, now),
                                Entry("claimed", "claimed", a))
          /\ msg'[m].status = "claimed"
      BY <1>2 DEF Grant
    <3> QED
      BY <2>2, <3>3, <3>4
  <2>3. CASE q # m
    <3>1. receipts'[q] = SweptReceipts(q, now) /\ msg'[q] = Swept(q, now)
      BY <1>2, <2>3 DEF Grant
    <3> QED
      BY <2>1, <3>1
  <2> QED
    BY <2>2, <2>3
<1>3. CASE \E m \in Messages, a \in Attempts, now, d, fresh \in Times :
              \/ ClaimForTarget(m, a, now, d)
              \/ \E p \in Procs : ClaimForDispatch(p, m, a, now, fresh, d)
  BY <1>2, <1>3 DEF ClaimForTarget, ClaimForDispatch, FirstOf, ForTarget,
                    ForDispatch
<1>4. ASSUME NEW now \in Times, SweepOnly(now) PROVE ReceiptsTellStatus'
  <2> SUFFICES ASSUME NEW q \in Messages
               PROVE  Tells(receipts'[q], msg'[q].status)
    BY DEF ReceiptsTellStatus, Tells
  <2>1. receipts'[q] = SweptReceipts(q, now) /\ msg'[q] = Swept(q, now)
    BY <1>4 DEF SweepOnly
  <2> QED
    BY <2>1, SweptTells
<1>5. CASE \E m \in Messages, n \in Times, e \in Times \cup {NULL} :
              EnqueueMessage(m, n, e)
  <2>1. PICK m \in Messages, n \in Times, e \in Times \cup {NULL} :
           EnqueueMessage(m, n, e)
    BY <1>5
  <2> SUFFICES ASSUME NEW q \in Messages
               PROVE  Tells(receipts'[q], msg'[q].status)
    BY DEF ReceiptsTellStatus, Tells
  <2>2. CASE q = m
    <3>1. /\ receipts'[m] = <<Entry("enqueued", "queued", NULL)>>
          /\ msg'[m].status = "queued"
      BY <2>1 DEF EnqueueMessage, NoMessage, StoreInv, TypeOK
    <3>2. Entry("enqueued", "queued", NULL).status_after = "queued"
      BY DEF Entry
    <3> QED
      BY <2>2, <3>1, <3>2 DEF Tells, Settled
  <2>3. CASE q # m
    <3>1. receipts'[q] = receipts[q] /\ msg'[q] = msg[q]
      BY <2>1, <2>3 DEF EnqueueMessage, StoreInv, TypeOK
    <3> QED
      BY <3>1, TellsForms
  <2> QED
    BY <2>2, <2>3
<1>6. CASE UNCHANGED tableVars
  BY <1>6 DEF tableVars, ReceiptsTellStatus
<1> QED
  BY <1>1, <1>3, <1>4, <1>5, <1>6
     DEF Next, ClaimNothing, DispatchNothing, ReleaseTarget, ShowSessions,
         HeartbeatSession, Advance, storeVars

(***************************************************************************)
(* The receipts of a message are its history: the last one carries the     *)
(* status of the row, and a final status is never followed by another      *)
(* receipt.                                                                *)
(***************************************************************************)
THEOREM ReceiptsFaithful == Spec => []ReceiptsTellStatus
<1>1. Init => ReceiptsTellStatus
  BY DEF Init, ReceiptsTellStatus, NoMessage
<1> QED
  BY <1>1, StoreInvariance, ReceiptsStep, PTL DEF Spec

==============================================================================
