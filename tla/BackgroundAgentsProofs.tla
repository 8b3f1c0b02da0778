----------------------- MODULE BackgroundAgentsProofs -----------------------
(***************************************************************************)
(* Proofs about the running system of background agents: tables, workers,  *)
(* daemons, requests, crashes, stalls and shutdown, for any runs, owners,  *)
(* questions and any number of faults and requests.                        *)
(*                                                                         *)
(* Every step is shown to be a step of the store or to leave the tables    *)
(* alone, so the system inherits what BackgroundAgentStoreProofs proves    *)
(* for any callers.  What the store alone cannot promise, that no question *)
(* is inherited and that a failure is written for the worker's own         *)
(* generation, rests on who is alive, and needs three things more:         *)
(*   - Ownership: a living worker whose process owns the run has the       *)
(*     current generation, for a process claims a run only while it has no *)
(*     worker for it; a daemon that is up tracks its living workers;       *)
(*   - AskerWaits: while a question of a waiting run is open, the owner's  *)
(*     worker waits for that question, is on its way out, or is gone;      *)
(*   - WorkInv: what a worker holds fits the point it has reached.         *)
(* Most steps are Ordinary: they claim nothing, start nothing, ask nothing,*)
(* and that they keep the invariant is proved once for all of them.  Five  *)
(* steps are not, and have proofs of their own.                            *)
(*                                                                         *)
(* That the initial prompt is submitted once is proved at the end, for     *)
(* daemons whose workers do not stall: Steady steps, again most of them,   *)
(* keep who holds a run, what workers know of its thread, and the prompts. *)
(***************************************************************************)
EXTENDS BackgroundAgents, BackgroundAgentStoreProofs

(* What the tables keep true beyond StoreInv.                               *)
ColumnsOK(x) ==
    /\ x.rollout # NULL => x.rollout <= x.generation
    /\ x.supervisor_id # NULL => x.generation > 0
    /\ x.status = "stopping" => x.desired # "running"
Columns ==
    /\ \A r \in Runs : ColumnsOK(run[r])
    /\ \A q \in Questions : ask[q].status \in Open => ask[q].run_id \in Runs

(* What a worker needs to know of its arguments at each point.              *)
WorkerOK(w) ==
    /\ w.pc \notin {"none", "claim"} => w.gen \in Gens
    /\ w.pc = "stop" => w.s \in Ended \cup {"orphaned"}
    /\ w.pc = "failing" => w.s \in Ended
    /\ w.pc = "wait" => w.q \in Questions
    /\ w.pc \in {"bind", "bound", "prompt"} => w.seen \in Gens
    /\ /\ w.pc \in {"receipt", "config", "starting", "thread", "bind"}
       /\ w.seen # NULL
       => w.seen <= w.gen
TaskOK(t) ==
    t.pc \notin {"none", "finalize"} => t.g \in Gens
SeenEarlier(p, r) ==
    At(p, r, "claim") /\ wk[<<p, r>>].seen # NULL
      => wk[<<p, r>>].seen <= run[r].generation

Workers ==
    wk \in [Cells -> WorkerRecord] /\ \A c \in Cells : WorkerOK(wk[c])
Tasks ==
    sup \in [Cells -> TaskRecord] /\ \A c \in Cells : TaskOK(sup[c])
Handles == tracked \in [Cells -> (Owners \X Gens) \cup {NULL}]
Others ==
    /\ host \in [Owners -> {"up", "closing", "down"}]
    /\ receipts \subseteq Runs \X Gens
    /\ prompts \in [Runs \X Gens -> Nat]
    /\ req \in [Runs -> RequestRecord]
    /\ \A r \in Runs : req[r].pc # "none" => req[r].h \in Owners
    /\ faults \in Nat /\ requests \in Nat

WorkInv ==
    /\ StoreInv /\ Columns /\ Workers /\ Tasks /\ Handles /\ Others
    /\ \A p \in Owners, r \in Runs : SeenEarlier(p, r)

(* Who owns what: the workers and the daemons against the tables.           *)
Spawned == {"spawned", "recorded", "cleanup"}
OwnGeneration(p, r) ==
    Alive(p, r) /\ ~At(p, r, "claim") /\ run[r].supervisor_id = p
      => Gen(p, r) = run[r].generation
Tracks(d, r) ==
    host[d] = "up" /\ Alive(d, r) => tracked[<<d, r>>] = <<d, Gen(d, r)>>
Spawns(d, r) ==
    /\ ~At(d, r, "claim")
    /\ Doing(d, r, "claimed") =>
         /\ ~Alive(d, r)
         /\ run[r].supervisor_id = d => sup[<<d, r>>].g = run[r].generation
    /\ sup[<<d, r>>].pc \in Spawned /\ Alive(d, r)
         => Gen(d, r) = sup[<<d, r>>].g
Ownership ==
    /\ \A p \in Owners, r \in Runs : OwnGeneration(p, r)
    /\ \A d \in Daemons, r \in Runs : Tracks(d, r) /\ Spawns(d, r)
    /\ \A p \in Owners \ Daemons, r \in Runs :
         sup[<<p, r>>].pc \notin {"claimed"} \cup Spawned

(* The points at which a worker has left its question behind.              *)
Parked == {"none", "claim", "error", "failing", "ending"}
Asking(p, r, q) ==
    \/ wk[<<p, r>>].pc \in Parked
    \/ At(p, r, "wait") /\ wk[<<p, r>>].q = q
AskerWaits ==
    \A q \in Questions, r \in Runs, p \in Owners :
       /\ q \in OpenOf(r) /\ run[r].status = "waiting"
       /\ run[r].supervisor_id = p
       => Asking(p, r, q) /\ ~Doing(p, r, "claimed")

AgentsInv == WorkInv /\ Ownership /\ NoInheritedQuestion /\ AskerWaits

-----------------------------------------------------------------------------
(* The columns *)

(* Only a bind writes the rollout, and it names a thread of a generation    *)
(* that has been.                                                           *)
LEMMA RolloutWritten ==
    ASSUME StoreInv, [StoreNext]_storeVars, NEW i \in Runs
    PROVE  \/ run'[i].rollout = run[i].rollout
           \/ /\ run'[i].rollout \in 1 .. run[i].generation
              /\ run'[i].generation = run[i].generation
<1> USE DEF StoreInv, RowsOK, RunRow
<1>1. CASE UNCHANGED run
  BY <1>1
<1>2. ASSUME NEW r \in Runs, NEW s, Settle(r, s) PROVE run'[i].rollout = run[i].rollout
  BY <1>2 DEF Settle
<1>3. ASSUME NEW r \in Runs, NEW v \in Versions, Admit(r, v) \/ Terminalize(r, v)
      PROVE  run'[i].rollout = run[i].rollout
  BY <1>3 DEF Admit, Terminalize
<1>4. ASSUME NEW r \in Runs, NEW o \in Owners, NEW v \in Versions, Claim(r, o, v)
      PROVE  run'[i].rollout = run[i].rollout
  BY <1>4 DEF Claim
<1>5. ASSUME NEW r \in Runs, NEW o \in Owners, NEW g \in Gens, OwnerStep(r, o, g)
      PROVE  \/ run'[i].rollout = run[i].rollout
             \/ /\ run'[i].rollout \in 1 .. run[i].generation
                /\ run'[i].generation = run[i].generation
  <2>1. CASE RecordHandle(r, o, g) \/ Heartbeat(r, o, g)
    BY <2>1 DEF RecordHandle, Heartbeat
  <2>2. CASE FinishLease(r, o, g) \/ Finalize(r, o, g)
    BY <1>1, <1>2, <2>2 DEF FinishLease, Finalize
  <2>3. CASE \/ \E s \in Statuses \ {"none", "stopping"} : SetStatus(r, o, g, s)
             \/ \E q \in Questions : Ask(r, o, g, q)
    BY <1>2, <2>3 DEF SetStatus, Ask
  <2>4. ASSUME NEW t \in 1 .. g, BindThread(r, o, g, t)
        PROVE  \/ run'[i].rollout = run[i].rollout
               \/ /\ run'[i].rollout \in 1 .. run[i].generation
                  /\ run'[i].generation = run[i].generation
    BY <2>4 DEF BindThread, CanBind, Owns
  <2> QED
    BY <1>5, <2>1, <2>2, <2>3, <2>4 DEF OwnerStep
<1>6. ASSUME NEW r \in Runs, NEW o, NEW g, RequestStop(r, o, g)
      PROVE  run'[i].rollout = run[i].rollout
  BY <1>6 DEF RequestStop
<1>7. ASSUME NEW r \in Runs, RequestDelete(r) PROVE run'[i].rollout = run[i].rollout
  BY <1>7 DEF RequestDelete
<1>8. ASSUME NEW r \in Runs, Orphan(r) \/ CancelStale(r) \/ Lapse(r)
      PROVE  run'[i].rollout = run[i].rollout
  BY <1>2, <1>8 DEF Orphan, CancelStale, Lapse
<1>9. CASE \/ \E r \in Runs : CancelQuestions(r)
           \/ \E q \in Questions :
                \/ Deliver(q)
                \/ \E s \in Answers \cup {"expired"} : Answer(q, s)
  BY <1>9 DEF CancelQuestions, Deliver, Answer
<1> QED
  BY <1>1, <1>3, <1>4, <1>5, <1>6, <1>7, <1>8, <1>9 DEF StoreNext, storeVars

LEMMA NumberColumns ==
    ASSUME StoreInv, NEW i \in Runs
    PROVE  /\ run[i].generation \in Nat /\ run[i].generation <= MaxGen
           /\ run[i].rollout \in Gens \cup {NULL}
           /\ run[i].rollout # NULL => run[i].rollout \in Nat
<1>1. /\ run[i].generation \in 0 .. MaxGen
      /\ run[i].rollout \in Gens \cup {NULL}
  BY DEF StoreInv, RowsOK, RunRow
<1>2. run[i].generation \in Nat /\ run[i].generation <= MaxGen
  BY <1>1, ConstantFacts
<1> QED
  BY <1>1, <1>2, ConstantFacts

(* Generations only grow, and a run keeps its owner or is claimed.          *)
LEMMA GenerationGrows ==
    ASSUME StoreInv, [StoreNext]_storeVars, NEW i \in Runs
    PROVE  run'[i].generation >= run[i].generation
<1>1. run[i].generation \in Nat
  BY NumberColumns
<1>2. CASE UNCHANGED run
  BY <1>1, <1>2
<1>3. ASSUME NEW r \in Runs, RunStep(r)
      PROVE  run'[i].generation >= run[i].generation
  BY <1>1, <1>3
  DEF RunStep, Admitted, Claimed, Kept, Released, Finished, Withdrawn, SameOwner
<1> QED
  BY <1>2, <1>3, StepEffect

LEMMA RowColumnsKept ==
    ASSUME StoreInv, Columns, [StoreNext]_storeVars, NEW i \in Runs
    PROVE  ColumnsOK(run[i])'
<1>1. ColumnsOK(run[i]) /\ run[i].generation \in Nat
  BY NumberColumns DEF Columns
<1>2. run[i].rollout # NULL => run[i].rollout \in Nat
  BY NumberColumns
<1>3. run'[i].generation >= run[i].generation
  BY GenerationGrows
<1>4. StoreInv'
  BY NextInv
<1>5. run'[i].generation \in Nat
  BY <1>4, ConstantFacts DEF StoreInv, RowsOK, RunRow
<1>6. run'[i].rollout # NULL => run'[i].rollout <= run'[i].generation
  BY <1>1, <1>2, <1>3, <1>5, RolloutWritten DEF ColumnsOK
<1>7. CASE UNCHANGED run
  BY <1>1, <1>7 DEF ColumnsOK
<1>8. ASSUME NEW r \in Runs, RunStep(r)
      PROVE  /\ run'[i].supervisor_id # NULL => run'[i].generation > 0
             /\ run'[i].status = "stopping" => run'[i].desired # "running"
  <2>1. CASE i # r
    BY <1>1, <1>8, <2>1 DEF RunStep, ColumnsOK
  <2>2. CASE i = r
    <3>1. CASE Admitted(r)
      BY <1>1, <2>2, <3>1 DEF Admitted, SameOwner, ColumnsOK
    <3>2. CASE Claimed(r)
      BY <1>1, <2>2, <3>2 DEF Claimed
    <3>3. CASE Kept(r)
      BY <1>1, <2>2, <3>3 DEF Kept, SameOwner, SameIntent, ColumnsOK
    <3>4. CASE Released(r) \/ Finished(r)
      BY <1>1, <2>2, <3>4, StatusSets
      DEF Released, Finished, SameOwner, ColumnsOK
    <3>5. CASE Withdrawn(r)
      BY <1>1, <2>2, <3>5 DEF Withdrawn, SameOwner, ColumnsOK
    <3> QED
      BY <1>8, <3>1, <3>2, <3>3, <3>4, <3>5 DEF RunStep
  <2> QED
    BY <2>1, <2>2
<1> QED
  BY <1>6, <1>7, <1>8, StepEffect DEF ColumnsOK

LEMMA ColumnsKept ==
    StoreInv /\ Columns /\ [StoreNext]_storeVars => Columns'
<1> SUFFICES ASSUME StoreInv, Columns, [StoreNext]_storeVars PROVE Columns'
  OBVIOUS
<1>1. \A i \in Runs : ColumnsOK(run[i])'
  BY RowColumnsKept
<1>2. ask \in [Questions -> AskRow]
  BY DEF StoreInv, AsksOK
<1>3. ASSUME NEW q \in Questions, ask'[q].status \in Open
      PROVE  ask'[q].run_id \in Runs
  <2> USE DEF Columns, AskRow
  <2>1. CASE UNCHANGED ask
    BY <1>3, <2>1
  <2>2. CASE Closes
    BY <1>2, <1>3, <2>2 DEF Closes, Close, OpenOf
  <2>3. CASE Asks
    BY <1>2, <1>3, <2>3 DEF Asks
  <2>4. CASE Marks
    BY <1>2, <1>3, <2>4 DEF Marks
  <2> QED
    BY <2>1, <2>2, <2>3, <2>4, AskShapes
<1> QED
  BY <1>1, <1>3 DEF Columns

-----------------------------------------------------------------------------
(* Calls of the tables that neither claim a run nor ask a question *)

Asked == {"waiting", "stopping"} \cup Ended

OwnersKept == \A i \in Runs : SameOwner(i)
NoNewAsk ==
    \A q \in Questions :
       ask'[q].status \in Open
         => ask[q].status \in Open /\ ask'[q].run_id = ask[q].run_id
NoNewWait ==
    \A i \in Runs : run'[i].status = "waiting" => run[i].status = "waiting"
AskedKept ==
    \A q \in Questions, i \in Runs :
       /\ ask'[q].status \in Open /\ ask[q].run_id = i
       /\ run[i].status \in Asked
       => run'[i].status \in Asked
Calm ==
    [StoreNext]_storeVars /\ OwnersKept /\ NoNewAsk /\ NoNewWait /\ AskedKept

(* A write of one row: it keeps the status, withdraws or ends the run, or   *)
(* releases a run that has no open question.                                *)
StatusCalm(r) ==
    \/ run'[r].status = run[r].status
    \/ run'[r].status \in {"stopping"} \cup Ended
    \/ /\ run'[r].status # "waiting"
       /\ \/ run[r].status \notin Asked
          \/ \A q \in Questions :
                ~(ask'[q].status \in Open /\ ask[q].run_id = r)

LEMMA CalmRow ==
    ASSUME StoreInv, [StoreNext]_storeVars, NEW r \in Runs,
           OtherRows(r), SameOwner(r), NoNewAsk, StatusCalm(r)
    PROVE  Calm
<1>1. OwnersKept
  BY DEF OwnersKept, OtherRows, SameOwner
<1>2. NoNewWait
  BY DEF NoNewWait, OtherRows, StatusCalm, Ended
<1>3. AskedKept
  BY DEF AskedKept, OtherRows, StatusCalm, Asked
<1> QED
  BY <1>1, <1>2, <1>3 DEF Calm

LEMMA CalmTables ==
    ASSUME StoreInv, [StoreNext]_storeVars, UNCHANGED run, NoNewAsk
    PROVE  Calm
  BY DEF Calm, OwnersKept, SameOwner, NoNewWait, AskedKept

LEMMA AsksSame == UNCHANGED ask => NoNewAsk
  BY DEF NoNewAsk

LEMMA AsksClosed ==
    ASSUME StoreInv, NEW r \in Runs, NEW s \in Closed, Close(r, s)
    PROVE  /\ NoNewAsk
           /\ \A q \in Questions :
                 ~(ask'[q].status \in Open /\ ask[q].run_id = r)
<1>1. ask \in [Questions -> AskRow]
  BY DEF StoreInv, AsksOK
<1>2. s \notin Open
  BY DEF Closed, Answers, Open
<1> QED
  BY <1>1, <1>2 DEF Close, OpenOf, NoNewAsk, AskRow

LEMMA CancelledCloses ==
    {"cancelled", "worker_no_longer_waiting"} \subseteq Closed
  BY DEF Closed, Answers

LEMMA NothingIsCalm == StoreInv /\ UNCHANGED storeVars => Calm
  BY CalmTables, AsksSame DEF storeVars

LEMMA TouchIsCalm ==
    ASSUME StoreInv, NEW r \in Runs, NEW o \in Owners, NEW g \in Gens,
           \/ RecordHandle(r, o, g) \/ Heartbeat(r, o, g)
           \/ \E t \in 1 .. g : BindThread(r, o, g, t)
    PROVE  Calm
<1>1. OwnerStep(r, o, g)
  BY DEF OwnerStep
<1>2. [StoreNext]_storeVars
  BY <1>1 DEF StoreNext
<1>3. \E b : \/ run' = [run EXCEPT ![r].stale = b]
            \/ run' = [run EXCEPT ![r].rollout = b]
  BY DEF RecordHandle, Heartbeat, BindThread
<1>4. UNCHANGED ask
  BY DEF RecordHandle, Heartbeat, BindThread
<1> QED
  BY <1>2, <1>3, <1>4, CalmRow, TouchedColumns, AsksSame DEF StatusCalm

LEMMA LapseIsCalm ==
    ASSUME StoreInv, NEW r \in Runs, Lapse(r)
    PROVE  Calm
<1>1. [StoreNext]_storeVars
  BY DEF StoreNext
<1>2. run' = [run EXCEPT ![r].stale = TRUE] /\ UNCHANGED ask
  BY DEF Lapse
<1> QED
  BY <1>1, <1>2, CalmRow, TouchedColumns, AsksSame DEF StatusCalm

(* The owner ends the run, or goes on with it while no question is open.    *)
LEMMA SetStatusIsCalm ==
    ASSUME StoreInv, Columns, NEW r \in Runs, NEW o \in Owners, NEW g \in Gens,
           NEW s \in Statuses \ {"none", "stopping", "waiting"},
           SetStatus(r, o, g, s),
           s \in Ended \/ (run[r].status = "waiting" => OpenOf(r) = {})
    PROVE  Calm
<1>1. OwnerStep(r, o, g)
  BY DEF OwnerStep
<1>2. [StoreNext]_storeVars
  BY <1>1 DEF StoreNext
<1>3. /\ OtherRows(r) /\ SameOwner(r) /\ run'[r].status = s /\ UNCHANGED ask
      /\ run[r].status \in Owned
      /\ Wanted(r) \/ s = "cancelled"
  BY SettledColumns DEF SetStatus, CanSetStatus
<1>4. StatusCalm(r)
  <2>1. CASE s \in Ended
    BY <1>3, <2>1 DEF StatusCalm
  <2>2. CASE s \notin Ended
    <3>1. Wanted(r)
      BY <1>3, <2>2, StatusSets
    <3>2. run[r].status # "stopping"
      BY <3>1 DEF Wanted, Columns, ColumnsOK
    <3>3. CASE run[r].status # "waiting"
      BY <1>3, <3>2, <3>3, StatusSets DEF StatusCalm, Asked
    <3>4. CASE run[r].status = "waiting"
      BY <1>3, <2>2, <3>4 DEF StatusCalm, OpenOf
    <3> QED
      BY <3>3, <3>4
  <2> QED
    BY <2>1, <2>2
<1> QED
  BY <1>2, <1>3, <1>4, CalmRow, AsksSame

LEMMA FinishIsCalm ==
    ASSUME StoreInv, NEW r \in Runs, NEW o \in Owners, NEW g \in Gens,
           FinishLease(r, o, g) \/ Finalize(r, o, g)
    PROVE  Calm
<1>1. OwnerStep(r, o, g)
  BY DEF OwnerStep
<1>2. [StoreNext]_storeVars
  BY <1>1 DEF StoreNext
<1>3. CASE FinishLease(r, o, g)
  BY <1>2, <1>3, CalmTables, AsksSame DEF FinishLease
<1>4. CASE Finalize(r, o, g)
  BY <1>2, <1>4, CalmRow, SettledColumns, AsksClosed, CancelledCloses, StatusSets
  DEF Finalize, StatusCalm
<1> QED
  BY <1>3, <1>4

LEMMA SweepIsCalm ==
    ASSUME StoreInv, NEW r \in Runs, Orphan(r) \/ CancelStale(r)
    PROVE  Calm
<1>1. [StoreNext]_storeVars
  BY DEF StoreNext
<1>2. CASE Orphan(r)
  BY <1>1, <1>2, CalmRow, SettledColumns, AsksClosed, CancelledCloses
  DEF Orphan, StatusCalm
<1>3. CASE CancelStale(r)
  BY <1>1, <1>3, CalmRow, SettledColumns, AsksClosed, CancelledCloses,
     StatusSets
  DEF CancelStale, StatusCalm
<1> QED
  BY <1>2, <1>3

LEMMA AdmitIsCalm ==
    ASSUME StoreInv, NEW r \in Runs, NEW v \in Versions, Admit(r, v)
    PROVE  Calm
<1>1. [StoreNext]_storeVars
  BY DEF StoreNext
<1>2. run \in [Runs -> RunRow] /\ run[r] \in RunRow /\ run[r].status = "none"
  BY DEF StoreInv, RowsOK, Admit, CanAdmit, Exists
<1>3. OtherRows(r) /\ SameOwner(r) /\ run'[r].status = "queued"
  BY <1>2 DEF Admit, RunRow, OtherRows, SameOwner
<1>4. StatusCalm(r)
  BY <1>2, <1>3, StatusSets DEF StatusCalm, Asked
<1> QED
  BY <1>1, <1>3, <1>4, CalmRow, AsksSame DEF Admit

LEMMA WithdrawIsCalm ==
    ASSUME StoreInv, NEW r \in Runs,
           \/ \E v \in Versions : Terminalize(r, v)
           \/ \E o \in Owners \cup {NULL}, g \in 0 .. MaxGen : RequestStop(r, o, g)
           \/ RequestDelete(r)
    PROVE  Calm
<1>1. [StoreNext]_storeVars
  BY DEF StoreNext
<1>2. NoNewAsk
  BY AsksSame, AsksClosed, CancelledCloses
  DEF Terminalize, RequestStop, RequestDelete
<1>3. /\ OtherRows(r) /\ SameOwner(r)
      /\ run'[r].status \in {run[r].status, "stopping"} \cup Ended
  <2>1. ASSUME NEW v \in Versions, Terminalize(r, v)
        PROVE  OtherRows(r) /\ SameOwner(r) /\ run'[r].status = "failed"
    BY <2>1, WithdrawnColumns DEF Terminalize
  <2>2. ASSUME NEW o, NEW g, RequestStop(r, o, g)
        PROVE  /\ OtherRows(r) /\ SameOwner(r)
               /\ run'[r].status \in {"cancelled", "stopping"}
    BY <2>2, WithdrawnColumns DEF RequestStop
  <2>3. ASSUME RequestDelete(r)
        PROVE  /\ OtherRows(r) /\ SameOwner(r)
               /\ run'[r].status \in {run[r].status, "cancelled", "stopping"}
    BY <2>3, WithdrawnColumns DEF RequestDelete
  <2> QED
    BY <2>1, <2>2, <2>3, StatusSets
<1> QED
  BY <1>1, <1>2, <1>3, CalmRow DEF StatusCalm

LEMMA AnswerIsCalm ==
    ASSUME StoreInv, NEW q \in Questions,
           \/ Deliver(q)
           \/ \E s \in Answers \cup {"expired"} : Answer(q, s)
    PROVE  Calm
<1>1. [StoreNext]_storeVars
  BY DEF StoreNext
<1>2. ask \in [Questions -> AskRow] /\ UNCHANGED run
  BY DEF StoreInv, AsksOK, Deliver, Answer
<1>3. NoNewAsk
  BY <1>2 DEF Deliver, Answer, CanAnswer, NoNewAsk, AskRow, Open
<1> QED
  BY <1>1, <1>2, <1>3, CalmTables

LEMMA CancelIsCalm ==
    ASSUME StoreInv, NEW r \in Runs, CancelQuestions(r)
    PROVE  Calm
<1>1. [StoreNext]_storeVars
  BY DEF StoreNext
<1> QED
  BY <1>1, CalmTables, AsksClosed, CancelledCloses DEF CancelQuestions

-----------------------------------------------------------------------------
(* What almost every step does *)

(* A worker ends, is left alone, or goes on with its generation.  It leaves *)
(* the wait for a question only for its end, or when the question is closed.*)
Goes(v, w) ==
    /\ v.pc \notin {"none", "claim"} /\ w.pc \notin {"none", "claim"}
    /\ w.gen = v.gen
    /\ v.pc \in Parked => w.pc \in Parked
    /\ v.pc = "wait" => \/ w.pc \in Parked
                        \/ w.pc = "wait" /\ w.q = v.q
                        \/ ask[v.q].status \notin Open
CellGoes(v, w) ==
    \/ w.pc = "none"
    \/ w.pc = v.pc /\ w.gen = v.gen /\ w.q = v.q /\ w.seen = v.seen
    \/ Goes(v, w)
WorkersGo == Workers' /\ \A c \in Cells : CellGoes(wk[c], wk'[c])

(* A daemon claims nothing new and spawns nothing new.                      *)
TaskGoes(t, u) ==
    /\ u.pc = "claimed" => t.pc = "claimed" /\ u.g = t.g
    /\ u.pc \in Spawned => t.pc \in Spawned /\ u.g = t.g
TasksGo == Tasks' /\ \A c \in Cells : TaskGoes(sup[c], sup'[c])

(* A daemon forgets no worker process of its own that is alive.             *)
HandlesGo ==
    /\ Handles'
    /\ \A d \in Daemons, r \in Runs :
         host'[d] = "up" /\ wk'[<<d, r>>].pc # "none"
           => host[d] = "up" /\ tracked'[<<d, r>>] = tracked[<<d, r>>]

Ordinary == Calm /\ WorkersGo /\ TasksGo /\ HandlesGo /\ Others'

LEMMA CellFacts ==
    ASSUME NEW p \in Owners, NEW r \in Runs, WorkersGo
    PROVE  /\ wk'[<<p, r>>].pc \notin {"none"} =>
                /\ wk[<<p, r>>].pc # "none"
                /\ wk'[<<p, r>>].gen = wk[<<p, r>>].gen
                /\ wk'[<<p, r>>].pc = "claim" <=> wk[<<p, r>>].pc = "claim"
           /\ wk'[<<p, r>>].pc = "claim" =>
                wk'[<<p, r>>].seen = wk[<<p, r>>].seen
<1>1. <<p, r>> \in Cells
  BY DEF Cells
<1>2. CellGoes(wk[<<p, r>>], wk'[<<p, r>>])
  BY <1>1 DEF WorkersGo
<1> QED
  BY <1>2 DEF CellGoes, Goes

LEMMA OwnershipKept ==
    ASSUME AgentsInv, OwnersKept, WorkersGo, TasksGo, HandlesGo
    PROVE  Ownership'
<1>1. ASSUME NEW p \in Owners, NEW r \in Runs
      PROVE  OwnGeneration(p, r)'
  <2>1. OwnGeneration(p, r) /\ SameOwner(r)
    BY DEF AgentsInv, Ownership, OwnersKept
  <2> QED
    BY <2>1, CellFacts
    DEF OwnGeneration, SameOwner, Alive, At, Gen
<1>2. ASSUME NEW d \in Daemons, NEW r \in Runs
      PROVE  Tracks(d, r)' /\ Spawns(d, r)'
  <2>1. d \in Owners /\ <<d, r>> \in Cells
    BY AgentsAssumption DEF Cells
  <2>2. Tracks(d, r) /\ Spawns(d, r) /\ SameOwner(r)
    BY DEF AgentsInv, Ownership, OwnersKept
  <2>3. TaskGoes(sup[<<d, r>>], sup'[<<d, r>>])
    BY <2>1 DEF TasksGo
  <2>4. Tracks(d, r)'
    BY <2>1, <2>2, CellFacts DEF HandlesGo, Tracks, Alive, Gen
  <2>5. Spawns(d, r)'
    BY <2>1, <2>2, <2>3, CellFacts
    DEF Spawns, SameOwner, Alive, At, Gen, Doing, TaskGoes, Spawned
  <2> QED
    BY <2>4, <2>5
<1>3. ASSUME NEW p \in Owners \ Daemons, NEW r \in Runs
      PROVE  sup'[<<p, r>>].pc \notin {"claimed"} \cup Spawned
  <2>1. <<p, r>> \in Cells
    BY DEF Cells
  <2>2. TaskGoes(sup[<<p, r>>], sup'[<<p, r>>])
    BY <2>1 DEF TasksGo
  <2> QED
    BY <2>2 DEF AgentsInv, Ownership, TaskGoes
<1> QED
  BY <1>1, <1>2, <1>3 DEF Ownership

LEMMA OrdinaryQuestions ==
    ASSUME AgentsInv, Ordinary
    PROVE  NoInheritedQuestion' /\ AskerWaits'
<1>1. /\ Columns /\ NoInheritedQuestion /\ AskerWaits
      /\ OwnersKept /\ NoNewAsk /\ NoNewWait /\ AskedKept
  BY DEF AgentsInv, WorkInv, Ordinary, Calm
<1>2. ASSUME NEW q \in Questions, ask'[q].status \in Open
      PROVE  run'[ask'[q].run_id].status \in Asked
  <2>1. /\ ask[q].status \in Open /\ ask'[q].run_id = ask[q].run_id
        /\ ask[q].run_id \in Runs
    BY <1>1, <1>2 DEF NoNewAsk, Columns
  <2>2. run[ask[q].run_id].status \in Asked
    BY <1>1, <2>1 DEF NoInheritedQuestion, Asked
  <2> QED
    BY <1>1, <1>2, <2>1, <2>2 DEF AskedKept
<1>3. ASSUME NEW q \in Questions, NEW r \in Runs, NEW p \in Owners,
             ask'[q].run_id = r, ask'[q].status \in Open,
             run'[r].status = "waiting", run'[r].supervisor_id = p
      PROVE  Asking(p, r, q)' /\ ~Doing(p, r, "claimed")'
  <2>1. /\ q \in OpenOf(r) /\ run[r].status = "waiting"
        /\ run[r].supervisor_id = p /\ ask[q].status \in Open
    BY <1>1, <1>3
    DEF OwnersKept, SameOwner, NoNewAsk, NoNewWait, OpenOf
  <2>2. Asking(p, r, q) /\ ~Doing(p, r, "claimed")
    BY <1>1, <2>1 DEF AskerWaits
  <2>3. <<p, r>> \in Cells
    BY DEF Cells
  <2>4. /\ CellGoes(wk[<<p, r>>], wk'[<<p, r>>])
        /\ TaskGoes(sup[<<p, r>>], sup'[<<p, r>>])
    BY <2>3 DEF Ordinary, WorkersGo, TasksGo
  <2>5. Asking(p, r, q)'
    BY <2>1, <2>2, <2>4 DEF Asking, At, CellGoes, Goes, Parked
  <2> QED
    BY <2>2, <2>4, <2>5 DEF Doing, TaskGoes
<1>4. NoInheritedQuestion'
  BY <1>2 DEF NoInheritedQuestion, Asked
<1>5. AskerWaits'
  BY <1>3 DEF AskerWaits, OpenOf
<1> QED
  BY <1>4, <1>5

LEMMA SeenKept ==
    ASSUME AgentsInv, [StoreNext]_storeVars, WorkersGo,
           NEW p \in Owners, NEW r \in Runs
    PROVE  SeenEarlier(p, r)'
<1>1. StoreInv /\ StoreInv' /\ SeenEarlier(p, r)
  BY NextInv DEF AgentsInv, WorkInv
<1>2. run'[r].generation >= run[r].generation /\ run[r].generation \in Nat
  BY <1>1, GenerationGrows, NumberColumns
<1>3. run'[r].generation \in Nat
  <2>1. (run[r].generation \in Nat)'
    BY <1>1 DEF StoreInv, RowsOK, RunRow
  <2> QED
    BY <2>1
<1>4. <<p, r>> \in Cells /\ wk[<<p, r>>] \in WorkerRecord
  BY DEF Cells, AgentsInv, WorkInv, Workers
<1>5. wk[<<p, r>>].seen # NULL => wk[<<p, r>>].seen \in Nat
  BY <1>4, ConstantFacts DEF WorkerRecord
<1>6. wk'[<<p, r>>].pc = "claim" => /\ wk[<<p, r>>].pc = "claim"
                                   /\ wk'[<<p, r>>].seen = wk[<<p, r>>].seen
  BY CellFacts
<1> QED
  BY <1>1, <1>2, <1>3, <1>5, <1>6 DEF SeenEarlier, At

LEMMA OrdinaryKeeps == AgentsInv /\ Ordinary => AgentsInv'
<1> SUFFICES ASSUME AgentsInv, Ordinary PROVE AgentsInv'
  OBVIOUS
<1>1. StoreInv' /\ Columns'
  BY NextInv, ColumnsKept DEF AgentsInv, WorkInv, Ordinary, Calm
<1>2. Workers' /\ Tasks' /\ Handles' /\ Others'
  BY DEF Ordinary, WorkersGo, TasksGo, HandlesGo
<1>3. \A p \in Owners, r \in Runs : SeenEarlier(p, r)'
  BY SeenKept DEF Ordinary, Calm
<1>4. Ownership'
  BY OwnershipKept DEF Ordinary, Calm
<1> QED
  BY <1>1, <1>2, <1>3, <1>4, OrdinaryQuestions DEF AgentsInv, WorkInv

-----------------------------------------------------------------------------
(* The steps of a worker *)

LEMMA EmptyRecords ==
    /\ NoWorker \in WorkerRecord /\ WorkerOK(NoWorker) /\ NoWorker.pc = "none"
    /\ NoTask \in TaskRecord /\ TaskOK(NoTask) /\ NoTask.pc = "none"
    /\ NoRequest \in RequestRecord /\ NoRequest.pc = "none"
<1>1. MaxGen \in Nat /\ 0 \in 0 .. MaxGen
  BY ConstantFacts
<1>2. NoWorker \in WorkerRecord
  BY <1>1 DEF NoWorker, WorkerRecord, WorkerPcs
<1>3. NoTask \in TaskRecord
  BY <1>1 DEF NoTask, TaskRecord
<1>4. NoRequest \in RequestRecord
  BY <1>1 DEF NoRequest, RequestRecord
<1>5. NoWorker.pc = "none" /\ NoTask.pc = "none" /\ NoRequest.pc = "none"
  BY DEF NoWorker, NoTask, NoRequest
<1>6. WorkerOK(NoWorker) /\ TaskOK(NoTask)
  BY <1>5 DEF WorkerOK, TaskOK
<1> QED
  BY <1>2, <1>3, <1>4, <1>5, <1>6

LEMMA CellTypes ==
    ASSUME AgentsInv, NEW p \in Owners, NEW r \in Runs
    PROVE  /\ <<p, r>> \in Cells /\ wk[<<p, r>>] \in WorkerRecord
           /\ WorkerOK(wk[<<p, r>>])
           /\ sup[<<p, r>>] \in TaskRecord /\ TaskOK(sup[<<p, r>>])
           /\ tracked[<<p, r>>] \in (Owners \X Gens) \cup {NULL}
           /\ wk \in [Cells -> WorkerRecord] /\ sup \in [Cells -> TaskRecord]
           /\ StoreInv /\ Columns
<1>1. <<p, r>> \in Cells
  BY DEF Cells
<1> QED
  BY <1>1 DEF AgentsInv, WorkInv, Workers, Tasks, Handles

LEMMA SameWorkers == AgentsInv /\ UNCHANGED wk => WorkersGo
  BY DEF AgentsInv, WorkInv, Workers, WorkersGo, WorkerOK, CellGoes

LEMMA OneWorker ==
    ASSUME AgentsInv, NEW p \in Owners, NEW r \in Runs,
           NEW w \in WorkerRecord, WorkerOK(w), CellGoes(wk[<<p, r>>], w),
           wk' = [wk EXCEPT ![<<p, r>>] = w]
    PROVE  WorkersGo
<1>1. <<p, r>> \in Cells /\ wk \in [Cells -> WorkerRecord]
  BY CellTypes
<1>2. \A c \in Cells : wk'[c] = IF c = <<p, r>> THEN w ELSE wk[c]
  BY <1>1
<1>3. wk' \in [Cells -> WorkerRecord]
  BY <1>1
<1>4. \A c \in Cells : WorkerOK(wk[c])
  BY DEF AgentsInv, WorkInv, Workers
<1>5. \A c \in Cells : WorkerOK(wk'[c])
  BY <1>2, <1>4
<1>6. \A c \in Cells : CellGoes(wk[c], wk'[c])
  BY <1>2 DEF CellGoes
<1>7. Workers'
  BY <1>3, <1>5 DEF Workers, WorkerOK
<1> QED
  BY <1>6, <1>7 DEF WorkersGo

LEMMA ExitGoes ==
    ASSUME AgentsInv, NEW p \in Owners, NEW r \in Runs, Exit(p, r)
    PROVE  WorkersGo
  BY EmptyRecords, OneWorker DEF Exit, CellGoes

(* Where a worker may go with what it has.                                  *)
Early == {"receipt", "config", "starting", "thread", "bind"}
Ready(v, x) ==
    /\ v.pc \notin {"none", "claim"}
    /\ x \in WorkerPcs \ {"none", "claim", "stop", "failing", "wait"}
    /\ v.pc \in Parked => x \in Parked
    /\ v.pc = "wait" => x \in Parked \/ ask[v.q].status \notin Open
    /\ x \in {"bind", "bound", "prompt"} => v.seen \in Gens
    /\ x \in Early => v.pc \in Early

LEMMA ReadyGoes ==
    ASSUME NEW v \in WorkerRecord, WorkerOK(v), NEW x, Ready(v, x)
    PROVE  /\ [v EXCEPT !.pc = x] \in WorkerRecord
           /\ WorkerOK([v EXCEPT !.pc = x])
           /\ CellGoes(v, [v EXCEPT !.pc = x])
<1> DEFINE w == [v EXCEPT !.pc = x]
<1>1. /\ w \in WorkerRecord /\ w.pc = x /\ w.gen = v.gen /\ w.q = v.q
      /\ w.s = v.s /\ w.seen = v.seen
  BY DEF WorkerRecord, Ready
<1>2. WorkerOK(w)
  BY <1>1 DEF WorkerOK, Ready, Early
<1>3. Goes(v, w)
  BY <1>1 DEF Goes, Ready
<1> QED
  BY <1>1, <1>2, <1>3 DEF CellGoes

LEMMA GoGoes ==
    ASSUME AgentsInv, NEW p \in Owners, NEW r \in Runs, NEW x,
           Ready(wk[<<p, r>>], x), Go(p, r, x)
    PROVE  WorkersGo
<1> DEFINE w == [wk[<<p, r>>] EXCEPT !.pc = x]
<1>1. /\ wk \in [Cells -> WorkerRecord] /\ <<p, r>> \in Cells
      /\ wk[<<p, r>>] \in WorkerRecord /\ WorkerOK(wk[<<p, r>>])
  BY CellTypes
<1>2. w \in WorkerRecord /\ WorkerOK(w) /\ CellGoes(wk[<<p, r>>], w)
  BY <1>1, ReadyGoes
<1>3. wk' = [wk EXCEPT ![<<p, r>>] = w]
  BY <1>1 DEF Go
<1> QED
  BY <1>2, <1>3, OneWorker

LEMMA ErrorReady ==
    ASSUME NEW v, v.pc \notin {"none", "claim"}
    PROVE  Ready(v, "error")
  BY DEF Ready, WorkerPcs, Parked, Early

LEMMA LoseGoes ==
    ASSUME AgentsInv, NEW p \in Owners, NEW r \in Runs,
           wk[<<p, r>>].pc \notin {"none", "claim"}, Lose(p, r)
    PROVE  Calm /\ WorkersGo
<1>1. StoreInv
  BY CellTypes
<1>2. Calm
  BY <1>1, NothingIsCalm DEF Lose
<1>3. WorkersGo
  BY ErrorReady, GoGoes, ExitGoes DEF Lose
<1> QED
  BY <1>2, <1>3

(* append_status of a worker that is not waiting, or that ends the run.     *)
LEMMA PutGoes ==
    ASSUME AgentsInv, NEW p \in Owners, NEW r \in Runs, NEW x,
           NEW s \in Statuses \ {"none", "stopping", "waiting"},
           s \in Ended \/ wk[<<p, r>>].pc \notin Parked \cup {"wait"},
           Ready(wk[<<p, r>>], x), Put(p, r, s, x)
    PROVE  Calm /\ WorkersGo
<1>1. /\ StoreInv /\ Columns /\ AskerWaits /\ WorkerOK(wk[<<p, r>>])
      /\ wk[<<p, r>>].pc \notin {"none", "claim"}
  BY CellTypes DEF AgentsInv, Ready
<1>2. Gen(p, r) \in Gens
  BY <1>1 DEF WorkerOK, Gen
<1>3. CASE CanSetStatus(r, p, Gen(p, r), s)
  <2>1. SetStatus(r, p, Gen(p, r), s) /\ Go(p, r, x)
    BY <1>3 DEF Put
  <2>2. s \in Ended \/ (run[r].status = "waiting" => OpenOf(r) = {})
    BY <1>1, <1>3
    DEF CanSetStatus, Owns, AskerWaits, Asking, At, OpenOf
  <2>3. Calm
    BY <1>1, <1>2, <2>1, <2>2, SetStatusIsCalm
  <2> QED
    BY <2>1, <2>3, GoGoes
<1>4. CASE ~CanSetStatus(r, p, Gen(p, r), s)
  BY <1>1, <1>4, LoseGoes DEF Put
<1> QED
  BY <1>3, <1>4

(* The rest of a step of a worker.                                          *)
LEMMA WorkerOrdinary ==
    ASSUME AgentsInv, Calm, WorkersGo, WorkerOnly,
           prompts' \in [Runs \X Gens -> Nat], faults' \in Nat
    PROVE  Ordinary
<1>1. TasksGo
  BY DEF AgentsInv, WorkInv, Tasks, TasksGo, TaskOK, TaskGoes, WorkerOnly
<1>2. HandlesGo
  BY DEF AgentsInv, WorkInv, Handles, HandlesGo, WorkerOnly
<1>3. Others'
  BY DEF AgentsInv, WorkInv, Others, WorkerOnly
<1> QED
  BY <1>1, <1>2, <1>3 DEF Ordinary

LEMMA OnlyOrdinary ==
    ASSUME AgentsInv, Calm, WorkersGo, Only
    PROVE  Ordinary
<1>1. prompts' \in [Runs \X Gens -> Nat] /\ faults' \in Nat
  BY DEF AgentsInv, WorkInv, Others, Only
<1> QED
  BY <1>1, WorkerOrdinary DEF Only

LEMMA FaultOrdinary ==
    ASSUME AgentsInv, Calm, WorkersGo, WorkerOnly, UNCHANGED prompts,
           NEW f, Fault(f)
    PROVE  Ordinary
<1>1. prompts' \in [Runs \X Gens -> Nat] /\ faults' \in Nat
  BY DEF AgentsInv, WorkInv, Others, Fault
<1> QED
  BY <1>1, WorkerOrdinary

LEMMA BootOrdinary ==
    ASSUME AgentsInv, NEW p \in Owners, NEW r \in Runs, Boot(p, r)
    PROVE  Ordinary
<1> DEFINE v == wk[<<p, r>>]
           w == [v EXCEPT !.pc = "receipt", !.seen = run[r].rollout]
<1>1. /\ v \in WorkerRecord /\ WorkerOK(v) /\ v.pc = "boot"
      /\ wk \in [Cells -> WorkerRecord] /\ <<p, r>> \in Cells
      /\ StoreInv /\ Columns
  BY CellTypes DEF Boot, At
<1>2. Calm
  BY <1>1, NothingIsCalm DEF Boot
<1>3. CASE Owns(r, p, Gen(p, r)) /\ run[r].status = "starting"
  <2>1. wk' = [wk EXCEPT ![<<p, r>>] = w]
    BY <1>1, <1>3 DEF Boot
  <2>2. run[r].rollout \in Gens \cup {NULL} /\ run[r].generation = v.gen
    BY <1>1, <1>3, NumberColumns DEF Owns, Gen
  <2>3. run[r].rollout # NULL => run[r].rollout <= run[r].generation
    BY <1>1 DEF Columns, ColumnsOK
  <2>4. /\ w \in WorkerRecord /\ w.pc = "receipt" /\ w.gen = v.gen
        /\ w.seen = run[r].rollout
    BY <1>1, <2>2 DEF WorkerRecord, WorkerPcs
  <2>5. WorkerOK(w)
    BY <1>1, <2>2, <2>3, <2>4 DEF WorkerOK
  <2>6. CellGoes(v, w)
    BY <1>1, <2>4 DEF CellGoes, Goes, Parked
  <2> QED
    BY <1>2, <2>1, <2>4, <2>5, <2>6, OneWorker, OnlyOrdinary DEF Boot
<1>4. CASE ~(Owns(r, p, Gen(p, r)) /\ run[r].status = "starting")
  BY <1>2, <1>4, ExitGoes, OnlyOrdinary DEF Boot
<1> QED
  BY <1>3, <1>4

LEMMA ReceiptOrdinary ==
    ASSUME AgentsInv, NEW p \in Owners, NEW r \in Runs,
           AwaitReceipt(p, r) \/ ReceiptTimeout(p, r) \/ WorkerError(p, r)
    PROVE  Ordinary
<1>1. StoreInv
  BY CellTypes
<1>2. Calm /\ Only
  BY <1>1, NothingIsCalm DEF AwaitReceipt, ReceiptTimeout, WorkerError
<1>3. CASE AwaitReceipt(p, r)
  <2>1. Ready(wk[<<p, r>>], "config") /\ Go(p, r, "config")
    BY <1>3 DEF AwaitReceipt, At, Ready, WorkerPcs, Parked, Early
  <2> QED
    BY <1>2, <2>1, GoGoes, OnlyOrdinary
<1>4. CASE ReceiptTimeout(p, r) \/ WorkerError(p, r)
  <2>1. wk[<<p, r>>].pc \notin {"none", "claim"} /\ Go(p, r, "error")
    BY <1>4 DEF ReceiptTimeout, WorkerError, At
  <2> QED
    BY <1>2, <2>1, ErrorReady, GoGoes, OnlyOrdinary
<1> QED
  BY <1>3, <1>4

LEMMA GenType ==
    ASSUME AgentsInv, NEW p \in Owners, NEW r \in Runs,
           wk[<<p, r>>].pc \notin {"none", "claim"}
    PROVE  Gen(p, r) \in Gens
  BY CellTypes DEF WorkerOK, Gen

LEMMA ConfigureOrdinary ==
    ASSUME AgentsInv, NEW p \in Owners, NEW r \in Runs, Configure(p, r)
    PROVE  Ordinary
<1>1. StoreInv /\ wk[<<p, r>>].pc = "config" /\ Only
  BY CellTypes DEF Configure, At
<1>2. Ready(wk[<<p, r>>], "starting")
  BY <1>1 DEF Ready, WorkerPcs, Parked, Early
<1>3. CASE CanRecord(r, p, Gen(p, r))
  <2>1. RecordHandle(r, p, Gen(p, r)) /\ Go(p, r, "starting")
    BY <1>3 DEF Configure
  <2>2. Calm
    BY <1>1, <2>1, GenType, TouchIsCalm
  <2> QED
    BY <1>1, <1>2, <2>1, <2>2, GoGoes, OnlyOrdinary
<1>4. CASE ~CanRecord(r, p, Gen(p, r))
  BY <1>1, <1>4, LoseGoes, OnlyOrdinary DEF Configure
<1> QED
  BY <1>3, <1>4

(* The statuses a worker writes *)
LEMMA StatusOrdinary ==
    ASSUME AgentsInv, NEW p \in Owners, NEW r \in Runs,
           \/ Starting(p, r) \/ Running(p, r) \/ TurnEvent(p, r)
           \/ \E s \in Ended : TurnEnds(p, r, s)
           \/ Stop(p, r) \/ Answered(p, r)
    PROVE  Ordinary
<1> DEFINE v == wk[<<p, r>>]
<1>1. WorkerOK(v) /\ v \in WorkerRecord
  BY CellTypes
<1>2. Only
  BY DEF Starting, Running, TurnEvent, TurnEnds, Stop, Answered
<1> USE DEF Ready, WorkerPcs, Parked, Early
<1>3. CASE Starting(p, r)
  <2>1. /\ v.pc = "starting" /\ Put(p, r, "starting", "thread")
        /\ "starting" \in Statuses
    BY <1>3 DEF Starting, At, Statuses, Owned, Live
  <2>2. Ready(v, "thread")
    BY <2>1
  <2> QED
    BY <1>2, <2>1, <2>2, PutGoes, OnlyOrdinary
<1>4. CASE Running(p, r)
  <2>1. PICK x \in {"loop", "prompt"} : Put(p, r, "running", x)
    BY <1>4 DEF Running
  <2>2. v.pc = "bound" /\ "running" \in Statuses
    BY <1>4 DEF Running, At, Statuses, Owned, Live
  <2>3. Ready(v, x)
    BY <1>1, <2>2 DEF WorkerOK
  <2> QED
    BY <1>2, <2>1, <2>2, <2>3, PutGoes, OnlyOrdinary
<1>5. CASE TurnEvent(p, r) \/ Answered(p, r)
  <2>1. /\ v.pc \in {"loop", "answered"} /\ Put(p, r, "running", "loop")
        /\ "running" \in Statuses
    BY <1>5 DEF TurnEvent, Answered, InTurn, At, Statuses, Owned, Live
  <2>2. Ready(v, "loop")
    BY <2>1
  <2> QED
    BY <1>2, <2>1, <2>2, PutGoes, OnlyOrdinary
<1>6. ASSUME NEW s \in Ended, TurnEnds(p, r, s) PROVE Ordinary
  <2>1. /\ v.pc = "loop" /\ Put(p, r, s, "ending")
        /\ s \in Statuses \ {"none", "stopping", "waiting"}
    BY <1>6 DEF TurnEnds, InTurn, At, Statuses, Ended
  <2>2. Ready(v, "ending")
    BY <2>1
  <2> QED
    BY <1>2, <2>1, <2>2, PutGoes, OnlyOrdinary
<1>7. CASE Stop(p, r)
  <2>1. /\ v.pc = "stop" /\ Put(p, r, v.s, "ending")
    BY <1>7 DEF Stop, At
  <2>2. v.s \in Statuses \ {"none", "stopping", "waiting"}
    BY <1>1, <2>1 DEF WorkerOK, Statuses, Ended, Unclaimed
  <2>3. Ready(v, "ending")
    BY <2>1
  <2> QED
    BY <1>2, <2>1, <2>2, <2>3, PutGoes, OnlyOrdinary
<1> QED
  BY <1>3, <1>4, <1>5, <1>6, <1>7

LEMMA DeferOrdinary ==
    ASSUME AgentsInv, NEW p \in Owners, NEW r \in Runs, Defer(p, r)
    PROVE  Ordinary
<1>1. /\ wk[<<p, r>>].pc \in {"config", "loop"}
      /\ Put(p, r, "queued", "ending") /\ "queued" \in Statuses
  BY DEF Defer, At, Statuses, Unclaimed
<1>2. Ready(wk[<<p, r>>], "ending")
  BY <1>1 DEF Ready, WorkerPcs, Parked, Early
<1>3. Calm /\ WorkersGo
  BY <1>1, <1>2, PutGoes DEF Parked
<1> QED
  BY <1>3, FaultOrdinary DEF Defer

LEMMA OpenThreadOrdinary ==
    ASSUME AgentsInv, NEW p \in Owners, NEW r \in Runs, OpenThread(p, r)
    PROVE  Ordinary
<1> DEFINE v == wk[<<p, r>>]
           t == IF v.seen = NULL THEN v.gen ELSE v.seen
           b == v.seen # NULL /\ prompts[<<r, v.seen>>] > 0
           w == [v EXCEPT !.pc = "bind", !.seen = t, !.recorded = b]
<1>1. /\ v \in WorkerRecord /\ WorkerOK(v) /\ v.pc = "thread"
      /\ wk \in [Cells -> WorkerRecord] /\ <<p, r>> \in Cells /\ StoreInv
  BY CellTypes DEF OpenThread, At
<1>2. Calm /\ Only
  BY <1>1, NothingIsCalm DEF OpenThread
<1>3. wk' = [wk EXCEPT ![<<p, r>>] = w]
  BY <1>1 DEF OpenThread, Gen
<1>4. b \in BOOLEAN
  OBVIOUS
<1>5. v.gen \in Gens /\ v.seen \in Gens \cup {NULL}
  BY <1>1 DEF WorkerOK, WorkerRecord
<1>6. t \in Gens /\ t <= v.gen
  <2>1. v.gen \in Nat
    BY <1>5, ConstantFacts
  <2>2. v.seen # NULL => v.seen <= v.gen
    BY <1>1 DEF WorkerOK
  <2>3. CASE v.seen = NULL
    BY <1>5, <2>1, <2>3
  <2>4. CASE v.seen # NULL
    BY <1>5, <2>2, <2>4
  <2> QED
    BY <2>3, <2>4
<1> HIDE DEF t, b
<1>7. w \in WorkerRecord /\ w.pc = "bind" /\ w.gen = v.gen /\ w.seen = t
  BY <1>1, <1>4, <1>6 DEF WorkerRecord, WorkerPcs
<1>8. WorkerOK(w)
  BY <1>5, <1>6, <1>7 DEF WorkerOK
<1>9. CellGoes(v, w)
  BY <1>1, <1>7 DEF CellGoes, Goes, Parked
<1> QED
  BY <1>2, <1>3, <1>7, <1>8, <1>9, OneWorker, OnlyOrdinary

LEMMA BindOrdinary ==
    ASSUME AgentsInv, NEW p \in Owners, NEW r \in Runs, Bind(p, r)
    PROVE  Ordinary
<1> DEFINE v == wk[<<p, r>>]
<1>1. /\ v \in WorkerRecord /\ WorkerOK(v) /\ v.pc = "bind" /\ StoreInv /\ Only
  BY CellTypes DEF Bind, At
<1>2. v.gen \in Gens /\ v.seen \in Gens /\ v.seen \in 1 .. v.gen
  <2>1. v.gen \in Gens /\ v.seen \in Gens
    BY <1>1 DEF WorkerOK
  <2>2. v.seen <= v.gen
    BY <1>1, <2>1, ConstantFacts DEF WorkerOK
  <2> QED
    BY <2>1, <2>2, ConstantFacts
<1>3. Ready(v, "bound")
  BY <1>1, <1>2 DEF Ready, WorkerPcs, Parked, Early
<1>4. CASE CanBind(r, p, Gen(p, r))
  <2>1. BindThread(r, p, v.gen, v.seen) /\ Go(p, r, "bound")
    BY <1>4 DEF Bind, Gen
  <2>2. Calm
    BY <1>1, <1>2, <2>1, TouchIsCalm
  <2> QED
    BY <1>1, <1>3, <2>1, <2>2, GoGoes, OnlyOrdinary
<1>5. CASE ~CanBind(r, p, Gen(p, r))
  BY <1>1, <1>5, LoseGoes, OnlyOrdinary DEF Bind
<1> QED
  BY <1>4, <1>5

LEMMA PromptOrdinary ==
    ASSUME AgentsInv, NEW p \in Owners, NEW r \in Runs, SubmitPrompt(p, r)
    PROVE  Ordinary
<1> DEFINE v == wk[<<p, r>>]
           w == [v EXCEPT !.pc = "loop", !.turn = TRUE]
<1>1. /\ v \in WorkerRecord /\ WorkerOK(v) /\ v.pc = "prompt"
      /\ wk \in [Cells -> WorkerRecord] /\ <<p, r>> \in Cells /\ StoreInv
  BY CellTypes DEF SubmitPrompt, At
<1>2. Calm /\ WorkerOnly
  BY <1>1, NothingIsCalm DEF SubmitPrompt
<1>3. wk' = [wk EXCEPT ![<<p, r>>] = w]
  BY <1>1 DEF SubmitPrompt
<1>4. w \in WorkerRecord /\ w.pc = "loop" /\ w.gen = v.gen
  BY <1>1 DEF WorkerRecord, WorkerPcs
<1>5. WorkerOK(w) /\ CellGoes(v, w)
  BY <1>1, <1>4 DEF WorkerOK, CellGoes, Goes, Parked
<1>6. <<r, v.seen>> \in Runs \X Gens
  BY <1>1 DEF WorkerOK
<1>7. /\ prompts \in [Runs \X Gens -> Nat] /\ faults' \in Nat
      /\ prompts' = [prompts EXCEPT ![<<r, v.seen>>] = @ + 1]
  BY DEF SubmitPrompt, AgentsInv, WorkInv, Others
<1>8. prompts' \in [Runs \X Gens -> Nat]
  BY <1>6, <1>7
<1> QED
  BY <1>2, <1>3, <1>4, <1>5, <1>7, <1>8, OneWorker, WorkerOrdinary

LEMMA BeatOrdinary ==
    ASSUME AgentsInv, NEW p \in Owners, NEW r \in Runs, StartupBeat(p, r)
    PROVE  Ordinary
<1>1. StoreInv /\ wk[<<p, r>>].pc \in {"thread", "prompt"} /\ Only
  BY CellTypes DEF StartupBeat, At
<1>2. CASE CanHeartbeat(r, p, Gen(p, r))
  <2>1. Heartbeat(r, p, Gen(p, r)) /\ UNCHANGED wk
    BY <1>2 DEF StartupBeat
  <2>2. Calm
    BY <1>1, <2>1, GenType, TouchIsCalm
  <2> QED
    BY <1>1, <2>1, <2>2, SameWorkers, OnlyOrdinary
<1>3. CASE ~CanHeartbeat(r, p, Gen(p, r))
  BY <1>1, <1>3, LoseGoes, OnlyOrdinary DEF StartupBeat
<1> QED
  BY <1>2, <1>3

LEMMA GoalTurnOrdinary ==
    ASSUME AgentsInv, NEW p \in Owners, NEW r \in Runs, GoalTurn(p, r)
    PROVE  Ordinary
<1> DEFINE v == wk[<<p, r>>]
           w == [v EXCEPT !.turn = TRUE]
<1>1. /\ v \in WorkerRecord /\ WorkerOK(v) /\ v.pc = "loop"
      /\ wk \in [Cells -> WorkerRecord] /\ <<p, r>> \in Cells /\ StoreInv
  BY CellTypes DEF GoalTurn, At
<1>2. Calm /\ Only
  BY <1>1, NothingIsCalm DEF GoalTurn
<1>3. wk' = [wk EXCEPT ![<<p, r>>] = w]
  BY <1>1 DEF GoalTurn
<1>4. w \in WorkerRecord /\ w.pc = "loop" /\ w.gen = v.gen
  BY <1>1 DEF WorkerRecord
<1>5. WorkerOK(w) /\ CellGoes(v, w)
  BY <1>1, <1>4 DEF WorkerOK, CellGoes, Goes, Parked
<1> QED
  BY <1>2, <1>3, <1>4, <1>5, OneWorker, OnlyOrdinary

(* The worker knows how its run is to end.                                  *)
LEMMA EndKnown ==
    ASSUME AgentsInv, NEW p \in Owners, NEW r \in Runs,
           NEW x \in {"stop", "failing"}, NEW s \in Ended \cup {"orphaned"},
           \/ wk[<<p, r>>].pc = "loop" /\ x = "stop"
           \/ wk[<<p, r>>].pc = "error" /\ x = "failing" /\ s \in Ended,
           wk' = [wk EXCEPT ![<<p, r>>].pc = x, ![<<p, r>>].s = s]
    PROVE  WorkersGo
<1> DEFINE v == wk[<<p, r>>]
           w == [v EXCEPT !.pc = x, !.s = s]
<1>1. /\ v \in WorkerRecord /\ WorkerOK(v)
      /\ wk \in [Cells -> WorkerRecord] /\ <<p, r>> \in Cells
  BY CellTypes
<1>2. wk' = [wk EXCEPT ![<<p, r>>] = w]
  BY <1>1
<1>3. s \in Statuses
  BY DEF Statuses, Unclaimed
<1>4. w \in WorkerRecord /\ w.pc = x /\ w.gen = v.gen /\ w.s = s
  BY <1>1, <1>3 DEF WorkerRecord, WorkerPcs
<1>5. WorkerOK(w) /\ CellGoes(v, w)
  BY <1>1, <1>4 DEF WorkerOK, CellGoes, Goes, Parked
<1> QED
  BY <1>2, <1>4, <1>5, OneWorker

LEMMA TickOrdinary ==
    ASSUME AgentsInv, NEW p \in Owners, NEW r \in Runs,
           Tick(p, r) \/ Cancelled(p, r)
    PROVE  Ordinary
<1>1. StoreInv /\ wk[<<p, r>>].pc = "loop" /\ Only
  BY CellTypes DEF Tick, Cancelled, At
<1>2. {"cancelled", "orphaned"} \subseteq Ended \cup {"orphaned"}
  BY DEF Ended
<1>3. CASE Cancelled(p, r)
  <2>1. Calm
    BY <1>1, <1>3, NothingIsCalm DEF Cancelled
  <2>2. PICK s \in {"cancelled", "orphaned"} :
           wk' = [wk EXCEPT ![<<p, r>>].pc = "stop", ![<<p, r>>].s = s]
    BY <1>3 DEF Cancelled
  <2> QED
    BY <1>1, <1>2, <2>1, <2>2, EndKnown, OnlyOrdinary
<1>4. CASE Tick(p, r) /\ CanHeartbeat(r, p, Gen(p, r))
  <2>1. Heartbeat(r, p, Gen(p, r))
    BY <1>4 DEF Tick
  <2>2. Calm
    BY <1>1, <2>1, GenType, TouchIsCalm
  <2>3. \/ UNCHANGED wk
        \/ wk' = [wk EXCEPT ![<<p, r>>].pc = "stop",
                            ![<<p, r>>].s = "cancelled"]
    BY <1>4 DEF Tick
  <2>4. WorkersGo
    BY <1>1, <1>2, <2>3, EndKnown, SameWorkers
  <2> QED
    BY <1>1, <2>2, <2>4, OnlyOrdinary
<1>5. CASE Tick(p, r) /\ ~CanHeartbeat(r, p, Gen(p, r))
  <2>1. Calm /\ Exit(p, r)
    BY <1>1, <1>5, NothingIsCalm DEF Tick
  <2> QED
    BY <1>1, <2>1, ExitGoes, OnlyOrdinary
<1> QED
  BY <1>3, <1>4, <1>5

LEMMA WaitOrdinary ==
    ASSUME AgentsInv, NEW p \in Owners, NEW r \in Runs,
           \/ WaitPoll(p, r) \/ Expiry(p, r) \/ WaitCancelled(p, r)
    PROVE  Ordinary
<1> DEFINE v == wk[<<p, r>>]
<1>1. StoreInv /\ WorkerOK(v) /\ v.pc = "wait" /\ Only
  BY CellTypes DEF WaitPoll, Expiry, Expire, WaitCancelled, At
<1>2. v.q \in Questions
  BY <1>1 DEF WorkerOK
<1>3. Go(p, r, "error") => WorkersGo
  BY <1>1, ErrorReady, GoGoes
<1>4. CASE WaitPoll(p, r) /\ CanHeartbeat(r, p, Gen(p, r))
  <2>1. Heartbeat(r, p, Gen(p, r))
    BY <1>4 DEF WaitPoll
  <2>2. Calm
    BY <1>1, <2>1, GenType, TouchIsCalm
  <2>3. \/ Go(p, r, "error")
        \/ ask[v.q].status \in Closed /\ Go(p, r, "answered")
        \/ UNCHANGED wk
    BY <1>4 DEF WaitPoll
  <2>4. ask[v.q].status \in Closed => Ready(v, "answered")
    BY <1>1 DEF Ready, WorkerPcs, Parked, Early, Closed, Answers, Open
  <2>5. WorkersGo
    BY <1>3, <2>3, <2>4, GoGoes, SameWorkers
  <2> QED
    BY <1>1, <2>2, <2>5, OnlyOrdinary
<1>5. CASE WaitPoll(p, r) /\ ~CanHeartbeat(r, p, Gen(p, r))
  BY <1>1, <1>5, LoseGoes, OnlyOrdinary DEF WaitPoll
<1>6. CASE Expiry(p, r)
  BY <1>1, <1>6, AnswerIsCalm, SameWorkers, OnlyOrdinary DEF Expiry, Expire
<1>7. CASE WaitCancelled(p, r)
  <2>1. Answer(v.q, "cancelled") \/ UNCHANGED storeVars
    BY <1>7 DEF WaitCancelled
  <2>2. Calm
    BY <1>1, <1>2, <2>1, AnswerIsCalm, NothingIsCalm DEF Answers
  <2> QED
    BY <1>1, <1>3, <1>7, <2>2, OnlyOrdinary DEF WaitCancelled
<1> QED
  BY <1>4, <1>5, <1>6, <1>7

LEMMA EndingOrdinary ==
    ASSUME AgentsInv, NEW p \in Owners, NEW r \in Runs, Ending(p, r)
    PROVE  Ordinary
<1>1. /\ StoreInv /\ wk[<<p, r>>].pc = "ending" /\ Only /\ Exit(p, r)
      /\ FinishLease(r, p, Gen(p, r))
  BY CellTypes DEF Ending, At
<1>2. Calm
  BY <1>1, GenType, FinishIsCalm
<1> QED
  BY <1>1, <1>2, ExitGoes, OnlyOrdinary

(* The generation that mark_background_agent_worker_failed reads is the     *)
(* worker's own.                                                            *)
LEMMA MarkedIsOwn ==
    ASSUME AgentsInv, NEW p \in Owners, NEW r \in Runs,
           At(p, r, "error"), run[r].supervisor_id = p
    PROVE  run[r].generation = wk[<<p, r>>].gen
<1>1. OwnGeneration(p, r)
  BY DEF AgentsInv, Ownership
<1> QED
  BY <1>1 DEF OwnGeneration, Alive, At, Gen

LEMMA MarkFailedOrdinary ==
    ASSUME AgentsInv, NEW p \in Owners, NEW r \in Runs, MarkFailed(p, r)
    PROVE  Ordinary
<1> DEFINE v == wk[<<p, r>>]
<1>1. /\ v \in WorkerRecord /\ v.pc = "error" /\ StoreInv /\ Only
      /\ wk \in [Cells -> WorkerRecord] /\ <<p, r>> \in Cells
  BY CellTypes DEF MarkFailed, At
<1>2. Calm
  BY <1>1, NothingIsCalm DEF MarkFailed
<1>3. CASE run[r].supervisor_id = p /\ run[r].status \notin Ended
  <2>1. run[r].generation = v.gen
    BY <1>1, <1>3, MarkedIsOwn DEF At
  <2>2. PICK s \in {"failed", "cancelled"} :
           wk' = [wk EXCEPT ![<<p, r>>].pc = "failing",
                            ![<<p, r>>].gen = v.gen, ![<<p, r>>].s = s]
    BY <1>3, <2>1 DEF MarkFailed
  <2>3. wk' = [wk EXCEPT ![<<p, r>>].pc = "failing", ![<<p, r>>].s = s]
    BY <1>1, <2>2 DEF WorkerRecord
  <2>4. s \in Ended
    BY DEF Ended
  <2> QED
    BY <1>1, <1>2, <2>3, <2>4, EndKnown, OnlyOrdinary
<1>4. CASE ~(run[r].supervisor_id = p /\ run[r].status \notin Ended)
  BY <1>1, <1>2, <1>4, ExitGoes, OnlyOrdinary DEF MarkFailed
<1> QED
  BY <1>3, <1>4

LEMMA FailingOrdinary ==
    ASSUME AgentsInv, NEW p \in Owners, NEW r \in Runs, Failing(p, r)
    PROVE  Ordinary
<1> DEFINE v == wk[<<p, r>>]
<1>1. /\ WorkerOK(v) /\ v.pc = "failing" /\ StoreInv /\ Columns /\ Only
  BY CellTypes DEF Failing, At
<1>2. v.s \in Ended /\ v.gen \in Gens
  BY <1>1 DEF WorkerOK
<1>3. CASE CanSetStatus(r, p, v.gen, v.s)
  <2>1. SetStatus(r, p, v.gen, v.s) /\ Go(p, r, "ending")
    BY <1>3 DEF Failing
  <2>2. v.s \in Statuses \ {"none", "stopping", "waiting"}
    BY <1>2, StatusSets DEF Ended
  <2>3. Calm
    BY <1>1, <1>2, <2>1, <2>2, SetStatusIsCalm
  <2>4. Ready(v, "ending")
    BY <1>1 DEF Ready, WorkerPcs, Parked, Early
  <2> QED
    BY <1>1, <2>1, <2>3, <2>4, GoGoes, OnlyOrdinary
<1>4. CASE ~CanSetStatus(r, p, v.gen, v.s)
  <2>1. Exit(p, r) /\ UNCHANGED storeVars
    BY <1>4 DEF Failing
  <2> QED
    BY <1>1, <2>1, NothingIsCalm, ExitGoes, OnlyOrdinary
<1> QED
  BY <1>3, <1>4

LEMMA FaultyExitOrdinary ==
    ASSUME AgentsInv, NEW p \in Owners, NEW r \in Runs,
           BusyExit(p, r) \/ WorkerCrash(p, r)
    PROVE  Ordinary
<1>1. StoreInv
  BY CellTypes
<1>2. /\ Exit(p, r) /\ UNCHANGED storeVars /\ WorkerOnly /\ UNCHANGED prompts
      /\ Fault("busy") \/ Fault("crash")
  BY DEF BusyExit, WorkerCrash
<1> QED
  BY <1>1, <1>2, NothingIsCalm, ExitGoes, FaultOrdinary

(* A claim that fails, a question that may not be asked any more.           *)
LEMMA RefusedOrdinary ==
    ASSUME AgentsInv, NEW p \in Owners, NEW r \in Runs,
           \/ ClaimRun(p, r) /\ ~CanClaim(r, VersionOf[p])
           \/ /\ \E q \in Questions : AskUser(p, r, q)
              /\ ~CanAsk(r, p, Gen(p, r))
    PROVE  Ordinary
<1>1. StoreInv
  BY CellTypes
<1>2. CASE ClaimRun(p, r) /\ ~CanClaim(r, VersionOf[p])
  BY <1>1, <1>2, NothingIsCalm, ExitGoes, OnlyOrdinary DEF ClaimRun
<1>3. ASSUME NEW q \in Questions, AskUser(p, r, q), ~CanAsk(r, p, Gen(p, r))
      PROVE  Ordinary
  <2>1. wk[<<p, r>>].pc = "loop" /\ Lose(p, r) /\ Only
    BY <1>3 DEF AskUser, InTurn, At
  <2> QED
    BY <2>1, LoseGoes, OnlyOrdinary
<1> QED
  BY <1>2, <1>3

-----------------------------------------------------------------------------
(* The steps of a daemon *)

LEMMA SameTasks == AgentsInv /\ UNCHANGED sup => TasksGo
  BY DEF AgentsInv, WorkInv, Tasks, TasksGo, TaskOK, TaskGoes

LEMMA OneTask ==
    ASSUME AgentsInv, NEW d \in Owners, NEW r \in Runs,
           NEW t \in TaskRecord, TaskOK(t), TaskGoes(sup[<<d, r>>], t),
           sup' = [sup EXCEPT ![<<d, r>>] = t]
    PROVE  TasksGo
<1>1. <<d, r>> \in Cells /\ sup \in [Cells -> TaskRecord]
  BY CellTypes
<1>2. \A c \in Cells : sup'[c] = IF c = <<d, r>> THEN t ELSE sup[c]
  BY <1>1
<1>3. sup' \in [Cells -> TaskRecord]
  BY <1>1
<1>4. \A c \in Cells : TaskOK(sup[c])
  BY DEF AgentsInv, WorkInv, Tasks
<1>5. \A c \in Cells : TaskOK(sup'[c])
  BY <1>2, <1>4
<1>6. \A c \in Cells : TaskGoes(sup[c], sup'[c])
  BY <1>2 DEF TaskGoes
<1>7. Tasks'
  BY <1>3, <1>5 DEF Tasks, TaskOK
<1> QED
  BY <1>6, <1>7 DEF TasksGo

TaskPcs == {"recorded", "cleanup", "fail", "write", "lease", "finalize", "none"}

LEMMA ThenGoes ==
    ASSUME AgentsInv, NEW d \in Owners, NEW r \in Runs,
           NEW x \in TaskPcs,
           x \in Spawned => sup[<<d, r>>].pc \in Spawned,
           sup[<<d, r>>].pc \notin {"none", "finalize"} \/ x = "none",
           Then(d, r, x)
    PROVE  TasksGo
<1> DEFINE t == sup[<<d, r>>]
           u == [t EXCEPT !.pc = x]
<1>1. /\ t \in TaskRecord /\ TaskOK(t) /\ sup \in [Cells -> TaskRecord]
      /\ <<d, r>> \in Cells
  BY CellTypes
<1>2. sup' = [sup EXCEPT ![<<d, r>>] = u]
  BY <1>1 DEF Then
<1>3. u \in TaskRecord /\ u.pc = x /\ u.g = t.g
  BY <1>1 DEF TaskRecord, TaskPcs
<1>4. TaskOK(u) /\ TaskGoes(t, u)
  BY <1>1, <1>3 DEF TaskOK, TaskGoes, TaskPcs
<1> QED
  BY <1>2, <1>3, <1>4, OneTask

LEMMA AfterReadGoes ==
    ASSUME AgentsInv, NEW d \in Owners, NEW r \in Runs,
           NEW x \in {"none", "finalize", "fail"},
           x = "fail" => run[r].generation \in Gens, AfterRead(d, r, x)
    PROVE  TasksGo
<1> DEFINE t == [pc |-> x, o |-> run[r].supervisor_id, g |-> run[r].generation]
<1>1. StoreInv
  BY CellTypes
<1>2. /\ run[r].supervisor_id \in Owners \cup {NULL}
      /\ run[r].generation \in 0 .. MaxGen
  BY <1>1 DEF StoreInv, RowsOK, RunRow
<1>3. t \in TaskRecord /\ t.pc = x /\ t.g = run[r].generation
  BY <1>2 DEF TaskRecord
<1>4. TaskOK(t) /\ TaskGoes(sup[<<d, r>>], t)
  BY <1>3 DEF TaskOK, TaskGoes, Spawned
<1>5. TaskGoes(sup[<<d, r>>], NoTask)
  BY EmptyRecords DEF TaskGoes, Spawned
<1> QED
  BY <1>3, <1>4, <1>5, EmptyRecords, OneTask DEF AfterRead

LEMMA SameHandles ==
    AgentsInv /\ UNCHANGED <<tracked, host>> => HandlesGo
  BY DEF AgentsInv, WorkInv, Handles, HandlesGo

LEMMA UntrackGoes ==
    ASSUME AgentsInv, NEW d \in Owners, NEW r \in Runs, UNCHANGED host,
           Untrack(d, r),
           d \in Daemons /\ host[d] = "up" => wk'[<<d, r>>].pc = "none"
    PROVE  HandlesGo
<1>1. tracked \in [Cells -> (Owners \X Gens) \cup {NULL}]
  BY DEF AgentsInv, WorkInv, Handles
<1>2. Handles'
  BY <1>1 DEF Untrack, Handles
<1>3. ASSUME NEW e \in Daemons, NEW i \in Runs, <<e, i>> # <<d, r>>
      PROVE  tracked'[<<e, i>>] = tracked[<<e, i>>]
  <2>1. <<e, i>> \in Cells
    BY AgentsAssumption DEF Cells
  <2> QED
    BY <1>1, <1>3, <2>1 DEF Untrack
<1> QED
  BY <1>2, <1>3 DEF HandlesGo

LEMMA KillGoes ==
    ASSUME AgentsInv, NEW h, h[1] \in Owners, NEW r \in Runs, Kill(h, r)
    PROVE  WorkersGo
<1>1. CASE HandleAlive(h, r)
  BY <1>1, EmptyRecords, OneWorker DEF Kill, CellGoes
<1>2. CASE ~HandleAlive(h, r)
  BY <1>2, SameWorkers DEF Kill
<1> QED
  BY <1>1, <1>2

(* A daemon that is up and has a handle to kill has its own worker's.       *)
LEMMA KillReaches ==
    ASSUME AgentsInv, NEW d \in Owners, NEW r \in Runs, NEW h, Kill(h, r),
           WorkersGo, Alive(d, r) => h = <<d, Gen(d, r)>>
    PROVE  wk'[<<d, r>>].pc = "none"
<1>1. <<d, r>> \in Cells /\ wk \in [Cells -> WorkerRecord]
  BY CellTypes
<1>2. CASE Alive(d, r)
  <2>1. h = <<d, Gen(d, r)>>
    BY <1>2
  <2>2. h[1] = d /\ h[2] = Gen(d, r)
    BY <2>1
  <2>3. HandleAlive(h, r)
    BY <1>2, <2>2 DEF HandleAlive
  <2>4. wk' = [wk EXCEPT ![<<d, r>>] = NoWorker]
    BY <2>2, <2>3 DEF Kill
  <2> QED
    BY <1>1, <2>4, EmptyRecords
<1>3. CASE ~Alive(d, r)
  BY <1>3, CellFacts DEF Alive
<1> QED
  BY <1>2, <1>3

LEMMA DaemonOrdinary ==
    ASSUME AgentsInv, Calm, WorkersGo, TasksGo, HandlesGo, DaemonOnly,
           receipts' \subseteq Runs \X Gens, faults' \in Nat
    PROVE  Ordinary
<1>1. Others'
  BY DEF AgentsInv, WorkInv, Others, DaemonOnly
<1> QED
  BY <1>1 DEF Ordinary

LEMMA DaemonQuiet ==
    ASSUME AgentsInv, Calm, WorkersGo, TasksGo, HandlesGo, DaemonOnly,
           UNCHANGED <<receipts, faults>>
    PROVE  Ordinary
<1>1. receipts' \subseteq Runs \X Gens /\ faults' \in Nat
  BY DEF AgentsInv, WorkInv, Others
<1> QED
  BY <1>1, DaemonOrdinary

(* The bookkeeping after a spawn, and after one that failed                 *)
LEMMA BookkeepingOrdinary ==
    ASSUME AgentsInv, NEW d \in Owners, NEW r \in Runs,
           \/ SpawnFails(d, r) \/ RecordSpawn(d, r) \/ WriteReceipt(d, r)
           \/ BookkeepingFails(d, r) \/ FailClaimed(d, r)
    PROVE  Ordinary
<1> DEFINE t == sup[<<d, r>>]
<1>1. StoreInv /\ TaskOK(t)
  BY CellTypes
<1>2. /\ DaemonOnly /\ UNCHANGED <<wk, tracked>>
  BY DEF SpawnFails, RecordSpawn, WriteReceipt, BookkeepingFails, FailClaimed
<1>3. WorkersGo /\ HandlesGo
  BY <1>2, SameWorkers, SameHandles DEF DaemonOnly
<1> USE DEF TaskPcs, Spawned
<1>4. CASE SpawnFails(d, r)
  <2>1. t.pc = "claimed" /\ Then(d, r, "fail")
    BY <1>4 DEF SpawnFails, Doing
  <2>2. TasksGo
    BY <2>1, ThenGoes
  <2> QED
    BY <1>1, <1>2, <1>3, <1>4, <2>2, NothingIsCalm, DaemonQuiet DEF SpawnFails
<1>5. CASE RecordSpawn(d, r)
  <2>1. t.pc = "spawned" /\ UNCHANGED <<receipts, faults>>
    BY <1>5 DEF RecordSpawn, Doing
  <2>2. t.g \in Gens
    BY <1>1, <2>1 DEF TaskOK
  <2>3. CASE CanRecord(r, d, t.g)
    <3>1. RecordHandle(r, d, t.g) /\ Then(d, r, "recorded")
      BY <1>5, <2>3 DEF RecordSpawn
    <3>2. Calm /\ TasksGo
      BY <1>1, <2>1, <2>2, <3>1, TouchIsCalm, ThenGoes
    <3> QED
      BY <1>2, <1>3, <2>1, <3>2, DaemonQuiet
  <2>4. CASE ~CanRecord(r, d, t.g)
    <3>1. UNCHANGED storeVars /\ Then(d, r, "cleanup")
      BY <1>5, <2>4 DEF RecordSpawn
    <3>2. Calm /\ TasksGo
      BY <1>1, <2>1, <3>1, NothingIsCalm, ThenGoes
    <3> QED
      BY <1>2, <1>3, <2>1, <3>2, DaemonQuiet
  <2> QED
    BY <2>3, <2>4
<1>6. CASE WriteReceipt(d, r)
  <2>1. t.pc = "recorded" /\ UNCHANGED faults /\ UNCHANGED storeVars
    BY <1>6 DEF WriteReceipt, Doing
  <2>2. t.g \in Gens
    BY <1>1, <2>1 DEF TaskOK
  <2>3. receipts \subseteq Runs \X Gens /\ faults' \in Nat
    BY <2>1 DEF AgentsInv, WorkInv, Others
  <2>4. receipts' \subseteq Runs \X Gens
    BY <1>6, <2>2, <2>3 DEF WriteReceipt
  <2>5. PICK x \in {"none", "cleanup"} : Then(d, r, x)
    BY <1>6 DEF WriteReceipt
  <2>6. TasksGo
    BY <2>1, <2>5, ThenGoes
  <2> QED
    BY <1>1, <1>2, <1>3, <2>1, <2>3, <2>4, <2>6, NothingIsCalm, DaemonOrdinary
<1>7. CASE BookkeepingFails(d, r)
  <2>1. /\ t.pc \in Spawned /\ Then(d, r, "cleanup") /\ UNCHANGED receipts
        /\ UNCHANGED storeVars /\ Fault("busy")
    BY <1>7 DEF BookkeepingFails, Doing
  <2>2. receipts' \subseteq Runs \X Gens /\ faults' \in Nat
    BY <2>1 DEF AgentsInv, WorkInv, Others, Fault
  <2>3. TasksGo
    BY <2>1, ThenGoes
  <2> QED
    BY <1>1, <1>2, <1>3, <2>1, <2>2, <2>3, NothingIsCalm, DaemonOrdinary
<1>8. CASE FailClaimed(d, r)
  <2>1. /\ t.pc = "fail" /\ UNCHANGED storeVars /\ UNCHANGED <<receipts, faults>>
    BY <1>8 DEF FailClaimed, Doing
  <2>2. PICK x \in {"finalize", "write"} : Then(d, r, x)
    BY <1>8 DEF FailClaimed
  <2>3. TasksGo
    BY <2>1, <2>2, ThenGoes
  <2> QED
    BY <1>1, <1>2, <1>3, <2>1, <2>3, NothingIsCalm, DaemonQuiet
<1> QED
  BY <1>4, <1>5, <1>6, <1>7, <1>8

(* The writes of a daemon that gives a run up                               *)
LEMMA GiveUpOrdinary ==
    ASSUME AgentsInv, NEW d \in Owners, NEW r \in Runs,
           WriteFailed(d, r) \/ FinishFailed(d, r) \/ FinalizeRead(d, r)
    PROVE  Ordinary
<1> DEFINE t == sup[<<d, r>>]
<1>1. StoreInv /\ Columns /\ TaskOK(t) /\ t \in TaskRecord
  BY CellTypes
<1>2. /\ DaemonOnly /\ UNCHANGED <<wk, tracked>> /\ UNCHANGED <<receipts, faults>>
  BY DEF WriteFailed, FinishFailed, FinalizeRead
<1>3. WorkersGo /\ HandlesGo
  BY <1>2, SameWorkers, SameHandles DEF DaemonOnly
<1>4. Calm /\ TasksGo => Ordinary
  BY <1>2, <1>3, DaemonQuiet
<1> USE DEF TaskPcs, Spawned
<1>5. CASE WriteFailed(d, r)
  <2>1. t.pc = "write" /\ t.g \in Gens
    BY <1>1, <1>5 DEF WriteFailed, Doing, TaskOK
  <2>2. /\ SetStatus(r, d, t.g, "failed") \/ UNCHANGED storeVars
        /\ Then(d, r, "lease") \/ Then(d, r, "none")
    BY <1>5 DEF WriteFailed
  <2>3. "failed" \in Ended /\ "failed" \in Statuses
    BY DEF Ended, Statuses
  <2>4. Calm
    BY <1>1, <2>1, <2>2, <2>3, SetStatusIsCalm, NothingIsCalm
  <2> QED
    BY <1>4, <2>1, <2>2, <2>4, ThenGoes
<1>6. CASE FinishFailed(d, r)
  <2>1. /\ t.pc = "lease" /\ t.g \in Gens
        /\ FinishLease(r, d, t.g) /\ Then(d, r, "none")
    BY <1>1, <1>6 DEF FinishFailed, Doing, TaskOK
  <2> QED
    BY <1>1, <1>4, <2>1, FinishIsCalm, ThenGoes
<1>7. CASE FinalizeRead(d, r)
  <2>1. t.pc = "finalize" /\ Then(d, r, "none")
    BY <1>7 DEF FinalizeRead, Doing
  <2>2. CASE t.o # NULL /\ CanFinalize(r, t.o, t.g)
    <3>1. t.o \in Owners
      BY <1>1, <2>2 DEF TaskRecord
    <3>2. t.g \in Gens
      BY <1>1, <2>2, RowFields DEF CanFinalize, Owns
    <3>3. Finalize(r, t.o, t.g)
      BY <1>7, <2>2 DEF FinalizeRead
    <3> QED
      BY <1>1, <1>4, <2>1, <3>1, <3>2, <3>3, FinishIsCalm, ThenGoes
  <2>3. CASE ~(t.o # NULL /\ CanFinalize(r, t.o, t.g))
    BY <1>1, <1>4, <1>7, <2>1, <2>3, NothingIsCalm, ThenGoes DEF FinalizeRead
  <2> QED
    BY <2>2, <2>3
<1> QED
  BY <1>5, <1>6, <1>7

LEMMA CleanupOrdinary ==
    ASSUME AgentsInv, NEW d \in Owners, NEW r \in Runs, Cleanup(d, r)
    PROVE  Ordinary
<1> DEFINE g == sup[<<d, r>>].g
<1>1. /\ StoreInv /\ sup[<<d, r>>].pc = "cleanup" /\ Then(d, r, "fail")
      /\ Kill(<<d, g>>, r) /\ Untrack(d, r)
      /\ DaemonOnly /\ UNCHANGED <<receipts, faults>> /\ UNCHANGED storeVars
  BY CellTypes DEF Cleanup, Doing
<1>2. WorkersGo
  BY <1>1, KillGoes
<1>3. TasksGo
  BY <1>1, ThenGoes DEF TaskPcs, Spawned
<1>4. d \in Daemons => wk'[<<d, r>>].pc = "none"
  <2> SUFFICES ASSUME d \in Daemons PROVE wk'[<<d, r>>].pc = "none"
    OBVIOUS
  <2>1. Spawns(d, r)
    BY DEF AgentsInv, Ownership
  <2>2. Alive(d, r) => <<d, g>> = <<d, Gen(d, r)>>
    BY <1>1, <2>1 DEF Spawns, Spawned
  <2> QED
    BY <1>1, <1>2, <2>2, KillReaches
<1>5. HandlesGo
  BY <1>1, <1>4, UntrackGoes DEF DaemonOnly
<1> QED
  BY <1>1, <1>2, <1>3, <1>5, NothingIsCalm, DaemonQuiet

(* A handle that is tracked.                                                *)
LEMMA TrackedHandle ==
    ASSUME AgentsInv, NEW d \in Owners, NEW r \in Runs,
           tracked[<<d, r>>] # NULL
    PROVE  /\ tracked[<<d, r>>][1] \in Owners
           /\ d \in Daemons /\ host[d] = "up" /\ Alive(d, r)
                => tracked[<<d, r>>] = <<d, Gen(d, r)>>
<1>1. tracked[<<d, r>>] \in Owners \X Gens
  BY CellTypes
<1>2. d \in Daemons => Tracks(d, r)
  BY DEF AgentsInv, Ownership
<1> QED
  BY <1>1, <1>2 DEF Tracks

LEMMA StopTrackedOrdinary ==
    ASSUME AgentsInv, NEW d \in Owners, NEW r \in Runs, StopTracked(d, r)
    PROVE  Ordinary
<1> DEFINE h == tracked[<<d, r>>]
<1>1. /\ StoreInv /\ h # NULL /\ host[d] = "up"
      /\ Kill(h, r) /\ Untrack(d, r)
      /\ DaemonOnly /\ UNCHANGED <<receipts, faults>> /\ UNCHANGED storeVars
  BY CellTypes DEF StopTracked
<1>2. h[1] \in Owners
  BY <1>1, TrackedHandle
<1>3. WorkersGo
  BY <1>1, <1>2, KillGoes
<1>4. PICK x \in {"none", "finalize"} : AfterRead(d, r, x)
  BY DEF StopTracked
<1>5. TasksGo
  BY <1>4, AfterReadGoes
<1>6. d \in Daemons => wk'[<<d, r>>].pc = "none"
  BY <1>1, <1>3, TrackedHandle, KillReaches
<1>7. HandlesGo
  BY <1>1, <1>6, UntrackGoes DEF DaemonOnly
<1> QED
  BY <1>1, <1>3, <1>5, <1>7, NothingIsCalm, DaemonQuiet

LEMMA PruneOrdinary ==
    ASSUME AgentsInv, NEW d \in Owners, NEW r \in Runs, Prune(d, r)
    PROVE  Ordinary
<1> DEFINE h == tracked[<<d, r>>]
<1>1. /\ StoreInv /\ h # NULL /\ host[d] = "up" /\ ~HandleAlive(h, r)
      /\ Untrack(d, r) /\ UNCHANGED wk
      /\ DaemonOnly /\ UNCHANGED <<receipts, faults>> /\ UNCHANGED storeVars
  BY CellTypes DEF Prune
<1>2. PICK x \in {"none", "finalize", "fail"} :
         /\ AfterRead(d, r, x)
         /\ x = "fail" => run[r].status \in Live
  BY DEF Prune
<1>3. x = "fail" => run[r].generation \in Gens
  BY <1>1, <1>2, RowFields, StatusSets
<1>4. TasksGo
  BY <1>2, <1>3, AfterReadGoes
<1>5. d \in Daemons => ~Alive(d, r)
  <2> SUFFICES ASSUME d \in Daemons, Alive(d, r) PROVE FALSE
    OBVIOUS
  <2>1. h = <<d, Gen(d, r)>>
    BY <1>1, TrackedHandle
  <2>2. h[1] = d /\ h[2] = Gen(d, r)
    BY <2>1
  <2> QED
    BY <1>1, <2>2 DEF HandleAlive
<1>6. HandlesGo
  BY <1>1, <1>5, UntrackGoes DEF DaemonOnly, Alive
<1> QED
  BY <1>1, <1>4, <1>6, SameWorkers, NothingIsCalm, DaemonQuiet

(* A daemon that is up and tracks nothing has no worker process.            *)
LEMMA Untracked ==
    ASSUME AgentsInv, NEW d \in Daemons, NEW r \in Runs, host[d] = "up",
           tracked[<<d, r>>] = NULL
    PROVE  ~Alive(d, r)
<1> SUFFICES ASSUME Alive(d, r) PROVE FALSE
  OBVIOUS
<1>1. d \in Owners
  BY AgentsAssumption
<1>2. wk[<<d, r>>] \in WorkerRecord /\ WorkerOK(wk[<<d, r>>])
  BY <1>1, CellTypes
<1>3. Tracks(d, r) /\ Spawns(d, r)
  BY DEF AgentsInv, Ownership
<1>4. tracked[<<d, r>>] = <<d, Gen(d, r)>> /\ Gen(d, r) \in Gens
  BY <1>2, <1>3 DEF Tracks, Spawns, Alive, At, Gen, WorkerOK
<1> QED
  BY <1>1, <1>4, AgentsAssumption

LEMMA RehydrateOrdinary ==
    ASSUME AgentsInv, NEW d \in Owners, NEW r \in Runs, Rehydrate(d, r)
    PROVE  Ordinary
<1> DEFINE o == run[r].supervisor_id
           g == run[r].generation
<1>1. /\ StoreInv /\ Columns /\ d \in Daemons /\ host[d] = "up"
      /\ tracked[<<d, r>>] = NULL /\ o \in Daemons
      /\ tracked' = [tracked EXCEPT ![<<d, r>>] = <<o, g>>]
      /\ DaemonOnly /\ UNCHANGED <<wk, sup, receipts, faults>>
      /\ UNCHANGED storeVars
  BY CellTypes DEF Rehydrate
<1>2. o \in Owners /\ o # NULL
  BY <1>1, AgentsAssumption, ConstantFacts
<1>3. g \in Gens
  <2>1. g > 0
    BY <1>1, <1>2 DEF Columns, ColumnsOK
  <2>2. g \in Nat /\ g <= MaxGen
    BY <1>1, NumberColumns
  <2> QED
    BY <2>1, <2>2, ConstantFacts DEF Gens
<1>4. tracked \in [Cells -> (Owners \X Gens) \cup {NULL}]
  BY DEF AgentsInv, WorkInv, Handles
<1> HIDE DEF o, g
<1>5. Handles'
  BY <1>1, <1>2, <1>3, <1>4 DEF Handles
<1>6. ASSUME NEW e \in Daemons, NEW i \in Runs, <<e, i>> # <<d, r>>
      PROVE  tracked'[<<e, i>>] = tracked[<<e, i>>]
  <2>1. <<e, i>> \in Cells
    BY AgentsAssumption DEF Cells
  <2> QED
    BY <1>1, <1>4, <1>6, <2>1
<1>7. wk'[<<d, r>>].pc = "none" /\ UNCHANGED host
  BY <1>1, Untracked DEF Alive, DaemonOnly
<1>8. HandlesGo
  BY <1>5, <1>6, <1>7 DEF HandlesGo
<1> QED
  BY <1>1, <1>8, SameWorkers, SameTasks, NothingIsCalm, DaemonQuiet

-----------------------------------------------------------------------------
(* Requests, time, crashes and shutdown *)

RequestOK(x) == x \in RequestRecord /\ (x.pc # "none" => x.h \in Owners)

LEMMA RequestTypes ==
    ASSUME AgentsInv, NEW r \in Runs
    PROVE  RequestOK(req[r]) /\ StoreInv /\ Columns
  BY DEF AgentsInv, WorkInv, Others, RequestOK

LEMMA EmptyRequest == RequestOK(NoRequest)
  BY EmptyRecords DEF RequestOK

LEMMA StillOrdinary ==
    ASSUME AgentsInv, Calm, Still, requests' \in Nat,
           \/ UNCHANGED req
           \/ \E r \in Runs, x \in RequestRecord :
                RequestOK(x) /\ req' = [req EXCEPT ![r] = x]
    PROVE  Ordinary
<1>1. WorkersGo /\ TasksGo /\ HandlesGo
  BY SameWorkers, SameTasks, SameHandles DEF Still
<1>2. /\ req \in [Runs -> RequestRecord]
      /\ \A i \in Runs : req[i].pc # "none" => req[i].h \in Owners
  BY DEF AgentsInv, WorkInv, Others
<1>3. /\ req' \in [Runs -> RequestRecord]
      /\ \A i \in Runs : req'[i].pc # "none" => req'[i].h \in Owners
  <2>1. CASE UNCHANGED req
    BY <1>2, <2>1
  <2>2. ASSUME NEW r \in Runs, NEW x, RequestOK(x), req' = [req EXCEPT ![r] = x]
        PROVE  /\ req' \in [Runs -> RequestRecord]
               /\ \A i \in Runs : req'[i].pc # "none" => req'[i].h \in Owners
    BY <1>2, <2>2 DEF RequestOK
  <2> QED
    BY <2>1, <2>2
<1>4. Others'
  BY <1>3 DEF AgentsInv, WorkInv, Others, Still
<1> QED
  BY <1>1, <1>4 DEF Ordinary

LEMMA QuietOrdinary ==
    ASSUME AgentsInv, Calm, Quiet,
           \/ UNCHANGED req
           \/ \E r \in Runs, x \in RequestRecord :
                RequestOK(x) /\ req' = [req EXCEPT ![r] = x]
    PROVE  Ordinary
<1>1. requests' \in Nat /\ Still
  BY DEF Quiet, AgentsInv, WorkInv, Others
<1> QED
  BY <1>1, StillOrdinary

(* The steps that leave the requests in progress alone                      *)
LEMMA ClientOrdinary ==
    ASSUME AgentsInv,
           \/ \E r \in Runs : \/ StartSweep(r) \/ Age(r) \/ Sweep(r)
                              \/ \E p \in Owners : StartRun(p, r)
           \/ \E q \in Questions : \/ Attach(q)
                                   \/ \E s \in Answers : Respond(q, s)
    PROVE  Ordinary
<1>1. StoreInv
  BY DEF AgentsInv, WorkInv
<1>2. Quiet /\ UNCHANGED req
  BY DEF StartSweep, Age, Sweep, StartRun, Attach, Respond
<1>3. ASSUME NEW r \in Runs, StartSweep(r) PROVE Calm
  BY <1>1, <1>3, WithdrawIsCalm DEF StartSweep
<1>4. ASSUME NEW r \in Runs, Age(r) PROVE Calm
  BY <1>1, <1>4, LapseIsCalm DEF Age
<1>5. ASSUME NEW r \in Runs, Sweep(r) PROVE Calm
  BY <1>1, <1>5, SweepIsCalm DEF Sweep
<1>6. ASSUME NEW r \in Runs, NEW p \in Owners, StartRun(p, r) PROVE Calm
  BY <1>1, <1>6, AdmitIsCalm, AgentsAssumption DEF StartRun
<1>7. ASSUME NEW q \in Questions,
             Attach(q) \/ \E s \in Answers : Respond(q, s)
      PROVE  Calm
  BY <1>1, <1>7, AnswerIsCalm DEF Attach, Respond
<1> QED
  BY <1>2, <1>3, <1>4, <1>5, <1>6, <1>7, QuietOrdinary

LEMMA StallOrdinary ==
    ASSUME AgentsInv, NEW r \in Runs, Stall(r)
    PROVE  Ordinary
<1>1. /\ StoreInv /\ Lapse(r) /\ Fault("stall")
      /\ UNCHANGED <<host, wk, sup, tracked, receipts, prompts, req, requests>>
  BY RequestTypes DEF Stall
<1>2. Calm
  BY <1>1, LapseIsCalm
<1>3. WorkerOnly /\ UNCHANGED prompts /\ WorkersGo
  BY <1>1, SameWorkers DEF WorkerOnly
<1> QED
  BY <1>1, <1>2, <1>3, FaultOrdinary

LEMMA StopReadOrdinary ==
    ASSUME AgentsInv, NEW p \in Owners, NEW r \in Runs, StopRead(p, r)
    PROVE  Ordinary
<1> DEFINE x == [pc |-> IF run[r].status \in Ended THEN "cancel" ELSE "fence",
                 h |-> p, o |-> run[r].supervisor_id, g |-> run[r].generation,
                 left |-> 2]
<1>1. StoreInv
  BY RequestTypes
<1>2. /\ run[r].supervisor_id \in Owners \cup {NULL}
      /\ run[r].generation \in 0 .. MaxGen
  BY <1>1 DEF StoreInv, RowsOK, RunRow
<1>3. x \in RequestRecord /\ x.h = p
  BY <1>2 DEF RequestRecord
<1>4. RequestOK(x) /\ req' = [req EXCEPT ![r] = x]
  BY <1>3 DEF RequestOK, StopRead
<1>5. Calm /\ Still /\ requests' \in Nat
  BY <1>1, NothingIsCalm
  DEF StopRead, Request, AgentsInv, WorkInv, Others
<1> HIDE DEF x
<1> QED
  BY <1>3, <1>4, <1>5, StillOrdinary

(* A request in progress goes on to another point.                          *)
LEMMA RequestMoves ==
    ASSUME AgentsInv, NEW r \in Runs, NEW x \in {"questions", "cancel"},
           req[r].pc # "none", req' = [req EXCEPT ![r].pc = x]
    PROVE  \E y \in RequestRecord :
              RequestOK(y) /\ req' = [req EXCEPT ![r] = y]
<1> DEFINE y == [req[r] EXCEPT !.pc = x]
<1>1. req \in [Runs -> RequestRecord] /\ RequestOK(req[r])
  BY RequestTypes DEF AgentsInv, WorkInv, Others
<1>2. y \in RequestRecord /\ y.h = req[r].h
  BY <1>1 DEF RequestOK, RequestRecord
<1>3. RequestOK(y) /\ req' = [req EXCEPT ![r] = y]
  BY <1>1, <1>2 DEF RequestOK
<1> QED
  BY <1>2, <1>3

LEMMA StopFenceOrdinary ==
    ASSUME AgentsInv, NEW r \in Runs, StopFence(r)
    PROVE  Ordinary
<1> DEFINE q == req[r]
<1>1. /\ RequestOK(q) /\ StoreInv /\ q.pc = "fence" /\ Quiet
  BY RequestTypes DEF StopFence
<1>2. q.o \in Owners \cup {NULL} /\ q.g \in 0 .. MaxGen /\ q.h \in Owners
  BY <1>1 DEF RequestOK, RequestRecord
<1>3. RequestStop(r, q.o, q.g) \/ UNCHANGED storeVars
  BY DEF StopFence
<1>4. Calm
  BY <1>1, <1>2, <1>3, WithdrawIsCalm, NothingIsCalm
<1>5. CASE req' = [req EXCEPT ![r].pc = "questions"]
  BY <1>1, <1>4, <1>5, RequestMoves, QuietOrdinary
<1>6. CASE req' # [req EXCEPT ![r].pc = "questions"]
  <2> DEFINE y == [q EXCEPT !.left = 1, !.o = run[r].supervisor_id,
                            !.g = run[r].generation]
  <2>1. req' = [req EXCEPT ![r] = NoRequest] \/ req' = [req EXCEPT ![r] = y]
    BY <1>6 DEF StopFence
  <2>2. /\ run[r].supervisor_id \in Owners \cup {NULL}
        /\ run[r].generation \in 0 .. MaxGen
    BY <1>1 DEF StoreInv, RowsOK, RunRow
  <2>3. y \in RequestRecord /\ y.h = q.h
    <3>1. 1 \in 0 .. 2 /\ q \in RequestRecord
      BY <1>1 DEF RequestOK
    <3>2. y \in RequestRecord
      BY <2>2, <3>1, Zenon DEF RequestRecord
    <3> QED
      BY <3>1, <3>2 DEF RequestRecord
  <2>4. RequestOK(y)
    BY <1>2, <2>3 DEF RequestOK
  <2> HIDE DEF y
  <2> QED
    BY <1>1, <1>4, <2>1, <2>3, <2>4, EmptyRequest, EmptyRecords, QuietOrdinary
<1> QED
  BY <1>5, <1>6

LEMMA StopQuestionsOrdinary ==
    ASSUME AgentsInv, NEW r \in Runs, StopQuestions(r)
    PROVE  Ordinary
<1>1. /\ StoreInv /\ req[r].pc # "none" /\ Quiet /\ CancelQuestions(r)
      /\ req' = [req EXCEPT ![r].pc = "cancel"]
  BY RequestTypes DEF StopQuestions
<1> QED
  BY <1>1, CancelIsCalm, RequestMoves, QuietOrdinary

LEMMA DeleteOrdinary ==
    ASSUME AgentsInv, NEW p \in Owners, NEW r \in Runs, DeleteRun(p, r)
    PROVE  Ordinary
<1> DEFINE x == [NoRequest EXCEPT !.pc = "cancel", !.h = p]
<1>1. x \in RequestRecord /\ x.h = p
  BY EmptyRecords DEF RequestRecord
<1>2. RequestOK(x) /\ req' = [req EXCEPT ![r] = x] /\ Still /\ RequestDelete(r)
  BY <1>1 DEF RequestOK, DeleteRun
<1>3. StoreInv /\ requests' \in Nat
  BY RequestTypes DEF DeleteRun, Request, AgentsInv, WorkInv, Others
<1>4. Calm
  BY <1>2, <1>3, WithdrawIsCalm
<1> HIDE DEF x
<1> QED
  BY <1>1, <1>2, <1>3, <1>4, StillOrdinary

LEMMA CancelFinalizeOrdinary ==
    ASSUME AgentsInv, NEW r \in Runs, CancelFinalize(r)
    PROVE  Ordinary
<1> DEFINE q == req[r]
<1>1. /\ RequestOK(q) /\ StoreInv /\ Quiet
      /\ req' = [req EXCEPT ![r] = NoRequest]
  BY RequestTypes DEF CancelFinalize
<1>2. CASE q.o # NULL /\ CanFinalize(r, q.o, q.g)
  <2>1. q.o \in Owners
    BY <1>1, <1>2 DEF RequestOK, RequestRecord
  <2>2. q.g \in Gens
    BY <1>1, <1>2, RowFields DEF CanFinalize, Owns
  <2>3. Finalize(r, q.o, q.g)
    BY <1>2 DEF CancelFinalize
  <2>4. Calm
    BY <1>1, <2>1, <2>2, <2>3, FinishIsCalm
  <2> QED
    BY <1>1, <2>4, EmptyRequest, EmptyRecords, QuietOrdinary
<1>3. CASE ~(q.o # NULL /\ CanFinalize(r, q.o, q.g))
  <2>1. Calm
    BY <1>1, <1>3, NothingIsCalm DEF CancelFinalize
  <2> QED
    BY <1>1, <2>1, EmptyRequest, EmptyRecords, QuietOrdinary
<1> QED
  BY <1>2, <1>3

LEMMA CancelWorkerOrdinary ==
    ASSUME AgentsInv, NEW r \in Runs, CancelWorker(r)
    PROVE  Ordinary
<1> DEFINE p == req[r].h
           h == tracked[<<p, r>>]
<1>1. /\ RequestOK(req[r]) /\ StoreInv /\ req[r].pc = "cancel"
      /\ UNCHANGED <<host, sup, receipts, prompts, faults, requests>>
      /\ UNCHANGED storeVars
  BY RequestTypes DEF CancelWorker
<1>2. p \in Owners
  BY <1>1 DEF RequestOK
<1>3. Calm /\ TasksGo
  BY <1>1, NothingIsCalm, SameTasks
<1>4. ASSUME NEW y \in RequestRecord, RequestOK(y), req' = [req EXCEPT ![r] = y]
      PROVE  Others'
  BY <1>1, <1>4 DEF AgentsInv, WorkInv, Others, RequestOK
<1>5. CASE h = NULL
  <2>1. PICK b \in BOOLEAN : wk' = [wk EXCEPT ![<<p, r>>].cancel = b]
    BY <1>5 DEF CancelWorker
  <2>2. req' = [req EXCEPT ![r] = NoRequest] /\ UNCHANGED tracked
    BY <1>5 DEF CancelWorker
  <2> DEFINE v == wk[<<p, r>>]
             w == [v EXCEPT !.cancel = b]
  <2>3. /\ v \in WorkerRecord /\ WorkerOK(v) /\ <<p, r>> \in Cells
        /\ wk \in [Cells -> WorkerRecord]
    BY <1>2, CellTypes
  <2>4. /\ w \in WorkerRecord /\ w.pc = v.pc /\ w.gen = v.gen /\ w.q = v.q
        /\ w.seen = v.seen /\ w.s = v.s
    BY <2>3 DEF WorkerRecord
  <2>5. WorkerOK(w) /\ CellGoes(v, w)
    BY <2>3, <2>4 DEF WorkerOK, CellGoes
  <2>6. wk' = [wk EXCEPT ![<<p, r>>] = w]
    BY <2>1, <2>3
  <2>7. WorkersGo
    BY <1>2, <2>4, <2>5, <2>6, OneWorker
  <2>8. HandlesGo
    BY <1>1, <2>2, SameHandles
  <2>9. Others'
    BY <1>4, <2>2, EmptyRequest, EmptyRecords
  <2> QED
    BY <1>3, <2>7, <2>8, <2>9 DEF Ordinary
<1>6. CASE h # NULL
  <2>1. Kill(h, r) /\ Untrack(p, r)
    BY <1>6 DEF CancelWorker
  <2> DEFINE y == [req[r] EXCEPT !.pc = "finalize", !.o = run[r].supervisor_id,
                                 !.g = run[r].generation]
  <2>2. req' = [req EXCEPT ![r] = NoRequest] \/ req' = [req EXCEPT ![r] = y]
    <3>1. req \in [Runs -> RequestRecord]
      BY DEF AgentsInv, WorkInv, Others
    <3> QED
      BY <1>6, <3>1 DEF CancelWorker
  <2>3. /\ run[r].supervisor_id \in Owners \cup {NULL}
        /\ run[r].generation \in 0 .. MaxGen
    BY <1>1 DEF StoreInv, RowsOK, RunRow
  <2>4. y \in RequestRecord /\ y.h = req[r].h
    BY <1>1, <2>3 DEF RequestOK, RequestRecord
  <2>5. RequestOK(y)
    BY <1>2, <2>4 DEF RequestOK
  <2> HIDE DEF y
  <2>6. Others'
    BY <1>4, <2>2, <2>4, <2>5, EmptyRequest, EmptyRecords
  <2>7. h[1] \in Owners
    BY <1>2, <1>6, TrackedHandle
  <2>8. WorkersGo
    BY <2>1, <2>7, KillGoes
  <2>9. p \in Daemons /\ host[p] = "up" => wk'[<<p, r>>].pc = "none"
    BY <1>2, <1>6, <2>1, <2>8, TrackedHandle, KillReaches
  <2>10. HandlesGo
    BY <1>1, <1>2, <2>1, <2>9, UntrackGoes
  <2> QED
    BY <1>3, <2>6, <2>8, <2>10 DEF Ordinary
<1> QED
  BY <1>5, <1>6

(* A process is gone, with its tasks, its handles and its requests.         *)
LEMMA GoneOrdinary ==
    ASSUME AgentsInv, NEW p \in Owners, Gone(p), faults' \in Nat
    PROVE  Ordinary
<1>1. /\ StoreInv /\ Workers /\ Tasks /\ Handles /\ Others
  BY DEF AgentsInv, WorkInv
<1>2. Calm
  BY <1>1, NothingIsCalm DEF Gone
<1>3. WorkersGo
  <2>1. \A c \in Cells : wk'[c] = NoWorker \/ wk'[c] = wk[c]
    BY DEF Gone
  <2>2. wk' \in [Cells -> WorkerRecord]
    BY <1>1, EmptyRecords DEF Gone, Workers
  <2>3. \A c \in Cells : WorkerOK(wk'[c]) /\ CellGoes(wk[c], wk'[c])
    BY <1>1, <2>1, EmptyRecords DEF Workers, CellGoes
  <2>4. Workers'
    BY <2>2, <2>3 DEF Workers, WorkerOK
  <2> QED
    BY <2>3, <2>4 DEF WorkersGo
<1>4. TasksGo
  <2>1. \A c \in Cells : sup'[c] = NoTask \/ sup'[c] = sup[c]
    BY DEF Gone
  <2>2. sup' \in [Cells -> TaskRecord]
    BY <1>1, EmptyRecords DEF Gone, Tasks
  <2>3. \A c \in Cells : TaskOK(sup'[c]) /\ TaskGoes(sup[c], sup'[c])
    BY <1>1, <2>1, EmptyRecords DEF Tasks, TaskGoes, Spawned
  <2>4. Tasks'
    BY <2>2, <2>3 DEF Tasks, TaskOK
  <2> QED
    BY <2>3, <2>4 DEF TasksGo
<1>5. HandlesGo
  <2>1. Handles'
    BY <1>1 DEF Gone, Handles
  <2>2. ASSUME NEW d \in Daemons, NEW r \in Runs, host'[d] = "up"
        PROVE  host[d] = "up" /\ tracked'[<<d, r>>] = tracked[<<d, r>>]
    <3>1. d # p /\ host[d] = "up"
      BY <1>1, <2>2, AgentsAssumption DEF Gone, Others
    <3>2. <<d, r>> \in Cells /\ <<d, r>>[1] = d
      BY AgentsAssumption DEF Cells
    <3> QED
      BY <3>1, <3>2 DEF Gone
  <2> QED
    BY <2>1, <2>2 DEF HandlesGo
<1>6. Others'
  <2>1. host' \in [Owners -> {"up", "closing", "down"}]
    BY <1>1 DEF Gone, Others
  <2>2. /\ req' \in [Runs -> RequestRecord]
        /\ \A r \in Runs : req'[r].pc # "none" => req'[r].h \in Owners
    BY <1>1, EmptyRecords DEF Gone, Others
  <2> QED
    BY <1>1, <2>1, <2>2 DEF Gone, Others
<1> QED
  BY <1>2, <1>3, <1>4, <1>5, <1>6 DEF Ordinary

LEMMA CrashOrdinary ==
    ASSUME AgentsInv, NEW p \in Owners, Crash(p) \/ Leave(p)
    PROVE  Ordinary
<1>1. faults' \in Nat
  BY DEF Crash, Leave, Fault, AgentsInv, WorkInv, Others
<1> QED
  BY <1>1, GoneOrdinary DEF Crash, Leave

LEMMA ShutdownOrdinary ==
    ASSUME AgentsInv, NEW p \in Owners, Shutdown(p)
    PROVE  Ordinary
<1>1. /\ StoreInv /\ Workers /\ Tasks /\ Handles /\ Others
  BY DEF AgentsInv, WorkInv
<1>2. Calm /\ TasksGo
  BY <1>1, NothingIsCalm, SameTasks DEF Shutdown
<1>3. WorkersGo
  <2>1. \A c \in Cells : \/ wk'[c] \in {NoWorker, wk[c]}
                         \/ wk'[c] = [wk[c] EXCEPT !.cancel = TRUE]
    BY DEF Shutdown
  <2>2. ASSUME NEW c \in Cells
        PROVE  /\ wk'[c] \in WorkerRecord /\ WorkerOK(wk'[c])
               /\ CellGoes(wk[c], wk'[c])
    <3>1. wk[c] \in WorkerRecord /\ WorkerOK(wk[c])
      BY <1>1 DEF Workers
    <3>2. CASE wk'[c] \in {NoWorker, wk[c]}
      BY <3>1, <3>2, EmptyRecords DEF CellGoes
    <3>3. CASE wk'[c] = [wk[c] EXCEPT !.cancel = TRUE]
      <4> DEFINE v == wk[c]
                 w == [v EXCEPT !.cancel = TRUE]
      <4>1. /\ w \in WorkerRecord /\ w.pc = v.pc /\ w.gen = v.gen /\ w.q = v.q
            /\ w.seen = v.seen /\ w.s = v.s
        BY <3>1 DEF WorkerRecord
      <4>2. WorkerOK(w) /\ CellGoes(v, w)
        BY <3>1, <4>1 DEF WorkerOK, CellGoes
      <4> QED
        BY <3>3, <4>1, <4>2
    <3> QED
      BY <2>1, <3>2, <3>3
  <2>3. wk' = [c \in Cells |-> wk'[c]]
    BY DEF Shutdown
  <2>4. wk' \in [Cells -> WorkerRecord]
    BY <2>2, <2>3
  <2>5. Workers'
    BY <2>2, <2>4 DEF Workers, WorkerOK
  <2> QED
    BY <2>2, <2>5 DEF WorkersGo
<1>4. HandlesGo
  <2>1. Handles'
    BY <1>1 DEF Shutdown, Handles
  <2>2. ASSUME NEW d \in Daemons, NEW r \in Runs, host'[d] = "up"
        PROVE  host[d] = "up" /\ tracked'[<<d, r>>] = tracked[<<d, r>>]
    <3>1. d # p /\ host[d] = "up"
      BY <1>1, <2>2, AgentsAssumption DEF Shutdown, Others
    <3>2. <<d, r>> \in Cells /\ <<d, r>>[1] = d
      BY AgentsAssumption DEF Cells
    <3> QED
      BY <3>1, <3>2 DEF Shutdown
  <2> QED
    BY <2>1, <2>2 DEF HandlesGo
<1>5. Others'
  <2>1. host' \in [Owners -> {"up", "closing", "down"}]
    BY <1>1 DEF Shutdown, Others
  <2> QED
    BY <1>1, <2>1 DEF Shutdown, Others
<1> QED
  BY <1>2, <1>3, <1>4, <1>5 DEF Ordinary

-----------------------------------------------------------------------------
(* The steps that start a worker, claim a run or ask a question *)

LEMMA WorkerWritten ==
    ASSUME AgentsInv, NEW p \in Owners, NEW r \in Runs,
           NEW w \in WorkerRecord, WorkerOK(w),
           wk' = [wk EXCEPT ![<<p, r>>] = w]
    PROVE  /\ Workers' /\ wk'[<<p, r>>] = w
           /\ \A o \in Owners, i \in Runs :
                 <<o, i>> # <<p, r>> => wk'[<<o, i>>] = wk[<<o, i>>]
<1>1. <<p, r>> \in Cells /\ wk \in [Cells -> WorkerRecord]
  BY CellTypes
<1>2. \A c \in Cells : wk'[c] = IF c = <<p, r>> THEN w ELSE wk[c]
  BY <1>1
<1>3. wk' \in [Cells -> WorkerRecord]
  BY <1>1
<1>4. \A c \in Cells : WorkerOK(wk[c])
  BY DEF AgentsInv, WorkInv, Workers
<1>5. \A c \in Cells : WorkerOK(wk'[c])
  BY <1>2, <1>4
<1>6. Workers'
  BY <1>3, <1>5 DEF Workers, WorkerOK
<1>7. \A o \in Owners, i \in Runs : <<o, i>> \in Cells
  BY DEF Cells
<1> QED
  BY <1>1, <1>2, <1>6, <1>7

LEMMA TaskWritten ==
    ASSUME AgentsInv, NEW p \in Owners, NEW r \in Runs,
           NEW t \in TaskRecord, TaskOK(t),
           sup' = [sup EXCEPT ![<<p, r>>] = t]
    PROVE  /\ Tasks' /\ sup'[<<p, r>>] = t
           /\ \A o \in Owners, i \in Runs :
                 <<o, i>> # <<p, r>> => sup'[<<o, i>>] = sup[<<o, i>>]
<1>1. <<p, r>> \in Cells /\ sup \in [Cells -> TaskRecord]
  BY CellTypes
<1>2. \A c \in Cells : sup'[c] = IF c = <<p, r>> THEN t ELSE sup[c]
  BY <1>1
<1>3. sup' \in [Cells -> TaskRecord]
  BY <1>1
<1>4. \A c \in Cells : TaskOK(sup[c])
  BY DEF AgentsInv, WorkInv, Tasks
<1>5. \A c \in Cells : TaskOK(sup'[c])
  BY <1>2, <1>4
<1>6. Tasks'
  BY <1>3, <1>5 DEF Tasks, TaskOK
<1>7. \A o \in Owners, i \in Runs : <<o, i>> \in Cells
  BY DEF Cells
<1> QED
  BY <1>1, <1>2, <1>6, <1>7

(* The tables stay: what they say of themselves, and of open questions.     *)
LEMMA TablesSame ==
    ASSUME AgentsInv, UNCHANGED storeVars
    PROVE  StoreInv' /\ Columns' /\ NoInheritedQuestion'
<1>1. StoreInv /\ Columns /\ NoInheritedQuestion /\ [StoreNext]_storeVars
  BY DEF AgentsInv, WorkInv
<1>2. StoreInv' /\ Columns'
  BY <1>1, NextInv, ColumnsKept
<1> QED
  BY <1>1, <1>2 DEF NoInheritedQuestion, storeVars

LEMMA ReadRunKeeps ==
    ASSUME AgentsInv, NEW p \in Owners, NEW r \in Runs, ReadRun(p, r)
    PROVE  AgentsInv' /\ [StoreNext]_storeVars
<1> DEFINE v == wk[<<p, r>>]
           w == [v EXCEPT !.pc = "claim", !.seen = run[r].rollout]
<1>1. /\ v \in WorkerRecord /\ v.pc = "none" /\ p \notin Daemons
      /\ wk \in [Cells -> WorkerRecord] /\ <<p, r>> \in Cells
      /\ StoreInv /\ Columns /\ UNCHANGED storeVars
      /\ UNCHANGED <<host, sup, tracked, receipts, req, requests, prompts, faults>>
  BY CellTypes DEF ReadRun, Alive, Only, WorkerOnly
<1>2. wk' = [wk EXCEPT ![<<p, r>>] = w]
  BY <1>1 DEF ReadRun
<1>3. run[r].rollout \in Gens \cup {NULL}
  BY <1>1, NumberColumns
<1>4. w \in WorkerRecord /\ w.pc = "claim" /\ w.seen = run[r].rollout
  BY <1>1, <1>3 DEF WorkerRecord, WorkerPcs
<1>5. WorkerOK(w)
  BY <1>4 DEF WorkerOK
<1> HIDE DEF w
<1>6. /\ Workers' /\ wk'[<<p, r>>] = w
      /\ \A o \in Owners, i \in Runs :
            <<o, i>> # <<p, r>> => wk'[<<o, i>>] = wk[<<o, i>>]
  BY <1>2, <1>4, <1>5, WorkerWritten
<1>7. StoreInv' /\ Columns' /\ NoInheritedQuestion'
  BY <1>1, TablesSame
<1>8. Tasks' /\ Handles' /\ Others'
  BY <1>1 DEF AgentsInv, WorkInv, Tasks, Handles, Others, TaskOK
<1>9. ASSUME NEW o \in Owners, NEW i \in Runs PROVE SeenEarlier(o, i)'
  <2>1. CASE <<o, i>> = <<p, r>>
    <3>1. run[r].rollout # NULL => run[r].rollout <= run[r].generation
      BY <1>1 DEF Columns, ColumnsOK
    <3> QED
      BY <1>1, <1>4, <1>6, <2>1, <3>1 DEF SeenEarlier, At, storeVars
  <2>2. CASE <<o, i>> # <<p, r>>
    BY <1>1, <1>6, <2>2 DEF SeenEarlier, At, storeVars, AgentsInv, WorkInv
  <2> QED
    BY <2>1, <2>2
<1>10. Ownership'
  <2>1. ASSUME NEW o \in Owners, NEW i \in Runs PROVE OwnGeneration(o, i)'
    <3>1. CASE <<o, i>> = <<p, r>>
      BY <1>4, <1>6, <3>1 DEF OwnGeneration, At
    <3>2. CASE <<o, i>> # <<p, r>>
      BY <1>1, <1>6, <3>2
      DEF OwnGeneration, At, Alive, Gen, storeVars, AgentsInv, Ownership
    <3> QED
      BY <3>1, <3>2
  <2>2. ASSUME NEW d \in Daemons, NEW i \in Runs
        PROVE  Tracks(d, i)' /\ Spawns(d, i)'
    <3>1. d \in Owners /\ <<d, i>> # <<p, r>>
      BY <1>1, AgentsAssumption
    <3>2. wk'[<<d, i>>] = wk[<<d, i>>] /\ Tracks(d, i) /\ Spawns(d, i)
      BY <1>6, <3>1 DEF AgentsInv, Ownership
    <3> QED
      BY <1>1, <3>2 DEF Tracks, Spawns, At, Alive, Gen, Doing, storeVars
  <2> QED
    BY <1>1, <2>1, <2>2 DEF AgentsInv, Ownership
<1>11. AskerWaits'
  <2>1. ASSUME NEW q \in Questions, NEW i \in Runs, NEW o \in Owners,
               q \in OpenOf(i), run[i].status = "waiting",
               run[i].supervisor_id = o
        PROVE  Asking(o, i, q)' /\ ~Doing(o, i, "claimed")'
    <3>1. Asking(o, i, q) /\ ~Doing(o, i, "claimed")
      BY <2>1 DEF AgentsInv, AskerWaits
    <3>2. CASE <<o, i>> = <<p, r>>
      BY <1>1, <1>4, <1>6, <3>1, <3>2 DEF Asking, Parked, Doing
    <3>3. CASE <<o, i>> # <<p, r>>
      BY <1>1, <1>6, <3>1, <3>3 DEF Asking, At, Doing
    <3> QED
      BY <3>2, <3>3
  <2> QED
    BY <1>1, <2>1 DEF AskerWaits, OpenOf, storeVars
<1>12. WorkInv'
  BY <1>6, <1>7, <1>8, <1>9 DEF WorkInv
<1> QED
  BY <1>1, <1>7, <1>10, <1>11, <1>12 DEF AgentsInv

LEMMA SpawnKeeps ==
    ASSUME AgentsInv, NEW d \in Owners, NEW r \in Runs, Spawn(d, r)
    PROVE  AgentsInv' /\ [StoreNext]_storeVars
<1> DEFINE g == sup[<<d, r>>].g
           w == [NoWorker EXCEPT !.pc = "boot", !.gen = g]
           t == [sup[<<d, r>>] EXCEPT !.pc = "spawned"]
<1>1. /\ sup[<<d, r>>] \in TaskRecord /\ TaskOK(sup[<<d, r>>])
      /\ sup[<<d, r>>].pc = "claimed" /\ sup \in [Cells -> TaskRecord]
      /\ <<d, r>> \in Cells /\ StoreInv /\ UNCHANGED storeVars
      /\ UNCHANGED <<host, receipts, req, requests, prompts, faults>>
      /\ wk' = [wk EXCEPT ![<<d, r>>] = w]
      /\ tracked' = [tracked EXCEPT ![<<d, r>>] = <<d, g>>]
  BY CellTypes DEF Spawn, Doing, DaemonOnly
<1>2. d \in Daemons
  BY <1>1 DEF AgentsInv, Ownership
<1>3. Spawns(d, r) /\ g \in Gens
  BY <1>1, <1>2 DEF AgentsInv, Ownership, TaskOK
<1>4. g \in 0 .. MaxGen
  BY <1>1 DEF TaskRecord
<1>5. w \in WorkerRecord /\ w.pc = "boot" /\ w.gen = g
  <2>1. NoWorker \in WorkerRecord /\ "boot" \in WorkerPcs
    BY EmptyRecords DEF WorkerPcs
  <2> QED
    BY <1>4, <2>1 DEF WorkerRecord
<1>6. WorkerOK(w)
  BY <1>3, <1>5 DEF WorkerOK
<1>7. sup' = [sup EXCEPT ![<<d, r>>] = t]
  BY <1>1 DEF Spawn, Then
<1>8. t \in TaskRecord /\ t.pc = "spawned" /\ t.g = g
  BY <1>1 DEF TaskRecord
<1>9. TaskOK(t)
  BY <1>3, <1>8 DEF TaskOK
<1> HIDE DEF g, w, t
<1>10. /\ Workers' /\ wk'[<<d, r>>] = w
       /\ \A o \in Owners, i \in Runs :
             <<o, i>> # <<d, r>> => wk'[<<o, i>>] = wk[<<o, i>>]
  BY <1>1, <1>5, <1>6, WorkerWritten
<1>11. /\ Tasks' /\ sup'[<<d, r>>] = t
       /\ \A o \in Owners, i \in Runs :
             <<o, i>> # <<d, r>> => sup'[<<o, i>>] = sup[<<o, i>>]
  BY <1>7, <1>8, <1>9, TaskWritten
<1>12. /\ Handles' /\ tracked'[<<d, r>>] = <<d, g>>
       /\ \A o \in Owners, i \in Runs :
             <<o, i>> # <<d, r>> => tracked'[<<o, i>>] = tracked[<<o, i>>]
  <2>1. tracked \in [Cells -> (Owners \X Gens) \cup {NULL}]
    BY DEF AgentsInv, WorkInv, Handles
  <2>2. \A o \in Owners, i \in Runs : <<o, i>> \in Cells
    BY DEF Cells
  <2>3. Handles'
    BY <1>1, <1>3, <2>1 DEF Handles
  <2> QED
    BY <1>1, <2>1, <2>2, <2>3
<1>13. StoreInv' /\ Columns' /\ NoInheritedQuestion' /\ Others'
  BY <1>1, TablesSame DEF AgentsInv, WorkInv, Others
<1>14. ASSUME NEW o \in Owners, NEW i \in Runs PROVE SeenEarlier(o, i)'
  <2>1. CASE <<o, i>> = <<d, r>>
    BY <1>5, <1>10, <2>1 DEF SeenEarlier, At
  <2>2. CASE <<o, i>> # <<d, r>>
    BY <1>1, <1>10, <2>2 DEF SeenEarlier, At, storeVars, AgentsInv, WorkInv
  <2> QED
    BY <2>1, <2>2
<1>15. Ownership'
  <2>1. ASSUME NEW o \in Owners, NEW i \in Runs PROVE OwnGeneration(o, i)'
    <3>1. CASE <<o, i>> = <<d, r>>
      BY <1>1, <1>3, <1>5, <1>10, <3>1
      DEF OwnGeneration, Gen, storeVars, Spawns, Doing, g
    <3>2. CASE <<o, i>> # <<d, r>>
      BY <1>1, <1>10, <3>2
      DEF OwnGeneration, At, Alive, Gen, storeVars, AgentsInv, Ownership
    <3> QED
      BY <3>1, <3>2
  <2>2. ASSUME NEW e \in Daemons, NEW i \in Runs
        PROVE  Tracks(e, i)' /\ Spawns(e, i)'
    <3>1. e \in Owners /\ Tracks(e, i) /\ Spawns(e, i)
      BY AgentsAssumption DEF AgentsInv, Ownership
    <3>2. CASE <<e, i>> = <<d, r>>
      <4>1. e = d /\ i = r
        BY <3>2
      <4>2. Tracks(d, r)'
        BY <1>5, <1>10, <1>12 DEF Tracks, Gen
      <4>3. Spawns(d, r)'
        BY <1>5, <1>8, <1>10, <1>11 DEF Spawns, At, Gen, Doing
      <4> QED
        BY <4>1, <4>2, <4>3
    <3>3. CASE <<e, i>> # <<d, r>>
      <4>1. /\ wk'[<<e, i>>] = wk[<<e, i>>] /\ sup'[<<e, i>>] = sup[<<e, i>>]
            /\ tracked'[<<e, i>>] = tracked[<<e, i>>]
        BY <1>10, <1>11, <1>12, <3>1, <3>3
      <4> QED
        BY <1>1, <3>1, <4>1 DEF Tracks, Spawns, At, Alive, Gen, Doing, storeVars
    <3> QED
      BY <3>2, <3>3
  <2>3. ASSUME NEW o \in Owners \ Daemons, NEW i \in Runs
        PROVE  sup'[<<o, i>>].pc \notin {"claimed"} \cup Spawned
    BY <1>2, <1>11 DEF AgentsInv, Ownership
  <2> QED
    BY <2>1, <2>2, <2>3 DEF Ownership
<1>16. AskerWaits'
  <2>1. ASSUME NEW q \in Questions, NEW i \in Runs, NEW o \in Owners,
               q \in OpenOf(i), run[i].status = "waiting",
               run[i].supervisor_id = o
        PROVE  Asking(o, i, q)' /\ ~Doing(o, i, "claimed")'
    <3>1. Asking(o, i, q) /\ ~Doing(o, i, "claimed")
      BY <2>1 DEF AgentsInv, AskerWaits
    <3>2. <<o, i>> # <<d, r>>
      BY <1>1, <3>1 DEF Doing
    <3> QED
      BY <1>10, <1>11, <3>1, <3>2 DEF Asking, At, Doing
  <2> QED
    BY <1>1, <2>1 DEF AskerWaits, OpenOf, storeVars
<1>17. WorkInv'
  BY <1>10, <1>11, <1>12, <1>13, <1>14 DEF WorkInv
<1> QED
  BY <1>1, <1>13, <1>15, <1>16, <1>17 DEF AgentsInv

(* The tables after a claim.                                                *)
LEMMA ClaimTables ==
    ASSUME AgentsInv, NEW r \in Runs, NEW p \in Owners,
           Claim(r, p, VersionOf[p])
    PROVE  /\ StoreInv' /\ Columns' /\ NoInheritedQuestion'
           /\ [StoreNext]_storeVars /\ OtherRows(r) /\ UNCHANGED ask
           /\ run'[r].status = "starting" /\ run'[r].supervisor_id = p
           /\ run'[r].generation = run[r].generation + 1
           /\ run'[r].generation \in Gens
<1>1. StoreInv /\ Columns /\ NoInheritedQuestion
  BY DEF AgentsInv, WorkInv
<1>2. VersionOf[p] \in Versions
  BY AgentsAssumption
<1>3. [StoreNext]_storeVars
  BY <1>2 DEF StoreNext
<1>4. StoreInv' /\ Columns'
  BY <1>1, <1>3, NextInv, ColumnsKept
<1>5. RunStep(r) /\ Claimed(r) /\ run'[r].supervisor_id = p
  BY <1>1, <1>2, ClaimEffect
<1>6. /\ OtherRows(r) /\ run'[r].status = "starting"
      /\ run'[r].generation = run[r].generation + 1
      /\ run[r].status \in Unclaimed
  BY <1>5 DEF RunStep, OtherRows, Claimed
<1>7. run'[r].generation \in Gens /\ UNCHANGED ask
  BY <1>6 DEF Claim
<1>8. ASSUME NEW q \in Questions, ask[q].status \in Open
      PROVE  run'[ask[q].run_id].status \in Asked
  <2>1. ask[q].run_id \in Runs /\ run[ask[q].run_id].status \in Asked
    BY <1>1, <1>8 DEF Columns, NoInheritedQuestion, Asked
  <2>2. ask[q].run_id # r
    BY <1>6, <2>1, StatusSets DEF Asked
  <2> QED
    BY <1>6, <2>1, <2>2 DEF OtherRows
<1>9. NoInheritedQuestion'
  BY <1>7, <1>8 DEF NoInheritedQuestion, Asked
<1> QED
  BY <1>3, <1>4, <1>5, <1>6, <1>7, <1>9

(* After a claim only the other runs wait for answers, and nothing about    *)
(* them has changed.                                                        *)
LEMMA ClaimWaits ==
    ASSUME AgentsInv, NEW r \in Runs, NEW p \in Owners,
           Claim(r, p, VersionOf[p]),
           \A o \in Owners, i \in Runs :
              <<o, i>> # <<p, r>> =>
                wk'[<<o, i>>] = wk[<<o, i>>] /\ sup'[<<o, i>>] = sup[<<o, i>>]
    PROVE  AskerWaits'
<1>1. /\ OtherRows(r) /\ UNCHANGED ask /\ run'[r].status = "starting"
  BY ClaimTables
<1>2. ASSUME NEW q \in Questions, NEW i \in Runs, NEW o \in Owners,
             q \in OpenOf(i), run'[i].status = "waiting",
             run'[i].supervisor_id = o
      PROVE  Asking(o, i, q)' /\ ~Doing(o, i, "claimed")'
  <2>1. i # r
    BY <1>1, <1>2
  <2>2. run'[i] = run[i]
    BY <1>1, <2>1 DEF OtherRows
  <2>3. Asking(o, i, q) /\ ~Doing(o, i, "claimed")
    BY <1>2, <2>2 DEF AgentsInv, AskerWaits
  <2>4. wk'[<<o, i>>] = wk[<<o, i>>] /\ sup'[<<o, i>>] = sup[<<o, i>>]
    BY <2>1
  <2> QED
    BY <2>3, <2>4 DEF Asking, At, Doing
<1> QED
  BY <1>1, <1>2 DEF AskerWaits, OpenOf

LEMMA ClaimRunKeeps ==
    ASSUME AgentsInv, NEW p \in Owners, NEW r \in Runs, ClaimRun(p, r),
           CanClaim(r, VersionOf[p])
    PROVE  AgentsInv' /\ [StoreNext]_storeVars
<1> DEFINE v == wk[<<p, r>>]
           n == run'[r].generation
           w == [v EXCEPT !.pc = "config", !.gen = n]
<1>1. /\ v \in WorkerRecord /\ v.pc = "claim"
      /\ wk \in [Cells -> WorkerRecord] /\ <<p, r>> \in Cells
      /\ StoreInv /\ Columns /\ Claim(r, p, VersionOf[p])
      /\ wk' = [wk EXCEPT ![<<p, r>>].pc = "config", ![<<p, r>>].gen = n]
      /\ UNCHANGED <<host, sup, tracked, receipts, req, requests, prompts, faults>>
  BY CellTypes DEF ClaimRun, At, Only, WorkerOnly
<1>2. /\ StoreInv' /\ Columns' /\ NoInheritedQuestion'
      /\ [StoreNext]_storeVars /\ OtherRows(r)
      /\ run'[r].supervisor_id = p
      /\ n = run[r].generation + 1 /\ n \in Gens
  BY <1>1, ClaimTables
<1>3. p \notin Daemons
  BY <1>1 DEF AgentsInv, Ownership, Spawns, At
<1>4. n \in 0 .. MaxGen
  BY <1>2, ConstantFacts DEF Gens
<1> HIDE DEF n
<1>5. wk' = [wk EXCEPT ![<<p, r>>] = w]
  BY <1>1
<1>6. w \in WorkerRecord /\ w.pc = "config" /\ w.gen = n /\ w.seen = v.seen
  BY <1>1, <1>4 DEF WorkerRecord, WorkerPcs
<1>7. v.seen # NULL => v.seen <= n
  <2>1. SeenEarlier(p, r) /\ run[r].generation \in Nat
    BY <1>1, NumberColumns DEF AgentsInv, WorkInv
  <2>2. v.seen # NULL => v.seen \in Nat
    BY <1>1, ConstantFacts DEF WorkerRecord
  <2> QED
    BY <1>1, <1>2, <2>1, <2>2 DEF SeenEarlier, At
<1>8. WorkerOK(w)
  BY <1>2, <1>6, <1>7 DEF WorkerOK
<1> HIDE DEF w
<1>9. /\ Workers' /\ wk'[<<p, r>>] = w
      /\ \A o \in Owners, i \in Runs :
            <<o, i>> # <<p, r>> => wk'[<<o, i>>] = wk[<<o, i>>]
  BY <1>5, <1>6, <1>8, WorkerWritten
<1>10. Tasks' /\ Handles' /\ Others'
  BY <1>1 DEF AgentsInv, WorkInv, Tasks, Handles, Others, TaskOK
<1>11. ASSUME NEW o \in Owners, NEW i \in Runs PROVE SeenEarlier(o, i)'
  <2>1. CASE <<o, i>> = <<p, r>>
    BY <1>6, <1>9, <2>1 DEF SeenEarlier, At
  <2>2. CASE <<o, i>> # <<p, r>>
    <3>1. SeenEarlier(o, i) /\ wk'[<<o, i>>] = wk[<<o, i>>]
      BY <1>9, <2>2 DEF AgentsInv, WorkInv
    <3>2. /\ run'[i].generation >= run[i].generation
          /\ run[i].generation \in Nat
      BY <1>1, <1>2, GenerationGrows, NumberColumns
    <3>3. run'[i].generation \in Nat
      BY <1>2, ConstantFacts DEF StoreInv, RowsOK, RunRow
    <3>4. wk[<<o, i>>].seen # NULL => wk[<<o, i>>].seen \in Nat
      <4>1. wk[<<o, i>>] \in WorkerRecord
        BY CellTypes
      <4> QED
        BY <4>1, ConstantFacts DEF WorkerRecord
    <3> QED
      BY <3>1, <3>2, <3>3, <3>4 DEF SeenEarlier, At
  <2> QED
    BY <2>1, <2>2
<1>12. Ownership'
  <2>1. ASSUME NEW o \in Owners, NEW i \in Runs PROVE OwnGeneration(o, i)'
    <3>1. CASE i = r /\ o = p
      BY <1>6, <1>9, <3>1 DEF OwnGeneration, Gen, n
    <3>2. CASE i = r /\ o # p
      BY <1>2, <3>2 DEF OwnGeneration
    <3>3. CASE i # r
      <4>1. wk'[<<o, i>>] = wk[<<o, i>>] /\ run'[i] = run[i]
        BY <1>2, <1>9, <3>3 DEF OtherRows
      <4> QED
        BY <4>1 DEF OwnGeneration, At, Alive, Gen, AgentsInv, Ownership
    <3> QED
      BY <3>1, <3>2, <3>3
  <2>2. ASSUME NEW d \in Daemons, NEW i \in Runs
        PROVE  Tracks(d, i)' /\ Spawns(d, i)'
    <3>1. d \in Owners /\ <<d, i>> # <<p, r>> /\ d # p
      BY <1>3, AgentsAssumption
    <3>2. wk'[<<d, i>>] = wk[<<d, i>>] /\ Tracks(d, i) /\ Spawns(d, i)
      BY <1>9, <3>1 DEF AgentsInv, Ownership
    <3>3. run'[i] = run[i] \/ run'[i].supervisor_id # d
      BY <1>2, <3>1 DEF OtherRows
    <3> QED
      BY <1>1, <3>2, <3>3 DEF Tracks, Spawns, At, Alive, Gen, Doing
  <2> QED
    BY <1>1, <2>1, <2>2 DEF AgentsInv, Ownership
<1>13. AskerWaits'
  <2>1. \A o \in Owners, i \in Runs :
           <<o, i>> # <<p, r>> =>
             wk'[<<o, i>>] = wk[<<o, i>>] /\ sup'[<<o, i>>] = sup[<<o, i>>]
    BY <1>1, <1>9
  <2> QED
    BY <1>1, <2>1, ClaimWaits
<1>14. WorkInv'
  BY <1>2, <1>9, <1>10, <1>11 DEF WorkInv
<1> QED
  BY <1>2, <1>12, <1>13, <1>14 DEF AgentsInv

LEMMA DaemonClaimKeeps ==
    ASSUME AgentsInv, NEW d \in Owners, NEW r \in Runs, DaemonClaim(d, r)
    PROVE  AgentsInv' /\ [StoreNext]_storeVars
<1> DEFINE n == run'[r].generation
           t == [pc |-> "claimed", o |-> d, g |-> n]
<1>1. /\ d \in Daemons /\ host[d] = "up" /\ tracked[<<d, r>>] = NULL
      /\ StoreInv /\ Claim(r, d, VersionOf[d])
      /\ sup' = [sup EXCEPT ![<<d, r>>] = t]
      /\ UNCHANGED <<wk, host, tracked, receipts, req, requests, prompts, faults>>
  BY CellTypes DEF DaemonClaim, DaemonOnly
<1>2. /\ StoreInv' /\ Columns' /\ NoInheritedQuestion'
      /\ [StoreNext]_storeVars /\ OtherRows(r)
      /\ run'[r].supervisor_id = d /\ n \in Gens
  BY <1>1, ClaimTables
<1>3. ~Alive(d, r)
  BY <1>1, Untracked
<1>4. n \in 0 .. MaxGen
  BY <1>2, ConstantFacts DEF Gens
<1> HIDE DEF n
<1>5. t \in TaskRecord /\ t.pc = "claimed" /\ t.g = n
  BY <1>4 DEF TaskRecord
<1>6. TaskOK(t)
  BY <1>2, <1>5 DEF TaskOK
<1> HIDE DEF t
<1>7. /\ Tasks' /\ sup'[<<d, r>>] = t
      /\ \A o \in Owners, i \in Runs :
            <<o, i>> # <<d, r>> => sup'[<<o, i>>] = sup[<<o, i>>]
  BY <1>1, <1>5, <1>6, TaskWritten
<1>8. Workers' /\ Handles' /\ Others'
  BY <1>1 DEF AgentsInv, WorkInv, Workers, Handles, Others, WorkerOK
<1>9. ASSUME NEW o \in Owners, NEW i \in Runs PROVE SeenEarlier(o, i)'
  <2>1. WorkersGo
    BY <1>1, SameWorkers
  <2> QED
    BY <1>2, <2>1, SeenKept
<1>10. Ownership'
  <2>1. ASSUME NEW o \in Owners, NEW i \in Runs PROVE OwnGeneration(o, i)'
    <3>1. CASE i = r /\ o = d
      BY <1>1, <1>3, <3>1 DEF OwnGeneration, Alive
    <3>2. CASE i = r /\ o # d
      BY <1>2, <3>2 DEF OwnGeneration
    <3>3. CASE i # r
      <4>1. run'[i] = run[i]
        BY <1>2, <3>3 DEF OtherRows
      <4> QED
        BY <1>1, <4>1 DEF OwnGeneration, At, Alive, Gen, AgentsInv, Ownership
    <3> QED
      BY <3>1, <3>2, <3>3
  <2>2. ASSUME NEW e \in Daemons, NEW i \in Runs
        PROVE  Tracks(e, i)' /\ Spawns(e, i)'
    <3>1. e \in Owners /\ Tracks(e, i) /\ Spawns(e, i)
      BY AgentsAssumption DEF AgentsInv, Ownership
    <3>2. Tracks(e, i)'
      BY <1>1, <3>1 DEF Tracks, Alive, Gen
    <3>3. CASE <<e, i>> = <<d, r>>
      <4>1. e = d /\ i = r
        BY <3>3
      <4>2. Spawns(d, r)'
        BY <1>1, <1>3, <1>5, <1>7, <3>1, <4>1
        DEF Spawns, At, Alive, Gen, Doing, Spawned, n
      <4> QED
        BY <3>2, <4>1, <4>2
    <3>4. CASE <<e, i>> # <<d, r>>
      <4>1. sup'[<<e, i>>] = sup[<<e, i>>]
        BY <1>7, <3>1, <3>4
      <4>2. run'[i] = run[i] \/ run'[i].supervisor_id # e
        BY <1>2, <3>4 DEF OtherRows
      <4>3. Spawns(e, i)'
        BY <1>1, <3>1, <4>1, <4>2 DEF Spawns, At, Alive, Gen, Doing
      <4> QED
        BY <3>2, <4>3
    <3> QED
      BY <3>3, <3>4
  <2>3. ASSUME NEW o \in Owners \ Daemons, NEW i \in Runs
        PROVE  sup'[<<o, i>>].pc \notin {"claimed"} \cup Spawned
    BY <1>1, <1>7 DEF AgentsInv, Ownership
  <2> QED
    BY <2>1, <2>2, <2>3 DEF Ownership
<1>11. AskerWaits'
  BY <1>1, <1>7, ClaimWaits
<1>12. WorkInv'
  BY <1>2, <1>7, <1>8, <1>9 DEF WorkInv
<1> QED
  BY <1>2, <1>10, <1>11, <1>12 DEF AgentsInv

(* A worker in its turn asks: it alone runs the run, and nobody has asked   *)
(* before it and is still waiting.                                          *)
LEMMA AskTables ==
    ASSUME AgentsInv, NEW p \in Owners, NEW r \in Runs, NEW q \in Questions,
           NEW g \in Gens, Ask(r, p, g, q)
    PROVE  /\ StoreInv' /\ Columns' /\ NoInheritedQuestion'
           /\ [StoreNext]_storeVars /\ OwnersKept /\ OtherRows(r)
           /\ \A i \in Questions \ {q} : ask'[i] = ask[i]
           /\ ask'[q].run_id = r
           /\ run[r].supervisor_id = p /\ run[r].status \in Live
<1>1. StoreInv /\ Columns /\ NoInheritedQuestion
  BY DEF AgentsInv, WorkInv
<1>2. [StoreNext]_storeVars
  BY DEF StoreNext, OwnerStep
<1>3. StoreInv' /\ Columns'
  BY <1>1, <1>2, NextInv, ColumnsKept
<1>4. /\ run[r].supervisor_id = p /\ run[r].status \in Live
      /\ Settle(r, "waiting")
      /\ ask' = [ask EXCEPT ![q] = [run_id |-> r, status |-> "pending"]]
  BY DEF Ask, CanAsk, Owns
<1>5. OtherRows(r) /\ SameOwner(r) /\ run'[r].status = "waiting"
  BY <1>1, <1>4, SettledColumns
<1>6. OwnersKept
  BY <1>5 DEF OwnersKept, OtherRows, SameOwner
<1>7. ask \in [Questions -> AskRow]
  BY <1>1 DEF StoreInv, AsksOK
<1>8. /\ \A i \in Questions \ {q} : ask'[i] = ask[i]
      /\ ask'[q].run_id = r
  BY <1>4, <1>7
<1>9. ASSUME NEW i \in Questions, ask'[i].status \in Open
      PROVE  run'[ask'[i].run_id].status \in Asked
  <2>1. CASE ask'[i].run_id = r
    BY <1>5, <2>1 DEF Asked
  <2>2. CASE ask'[i].run_id # r
    <3>1. i # q
      BY <1>8, <2>2
    <3>2. ask'[i] = ask[i]
      BY <1>8, <3>1
    <3>3. ask[i].run_id \in Runs \ {r} /\ run[ask[i].run_id].status \in Asked
      BY <1>1, <1>9, <2>2, <3>2 DEF Columns, NoInheritedQuestion, Asked
    <3> QED
      BY <1>5, <3>2, <3>3 DEF OtherRows
  <2> QED
    BY <2>1, <2>2
<1>10. NoInheritedQuestion'
  BY <1>9 DEF NoInheritedQuestion, Asked
<1> QED
  BY <1>2, <1>3, <1>4, <1>5, <1>6, <1>8, <1>10

LEMMA AskUserKeeps ==
    ASSUME AgentsInv, NEW p \in Owners, NEW r \in Runs, NEW q \in Questions,
           AskUser(p, r, q), CanAsk(r, p, Gen(p, r))
    PROVE  AgentsInv' /\ [StoreNext]_storeVars
<1> DEFINE v == wk[<<p, r>>]
           w == [v EXCEPT !.pc = "wait", !.q = q]
<1>1. /\ v \in WorkerRecord /\ WorkerOK(v) /\ v.pc = "loop"
      /\ wk \in [Cells -> WorkerRecord] /\ <<p, r>> \in Cells
      /\ Only /\ Ask(r, p, Gen(p, r), q)
      /\ wk' = [wk EXCEPT ![<<p, r>>].pc = "wait", ![<<p, r>>].q = q]
  BY CellTypes DEF AskUser, InTurn, At
<1>2. Gen(p, r) \in Gens
  BY <1>1, GenType
<1>3. /\ StoreInv' /\ Columns' /\ NoInheritedQuestion'
      /\ [StoreNext]_storeVars /\ OwnersKept /\ OtherRows(r)
      /\ \A i \in Questions \ {q} : ask'[i] = ask[i]
      /\ ask'[q].run_id = r
      /\ run[r].supervisor_id = p /\ run[r].status \in Live
  BY <1>1, <1>2, AskTables
<1>4. wk' = [wk EXCEPT ![<<p, r>>] = w]
  BY <1>1
<1>5. /\ w \in WorkerRecord /\ w.pc = "wait" /\ w.gen = v.gen /\ w.q = q
      /\ w.seen = v.seen
  BY <1>1 DEF WorkerRecord, WorkerPcs
<1>6. v.gen \in Gens
  BY <1>2 DEF Gen
<1> HIDE DEF w
<1>7. WorkerOK(w) /\ CellGoes(v, w)
  BY <1>1, <1>5, <1>6 DEF WorkerOK, CellGoes, Goes, Parked
<1>8. WorkersGo
  BY <1>4, <1>5, <1>7, OneWorker
<1>9. /\ wk'[<<p, r>>] = w
      /\ \A o \in Owners, i \in Runs :
            <<o, i>> # <<p, r>> => wk'[<<o, i>>] = wk[<<o, i>>]
  BY <1>4, <1>5, <1>7, WorkerWritten
<1>10. TasksGo /\ HandlesGo /\ Others' /\ UNCHANGED sup
  <2>1. UNCHANGED <<host, sup, tracked, receipts, req, requests, prompts, faults>>
    BY <1>1 DEF Only, WorkerOnly
  <2> QED
    BY <2>1, SameTasks, SameHandles DEF AgentsInv, WorkInv, Others
<1>11. \A o \in Owners, i \in Runs : SeenEarlier(o, i)'
  BY <1>3, <1>8, SeenKept
<1>12. Ownership'
  BY <1>3, <1>8, <1>10, OwnershipKept
<1>13. WorkInv'
  BY <1>3, <1>8, <1>10, <1>11 DEF WorkInv, WorkersGo, TasksGo, HandlesGo
<1>14. OpenOf(r) = {}
  <2> SUFFICES ASSUME NEW i \in OpenOf(r) PROVE FALSE
    OBVIOUS
  <2>1. i \in Questions /\ ask[i].run_id = r /\ ask[i].status \in Open
    BY DEF OpenOf
  <2>2. run[r].status \in Asked
    BY <2>1 DEF AgentsInv, NoInheritedQuestion, Asked
  <2>3. run[r].status = "waiting"
    BY <1>3, <2>2 DEF Asked, Live, Ended
  <2>4. Asking(p, r, i)
    BY <1>3, <2>1, <2>3 DEF AgentsInv, AskerWaits
  <2> QED
    BY <1>1, <2>4 DEF Asking, At, Parked
<1>15. ~Doing(p, r, "claimed")
  <2>1. CASE p \in Daemons
    BY <1>1, <2>1 DEF AgentsInv, Ownership, Spawns, Alive
  <2>2. CASE p \notin Daemons
    BY <2>2 DEF AgentsInv, Ownership, Doing
  <2> QED
    BY <2>1, <2>2
<1>16. ASSUME NEW j \in Questions, NEW i \in Runs, NEW o \in Owners,
              ask'[j].run_id = i, ask'[j].status \in Open,
              run'[i].status = "waiting", run'[i].supervisor_id = o
       PROVE  Asking(o, i, j)' /\ ~Doing(o, i, "claimed")'
  <2>1. CASE i = r
    <3>1. j = q
      BY <1>3, <1>14, <1>16, <2>1 DEF OpenOf
    <3>2. o = p
      BY <1>3, <1>16, <2>1 DEF OwnersKept, SameOwner
    <3> QED
      BY <1>5, <1>9, <1>10, <1>15, <2>1, <3>1, <3>2 DEF Asking, At, Doing
  <2>2. CASE i # r
    <3>1. j # q
      BY <1>3, <1>16, <2>2
    <3>2. ask'[j] = ask[j] /\ run'[i] = run[i]
      BY <1>3, <2>2, <3>1 DEF OtherRows
    <3>3. Asking(o, i, j) /\ ~Doing(o, i, "claimed")
      BY <1>16, <3>2 DEF AgentsInv, AskerWaits, OpenOf
    <3>4. wk'[<<o, i>>] = wk[<<o, i>>] /\ sup'[<<o, i>>] = sup[<<o, i>>]
      BY <1>9, <1>10, <2>2
    <3> QED
      BY <3>3, <3>4 DEF Asking, At, Doing
  <2> QED
    BY <2>1, <2>2
<1>17. AskerWaits'
  BY <1>16 DEF AskerWaits, OpenOf
<1> QED
  BY <1>3, <1>12, <1>13, <1>17 DEF AgentsInv

-----------------------------------------------------------------------------
(* Every step *)

(* The steps that give a run a new owner, a new worker or a new question.   *)
Special ==
    \E p \in Owners, r \in Runs :
       \/ ReadRun(p, r) \/ Spawn(p, r) \/ DaemonClaim(p, r)
       \/ ClaimRun(p, r) /\ CanClaim(r, VersionOf[p])
       \/ \E q \in Questions : AskUser(p, r, q) /\ CanAsk(r, p, Gen(p, r))

LEMMA WorkerSteps ==
    ASSUME AgentsInv, NEW p \in Owners, NEW r \in Runs,
           WorkerStep(p, r) \/ TurnStep(p, r) \/ Expiry(p, r)
    PROVE  Ordinary \/ Special
<1>1. CASE ReadRun(p, r) \/ ClaimRun(p, r)
  BY <1>1, RefusedOrdinary DEF Special
<1>2. CASE \E q \in Questions : AskUser(p, r, q)
  BY <1>2, RefusedOrdinary DEF Special
<1>3. CASE \/ Boot(p, r) \/ AwaitReceipt(p, r) \/ ReceiptTimeout(p, r)
           \/ WorkerError(p, r) \/ Configure(p, r) \/ OpenThread(p, r)
           \/ Bind(p, r) \/ SubmitPrompt(p, r)
  BY <1>3, BootOrdinary, ReceiptOrdinary, ConfigureOrdinary,
     OpenThreadOrdinary, BindOrdinary, PromptOrdinary
<1>4. CASE \/ Starting(p, r) \/ Running(p, r) \/ TurnEvent(p, r)
           \/ \E s \in Ended : TurnEnds(p, r, s)
           \/ Stop(p, r) \/ Answered(p, r)
  BY <1>4, StatusOrdinary
<1>5. CASE \/ Tick(p, r) \/ Cancelled(p, r) \/ WaitPoll(p, r)
           \/ WaitCancelled(p, r) \/ Expiry(p, r)
  BY <1>5, TickOrdinary, WaitOrdinary
<1>6. CASE Ending(p, r) \/ MarkFailed(p, r) \/ Failing(p, r)
  BY <1>6, EndingOrdinary, MarkFailedOrdinary, FailingOrdinary
<1>7. CASE StartupBeat(p, r) \/ GoalTurn(p, r) \/ Defer(p, r)
  BY <1>7, BeatOrdinary, GoalTurnOrdinary, DeferOrdinary
<1> QED
  BY <1>1, <1>2, <1>3, <1>4, <1>5, <1>6, <1>7 DEF WorkerStep, TurnStep

LEMMA DaemonSteps ==
    ASSUME AgentsInv, NEW d \in Owners, NEW r \in Runs,
           \/ DaemonStep(d, r) \/ Rehydrate(d, r)
           \/ SpawnFails(d, r) \/ BookkeepingFails(d, r)
    PROVE  Ordinary \/ Special
<1>1. CASE DaemonClaim(d, r) \/ Spawn(d, r)
  BY <1>1 DEF Special
<1>2. CASE \/ SpawnFails(d, r) \/ RecordSpawn(d, r) \/ WriteReceipt(d, r)
           \/ BookkeepingFails(d, r) \/ FailClaimed(d, r)
  BY <1>2, BookkeepingOrdinary
<1>3. CASE WriteFailed(d, r) \/ FinishFailed(d, r) \/ FinalizeRead(d, r)
  BY <1>3, GiveUpOrdinary
<1>4. CASE \/ Cleanup(d, r) \/ StopTracked(d, r) \/ Prune(d, r)
           \/ Rehydrate(d, r)
  BY <1>4, CleanupOrdinary, StopTrackedOrdinary, PruneOrdinary,
     RehydrateOrdinary
<1> QED
  BY <1>1, <1>2, <1>3, <1>4 DEF DaemonStep

LEMMA Steps == AgentsInv /\ Next => Ordinary \/ Special
<1> SUFFICES ASSUME AgentsInv, Next PROVE Ordinary \/ Special
  OBVIOUS
<1>1. ASSUME NEW p \in Owners, NEW r \in Runs,
             \/ WorkerStep(p, r) \/ TurnStep(p, r) \/ Expiry(p, r)
             \/ DaemonStep(p, r) \/ Rehydrate(p, r)
             \/ SpawnFails(p, r) \/ BookkeepingFails(p, r)
      PROVE  Ordinary \/ Special
  BY <1>1, WorkerSteps, DaemonSteps
<1>2. ASSUME NEW p \in Owners, NEW r \in Runs,
             BusyExit(p, r) \/ WorkerCrash(p, r) \/ RequestStep(p, r)
      PROVE  Ordinary
  BY <1>2, FaultyExitOrdinary, ClientOrdinary, StopReadOrdinary, DeleteOrdinary
  DEF RequestStep
<1>3. ASSUME NEW r \in Runs,
             \/ StartSweep(r) \/ StopFence(r) \/ StopQuestions(r)
             \/ CancelWorker(r) \/ CancelFinalize(r)
             \/ Age(r) \/ Stall(r) \/ Sweep(r)
      PROVE  Ordinary
  BY <1>3, ClientOrdinary, StopFenceOrdinary, StopQuestionsOrdinary,
     CancelWorkerOrdinary, CancelFinalizeOrdinary, StallOrdinary
<1>4. CASE \E q \in Questions : Attach(q) \/ \E s \in Answers : Respond(q, s)
  BY <1>4, ClientOrdinary
<1>5. ASSUME NEW p \in Owners, Crash(p) \/ Shutdown(p) \/ Leave(p)
      PROVE  Ordinary
  BY <1>5, CrashOrdinary, ShutdownOrdinary
<1> QED
  BY <1>1, <1>2, <1>3, <1>4, <1>5 DEF Next

LEMMA NothingOrdinary == AgentsInv /\ UNCHANGED vars => Ordinary
<1> SUFFICES ASSUME AgentsInv, UNCHANGED vars PROVE Ordinary
  OBVIOUS
<1>1. /\ UNCHANGED storeVars /\ Only /\ UNCHANGED wk
  BY DEF vars, workVars, Only, WorkerOnly, storeVars
<1>2. Calm
  BY <1>1, NothingIsCalm DEF AgentsInv, WorkInv
<1>3. WorkersGo
  BY <1>1, SameWorkers
<1> QED
  BY <1>1, <1>2, <1>3, OnlyOrdinary

LEMMA SpecialKeeps ==
    AgentsInv /\ Special => AgentsInv' /\ [StoreNext]_storeVars
  BY ReadRunKeeps, SpawnKeeps, DaemonClaimKeeps, ClaimRunKeeps, AskUserKeeps
  DEF Special

LEMMA StepKeeps ==
    AgentsInv /\ [Next]_vars => AgentsInv' /\ [StoreNext]_storeVars
<1>1. AgentsInv /\ Ordinary => AgentsInv' /\ [StoreNext]_storeVars
  BY OrdinaryKeeps DEF Ordinary, Calm
<1> QED
  BY <1>1, Steps, NothingOrdinary, SpecialKeeps

LEMMA InitKeeps == AgentsInit => Init /\ AgentsInv
<1> SUFFICES ASSUME AgentsInit PROVE Init /\ AgentsInv
  OBVIOUS
<1>1. /\ Init /\ host = [p \in Owners |-> "up"]
      /\ wk = [c \in Cells |-> NoWorker] /\ sup = [c \in Cells |-> NoTask]
      /\ tracked = [c \in Cells |-> NULL] /\ receipts = {}
      /\ prompts = [k \in Runs \X Gens |-> 0]
      /\ req = [r \in Runs |-> NoRequest] /\ faults = 0 /\ requests = 0
  BY DEF AgentsInit
<1>2. StoreInv
  BY <1>1, InitInv
<1>3. \A r \in Runs : run[r].status = "none" /\ ColumnsOK(run[r])
  BY <1>1 DEF Init, NoRun, ColumnsOK
<1>4. \A q \in Questions : ask[q].status \notin Open
  BY <1>1 DEF Init, NoAsk, Open
<1>5. Columns /\ NoInheritedQuestion /\ AskerWaits
  BY <1>3, <1>4 DEF Columns, NoInheritedQuestion, AskerWaits, OpenOf
<1>6. \A c \in Cells : wk[c] = NoWorker /\ sup[c] = NoTask
  BY <1>1
<1>7. Workers /\ Tasks /\ Handles
  BY <1>1, <1>6, EmptyRecords DEF Workers, Tasks, Handles
<1>8. Others
  BY <1>1, EmptyRecords DEF Others
<1>9. \A p \in Owners, r \in Runs :
         wk[<<p, r>>].pc = "none" /\ sup[<<p, r>>].pc = "none"
  BY <1>6, EmptyRecords DEF Cells
<1>10. \A p \in Owners, r \in Runs : SeenEarlier(p, r)
  BY <1>9 DEF SeenEarlier, At
<1>11. Ownership
  <2>1. \A d \in Daemons : d \in Owners
    BY AgentsAssumption
  <2> QED
    BY <1>9, <2>1
    DEF Ownership, OwnGeneration, Tracks, Spawns, Alive, At, Doing, Spawned
<1> QED
  BY <1>1, <1>2, <1>5, <1>7, <1>8, <1>10, <1>11 DEF AgentsInv, WorkInv

LEMMA AgentsInvHolds == Spec => []AgentsInv
<1>1. AgentsInit => AgentsInv
  BY InitKeeps
<1>2. AgentsInv /\ [Next]_vars => AgentsInv'
  BY StepKeeps
<1> QED
  BY <1>1, <1>2, PTL DEF Spec

-----------------------------------------------------------------------------
(* Theorems about the running system *)

(***************************************************************************)
(* The workers, daemons, sweeps and clients, with all their faults, only   *)
(* ever do to the tables what the transactions of the store allow: what is *)
(* proved of the store for any callers holds of the system.                *)
(***************************************************************************)
THEOREM AgentsImplementStore == Spec => StoreSpec
<1>1. AgentsInit => Init
  BY InitKeeps
<1>2. AgentsInv /\ [Next]_vars => [StoreNext]_storeVars
  BY StepKeeps
<1> QED
  BY <1>1, <1>2, AgentsInvHolds, PTL DEF Spec, StoreSpec

(***************************************************************************)
(* Types of the tables, of the workers and of the daemons.                 *)
(***************************************************************************)
THEOREM AgentsTypeCorrect == Spec => []AgentsTypeOK
<1>1. AgentsInv => AgentsTypeOK
  BY InvGivesType
  DEF AgentsInv, WorkInv, Workers, Tasks, Handles, Others, AgentsTypeOK
<1> QED
  BY <1>1, AgentsInvHolds, PTL

(***************************************************************************)
(* No generation inherits a question: whenever one is open, its run waits, *)
(* is being stopped or is over.  A worker leaves its question only when    *)
(* the question is closed or the worker is about to end, and every         *)
(* transaction that frees a run closes what the run has asked.             *)
(***************************************************************************)
THEOREM NoInheritedQuestionHolds == Spec => []NoInheritedQuestion
<1>1. AgentsInv => NoInheritedQuestion
  BY DEF AgentsInv
<1> QED
  BY <1>1, AgentsInvHolds, PTL

(***************************************************************************)
(* mark_background_agent_worker_failed fails the generation of the worker  *)
(* that calls it and no other.  A process claims a run again only once its *)
(* worker for the run is gone, so a worker whose process is still the      *)
(* owner of the run reads its own generation.                              *)
(***************************************************************************)
THEOREM FailureIsOwnHolds == Spec => FailureIsOwn
<1> DEFINE Own == \A p \in Owners, r \in Runs :
                    At(p, r, "error") /\ wk'[<<p, r>>].pc = "failing"
                      => wk'[<<p, r>>].gen = Gen(p, r)
<1>1. ASSUME AgentsInv, Ordinary PROVE Own
  <2>1. WorkersGo
    BY <1>1 DEF Ordinary
  <2> QED
    BY <2>1, CellFacts DEF Gen, At
<1>2. ASSUME AgentsInv, Special PROVE Own
  <2>1. PICK p \in Owners, r \in Runs :
          \/ ReadRun(p, r) \/ Spawn(p, r) \/ DaemonClaim(p, r)
          \/ ClaimRun(p, r) /\ CanClaim(r, VersionOf[p])
          \/ \E q \in Questions :
               AskUser(p, r, q) /\ CanAsk(r, p, Gen(p, r))
    BY <1>2 DEF Special
  <2>2. /\ wk \in [Cells -> WorkerRecord] /\ <<p, r>> \in Cells
        /\ wk[<<p, r>>] \in WorkerRecord
    BY <1>2, CellTypes
  <2>3. CASE UNCHANGED wk
    BY <2>3 DEF At, Gen
  <2>4. ASSUME NEW w, wk' = [wk EXCEPT ![<<p, r>>] = w], w.pc # "failing"
        PROVE  Own
    <3>1. \A c \in Cells : wk'[c] = wk[c] \/ wk'[c].pc # "failing"
      BY <2>2, <2>4
    <3> QED
      BY <3>1 DEF At, Gen, Cells
  <2>5. CASE ReadRun(p, r)
    <3> DEFINE w == [wk[<<p, r>>] EXCEPT !.pc = "claim", !.seen = run[r].rollout]
    <3>1. wk' = [wk EXCEPT ![<<p, r>>] = w] /\ w.pc # "failing"
      BY <2>2, <2>5 DEF ReadRun, WorkerRecord
    <3> QED
      BY <2>4, <3>1
  <2>6. CASE Spawn(p, r)
    <3> DEFINE w == [NoWorker EXCEPT !.pc = "boot", !.gen = sup[<<p, r>>].g]
    <3>1. wk' = [wk EXCEPT ![<<p, r>>] = w] /\ w.pc # "failing"
      BY <2>2, <2>6 DEF Spawn, NoWorker
    <3> QED
      BY <2>4, <3>1
  <2>7. CASE DaemonClaim(p, r)
    BY <2>3, <2>7 DEF DaemonClaim
  <2>8. CASE ClaimRun(p, r) /\ CanClaim(r, VersionOf[p])
    <3> DEFINE w == [wk[<<p, r>>] EXCEPT !.pc = "config",
                                         !.gen = run'[r].generation]
    <3>1. wk' = [wk EXCEPT ![<<p, r>>] = w] /\ w.pc # "failing"
      BY <2>2, <2>8 DEF ClaimRun, WorkerRecord
    <3> QED
      BY <2>4, <3>1
  <2>9. ASSUME NEW q \in Questions, AskUser(p, r, q), CanAsk(r, p, Gen(p, r))
        PROVE  Own
    <3> DEFINE w == [wk[<<p, r>>] EXCEPT !.pc = "wait", !.q = q]
    <3>1. wk' = [wk EXCEPT ![<<p, r>>] = w] /\ w.pc # "failing"
      BY <2>2, <2>9 DEF AskUser, WorkerRecord
    <3> QED
      BY <2>4, <3>1
  <2> QED
    BY <2>1, <2>5, <2>6, <2>7, <2>8, <2>9
<1>3. AgentsInv /\ [Next]_vars => [Own]_vars
  BY <1>1, <1>2, Steps
<1> QED
  BY <1>3, AgentsInvHolds, PTL DEF Spec, FailureIsOwn

(***************************************************************************)
(* In the running system the lease of the current generation is the lease  *)
(* of the recorded owner.                                                  *)
(***************************************************************************)
THEOREM SystemLeaseNamesOwner == Spec => []LeaseNamesOwner
  BY AgentsImplementStore, LeaseNamesOwnerHolds, PTL

(***************************************************************************)
(* In the running system the runs that are not over never outnumber        *)
(* max_active_runs.                                                        *)
(***************************************************************************)
THEOREM SystemCapacity == Spec => []CapacityKept
  BY AgentsImplementStore, CapacityHolds, PTL

(***************************************************************************)
(* In the running system a stop or a delete wins over every worker, daemon *)
(* and sweep that has read the run before.                                 *)
(***************************************************************************)
THEOREM SystemStopWins == Spec => StopWins
  BY AgentsImplementStore, StopWinsHolds, PTL

(***************************************************************************)
(* In the running system a question is answered at most once.              *)
(***************************************************************************)
THEOREM SystemAnsweredOnce == Spec => AnsweredOnce
  BY AgentsImplementStore, AnsweredOnceHolds, PTL

(***************************************************************************)
(* The running system implements the abstract lifecycle of its runs.       *)
(***************************************************************************)
THEOREM SystemImplementsLifecycle == Spec => ImplementsLifecycle
  BY AgentsImplementStore, StoreImplementsLifecycle, PTL

-----------------------------------------------------------------------------
(* The initial prompt, in a system of daemons whose workers do not stall *)

(* A worker that still acts on its run, and a run that nobody can take over *)
(* as long as its heartbeat does not grow old.                              *)
Working(p, r) == wk[<<p, r>>].pc \notin {"none", "ending"}
Held(i) == run[i].status \in Owned \cup Ended /\ run[i].stale = FALSE
NoPrompt(i) == \A g \in Gens : prompts[<<i, g>>] = 0

(* What a worker that has not submitted the prompt knows of its run.        *)
Opening == {"receipt", "config", "starting", "thread"}
Knows(w, i) ==
    /\ w.pc \in Opening => w.seen = run[i].rollout
    /\ w.pc = "bind" => run[i].rollout \in {NULL, w.seen}
    /\ w.pc \in {"bound", "prompt"} => run[i].rollout = w.seen
    /\ w.pc \in {"bind", "bound"} => w.recorded \/ NoPrompt(i)
    /\ w.pc = "prompt" => NoPrompt(i)
Knowing == Opening \cup {"bind", "bound", "prompt"}

(* Whoever works on a run, or has claimed it for a worker, owns and holds   *)
(* it; and a prompt is in the thread that the run names.                    *)
Holds(p, r) ==
    /\ Working(p, r) => Owns(r, p, Gen(p, r)) /\ Held(r)
    /\ Doing(p, r, "claimed") => Owns(r, p, sup[<<p, r>>].g) /\ Held(r)
Holders == \A p \in Owners, r \in Runs : Holds(p, r)
Aware(p, r) == Knows(wk[<<p, r>>], r)
Informed == \A p \in Owners, r \in Runs : Aware(p, r)
Placed ==
    \A r \in Runs, g \in Gens :
       prompts[<<r, g>>] > 0 => prompts[<<r, g>>] = 1 /\ run[r].rollout = g
PromptInv == Holders /\ Informed /\ Placed

LEMMA NoneOrSome ==
    ASSUME AgentsInv, NEW r \in Runs, NEW g \in Gens
    PROVE  prompts[<<r, g>>] = 0 \/ prompts[<<r, g>>] > 0
<1>1. prompts[<<r, g>>] \in Nat
  BY DEF AgentsInv, WorkInv, Others
<1> QED
  BY <1>1

LEMMA PromptInvGives == AgentsInv /\ PromptInv => PromptOnce
<1> SUFFICES ASSUME AgentsInv, PromptInv, NEW r \in Runs, NEW g \in Gens,
                    prompts[<<r, g>>] > 0
             PROVE  /\ prompts[<<r, g>>] = 1
                    /\ \A h \in Gens \ {g} : prompts[<<r, h>>] = 0
  BY DEF PromptOnce
<1>1. \A h \in Gens : prompts[<<r, h>>] > 0 => prompts[<<r, h>>] = 1 /\ h = g
  BY DEF PromptInv, Placed
<1> QED
  BY <1>1, NoneOrSome

(* What a step keeps of the rows.                                           *)
HoldKept(i) == run'[i].rollout = run[i].rollout /\ (Held(i) => Held(i)')
HoldsKept == \A i \in Runs : HoldKept(i)

LEMMA HoldWritten ==
    ASSUME NEW r \in Runs, OtherRows(r), run'[r].rollout = run[r].rollout,
           Held(r) => Held(r)'
    PROVE  HoldsKept
<1> SUFFICES ASSUME NEW i \in Runs PROVE HoldKept(i)
  BY DEF HoldsKept
<1>1. CASE i = r
  BY <1>1 DEF HoldKept
<1>2. CASE i # r
  <2>1. run'[i] = run[i]
    BY <1>2 DEF OtherRows
  <2>2. Held(i) => Held(i)'
    BY <2>1 DEF Held
  <2> QED
    BY <2>1, <2>2 DEF HoldKept
<1> QED
  BY <1>1, <1>2

LEMMA SameRows == UNCHANGED run => HoldsKept
  BY DEF HoldsKept, HoldKept, Held

(* A write of the status, and maybe of the intent, of one row.              *)
LEMMA StatusHold ==
    ASSUME NEW r \in Runs, NEW s, OtherRows(r),
           run'[r].rollout = run[r].rollout, run'[r].stale = run[r].stale,
           run'[r].status = s, Held(r) => s \in Owned \cup Ended
    PROVE  HoldsKept
<1>1. Held(r) => Held(r)'
  BY DEF Held
<1> QED
  BY <1>1, HoldWritten

LEMMA SettleHold ==
    ASSUME StoreInv, NEW r \in Runs, NEW s, Settle(r, s),
           Held(r) => s \in Owned \cup Ended
    PROVE  HoldsKept
<1>1. run \in [Runs -> RunRow] /\ run[r] \in RunRow
  BY DEF StoreInv, RowsOK
<1>2. /\ OtherRows(r) /\ run'[r].rollout = run[r].rollout
      /\ run'[r].status = s /\ run'[r].stale = run[r].stale
  BY <1>1 DEF RunRow, OtherRows, Settle
<1> QED
  BY <1>2, StatusHold

(* A heartbeat.                                                             *)
LEMMA FreshRow ==
    ASSUME StoreInv, NEW r \in Runs, run' = [run EXCEPT ![r].stale = FALSE]
    PROVE  HoldsKept
<1>1. run \in [Runs -> RunRow] /\ run[r] \in RunRow
  BY DEF StoreInv, RowsOK
<1>2. /\ OtherRows(r) /\ run'[r].rollout = run[r].rollout
      /\ run'[r].status = run[r].status
  BY <1>1 DEF RunRow, OtherRows
<1>3. run'[r].stale = FALSE
  BY <1>1 DEF RunRow
<1>4. Held(r) => Held(r)'
  BY <1>2, <1>3 DEF Held
<1> QED
  BY <1>2, <1>4, HoldWritten

(* Only a lapse, a release or a claim of a run changes who can have it, and *)
(* only a bind changes its thread.                                          *)
LEMMA CallsKeep ==
    ASSUME StoreInv, NEW r \in Runs,
           \/ \E o, g : \/ RecordHandle(r, o, g) \/ Heartbeat(r, o, g)
                        \/ Finalize(r, o, g) \/ FinishLease(r, o, g)
                        \/ RequestStop(r, o, g)
                        \/ \E s \in Owned \cup Ended : SetStatus(r, o, g, s)
                        \/ \E q : Ask(r, o, g, q)
           \/ \E v : Admit(r, v) \/ Terminalize(r, v)
           \/ RequestDelete(r) \/ Orphan(r) \/ CancelStale(r)
           \/ CancelQuestions(r)
    PROVE  HoldsKept
<1> DEFINE Rest == /\ OtherRows(r) /\ run'[r].rollout = run[r].rollout
                   /\ run'[r].stale = run[r].stale
<1>0. run \in [Runs -> RunRow] /\ run[r] \in RunRow
  BY DEF StoreInv, RowsOK
<1>1. CASE \E o, g : RecordHandle(r, o, g) \/ Heartbeat(r, o, g)
  BY <1>1, FreshRow DEF RecordHandle, Heartbeat
<1>2. CASE \E o, g : \E s \in Owned \cup Ended : SetStatus(r, o, g, s)
  BY <1>2, SettleHold DEF SetStatus
<1>3. CASE (\E o, g : Finalize(r, o, g)) \/ CancelStale(r)
  BY <1>3, SettleHold, StatusSets DEF Finalize, CancelStale
<1>4. CASE (\E o, g : FinishLease(r, o, g)) \/ CancelQuestions(r)
  BY <1>4, SameRows DEF FinishLease, CancelQuestions
<1>5. CASE \E o, g, q : Ask(r, o, g, q)
  BY <1>5, SettleHold, StatusSets DEF Ask
<1>6. CASE \E v : Admit(r, v)
  <2>1. ~Held(r)
    BY <1>6, StatusSets DEF Admit, CanAdmit, Exists, Held
  <2>2. PICK v :
           run' = [run EXCEPT ![r].status = "queued", ![r].version = v]
    BY <1>6 DEF Admit
  <2>3. Rest
    BY <1>0, <2>2 DEF RunRow, OtherRows
  <2> QED
    BY <2>1, <2>3, StatusHold
<1>7. CASE \E v : Terminalize(r, v)
  <2>1. Rest /\ run'[r].status = "failed"
    BY <1>0, <1>7 DEF RunRow, OtherRows, Terminalize
  <2> QED
    BY <2>1, StatusHold, StatusSets
<1>8. CASE \E o, g : RequestStop(r, o, g)
  <2>1. PICK x \in {"cancelled", "stopping"} :
           run' = [run EXCEPT ![r].desired = "stopped", ![r].status = x]
    BY <1>8 DEF RequestStop
  <2>2. Rest /\ run'[r].status = x
    BY <1>0, <2>1 DEF RunRow, OtherRows
  <2> QED
    BY <2>2, StatusHold, StatusSets
<1>9. CASE RequestDelete(r)
  <2>1. PICK x \in {run[r].status, "cancelled", "stopping"} :
           run' = [run EXCEPT ![r].desired = "deleted",
                              ![r].retention = "delete_requested",
                              ![r].status = x]
    BY <1>9 DEF RequestDelete
  <2>2. Rest /\ run'[r].status = x
    BY <1>0, <2>1 DEF RunRow, OtherRows
  <2>3. Held(r) => x \in Owned \cup Ended
    BY <2>1, StatusSets DEF Held
  <2> QED
    BY <2>2, <2>3, StatusHold
<1>10. CASE Orphan(r)
  <2>1. ~Held(r)
    BY <1>10 DEF Orphan, CanOrphan, Held
  <2> QED
    BY <1>10, <2>1, SettleHold DEF Orphan
<1> QED
  BY <1>1, <1>2, <1>3, <1>4, <1>5, <1>6, <1>7, <1>8, <1>9, <1>10

(* What a step keeps of the workers: none starts, and whoever still has to  *)
(* open or to bind a thread, or to submit, knows what it knew.              *)
Moves(v, w, i) ==
    w.pc \notin {"none", "ending"} =>
      v.pc \notin {"none", "ending"} /\ Knows(w, i)
WorkerMoves(p, r) == Moves(wk[<<p, r>>], wk'[<<p, r>>], r)
WorkersMove == \A p \in Owners, r \in Runs : WorkerMoves(p, r)

(* A run that is worked on, or claimed for a worker, stays held.            *)
WorkedKept ==
    \A p \in Owners, i \in Runs :
       /\ Working(p, i)' \/ Doing(p, i, "claimed")'
       /\ run[i].supervisor_id = p /\ Held(i)
       => Held(i)'
RolloutsKept == \A i \in Runs : run'[i].rollout = run[i].rollout
Steady ==
    /\ OwnersKept /\ WorkersGo /\ TasksGo /\ WorkersMove
    /\ WorkedKept /\ RolloutsKept /\ UNCHANGED prompts

LEMMA IdleKnows ==
    ASSUME NEW w, NEW i, w.pc \notin Knowing PROVE Knows(w, i)
  BY DEF Knows, Knowing, Opening

LEMMA HoldersKept ==
    ASSUME Holders, OwnersKept, WorkersGo, TasksGo, WorkedKept,
           \A p \in Owners, r \in Runs : Working(p, r)' => Working(p, r)
    PROVE  Holders'
<1>1. ASSUME NEW p \in Owners, NEW r \in Runs PROVE Holds(p, r)'
  <2>1. SameOwner(r) /\ Holds(p, r) /\ <<p, r>> \in Cells
    BY DEF OwnersKept, Holders, Cells
  <2>2. TaskGoes(sup[<<p, r>>], sup'[<<p, r>>])
    BY <2>1 DEF TasksGo
  <2>3. Working(p, r)' => Owns(r, p, Gen(p, r))' /\ Held(r)'
    <3> SUFFICES ASSUME Working(p, r)'
                 PROVE  Owns(r, p, Gen(p, r))' /\ Held(r)'
      OBVIOUS
    <3>1. Working(p, r) /\ wk'[<<p, r>>].gen = wk[<<p, r>>].gen
      BY CellFacts DEF Working
    <3>2. Owns(r, p, Gen(p, r)) /\ Held(r)
      BY <2>1, <3>1 DEF Holds
    <3>3. Owns(r, p, Gen(p, r))'
      BY <2>1, <3>1, <3>2 DEF Owns, SameOwner, Gen
    <3>4. Held(r)'
      BY <3>2 DEF WorkedKept, Owns
    <3> QED
      BY <3>3, <3>4
  <2>4. Doing(p, r, "claimed")' => Owns(r, p, sup[<<p, r>>].g)' /\ Held(r)'
    <3> SUFFICES ASSUME Doing(p, r, "claimed")'
                 PROVE  Owns(r, p, sup[<<p, r>>].g)' /\ Held(r)'
      OBVIOUS
    <3>1. Doing(p, r, "claimed") /\ sup'[<<p, r>>].g = sup[<<p, r>>].g
      BY <2>2 DEF TaskGoes, Doing
    <3>2. Owns(r, p, sup[<<p, r>>].g) /\ Held(r)
      BY <2>1, <3>1 DEF Holds
    <3>3. Owns(r, p, sup[<<p, r>>].g)'
      BY <2>1, <3>1, <3>2 DEF Owns, SameOwner
    <3>4. Held(r)'
      BY <3>2 DEF WorkedKept, Owns
    <3> QED
      BY <3>3, <3>4
  <2> QED
    BY <2>3, <2>4 DEF Holds
<1> QED
  BY <1>1 DEF Holders

LEMMA SteadyKeeps == PromptInv /\ Steady => PromptInv'
<1> SUFFICES ASSUME PromptInv, Steady PROVE PromptInv'
  OBVIOUS
<1>1. ASSUME NEW p \in Owners, NEW r \in Runs
      PROVE  /\ Working(p, r)' => Working(p, r)
             /\ Aware(p, r)'
  <2>1. /\ run'[r].rollout = run[r].rollout
        /\ Moves(wk[<<p, r>>], wk'[<<p, r>>], r)
    BY DEF Steady, RolloutsKept, WorkersMove, WorkerMoves
  <2>2. CASE Working(p, r)'
    <3>1. Working(p, r) /\ Knows(wk'[<<p, r>>], r)
      BY <2>1, <2>2 DEF Working, Moves
    <3>2. Aware(p, r)'
      BY <2>1, <3>1 DEF Aware, Knows, NoPrompt, Steady
    <3> QED
      BY <3>1, <3>2
  <2>3. CASE ~Working(p, r)'
    BY <2>3 DEF Working, Aware, Knows, Opening
  <2> QED
    BY <2>2, <2>3
<1>2. Holders'
  BY <1>1, HoldersKept DEF PromptInv, Steady
<1>3. Informed'
  BY <1>1 DEF Informed
<1>4. Placed'
  BY DEF PromptInv, Placed, Steady, RolloutsKept
<1> QED
  BY <1>2, <1>3, <1>4 DEF PromptInv

LEMMA HoldsSteady ==
    ASSUME HoldsKept, OwnersKept, WorkersGo, TasksGo, WorkersMove,
           UNCHANGED prompts
    PROVE  Steady
<1>1. WorkedKept /\ RolloutsKept
  BY DEF HoldsKept, HoldKept, WorkedKept, RolloutsKept
<1> QED
  BY <1>1 DEF Steady

LEMMA OrdinarySteady ==
    ASSUME Ordinary, HoldsKept, WorkersMove, UNCHANGED prompts
    PROVE  Steady
  BY HoldsSteady DEF Ordinary, Calm

(* Steps of one worker, and of none.                                        *)
LEMMA OneMoves ==
    ASSUME AgentsInv, PromptInv, NEW p \in Owners, NEW r \in Runs, NEW w,
           Moves(wk[<<p, r>>], w, r), wk' = [wk EXCEPT ![<<p, r>>] = w]
    PROVE  WorkersMove
<1>1. ASSUME NEW o \in Owners, NEW i \in Runs
      PROVE  WorkerMoves(o, i)
  <2>1. /\ <<p, r>> \in Cells /\ <<o, i>> \in Cells
        /\ wk \in [Cells -> WorkerRecord]
    BY CellTypes
  <2>2. Knows(wk[<<o, i>>], i)
    BY DEF PromptInv, Informed, Aware
  <2>3. CASE o = p /\ i = r
    BY <2>1, <2>3 DEF WorkerMoves
  <2>4. CASE ~(o = p /\ i = r)
    <3>1. wk'[<<o, i>>] = wk[<<o, i>>]
      BY <2>1, <2>4
    <3> QED
      BY <2>2, <3>1 DEF WorkerMoves, Moves
  <2> QED
    BY <2>3, <2>4
<1> QED
  BY <1>1 DEF WorkersMove

(* Workers that are gone, or know and do what they did.                     *)
LEMMA StillMoves ==
    ASSUME PromptInv,
           \A p \in Owners, r \in Runs :
              \/ wk'[<<p, r>>].pc = "none"
              \/ /\ wk'[<<p, r>>].pc = wk[<<p, r>>].pc
                 /\ wk'[<<p, r>>].seen = wk[<<p, r>>].seen
                 /\ wk'[<<p, r>>].recorded = wk[<<p, r>>].recorded
    PROVE  WorkersMove
<1>1. ASSUME NEW p \in Owners, NEW r \in Runs
      PROVE  WorkerMoves(p, r)
  <2>1. Knows(wk[<<p, r>>], r)
    BY DEF PromptInv, Informed, Aware
  <2> QED
    BY <2>1 DEF WorkerMoves, Moves, Knows
<1> QED
  BY <1>1 DEF WorkersMove

LEMMA SameMoves ==
    ASSUME PromptInv, UNCHANGED wk PROVE WorkersMove
  BY StillMoves

LEMMA ExitMoves ==
    ASSUME AgentsInv, PromptInv, NEW p \in Owners, NEW r \in Runs, Exit(p, r)
    PROVE  WorkersMove
<1>1. Moves(wk[<<p, r>>], NoWorker, r)
  BY EmptyRecords DEF Moves
<1> QED
  BY <1>1, OneMoves DEF Exit

LEMMA GoMoves ==
    ASSUME AgentsInv, PromptInv, NEW p \in Owners, NEW r \in Runs, NEW x,
           Go(p, r, x), Moves(wk[<<p, r>>], [wk[<<p, r>>] EXCEPT !.pc = x], r)
    PROVE  WorkersMove
<1>1. wk \in [Cells -> WorkerRecord] /\ <<p, r>> \in Cells
  BY CellTypes
<1>2. wk' = [wk EXCEPT ![<<p, r>>] = [wk[<<p, r>>] EXCEPT !.pc = x]]
  BY <1>1 DEF Go
<1> QED
  BY <1>2, OneMoves

(* A worker that has nothing more to know.                                  *)
LEMMA LateMoves ==
    ASSUME AgentsInv, PromptInv, NEW p \in Owners, NEW r \in Runs, NEW w,
           wk[<<p, r>>].pc \notin {"none", "ending"}, w.pc \notin Knowing,
           wk' = [wk EXCEPT ![<<p, r>>] = w]
    PROVE  WorkersMove
<1>1. Moves(wk[<<p, r>>], w, r)
  BY IdleKnows DEF Moves
<1> QED
  BY <1>1, OneMoves

LEMMA GoLate ==
    ASSUME AgentsInv, PromptInv, NEW p \in Owners, NEW r \in Runs,
           NEW x \in WorkerPcs \ Knowing,
           wk[<<p, r>>].pc \notin {"none", "ending"}, Go(p, r, x)
    PROVE  WorkersMove
<1> DEFINE w == [wk[<<p, r>>] EXCEPT !.pc = x]
<1>1. /\ wk \in [Cells -> WorkerRecord] /\ <<p, r>> \in Cells
      /\ wk[<<p, r>>] \in WorkerRecord
  BY CellTypes
<1>2. wk' = [wk EXCEPT ![<<p, r>>] = w] /\ w.pc = x
  BY <1>1 DEF Go, WorkerRecord
<1> HIDE DEF w
<1> QED
  BY <1>2, LateMoves

-----------------------------------------------------------------------------
(* Every step of such a system, for the prompt *)

LEMMA LoseMoves ==
    ASSUME AgentsInv, PromptInv, Daemons = Owners,
           NEW p \in Owners, NEW r \in Runs, Lose(p, r)
    PROVE  WorkersMove /\ HoldsKept
<1>1. WorkersMove
  BY ExitMoves DEF Lose
<1>2. HoldsKept
  BY SameRows DEF Lose, storeVars
<1> QED
  BY <1>1, <1>2

(* A worker that releases its run is done with it.                          *)
LEMMA PutSteady ==
    ASSUME AgentsInv, PromptInv, Daemons = Owners, Ordinary,
           NEW p \in Owners, NEW r \in Runs, NEW s, NEW x,
           Working(p, r), Put(p, r, s, x), UNCHANGED <<sup, prompts>>,
           \/ x = "ending"
           \/ /\ s \in Owned \cup Ended
              /\ Moves(wk[<<p, r>>], [wk[<<p, r>>] EXCEPT !.pc = x], r)
    PROVE  Steady
<1>1. CASE ~CanSetStatus(r, p, Gen(p, r), s)
  BY <1>1, LoseMoves, OrdinarySteady DEF Put
<1>2. CASE CanSetStatus(r, p, Gen(p, r), s)
  <2> DEFINE w == [wk[<<p, r>>] EXCEPT !.pc = x]
  <2>1. SetStatus(r, p, Gen(p, r), s) /\ Go(p, r, x)
    BY <1>2 DEF Put
  <2>2. /\ StoreInv /\ wk \in [Cells -> WorkerRecord] /\ <<p, r>> \in Cells
        /\ wk[<<p, r>>] \in WorkerRecord
    BY CellTypes
  <2>3. wk' = [wk EXCEPT ![<<p, r>>] = w] /\ w.pc = x
    BY <2>1, <2>2 DEF Go, WorkerRecord
  <2>4. WorkersMove
    BY <2>1, <2>3, OneMoves DEF Moves
  <2>5. CASE s \in Owned \cup Ended
    <3>1. HoldsKept
      BY <2>1, <2>2, <2>5, CallsKeep
    <3> QED
      BY <2>4, <3>1, OrdinarySteady
  <2>6. CASE x = "ending"
    <3>1. wk'[<<p, r>>].pc = "ending"
      BY <2>2, <2>3, <2>6
    <3>2. OtherRows(r) /\ run[r].supervisor_id = p
      BY <2>1, <2>2, SettledColumns DEF SetStatus, CanSetStatus, Owns
    <3>3. run'[r].rollout = run[r].rollout
      <4>1. run \in [Runs -> RunRow] /\ run[r] \in RunRow
        BY <2>2 DEF StoreInv, RowsOK
      <4> QED
        BY <2>1, <4>1 DEF SetStatus, Settle, RunRow
    <3>4. ~Doing(p, r, "claimed")
      BY DEF AgentsInv, Ownership, Spawns, Alive, Working
    <3>5. ASSUME NEW o \in Owners, NEW i \in Runs, run[i].supervisor_id = o,
                 Working(o, i)' \/ Doing(o, i, "claimed")', Held(i)
          PROVE  Held(i)'
      <4>1. i # r
        BY <3>1, <3>2, <3>4, <3>5 DEF Working, Doing
      <4>2. run'[i] = run[i]
        BY <3>2, <4>1 DEF OtherRows
      <4> QED
        BY <3>5, <4>2 DEF Held
    <3>6. WorkedKept
      BY <3>5 DEF WorkedKept
    <3>7. RolloutsKept
      BY <3>2, <3>3 DEF RolloutsKept, OtherRows
    <3> QED
      BY <2>4, <3>6, <3>7 DEF Steady, Ordinary, Calm
  <2> QED
    BY <2>5, <2>6
<1> QED
  BY <1>1, <1>2

LEMMA BootSteady ==
    ASSUME AgentsInv, PromptInv, NEW p \in Owners, NEW r \in Runs, Boot(p, r)
    PROVE  Steady
<1> DEFINE v == wk[<<p, r>>]
           w == [v EXCEPT !.pc = "receipt", !.seen = run[r].rollout]
<1>1. /\ v \in WorkerRecord /\ v.pc = "boot"
      /\ wk \in [Cells -> WorkerRecord] /\ <<p, r>> \in Cells
      /\ UNCHANGED prompts /\ UNCHANGED storeVars
  BY CellTypes DEF Boot, At, Only
<1>2. HoldsKept
  BY <1>1, SameRows DEF storeVars
<1>3. CASE Owns(r, p, Gen(p, r)) /\ run[r].status = "starting"
  <2>1. wk' = [wk EXCEPT ![<<p, r>>] = w]
    BY <1>1, <1>3 DEF Boot
  <2>2. w.pc = "receipt" /\ w.seen = run[r].rollout
    BY <1>1 DEF WorkerRecord
  <2>3. Moves(v, w, r)
    BY <1>1, <2>2 DEF Moves, Knows
  <2>4. WorkersMove
    BY <2>1, <2>3, OneMoves
  <2> QED
    BY <1>1, <1>2, <2>4, BootOrdinary, OrdinarySteady
<1>4. CASE ~(Owns(r, p, Gen(p, r)) /\ run[r].status = "starting")
  BY <1>1, <1>2, <1>4, ExitMoves, BootOrdinary, OrdinarySteady DEF Boot
<1> QED
  BY <1>3, <1>4

(* The steps of a worker that is opening its thread know what they knew.    *)
LEMMA OnwardMoves ==
    ASSUME AgentsInv, PromptInv, NEW p \in Owners, NEW r \in Runs,
           NEW x \in Opening, wk[<<p, r>>].pc \in Opening
    PROVE  Moves(wk[<<p, r>>], [wk[<<p, r>>] EXCEPT !.pc = x], r)
<1> DEFINE v == wk[<<p, r>>]
           w == [v EXCEPT !.pc = x]
<1>1. v \in WorkerRecord
  BY CellTypes
<1>2. w.pc = x /\ w.seen = v.seen
  BY <1>1 DEF WorkerRecord
<1>3. Knows(v, r)
  BY DEF PromptInv, Informed, Aware
<1>4. Knows(w, r)
  BY <1>2, <1>3 DEF Knows, Opening
<1> QED
  BY <1>4 DEF Moves, Opening

LEMMA StartSteady ==
    ASSUME AgentsInv, PromptInv, Daemons = Owners,
           NEW p \in Owners, NEW r \in Runs,
           AwaitReceipt(p, r) \/ Configure(p, r) \/ Starting(p, r)
    PROVE  Steady
<1> DEFINE v == wk[<<p, r>>]
<1>1. StoreInv /\ v.pc \in Opening /\ UNCHANGED <<sup, prompts>>
  BY CellTypes
  DEF AwaitReceipt, Configure, Starting, At, Opening, Only, WorkerOnly
<1>2. \A x \in Opening : Moves(v, [v EXCEPT !.pc = x], r)
  BY <1>1, OnwardMoves
<1>3. Ordinary
  BY ReceiptOrdinary, ConfigureOrdinary, StatusOrdinary
<1>4. CASE AwaitReceipt(p, r)
  <2>1. Go(p, r, "config") /\ "config" \in Opening
    BY <1>4 DEF AwaitReceipt, Opening
  <2>2. WorkersMove
    BY <1>2, <2>1, GoMoves
  <2>3. HoldsKept
    BY <1>4, SameRows DEF AwaitReceipt, storeVars
  <2> QED
    BY <1>1, <1>3, <2>2, <2>3, OrdinarySteady
<1>5. CASE Configure(p, r)
  <2>1. CASE CanRecord(r, p, Gen(p, r))
    <3>1. /\ RecordHandle(r, p, Gen(p, r)) /\ Go(p, r, "starting")
          /\ "starting" \in Opening
      BY <1>5, <2>1 DEF Configure, Opening
    <3>2. WorkersMove
      BY <1>2, <3>1, GoMoves
    <3>3. HoldsKept
      BY <1>1, <3>1, CallsKeep
    <3> QED
      BY <1>1, <1>3, <3>2, <3>3, OrdinarySteady
  <2>2. CASE ~CanRecord(r, p, Gen(p, r))
    BY <1>1, <1>3, <1>5, <2>2, LoseMoves, OrdinarySteady DEF Configure
  <2> QED
    BY <2>1, <2>2
<1>6. CASE Starting(p, r)
  <2>1. /\ Put(p, r, "starting", "thread") /\ "thread" \in Opening
        /\ "starting" \in Owned \cup Ended
    BY <1>6, StatusSets DEF Starting, Opening
  <2>2. Working(p, r)
    BY <1>1 DEF Working, Opening
  <2> QED
    BY <1>1, <1>2, <1>3, <2>1, <2>2, PutSteady
<1> QED
  BY <1>4, <1>5, <1>6

(* A worker that opens the thread finds out whether it holds the prompt: a  *)
(* run without a thread has none, and a run with one has it there.          *)
LEMMA OpenThreadSteady ==
    ASSUME AgentsInv, PromptInv, NEW p \in Owners, NEW r \in Runs,
           OpenThread(p, r)
    PROVE  Steady
<1> DEFINE v == wk[<<p, r>>]
           t == IF v.seen = NULL THEN v.gen ELSE v.seen
           b == v.seen # NULL /\ prompts[<<r, v.seen>>] > 0
           w == [v EXCEPT !.pc = "bind", !.seen = t, !.recorded = b]
<1>1. /\ v \in WorkerRecord /\ v.pc = "thread"
      /\ wk \in [Cells -> WorkerRecord] /\ <<p, r>> \in Cells
      /\ UNCHANGED prompts /\ UNCHANGED storeVars
  BY CellTypes DEF OpenThread, At, Only
<1>2. wk' = [wk EXCEPT ![<<p, r>>] = w]
  BY <1>1 DEF OpenThread, Gen
<1>3. v.seen = run[r].rollout
  BY <1>1 DEF PromptInv, Informed, Aware, Knows, Opening
<1>4. ~b => NoPrompt(r)
  <2> SUFFICES ASSUME ~b, NEW g \in Gens, prompts[<<r, g>>] > 0 PROVE FALSE
    BY NoneOrSome DEF NoPrompt
  <2>1. run[r].rollout = g /\ g # NULL
    BY ConstantFacts DEF PromptInv, Placed
  <2> QED
    BY <1>3, <2>1
<1>5. run[r].rollout \in {NULL, t}
  BY <1>3
<1> HIDE DEF t, b
<1>6. w.pc = "bind" /\ w.seen = t
  BY <1>1 DEF WorkerRecord
<1>7. w.recorded = b
  BY <1>1 DEF WorkerRecord
<1>8. w.recorded \/ NoPrompt(r)
  BY <1>4, <1>7
<1> HIDE DEF w
<1>9. Knows(w, r)
  BY <1>5, <1>6, <1>8 DEF Knows, Opening
<1>10. WorkersMove
  BY <1>1, <1>2, <1>9, OneMoves DEF Moves
<1>11. HoldsKept
  BY <1>1, SameRows DEF storeVars
<1> QED
  BY <1>1, <1>10, <1>11, OpenThreadOrdinary, OrdinarySteady

(* Only the owner's worker has anything to know about a run.                *)
LEMMA OneKnows ==
    ASSUME PromptInv, NEW p \in Owners, NEW o \in Owners \ {p},
           NEW r \in Runs, Working(p, r)
    PROVE  ~Working(o, r) /\ wk[<<o, r>>].pc \notin Knowing
<1>1. Holds(p, r) /\ Holds(o, r)
  BY DEF PromptInv, Holders
<1>2. ~Working(o, r)
  BY <1>1 DEF Holds, Owns
<1> QED
  BY <1>2 DEF Working, Knowing, Opening

(* A step of a worker that changes what the workers of its run know.        *)
LEMMA WriterKeeps ==
    ASSUME AgentsInv, PromptInv, NEW p \in Owners, NEW r \in Runs, NEW w,
           Ordinary, Working(p, r), wk' = [wk EXCEPT ![<<p, r>>] = w],
           \A i \in Runs : Held(i) => Held(i)',
           \A i \in Runs \ {r} :
              /\ run'[i].rollout = run[i].rollout
              /\ \A g \in Gens : prompts'[<<i, g>>] = prompts[<<i, g>>],
           Aware(p, r)', Placed'
    PROVE  PromptInv'
<1>1. /\ wk \in [Cells -> WorkerRecord] /\ <<p, r>> \in Cells
      /\ \A o \in Owners, i \in Runs : <<o, i>> \in Cells
  BY CellTypes
<1>2. ASSUME NEW o \in Owners, NEW i \in Runs
      PROVE  (Working(o, i)' => Working(o, i)) /\ Aware(o, i)'
  <2>1. CASE o = p /\ i = r
    BY <2>1
  <2>2. CASE o # p /\ i = r
    <3>1. wk'[<<o, i>>] = wk[<<o, i>>]
      BY <1>1, <2>2
    <3>2. wk'[<<o, i>>].pc \notin Knowing
      BY <2>2, <3>1, OneKnows
    <3>3. Aware(o, i)'
      BY <3>2 DEF Aware, Knows, Knowing, Opening
    <3> QED
      BY <3>1, <3>3 DEF Working
  <2>3. CASE i # r
    <3>1. wk'[<<o, i>>] = wk[<<o, i>>] /\ Aware(o, i)
      BY <1>1, <2>3 DEF PromptInv, Informed
    <3>2. NoPrompt(i) => NoPrompt(i)'
      BY <2>3 DEF NoPrompt
    <3>3. Aware(o, i)'
      BY <2>3, <3>1, <3>2 DEF Aware, Knows
    <3> QED
      BY <3>1, <3>3 DEF Working
  <2> QED
    BY <2>1, <2>2, <2>3
<1>3. WorkedKept
  BY DEF WorkedKept
<1>4. Holders'
  BY <1>2, <1>3, HoldersKept DEF PromptInv, Ordinary, Calm
<1>5. Informed'
  BY <1>2 DEF Informed
<1> QED
  BY <1>4, <1>5 DEF PromptInv

(* The bind names the thread that the worker opened: the one the run had,   *)
(* or a new one of a run without a prompt.                                  *)
LEMMA BindKeeps ==
    ASSUME AgentsInv, PromptInv, Daemons = Owners,
           NEW p \in Owners, NEW r \in Runs, Bind(p, r)
    PROVE  PromptInv'
<1> DEFINE v == wk[<<p, r>>]
           w == [v EXCEPT !.pc = "bound"]
<1>1. /\ v \in WorkerRecord /\ v.pc = "bind" /\ StoreInv
      /\ wk \in [Cells -> WorkerRecord] /\ <<p, r>> \in Cells
      /\ UNCHANGED prompts
  BY CellTypes DEF Bind, At, Only
<1>2. CASE ~CanBind(r, p, Gen(p, r))
  <2>1. Steady
    BY <1>1, <1>2, LoseMoves, BindOrdinary, OrdinarySteady DEF Bind
  <2> QED
    BY <2>1, SteadyKeeps
<1>3. CASE CanBind(r, p, Gen(p, r))
  <2>1. run' = [run EXCEPT ![r].rollout = v.seen] /\ Go(p, r, "bound")
    BY <1>3 DEF Bind, BindThread
  <2>2. run \in [Runs -> RunRow] /\ run[r] \in RunRow
    BY <1>1 DEF StoreInv, RowsOK
  <2>3. /\ OtherRows(r) /\ run'[r].rollout = v.seen
        /\ run'[r].status = run[r].status
    BY <2>1, <2>2 DEF OtherRows, RunRow
  <2>4. run'[r].stale = run[r].stale
    BY <2>1, <2>2 DEF RunRow
  <2>5. \A i \in Runs : Held(i) => Held(i)'
    BY <2>3, <2>4 DEF OtherRows, Held
  <2>6. wk' = [wk EXCEPT ![<<p, r>>] = w]
    BY <1>1, <2>1 DEF Go
  <2>7. w.pc = "bound" /\ w.seen = v.seen
    BY <1>1 DEF WorkerRecord
  <2>8. w.recorded = v.recorded
    BY <1>1 DEF WorkerRecord
  <2>9. run[r].rollout \in {NULL, v.seen} /\ (v.recorded \/ NoPrompt(r))
    BY <1>1 DEF PromptInv, Informed, Aware, Knows
  <2>10. w.recorded \/ NoPrompt(r)'
    BY <1>1, <2>8, <2>9 DEF NoPrompt
  <2>11. Aware(p, r)'
    <3>1. wk'[<<p, r>>] = w
      BY <1>1, <2>6
    <3>2. wk'[<<p, r>>].pc = "bound" /\ wk'[<<p, r>>].seen = v.seen
      BY <2>7, <3>1
    <3>3. wk'[<<p, r>>].recorded \/ NoPrompt(r)'
      BY <2>10, <3>1
    <3> QED
      BY <2>3, <3>2, <3>3 DEF Aware, Knows, Opening
  <2>12. Placed'
    <3>1. ASSUME NEW i \in Runs, NEW g \in Gens, prompts'[<<i, g>>] > 0
          PROVE  prompts'[<<i, g>>] = 1 /\ run'[i].rollout = g
      <4>1. prompts[<<i, g>>] = 1 /\ run[i].rollout = g /\ g # NULL
        BY <1>1, <3>1, ConstantFacts DEF PromptInv, Placed
      <4>2. run'[i].rollout = run[i].rollout
        BY <2>3, <2>9, <4>1 DEF OtherRows
      <4> QED
        BY <1>1, <4>1, <4>2
    <3> QED
      BY <3>1 DEF Placed
  <2>13. Working(p, r)
    BY <1>1 DEF Working
  <2> QED
    BY <1>1, <2>3, <2>5, <2>6, <2>11, <2>12, <2>13, BindOrdinary, WriterKeeps
    DEF OtherRows
<1> QED
  BY <1>2, <1>3

(* The prompt goes to the thread of the run, and is the first one there.    *)
LEMMA SubmitKeeps ==
    ASSUME AgentsInv, PromptInv, NEW p \in Owners, NEW r \in Runs,
           SubmitPrompt(p, r)
    PROVE  PromptInv'
<1> DEFINE v == wk[<<p, r>>]
           w == [v EXCEPT !.pc = "loop", !.turn = TRUE]
<1>1. /\ v \in WorkerRecord /\ v.pc = "prompt" /\ WorkerOK(v)
      /\ wk \in [Cells -> WorkerRecord] /\ <<p, r>> \in Cells
      /\ UNCHANGED run
      /\ prompts' = [prompts EXCEPT ![<<r, v.seen>>] = @ + 1]
  BY CellTypes DEF SubmitPrompt, At, storeVars
<1>2. v.seen \in Gens /\ prompts \in [Runs \X Gens -> Nat]
  BY <1>1 DEF WorkerOK, AgentsInv, WorkInv, Others
<1>3. run[r].rollout = v.seen /\ NoPrompt(r)
  BY <1>1 DEF PromptInv, Informed, Aware, Knows
<1>4. wk' = [wk EXCEPT ![<<p, r>>] = w]
  BY <1>1 DEF SubmitPrompt
<1>5. w.pc = "loop"
  BY <1>1 DEF WorkerRecord
<1>6. Aware(p, r)'
  <2>1. wk'[<<p, r>>].pc = "loop"
    BY <1>1, <1>4, <1>5
  <2> QED
    BY <2>1 DEF Aware, Knows, Opening
<1>7. \A i \in Runs, g \in Gens :
         prompts'[<<i, g>>] = IF i = r /\ g = v.seen THEN prompts[<<r, g>>] + 1
                              ELSE prompts[<<i, g>>]
  BY <1>1, <1>2
<1>8. Placed'
  <2>1. ASSUME NEW i \in Runs, NEW g \in Gens, prompts'[<<i, g>>] > 0
        PROVE  prompts'[<<i, g>>] = 1 /\ run'[i].rollout = g
    <3>1. CASE i = r /\ g = v.seen
      BY <1>1, <1>3, <1>7, <3>1 DEF NoPrompt
    <3>2. CASE ~(i = r /\ g = v.seen)
      BY <1>1, <1>7, <2>1, <3>2 DEF PromptInv, Placed
    <3> QED
      BY <3>1, <3>2
  <2> QED
    BY <2>1 DEF Placed
<1>9. /\ \A i \in Runs : Held(i) => Held(i)'
      /\ Working(p, r)
  BY <1>1 DEF Held, Working
<1>10. \A i \in Runs \ {r} :
          /\ run'[i].rollout = run[i].rollout
          /\ \A g \in Gens : prompts'[<<i, g>>] = prompts[<<i, g>>]
  BY <1>1, <1>7
<1> QED
  BY <1>4, <1>6, <1>8, <1>9, <1>10, PromptOrdinary, WriterKeeps

LEMMA RunningSteady ==
    ASSUME AgentsInv, PromptInv, Daemons = Owners,
           NEW p \in Owners, NEW r \in Runs, Running(p, r)
    PROVE  Steady
<1> DEFINE v == wk[<<p, r>>]
<1>1. v \in WorkerRecord /\ v.pc = "bound" /\ UNCHANGED <<sup, prompts>>
  BY CellTypes DEF Running, At, Only, WorkerOnly
<1>2. Ordinary
  BY StatusOrdinary
<1>3. Working(p, r) /\ "running" \in Owned \cup Ended
  BY <1>1 DEF Working, Owned, Live
<1>4. CASE v.recorded
  <2>1. Put(p, r, "running", "loop")
    BY <1>4 DEF Running
  <2>2. [v EXCEPT !.pc = "loop"].pc = "loop"
    BY <1>1 DEF WorkerRecord
  <2>3. Moves(v, [v EXCEPT !.pc = "loop"], r)
    BY <1>1, <2>2, IdleKnows DEF Moves, Knowing, Opening
  <2> QED
    BY <1>1, <1>2, <1>3, <2>1, <2>3, PutSteady
<1>5. CASE ~v.recorded
  <2>1. Put(p, r, "running", "prompt")
    BY <1>5 DEF Running
  <2>2. /\ [v EXCEPT !.pc = "prompt"].pc = "prompt"
        /\ [v EXCEPT !.pc = "prompt"].seen = v.seen
    BY <1>1 DEF WorkerRecord
  <2>3. run[r].rollout = v.seen /\ NoPrompt(r)
    BY <1>1, <1>5 DEF PromptInv, Informed, Aware, Knows
  <2>4. Knows([v EXCEPT !.pc = "prompt"], r)
    BY <2>2, <2>3 DEF Knows, Opening
  <2>5. Moves(v, [v EXCEPT !.pc = "prompt"], r)
    BY <1>1, <2>4 DEF Moves
  <2> QED
    BY <1>1, <1>2, <1>3, <2>1, <2>5, PutSteady
<1> QED
  BY <1>4, <1>5

LEMMA TurnSteady ==
    ASSUME AgentsInv, PromptInv, Daemons = Owners,
           NEW p \in Owners, NEW r \in Runs,
           \/ TurnEvent(p, r) \/ Answered(p, r)
           \/ \E s \in Ended : TurnEnds(p, r, s)
           \/ Stop(p, r) \/ Defer(p, r)
    PROVE  Steady
<1> DEFINE v == wk[<<p, r>>]
<1>1. /\ v \in WorkerRecord
      /\ v.pc \in {"loop", "answered", "stop", "config"}
      /\ UNCHANGED <<sup, prompts>>
  BY CellTypes
  DEF TurnEvent, Answered, TurnEnds, Stop, Defer, InTurn, At, Only, WorkerOnly
<1>2. Ordinary
  BY StatusOrdinary, DeferOrdinary
<1>3. Working(p, r)
  BY <1>1 DEF Working
<1>4. CASE TurnEvent(p, r) \/ Answered(p, r)
  <2>1. Put(p, r, "running", "loop") /\ "running" \in Owned \cup Ended
    BY <1>4 DEF TurnEvent, Answered, Owned, Live
  <2>2. [v EXCEPT !.pc = "loop"].pc = "loop"
    BY <1>1 DEF WorkerRecord
  <2>3. Moves(v, [v EXCEPT !.pc = "loop"], r)
    BY <1>1, <2>2, IdleKnows DEF Moves, Knowing, Opening
  <2> QED
    BY <1>1, <1>2, <1>3, <2>1, <2>3, PutSteady
<1>5. CASE \/ \E s \in Ended : TurnEnds(p, r, s)
           \/ Stop(p, r) \/ Defer(p, r)
  <2>1. PICK s : Put(p, r, s, "ending")
    BY <1>5 DEF TurnEnds, Stop, Defer
  <2> QED
    BY <1>1, <1>2, <1>3, <2>1, PutSteady
<1> QED
  BY <1>4, <1>5

LEMMA BeatSteady ==
    ASSUME AgentsInv, PromptInv, Daemons = Owners,
           NEW p \in Owners, NEW r \in Runs, StartupBeat(p, r)
    PROVE  Steady
<1>1. StoreInv /\ UNCHANGED prompts
  BY CellTypes DEF StartupBeat, Only
<1>2. WorkersMove /\ HoldsKept
  BY <1>1, SameMoves, LoseMoves, CallsKeep DEF StartupBeat
<1> QED
  BY <1>1, <1>2, BeatOrdinary, OrdinarySteady

LEMMA LoopSteady ==
    ASSUME AgentsInv, PromptInv, NEW p \in Owners, NEW r \in Runs,
           GoalTurn(p, r) \/ Tick(p, r) \/ Cancelled(p, r)
    PROVE  Steady
<1> DEFINE v == wk[<<p, r>>]
<1>1. /\ v \in WorkerRecord /\ v.pc = "loop" /\ StoreInv
      /\ wk \in [Cells -> WorkerRecord] /\ <<p, r>> \in Cells
      /\ UNCHANGED prompts
  BY CellTypes DEF GoalTurn, Tick, Cancelled, At, Only
<1>2. Ordinary
  BY GoalTurnOrdinary, TickOrdinary
<1>3. HoldsKept
  BY <1>1, SameRows, CallsKeep DEF GoalTurn, Tick, Cancelled, storeVars
<1>4. CASE GoalTurn(p, r)
  <2> DEFINE w == [v EXCEPT !.turn = TRUE]
  <2>1. wk' = [wk EXCEPT ![<<p, r>>] = w]
    BY <1>1, <1>4 DEF GoalTurn
  <2>2. w.pc \notin Knowing
    BY <1>1 DEF WorkerRecord, Knowing, Opening
  <2>3. WorkersMove
    BY <1>1, <2>1, <2>2, LateMoves
  <2> QED
    BY <1>1, <1>2, <1>3, <2>3, OrdinarySteady
<1>5. ASSUME NEW x,
             wk' = [wk EXCEPT ![<<p, r>>].pc = "stop", ![<<p, r>>].s = x]
      PROVE  Steady
  <2> DEFINE w == [v EXCEPT !.pc = "stop", !.s = x]
  <2>1. wk' = [wk EXCEPT ![<<p, r>>] = w]
    BY <1>1, <1>5
  <2>2. w.pc \notin Knowing
    BY <1>1 DEF WorkerRecord, Knowing, Opening
  <2>3. WorkersMove
    BY <1>1, <2>1, <2>2, LateMoves
  <2> QED
    BY <1>1, <1>2, <1>3, <2>3, OrdinarySteady
<1>6. CASE Cancelled(p, r)
  BY <1>5, <1>6 DEF Cancelled
<1>7. CASE Tick(p, r)
  <2>1. CASE UNCHANGED wk \/ Exit(p, r)
    BY <1>1, <1>2, <1>3, <2>1, SameMoves, ExitMoves, OrdinarySteady
  <2>2. CASE ~(UNCHANGED wk \/ Exit(p, r))
    BY <1>5, <1>7, <2>2 DEF Tick
  <2> QED
    BY <2>1, <2>2
<1> QED
  BY <1>4, <1>6, <1>7

LEMMA WaitSteady ==
    ASSUME AgentsInv, PromptInv, Daemons = Owners,
           NEW p \in Owners, NEW r \in Runs,
           WaitPoll(p, r) \/ WaitCancelled(p, r) \/ Expiry(p, r)
    PROVE  Steady
<1>1. /\ wk[<<p, r>>].pc = "wait" /\ StoreInv /\ UNCHANGED prompts
      /\ {"error", "answered"} \subseteq WorkerPcs \ Knowing
  BY CellTypes
  DEF WaitPoll, WaitCancelled, Expiry, Expire, At, Only, WorkerPcs, Knowing,
      Opening
<1>2. Ordinary
  BY WaitOrdinary
<1>3. CASE WaitPoll(p, r)
  <2>1. CASE CanHeartbeat(r, p, Gen(p, r))
    <3>1. HoldsKept
      BY <1>1, <1>3, <2>1, CallsKeep DEF WaitPoll
    <3>2. UNCHANGED wk \/ Go(p, r, "error") \/ Go(p, r, "answered")
      BY <1>3, <2>1 DEF WaitPoll
    <3>3. WorkersMove
      BY <1>1, <3>2, SameMoves, GoLate
    <3> QED
      BY <1>1, <1>2, <3>1, <3>3, OrdinarySteady
  <2>2. CASE ~CanHeartbeat(r, p, Gen(p, r))
    BY <1>1, <1>2, <1>3, <2>2, LoseMoves, OrdinarySteady DEF WaitPoll
  <2> QED
    BY <2>1, <2>2
<1>4. CASE WaitCancelled(p, r)
  <2>1. HoldsKept
    BY <1>4, SameRows DEF WaitCancelled, Answer, storeVars
  <2>2. WorkersMove
    BY <1>1, <1>4, GoLate DEF WaitCancelled
  <2> QED
    BY <1>1, <1>2, <2>1, <2>2, OrdinarySteady
<1>5. CASE Expiry(p, r)
  <2>1. HoldsKept /\ WorkersMove
    BY <1>5, SameRows, SameMoves DEF Expiry, Expire, Answer
  <2> QED
    BY <1>1, <1>2, <2>1, OrdinarySteady
<1> QED
  BY <1>3, <1>4, <1>5

LEMMA EndSteady ==
    ASSUME AgentsInv, PromptInv, NEW p \in Owners, NEW r \in Runs,
           \/ Ending(p, r) \/ MarkFailed(p, r) \/ Failing(p, r)
           \/ WorkerError(p, r) \/ ReceiptTimeout(p, r)
           \/ BusyExit(p, r) \/ WorkerCrash(p, r)
    PROVE  Steady
<1> DEFINE v == wk[<<p, r>>]
<1>1. /\ v \in WorkerRecord /\ WorkerOK(v) /\ StoreInv
      /\ wk \in [Cells -> WorkerRecord] /\ <<p, r>> \in Cells
      /\ UNCHANGED prompts
  BY CellTypes
  DEF Ending, MarkFailed, Failing, WorkerError, ReceiptTimeout, BusyExit,
      WorkerCrash, Only
<1>2. Ordinary
  BY EndingOrdinary, MarkFailedOrdinary, FailingOrdinary, ReceiptOrdinary,
     FaultyExitOrdinary
<1>3. CASE Failing(p, r)
  <2>1. v.pc = "failing" /\ v.s \in Ended
    BY <1>1, <1>3 DEF Failing, At, WorkerOK
  <2>2. HoldsKept
    <3>1. CASE CanSetStatus(r, p, v.gen, v.s)
      BY <1>1, <1>3, <2>1, <3>1, CallsKeep DEF Failing
    <3>2. CASE ~CanSetStatus(r, p, v.gen, v.s)
      BY <1>3, <3>2, SameRows DEF Failing, storeVars
    <3> QED
      BY <3>1, <3>2
  <2>3. Go(p, r, "ending") \/ Exit(p, r)
    BY <1>3 DEF Failing
  <2>4. WorkersMove
    <3>1. "ending" \in WorkerPcs \ Knowing
      BY DEF WorkerPcs, Knowing, Opening
    <3> QED
      BY <2>1, <2>3, <3>1, GoLate, ExitMoves
  <2> QED
    BY <1>1, <1>2, <2>2, <2>4, OrdinarySteady
<1>4. CASE ~Failing(p, r)
  <2>1. HoldsKept
    BY <1>4, SameRows
    DEF Ending, FinishLease, MarkFailed, WorkerError, ReceiptTimeout, BusyExit,
        WorkerCrash, storeVars
  <2>2. CASE Exit(p, r)
    BY <1>1, <1>2, <2>1, <2>2, ExitMoves, OrdinarySteady
  <2>3. CASE Go(p, r, "error") /\ v.pc \notin {"none", "ending"}
    <3>1. "error" \in WorkerPcs \ Knowing
      BY DEF WorkerPcs, Knowing, Opening
    <3>2. WorkersMove
      BY <2>3, <3>1, GoLate
    <3> QED
      BY <1>1, <1>2, <2>1, <3>2, OrdinarySteady
  <2>4. CASE MarkFailed(p, r)
    <3>1. CASE ~Exit(p, r)
      <4> DEFINE s == IF run[r].desired = "running" THEN "failed"
                      ELSE "cancelled"
                 w == [v EXCEPT !.pc = "failing", !.gen = run[r].generation,
                                !.s = s]
      <4>1. wk' = [wk EXCEPT ![<<p, r>>] = w] /\ v.pc = "error"
        BY <1>1, <2>4, <3>1 DEF MarkFailed, At
      <4>2. w.pc \notin Knowing
        BY <1>1 DEF WorkerRecord, Knowing, Opening
      <4> HIDE DEF w
      <4>3. WorkersMove
        BY <4>1, <4>2, LateMoves
      <4> QED
        BY <1>1, <1>2, <2>1, <4>3, OrdinarySteady
    <3> QED
      BY <2>2, <3>1
  <2>5. CASE ~MarkFailed(p, r)
    BY <1>4, <2>2, <2>3, <2>5
    DEF Ending, WorkerError, ReceiptTimeout, BusyExit, WorkerCrash, At
  <2> QED
    BY <2>4, <2>5
<1> QED
  BY <1>3, <1>4

(* A question: the run waits, and its worker with it.                       *)
LEMMA AskSteady ==
    ASSUME AgentsInv, PromptInv, Daemons = Owners, NEW p \in Owners,
           NEW r \in Runs, NEW q \in Questions, AskUser(p, r, q)
    PROVE  Steady
<1> DEFINE v == wk[<<p, r>>]
           w == [v EXCEPT !.pc = "wait", !.q = q]
<1>1. /\ v \in WorkerRecord /\ WorkerOK(v) /\ v.pc = "loop" /\ StoreInv
      /\ wk \in [Cells -> WorkerRecord] /\ <<p, r>> \in Cells
      /\ UNCHANGED <<sup, prompts>>
  BY CellTypes DEF AskUser, InTurn, At, Only, WorkerOnly
<1>2. CASE ~CanAsk(r, p, Gen(p, r))
  BY <1>1, <1>2, RefusedOrdinary, LoseMoves, OrdinarySteady DEF AskUser
<1>3. CASE CanAsk(r, p, Gen(p, r))
  <2>1. /\ Ask(r, p, Gen(p, r), q)
        /\ wk' = [wk EXCEPT ![<<p, r>>].pc = "wait", ![<<p, r>>].q = q]
    BY <1>3 DEF AskUser
  <2>2. v.gen \in Gens /\ Gen(p, r) \in Gens
    BY <1>1, GenType DEF Gen
  <2>3. OwnersKept
    BY <2>1, <2>2, AskTables
  <2>4. HoldsKept
    BY <1>1, <2>1, CallsKeep
  <2>5. wk' = [wk EXCEPT ![<<p, r>>] = w]
    BY <1>1, <2>1
  <2>6. w \in WorkerRecord /\ w.pc = "wait" /\ w.gen = v.gen /\ w.q = q
    BY <1>1 DEF WorkerRecord, WorkerPcs
  <2> HIDE DEF w
  <2>7. WorkerOK(w) /\ CellGoes(v, w)
    BY <1>1, <2>2, <2>6 DEF WorkerOK, CellGoes, Goes, Parked
  <2>8. WorkersGo
    BY <2>5, <2>6, <2>7, OneWorker
  <2>9. w.pc \notin Knowing
    BY <2>6 DEF Knowing, Opening
  <2>10. WorkersMove
    BY <1>1, <2>5, <2>9, LateMoves
  <2> QED
    BY <1>1, <2>3, <2>4, <2>8, <2>10, SameTasks, HoldsSteady
<1> QED
  BY <1>2, <1>3

LEMMA WorkerPrompts ==
    ASSUME AgentsInv, PromptInv, Daemons = Owners,
           NEW p \in Owners, NEW r \in Runs,
           \/ WorkerStep(p, r) \/ TurnStep(p, r) \/ Expiry(p, r)
           \/ BusyExit(p, r) \/ WorkerCrash(p, r)
    PROVE  PromptInv'
<1>1. ~ReadRun(p, r) /\ ~ClaimRun(p, r)
  <2>1. ~At(p, r, "claim")
    BY DEF AgentsInv, Ownership, Spawns
  <2> QED
    BY <2>1 DEF ReadRun, ClaimRun
<1>2. CASE Bind(p, r) \/ SubmitPrompt(p, r)
  BY <1>2, BindKeeps, SubmitKeeps
<1>3. CASE \/ Boot(p, r) \/ AwaitReceipt(p, r) \/ Configure(p, r)
           \/ Starting(p, r) \/ OpenThread(p, r) \/ Running(p, r)
  BY <1>3, BootSteady, StartSteady, OpenThreadSteady, RunningSteady,
     SteadyKeeps
<1>4. CASE \/ TurnEvent(p, r) \/ Answered(p, r)
           \/ \E s \in Ended : TurnEnds(p, r, s)
           \/ Stop(p, r) \/ Defer(p, r) \/ StartupBeat(p, r)
           \/ GoalTurn(p, r) \/ Tick(p, r) \/ Cancelled(p, r)
  BY <1>4, TurnSteady, BeatSteady, LoopSteady, SteadyKeeps
<1>5. CASE \/ WaitPoll(p, r) \/ WaitCancelled(p, r) \/ Expiry(p, r)
           \/ \E q \in Questions : AskUser(p, r, q)
  BY <1>5, WaitSteady, AskSteady, SteadyKeeps
<1>6. CASE \/ Ending(p, r) \/ MarkFailed(p, r) \/ Failing(p, r)
           \/ WorkerError(p, r) \/ ReceiptTimeout(p, r)
           \/ BusyExit(p, r) \/ WorkerCrash(p, r)
  BY <1>6, EndSteady, SteadyKeeps
<1> QED
  BY <1>1, <1>2, <1>3, <1>4, <1>5, <1>6 DEF WorkerStep, TurnStep

LEMMA KillMoves ==
    ASSUME AgentsInv, PromptInv, NEW h, h[1] \in Owners, NEW r \in Runs,
           Kill(h, r)
    PROVE  WorkersMove
<1>1. CASE HandleAlive(h, r)
  <2>1. Exit(h[1], r)
    BY <1>1 DEF Kill, Exit
  <2> QED
    BY <2>1, ExitMoves
<1>2. CASE ~HandleAlive(h, r)
  BY <1>2, SameMoves DEF Kill
<1> QED
  BY <1>1, <1>2

(* What daemons do after the claim leaves the workers alone or kills one.   *)
LEMMA DaemonSteady ==
    ASSUME AgentsInv, PromptInv, NEW d \in Owners, NEW r \in Runs,
           \/ SpawnFails(d, r) \/ RecordSpawn(d, r) \/ WriteReceipt(d, r)
           \/ BookkeepingFails(d, r) \/ Cleanup(d, r) \/ FailClaimed(d, r)
           \/ WriteFailed(d, r) \/ FinishFailed(d, r) \/ FinalizeRead(d, r)
           \/ StopTracked(d, r) \/ Prune(d, r) \/ Rehydrate(d, r)
    PROVE  Steady
<1>1. StoreInv
  BY CellTypes
<1>2. Ordinary
  BY BookkeepingOrdinary, GiveUpOrdinary, CleanupOrdinary,
     StopTrackedOrdinary, PruneOrdinary, RehydrateOrdinary
<1>3. UNCHANGED prompts
  BY DEF SpawnFails, RecordSpawn, WriteReceipt, BookkeepingFails, Cleanup,
         FailClaimed, WriteFailed, FinishFailed, FinalizeRead, StopTracked,
         Prune, Rehydrate, DaemonOnly
<1>4. CASE Cleanup(d, r) \/ StopTracked(d, r)
  <2>1. HoldsKept
    BY <1>4, SameRows DEF Cleanup, StopTracked, storeVars
  <2>2. PICK h : Kill(h, r) /\ h[1] \in Owners
    <3>1. CASE Cleanup(d, r)
      BY <3>1 DEF Cleanup
    <3>2. CASE StopTracked(d, r)
      BY <3>2, TrackedHandle DEF StopTracked
    <3> QED
      BY <1>4, <3>1, <3>2
  <2>3. WorkersMove
    BY <2>2, KillMoves
  <2> QED
    BY <1>2, <1>3, <2>1, <2>3, OrdinarySteady
<1>5. CASE \/ SpawnFails(d, r) \/ WriteReceipt(d, r) \/ BookkeepingFails(d, r)
           \/ FailClaimed(d, r) \/ Prune(d, r) \/ Rehydrate(d, r)
  <2>1. UNCHANGED run /\ UNCHANGED wk
    BY <1>5
    DEF SpawnFails, WriteReceipt, BookkeepingFails, FailClaimed, Prune,
        Rehydrate, storeVars
  <2> QED
    BY <1>2, <1>3, <2>1, SameRows, SameMoves, OrdinarySteady
<1>6. CASE \/ RecordSpawn(d, r) \/ WriteFailed(d, r) \/ FinishFailed(d, r)
           \/ FinalizeRead(d, r)
  <2>1. UNCHANGED wk
    BY <1>6 DEF RecordSpawn, WriteFailed, FinishFailed, FinalizeRead
  <2>2. \/ UNCHANGED run
        \/ \E o, g : \/ RecordHandle(r, o, g) \/ Finalize(r, o, g)
                     \/ FinishLease(r, o, g) \/ SetStatus(r, o, g, "failed")
    BY <1>6
    DEF RecordSpawn, WriteFailed, FinishFailed, FinalizeRead, storeVars
  <2>3. HoldsKept
    BY <1>1, <2>2, SameRows, CallsKeep, StatusSets
  <2> QED
    BY <1>2, <1>3, <2>1, <2>3, SameMoves, OrdinarySteady
<1> QED
  BY <1>4, <1>5, <1>6

LEMMA FenceCalls ==
    ASSUME NEW r, StopFence(r)
    PROVE  /\ RequestStop(r, req[r].o, req[r].g) \/ UNCHANGED storeVars
           /\ Quiet
<1>1. RequestStop(r, req[r].o, req[r].g) \/ UNCHANGED storeVars
  BY DEF StopFence
<1>2. Quiet
  BY DEF StopFence
<1> QED
  BY <1>1, <1>2

(* Requests write rows that stay held, or of runs that nobody holds.        *)
LEMMA RequestSteady ==
    ASSUME AgentsInv, PromptInv,
           \/ \E r \in Runs : \/ StartSweep(r) \/ Sweep(r) \/ StopFence(r)
                              \/ StopQuestions(r) \/ CancelFinalize(r)
                              \/ \E p \in Owners : RequestStep(p, r)
           \/ \E q \in Questions : \/ Attach(q)
                                   \/ \E s \in Answers : Respond(q, s)
    PROVE  Steady
<1>1. StoreInv
  BY DEF AgentsInv, WorkInv
<1>2. Ordinary
  BY ClientOrdinary, StopFenceOrdinary, StopQuestionsOrdinary,
     CancelFinalizeOrdinary, StopReadOrdinary, DeleteOrdinary
  DEF RequestStep
<1>3. ASSUME NEW r \in Runs, StartSweep(r) \/ Sweep(r)
      PROVE  HoldsKept /\ Still
  <2>1. Still
    BY <1>3 DEF StartSweep, Sweep, Quiet
  <2>2. (\E v : Terminalize(r, v)) \/ Orphan(r) \/ CancelStale(r)
    BY <1>3 DEF StartSweep, Sweep
  <2> QED
    BY <1>1, <2>1, <2>2, CallsKeep
<1>4. ASSUME NEW r \in Runs,
             StopFence(r) \/ StopQuestions(r) \/ CancelFinalize(r)
      PROVE  HoldsKept /\ Still
  <2>1. CASE StopFence(r)
    <3>1. RequestStop(r, req[r].o, req[r].g) \/ UNCHANGED storeVars
      BY <2>1, FenceCalls
    <3>2. Quiet
      BY <2>1, FenceCalls
    <3>3. UNCHANGED run \/ \E o, g : RequestStop(r, o, g)
      BY <3>1 DEF storeVars
    <3>4. Still
      BY <3>2 DEF Quiet
    <3> QED
      BY <1>1, <3>3, <3>4, SameRows, CallsKeep
  <2>2. CASE StopQuestions(r)
    BY <1>1, <2>2, CallsKeep DEF StopQuestions, Quiet
  <2>3. CASE CancelFinalize(r)
    <3>1. UNCHANGED run \/ \E o, g : Finalize(r, o, g)
      BY <2>3 DEF CancelFinalize, storeVars
    <3>2. Still
      BY <2>3 DEF CancelFinalize, Quiet
    <3> QED
      BY <1>1, <3>1, <3>2, SameRows, CallsKeep
  <2> QED
    BY <1>4, <2>1, <2>2, <2>3
<1>5. ASSUME NEW r \in Runs, NEW p \in Owners, RequestStep(p, r)
      PROVE  HoldsKept /\ Still
  <2>1. CASE StartRun(p, r)
    BY <1>1, <2>1, CallsKeep DEF StartRun, Quiet
  <2>2. CASE StopRead(p, r)
    BY <2>2, SameRows DEF StopRead, storeVars
  <2>3. CASE DeleteRun(p, r)
    BY <1>1, <2>3, CallsKeep DEF DeleteRun
  <2> QED
    BY <1>5, <2>1, <2>2, <2>3 DEF RequestStep
<1>6. ASSUME NEW q \in Questions,
             Attach(q) \/ \E s \in Answers : Respond(q, s)
      PROVE  HoldsKept /\ Still
  BY <1>6, SameRows DEF Attach, Respond, Deliver, Answer, Quiet
<1>7. HoldsKept /\ UNCHANGED wk /\ UNCHANGED prompts
  BY <1>3, <1>4, <1>5, <1>6 DEF Still
<1> QED
  BY <1>2, <1>7, SameMoves, OrdinarySteady

LEMMA CancelSteady ==
    ASSUME AgentsInv, PromptInv, NEW r \in Runs, CancelWorker(r)
    PROVE  Steady
<1> DEFINE p == req[r].h
           h == tracked[<<p, r>>]
<1>1. /\ RequestOK(req[r]) /\ req[r].pc = "cancel" /\ UNCHANGED prompts
      /\ UNCHANGED run
  BY RequestTypes DEF CancelWorker, storeVars
<1>2. p \in Owners
  BY <1>1 DEF RequestOK
<1>3. WorkersMove
  <2>1. CASE h = NULL
    <3>1. PICK b \in BOOLEAN : wk' = [wk EXCEPT ![<<p, r>>].cancel = b]
      BY <2>1 DEF CancelWorker
    <3> DEFINE v == wk[<<p, r>>]
               w == [v EXCEPT !.cancel = b]
    <3>2. /\ v \in WorkerRecord /\ <<p, r>> \in Cells
          /\ wk \in [Cells -> WorkerRecord]
      BY <1>2, CellTypes
    <3>3. w.pc = v.pc /\ w.seen = v.seen
      BY <3>2 DEF WorkerRecord
    <3>4. w.recorded = v.recorded
      BY <3>2 DEF WorkerRecord
    <3>5. Knows(v, r)
      BY <1>2 DEF PromptInv, Informed, Aware
    <3>6. Moves(v, w, r)
      BY <3>3, <3>4, <3>5 DEF Moves, Knows
    <3>7. wk' = [wk EXCEPT ![<<p, r>>] = w]
      BY <3>1, <3>2
    <3> QED
      BY <1>2, <3>6, <3>7, OneMoves
  <2>2. CASE h # NULL
    <3>1. Kill(h, r) /\ h[1] \in Owners
      BY <1>2, <2>2, TrackedHandle DEF CancelWorker
    <3> QED
      BY <3>1, KillMoves
  <2> QED
    BY <2>1, <2>2
<1> QED
  BY <1>1, <1>3, SameRows, CancelWorkerOrdinary, OrdinarySteady

(* A heartbeat grows old only when nobody beats.                            *)
LEMMA AgeSteady ==
    ASSUME AgentsInv, PromptInv, NEW r \in Runs, Age(r)
    PROVE  Steady
<1>1. /\ StoreInv /\ ~Attended(r) /\ UNCHANGED <<wk, sup, prompts>>
      /\ run' = [run EXCEPT ![r].stale = TRUE]
  BY RequestTypes DEF Age, Lapse, Quiet, Still
<1>2. OtherRows(r)
  BY <1>1, TouchedColumns
<1>3. run'[r].rollout = run[r].rollout
  <2>1. run \in [Runs -> RunRow] /\ run[r] \in RunRow
    BY <1>1 DEF StoreInv, RowsOK
  <2> QED
    BY <1>1, <2>1 DEF RunRow
<1>4. RolloutsKept
  BY <1>2, <1>3 DEF RolloutsKept, OtherRows
<1>5. ASSUME NEW p \in Owners, NEW i \in Runs, Held(i),
             Working(p, i)' \/ Doing(p, i, "claimed")'
      PROVE  Held(i)'
  <2>1. Holds(p, i) /\ (Working(p, i) \/ Doing(p, i, "claimed"))
    BY <1>1, <1>5 DEF PromptInv, Holders, Working, Doing
  <2>2. Attended(i)
    BY <2>1 DEF Holds, Owns, Attended, Alive, Gen, Working, Doing
  <2>3. run'[i] = run[i]
    BY <1>1, <1>2, <2>2 DEF OtherRows
  <2> QED
    BY <1>5, <2>3 DEF Held
<1>6. WorkedKept
  BY <1>5 DEF WorkedKept
<1>7. Ordinary /\ WorkersMove
  BY <1>1, ClientOrdinary, SameMoves
<1> QED
  BY <1>1, <1>4, <1>6, <1>7 DEF Steady, Ordinary, Calm

(* Processes go, and with them at most their handles and workers.           *)
LEMMA GoneSteady ==
    ASSUME AgentsInv, PromptInv, NEW p \in Owners,
           Crash(p) \/ Leave(p) \/ Shutdown(p)
    PROVE  Steady
<1>1. UNCHANGED run /\ UNCHANGED prompts
  BY DEF Crash, Leave, Gone, Shutdown, storeVars
<1>2. ASSUME NEW o \in Owners, NEW r \in Runs
      PROVE  \/ wk'[<<o, r>>].pc = "none"
             \/ /\ wk'[<<o, r>>].pc = wk[<<o, r>>].pc
                /\ wk'[<<o, r>>].seen = wk[<<o, r>>].seen
                /\ wk'[<<o, r>>].recorded = wk[<<o, r>>].recorded
  <2> DEFINE v == wk[<<o, r>>]
  <2>1. v \in WorkerRecord /\ <<o, r>> \in Cells
    BY CellTypes
  <2>2. \/ wk'[<<o, r>>] \in {NoWorker, v}
        \/ wk'[<<o, r>>] = [v EXCEPT !.cancel = TRUE]
    BY <2>1 DEF Crash, Leave, Gone, Shutdown
  <2>3. CASE wk'[<<o, r>>] \in {NoWorker, v}
    BY <2>3, EmptyRecords
  <2>4. CASE wk'[<<o, r>>] = [v EXCEPT !.cancel = TRUE]
    <3>1. wk'[<<o, r>>].pc = v.pc /\ wk'[<<o, r>>].seen = v.seen
      BY <2>1, <2>4 DEF WorkerRecord
    <3>2. wk'[<<o, r>>].recorded = v.recorded
      BY <2>1, <2>4 DEF WorkerRecord
    <3> QED
      BY <3>1, <3>2
  <2> QED
    BY <2>2, <2>3, <2>4
<1>3. WorkersMove
  BY <1>2, StillMoves
<1>4. Ordinary
  BY CrashOrdinary, ShutdownOrdinary
<1> QED
  BY <1>1, <1>3, <1>4, SameRows, OrdinarySteady

(* A claim: nobody has held the run, and its daemon does now.               *)
LEMMA ClaimRow ==
    ASSUME AgentsInv, NEW r \in Runs, NEW p \in Owners,
           Claim(r, p, VersionOf[p])
    PROVE  /\ ~Held(r) /\ Held(r)' /\ OtherRows(r)
           /\ run'[r].rollout = run[r].rollout
           /\ Owns(r, p, run[r].generation)'
<1>1. /\ run \in [Runs -> RunRow] /\ run[r] \in RunRow
      /\ OtherRows(r) /\ run'[r].status = "starting"
      /\ run'[r].supervisor_id = p
  BY ClaimTables DEF AgentsInv, WorkInv, StoreInv, RowsOK
<1>2. ~Held(r)
  BY StatusSets DEF Claim, CanClaim, Held
<1>3. run'[r].rollout = run[r].rollout
  BY <1>1 DEF Claim, RunRow
<1>4. run'[r].stale = FALSE
  BY <1>1 DEF Claim, RunRow
<1>5. Held(r)'
  BY <1>1, <1>4, StatusSets DEF Held
<1>6. Owns(r, p, run[r].generation)'
  BY <1>1 DEF Owns
<1> QED
  BY <1>1, <1>2, <1>3, <1>5, <1>6

LEMMA DaemonClaimPrompts ==
    ASSUME AgentsInv, PromptInv, NEW d \in Owners, NEW r \in Runs,
           DaemonClaim(d, r)
    PROVE  PromptInv'
<1> DEFINE n == run'[r].generation
           t == [pc |-> "claimed", o |-> d, g |-> n]
<1>1. /\ Claim(r, d, VersionOf[d]) /\ UNCHANGED wk /\ UNCHANGED prompts
      /\ sup' = [sup EXCEPT ![<<d, r>>] = t]
  BY DEF DaemonClaim, DaemonOnly
<1>2. /\ ~Held(r) /\ Held(r)' /\ OtherRows(r)
      /\ run'[r].rollout = run[r].rollout
      /\ Owns(r, d, run[r].generation)'
  BY <1>1, ClaimRow
<1>3. n \in Gens /\ n \in 0 .. MaxGen
  BY <1>1, ClaimTables, ConstantFacts DEF Gens
<1>4. run'[r].supervisor_id = d /\ run'[r].generation = n
  BY <1>2 DEF Owns
<1> HIDE DEF n
<1>5. t \in TaskRecord /\ t.pc = "claimed" /\ t.g = n /\ TaskOK(t)
  BY <1>3 DEF TaskRecord, TaskOK
<1> HIDE DEF t
<1>6. /\ sup'[<<d, r>>] = t
      /\ \A o \in Owners, i \in Runs :
            <<o, i>> # <<d, r>> => sup'[<<o, i>>] = sup[<<o, i>>]
  BY <1>1, <1>5, TaskWritten
<1>7. RolloutsKept
  BY <1>2 DEF RolloutsKept, OtherRows
<1>8. ASSUME NEW o \in Owners, NEW i \in Runs PROVE Holds(o, i)'
  <2>1. Holds(o, i)
    BY DEF PromptInv, Holders
  <2>2. CASE i = r
    <3>1. ~Working(o, r) /\ ~Doing(o, r, "claimed")
      BY <1>2, <2>1, <2>2 DEF Holds
    <3>2. ~Working(o, r)'
      BY <1>1, <3>1 DEF Working
    <3>3. CASE o = d
      <4>1. sup'[<<d, r>>].g = n
        BY <1>5, <1>6
      <4>2. Owns(r, d, sup[<<d, r>>].g)'
        BY <1>4, <4>1 DEF Owns
      <4> QED
        BY <1>2, <2>2, <3>2, <3>3, <4>2 DEF Holds
    <3>4. CASE o # d
      <4>1. ~Doing(o, r, "claimed")'
        BY <1>6, <3>1, <3>4 DEF Doing
      <4> QED
        BY <2>2, <3>2, <4>1 DEF Holds
    <3> QED
      BY <3>3, <3>4
  <2>3. CASE i # r
    <3>1. run'[i] = run[i] /\ sup'[<<o, i>>] = sup[<<o, i>>]
      BY <1>2, <1>6, <2>3 DEF OtherRows
    <3> QED
      BY <1>1, <2>1, <3>1 DEF Holds, Working, Doing, Owns, Gen, Held
  <2> QED
    BY <2>2, <2>3
<1>9. ASSUME NEW o \in Owners, NEW i \in Runs PROVE Aware(o, i)'
  <2>1. Aware(o, i) /\ run'[i].rollout = run[i].rollout
    BY <1>7 DEF PromptInv, Informed, RolloutsKept
  <2> QED
    BY <1>1, <2>1 DEF Aware, Knows, NoPrompt
<1>10. Placed'
  BY <1>1, <1>7 DEF PromptInv, Placed, RolloutsKept
<1> QED
  BY <1>8, <1>9, <1>10 DEF PromptInv, Holders, Informed

(* A new process inherits the hold of the daemon that has claimed.          *)
LEMMA SpawnPrompts ==
    ASSUME AgentsInv, PromptInv, NEW d \in Owners, NEW r \in Runs, Spawn(d, r)
    PROVE  PromptInv'
<1> DEFINE g == sup[<<d, r>>].g
           w == [NoWorker EXCEPT !.pc = "boot", !.gen = g]
           t == [sup[<<d, r>>] EXCEPT !.pc = "spawned"]
<1>1. /\ sup[<<d, r>>] \in TaskRecord /\ TaskOK(sup[<<d, r>>])
      /\ Doing(d, r, "claimed") /\ sup \in [Cells -> TaskRecord]
      /\ <<d, r>> \in Cells /\ UNCHANGED run /\ UNCHANGED prompts
      /\ wk' = [wk EXCEPT ![<<d, r>>] = w]
  BY CellTypes DEF Spawn, DaemonOnly, storeVars
<1>2. g \in Gens /\ g \in 0 .. MaxGen
  <2>1. d \in Daemons
    BY <1>1 DEF AgentsInv, Ownership, Doing
  <2> QED
    BY <1>1, <2>1 DEF TaskOK, TaskRecord, Doing
<1>3. w \in WorkerRecord /\ w.pc = "boot" /\ w.gen = g
  <2>1. NoWorker \in WorkerRecord /\ "boot" \in WorkerPcs
    BY EmptyRecords DEF WorkerPcs
  <2> QED
    BY <1>2, <2>1 DEF WorkerRecord
<1>4. WorkerOK(w)
  BY <1>2, <1>3 DEF WorkerOK
<1>5. sup' = [sup EXCEPT ![<<d, r>>] = t]
  BY <1>1 DEF Spawn, Then
<1>6. t \in TaskRecord /\ t.pc = "spawned" /\ t.g = g
  BY <1>1 DEF TaskRecord
<1>7. TaskOK(t)
  BY <1>2, <1>6 DEF TaskOK
<1>8. Owns(r, d, g) /\ Held(r)
  BY <1>1 DEF PromptInv, Holders, Holds
<1> HIDE DEF g, w, t
<1>9. /\ Workers' /\ wk'[<<d, r>>] = w
      /\ \A o \in Owners, i \in Runs :
            <<o, i>> # <<d, r>> => wk'[<<o, i>>] = wk[<<o, i>>]
  BY <1>1, <1>3, <1>4, WorkerWritten
<1>10. /\ sup'[<<d, r>>] = t
       /\ \A o \in Owners, i \in Runs :
             <<o, i>> # <<d, r>> => sup'[<<o, i>>] = sup[<<o, i>>]
  BY <1>5, <1>6, <1>7, TaskWritten
<1>11. ASSUME NEW o \in Owners, NEW i \in Runs
       PROVE  Holds(o, i)' /\ Aware(o, i)'
  <2>1. Holds(o, i) /\ Aware(o, i)
    BY DEF PromptInv, Holders, Informed
  <2>2. CASE o = d /\ i = r
    <3>1. Owns(r, d, Gen(d, r))' /\ Held(r)'
      BY <1>1, <1>3, <1>8, <1>9 DEF Owns, Gen, Held
    <3>2. ~Doing(d, r, "claimed")'
      BY <1>6, <1>10 DEF Doing
    <3>3. Aware(d, r)'
      BY <1>3, <1>9 DEF Aware, Knows, Opening
    <3> QED
      BY <2>2, <3>1, <3>2, <3>3 DEF Holds
  <2>3. CASE ~(o = d /\ i = r)
    <3>1. wk'[<<o, i>>] = wk[<<o, i>>] /\ sup'[<<o, i>>] = sup[<<o, i>>]
      BY <1>9, <1>10, <2>3
    <3>2. Holds(o, i)'
      BY <1>1, <2>1, <3>1 DEF Holds, Working, Doing, Owns, Gen, Held
    <3>3. Aware(o, i)'
      BY <1>1, <2>1, <3>1 DEF Aware, Knows, NoPrompt
    <3> QED
      BY <3>2, <3>3
  <2> QED
    BY <2>2, <2>3
<1>12. Placed'
  BY <1>1 DEF PromptInv, Placed
<1> QED
  BY <1>11, <1>12 DEF PromptInv, Holders, Informed

LEMMA PromptStep ==
    ASSUME AgentsInv, PromptInv, Daemons = Owners, "stall" \notin Faults,
           [Next]_vars
    PROVE  PromptInv'
<1>1. ASSUME NEW p \in Owners, NEW r \in Runs,
             \/ WorkerStep(p, r) \/ TurnStep(p, r) \/ Expiry(p, r)
             \/ BusyExit(p, r) \/ WorkerCrash(p, r)
      PROVE  PromptInv'
  BY <1>1, WorkerPrompts
<1>2. ASSUME NEW p \in Owners, NEW r \in Runs,
             \/ DaemonStep(p, r) \/ Rehydrate(p, r)
             \/ SpawnFails(p, r) \/ BookkeepingFails(p, r)
      PROVE  PromptInv'
  BY <1>2, DaemonClaimPrompts, SpawnPrompts, DaemonSteady, SteadyKeeps
  DEF DaemonStep
<1>3. ASSUME \/ \E r \in Runs : \/ StartSweep(r) \/ Sweep(r) \/ StopFence(r)
                                \/ StopQuestions(r) \/ CancelFinalize(r)
                                \/ \E p \in Owners : RequestStep(p, r)
             \/ \E q \in Questions : \/ Attach(q)
                                     \/ \E s \in Answers : Respond(q, s)
      PROVE  PromptInv'
  BY <1>3, RequestSteady, SteadyKeeps
<1>4. ASSUME NEW r \in Runs, CancelWorker(r) \/ Age(r)
      PROVE  PromptInv'
  BY <1>4, CancelSteady, AgeSteady, SteadyKeeps
<1>5. ASSUME NEW r \in Runs, Stall(r) PROVE FALSE
  BY <1>5 DEF Stall, Fault
<1>6. ASSUME NEW p \in Owners, Crash(p) \/ Leave(p) \/ Shutdown(p)
      PROVE  PromptInv'
  BY <1>6, GoneSteady, SteadyKeeps
<1>7. CASE UNCHANGED vars
  <2>1. UNCHANGED <<run, wk, prompts>>
    BY <1>7 DEF vars, storeVars, workVars
  <2> QED
    BY <1>7, <2>1, NothingOrdinary, SameRows, SameMoves, OrdinarySteady,
       SteadyKeeps
<1>8. CASE Next
  <2>1. CASE \E p \in Owners, r \in Runs :
               \/ WorkerStep(p, r) \/ TurnStep(p, r) \/ Expiry(p, r)
               \/ BusyExit(p, r) \/ WorkerCrash(p, r)
               \/ DaemonStep(p, r) \/ Rehydrate(p, r)
               \/ SpawnFails(p, r) \/ BookkeepingFails(p, r)
               \/ RequestStep(p, r)
    BY <1>1, <1>2, <1>3, <2>1
  <2>2. CASE \E r \in Runs :
               \/ StartSweep(r) \/ StopFence(r) \/ StopQuestions(r)
               \/ CancelWorker(r) \/ CancelFinalize(r)
               \/ Age(r) \/ Stall(r) \/ Sweep(r)
    BY <1>3, <1>4, <1>5, <2>2
  <2>3. CASE \E q \in Questions :
               Attach(q) \/ \E s \in Answers : Respond(q, s)
    BY <1>3, <2>3
  <2>4. CASE \E p \in Owners : Crash(p) \/ Shutdown(p) \/ Leave(p)
    BY <1>6, <2>4
  <2> QED
    BY <1>8, <2>1, <2>2, <2>3, <2>4 DEF Next
<1> QED
  BY <1>7, <1>8

LEMMA PromptInit == AgentsInit => PromptInv
<1> SUFFICES ASSUME AgentsInit PROVE PromptInv
  OBVIOUS
<1>1. ASSUME NEW p \in Owners, NEW r \in Runs PROVE Holds(p, r) /\ Aware(p, r)
  <2>1. <<p, r>> \in Cells
    BY DEF Cells
  <2>2. wk[<<p, r>>].pc = "none" /\ sup[<<p, r>>].pc = "none"
    BY <2>1, EmptyRecords DEF AgentsInit
  <2> QED
    BY <2>2 DEF Holds, Working, Doing, Aware, Knows, Opening
<1>2. Placed
  <2>1. \A r \in Runs, g \in Gens : prompts[<<r, g>>] = 0
    BY DEF AgentsInit
  <2> QED
    BY <2>1 DEF Placed
<1> QED
  BY <1>1, <1>2 DEF PromptInv, Holders, Informed

(***************************************************************************)
(* The initial prompt of a run reaches one thread, once, however workers   *)
(* and daemons crash, are killed, restart, time out or are stopped, for any*)
(* number of runs, daemons and claims: when every worker is a process of a *)
(* daemon and none stalls past its heartbeat.  Whoever acts on a run holds *)
(* it, so no second worker can be in front of it, and the thread is bound  *)
(* to the run before the prompt goes there.                                *)
(***************************************************************************)
THEOREM PromptOnceHolds ==
    ASSUME Daemons = Owners, "stall" \notin Faults
    PROVE  Spec => []PromptOnce
<1>1. AgentsInit => PromptInv
  BY PromptInit
<1>2. AgentsInv /\ PromptInv /\ [Next]_vars => PromptInv'
  BY PromptStep
<1>3. AgentsInv /\ PromptInv => PromptOnce
  BY PromptInvGives
<1> QED
  BY <1>1, <1>2, <1>3, AgentsInvHolds, PTL DEF Spec

=============================================================================
