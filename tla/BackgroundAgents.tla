-------------------------- MODULE BackgroundAgents --------------------------
(***************************************************************************)
(* The processes that drive durable background agents                      *)
(* (app-server/src/request_processors/background_agent_live.rs) and the    *)
(* agent requests of their clients (background_agent_processor.rs), over   *)
(* the tables of BackgroundAgentStore.                                     *)
(*                                                                         *)
(* A process is an app-server that runs workers as tasks of its own, or a  *)
(* daemon that claims a run and spawns a worker process for it, which      *)
(* outlives the daemon.  A worker acts under its process' supervisor id.   *)
(* A restarted process has a new supervisor id: it is another process.     *)
(*                                                                         *)
(* A model of a thread is the count of the initial prompts its rollout     *)
(* holds; it is named after the generation that created it.  What the      *)
(* agent does between two events of its turn, and mirrored events, are     *)
(* left out.  So is when a question times out or a usage limit ends.       *)
(***************************************************************************)
EXTENDS BackgroundAgentStore

CONSTANTS
    Daemons,       \* processes that run workers as processes
    PassLimit,     \* the rows a pass of the reconcile reads (200)
    VersionOf,     \* the runtime fingerprint of each process
    Goals,         \* does a resumed thread start a turn by itself
    Crashable,     \* processes that may crash, with their workers or without
    Closable,      \* processes that may be shut down
    Faults,        \* kinds of faults that may happen: crash, stall (a worker
                   \* that is alive misses its heartbeats), busy (a database
                   \* call stays busy or fails), defer (a usage limit)
    MaxFaults,     \* bound: faults
    MaxRequests    \* bound: stop and delete requests

ASSUME AgentsAssumption ==
    /\ Daemons \subseteq Owners /\ VersionOf \in [Owners -> Versions]
    /\ PassLimit \in Nat \ {0}
    /\ Goals \in BOOLEAN
    /\ Crashable \subseteq Owners /\ Closable \subseteq Owners
    /\ Faults \subseteq {"crash", "stall", "busy", "defer"}
    /\ MaxFaults \in Nat /\ MaxRequests \in Nat
    /\ NULL \notin Owners \X Gens

VARIABLES
    host,     \* processes: up, closing or down
    wk,       \* the worker of a run under a supervisor id
    sup,      \* what a daemon is doing about a run
    tracked,  \* active_worker_processes: <<owner, generation>> or NULL
    receipts, \* agent.workerProcessSpawned events: <<run, generation>>
    prompts,  \* initial prompts in the rollout of a thread
    req,      \* the stop or delete request on a run
    faults,   \* faults so far
    requests  \* requests so far

workVars == <<host, wk, sup, tracked, receipts, prompts, req, faults,
              requests>>
vars == <<storeVars, workVars>>

Cells == Owners \X Runs

NoWorker ==
    [pc |-> "none", gen |-> 0, seen |-> NULL, recorded |-> FALSE,
     turn |-> FALSE, cancel |-> FALSE, q |-> NULL, s |-> NULL]
NoTask == [pc |-> "none", o |-> NULL, g |-> 0]
NoRequest == [pc |-> "none", h |-> NULL, o |-> NULL, g |-> 0, left |-> 0]

At(p, r, pc) == wk[<<p, r>>].pc = pc
Alive(p, r) == wk[<<p, r>>].pc # "none"
Gen(p, r) == wk[<<p, r>>].gen
Go(p, r, pc) == wk' = [wk EXCEPT ![<<p, r>>].pc = pc]
Exit(p, r) == wk' = [wk EXCEPT ![<<p, r>>] = NoWorker]
Doing(d, r, pc) == sup[<<d, r>>].pc = pc
Then(d, r, pc) == sup' = [sup EXCEPT ![<<d, r>>].pc = pc]

Fault(f) == f \in Faults /\ faults < MaxFaults /\ faults' = faults + 1
Request == requests < MaxRequests /\ requests' = requests + 1
WorkerOnly == UNCHANGED <<host, sup, tracked, receipts, req, requests>>
Only == WorkerOnly /\ UNCHANGED <<prompts, faults>>

(* The owner's write did not match.  A worker process exits, since          *)
(* run_background_agent_worker_once knows this error; a task goes on to     *)
(* mark_background_agent_worker_failed like after any other error.          *)
Lose(p, r) ==
    /\ IF p \in Daemons THEN Exit(p, r) ELSE Go(p, r, "error")
    /\ UNCHANGED storeVars

(* append_status *)
Put(p, r, s, pc) ==
    IF CanSetStatus(r, p, Gen(p, r), s)
    THEN SetStatus(r, p, Gen(p, r), s) /\ Go(p, r, pc)
    ELSE Lose(p, r)

-----------------------------------------------------------------------------
(* The start of a worker *)

(* list_runs(Some(200)): the PassLimit rows that were updated last, ended   *)
(* ones too.  When a row was updated is not kept in the model: the list of  *)
(* a pass is any PassLimit of the rows, or all of them if they are fewer.   *)
ListRuns ==
    LET kept == {r \in Runs : Exists(r)} IN
    {l \in SUBSET kept :
       \/ Cardinality(l) = PassLimit
       \/ l = kept /\ Cardinality(kept) =< PassLimit}
(* A pass may come across a row; every pass comes across it.                *)
MayList(r) == \E l \in ListRuns : r \in l
EachLists(r) == \A l \in ListRuns : r \in l

(* reconcile_background_agents reads the run and starts a task for it.      *)
(* What the task knows of the run's thread it knows from here.              *)
ReadRun(p, r) ==
    /\ host[p] = "up" /\ p \notin Daemons /\ ~Alive(p, r)
    /\ MayList(r)
    /\ CanClaim(r, VersionOf[p])
    /\ wk' = [wk EXCEPT ![<<p, r>>].pc = "claim",
                        ![<<p, r>>].seen = run[r].rollout]
    /\ Only /\ UNCHANGED storeVars

ClaimRun(p, r) ==
    /\ At(p, r, "claim")
    /\ IF CanClaim(r, VersionOf[p])
       THEN /\ Claim(r, p, VersionOf[p])
            /\ wk' = [wk EXCEPT ![<<p, r>>].pc = "config",
                                ![<<p, r>>].gen = run'[r].generation]
       ELSE Exit(p, r) /\ UNCHANGED storeVars
    /\ Only

(* A worker process: run_background_agent_worker_once checks the claim its  *)
(* daemon made for it.                                                      *)
Boot(p, r) ==
    /\ At(p, r, "boot")
    /\ IF Owns(r, p, Gen(p, r)) /\ run[r].status = "starting"
       THEN wk' = [wk EXCEPT ![<<p, r>>].pc = "receipt",
                             ![<<p, r>>].seen = run[r].rollout]
       ELSE Exit(p, r)
    /\ Only /\ UNCHANGED storeVars

(* wait_for_background_agent_worker_spawn_receipt *)
AwaitReceipt(p, r) ==
    /\ At(p, r, "receipt")
    /\ <<r, Gen(p, r)>> \in receipts
    /\ Go(p, r, "config")
    /\ Only /\ UNCHANGED storeVars

ReceiptTimeout(p, r) ==
    /\ At(p, r, "receipt")
    /\ Go(p, r, "error")
    /\ Only /\ UNCHANGED storeVars

(* The configuration is resolved and the worker's own handle recorded.      *)
Configure(p, r) ==
    /\ At(p, r, "config")
    /\ IF CanRecord(r, p, Gen(p, r))
       THEN RecordHandle(r, p, Gen(p, r)) /\ Go(p, r, "starting")
       ELSE Lose(p, r)
    /\ Only

(* defer_background_agent_for_usage_profile_wait: before the start, or when *)
(* the turn reports that the limit is reached.                              *)
Defer(p, r) ==
    /\ At(p, r, "config") \/ (At(p, r, "loop") /\ wk[<<p, r>>].turn)
    /\ Fault("defer")
    /\ Put(p, r, "queued", "ending")
    /\ WorkerOnly /\ UNCHANGED prompts

Starting(p, r) ==
    /\ At(p, r, "starting")
    /\ Put(p, r, "starting", "thread")
    /\ Only

(* start_or_resume_background_thread; a resumed rollout is searched for the *)
(* initial prompt.                                                          *)
OpenThread_NoScan(p, r) ==  \* mutant: the rollout is not searched
    /\ At(p, r, "thread")
    /\ wk' = [wk EXCEPT ![<<p, r>>].pc = "bind",
                        ![<<p, r>>].seen = IF @ = NULL THEN Gen(p, r) ELSE @]
    /\ Only /\ UNCHANGED storeVars
OpenThread(p, r) ==
    LET t == wk[<<p, r>>].seen IN
    /\ At(p, r, "thread")
    /\ wk' = [wk EXCEPT
         ![<<p, r>>].pc = "bind",
         ![<<p, r>>].seen = IF t = NULL THEN Gen(p, r) ELSE t,
         ![<<p, r>>].recorded = t # NULL /\ prompts[<<r, t>>] > 0]
    /\ Only /\ UNCHANGED storeVars

Bind(p, r) ==
    /\ At(p, r, "bind")
    /\ IF CanBind(r, p, Gen(p, r))
       THEN BindThread(r, p, Gen(p, r), wk[<<p, r>>].seen) /\ Go(p, r, "bound")
       ELSE Lose(p, r)
    /\ Only

Running(p, r) ==
    /\ At(p, r, "bound")
    /\ Put(p, r, "running", IF wk[<<p, r>>].recorded THEN "loop" ELSE "prompt")
    /\ Only

(* The prompt is in the rollout once its turn starts; until then a crash    *)
(* leaves no trace of it.                                                   *)
SubmitPrompt(p, r) ==
    /\ At(p, r, "prompt")
    /\ prompts' = [prompts EXCEPT ![<<r, wk[<<p, r>>].seen>>] = @ + 1]
    /\ wk' = [wk EXCEPT ![<<p, r>>].pc = "loop", ![<<p, r>>].turn = TRUE]
    /\ WorkerOnly /\ UNCHANGED faults /\ UNCHANGED storeVars

(* with_startup_heartbeat *)
StartupBeat(p, r) ==
    /\ At(p, r, "thread") \/ At(p, r, "prompt")
    /\ IF CanHeartbeat(r, p, Gen(p, r))
       THEN Heartbeat(r, p, Gen(p, r)) /\ UNCHANGED wk
       ELSE Lose(p, r)
    /\ Only

-----------------------------------------------------------------------------
(* The loop of a worker *)

(* A resumed thread goes on with its goal.                                  *)
GoalTurn(p, r) ==
    /\ Goals /\ At(p, r, "loop") /\ ~wk[<<p, r>>].turn
    /\ wk' = [wk EXCEPT ![<<p, r>>].turn = TRUE]
    /\ Only /\ UNCHANGED storeVars

InTurn(p, r) == At(p, r, "loop") /\ wk[<<p, r>>].turn

(* An event of the turn: its mirror in the journal is fenced.               *)
TurnEvent(p, r) ==
    /\ InTurn(p, r)
    /\ Put(p, r, "running", "loop")
    /\ Only

TurnEnds(p, r, s) ==
    /\ InTurn(p, r)
    /\ Put(p, r, s, "ending")
    /\ Only

(* heartbeat_and_continue: the heartbeat, then a look at the intent.        *)
Tick(p, r) ==
    /\ At(p, r, "loop")
    /\ IF CanHeartbeat(r, p, Gen(p, r))
       THEN /\ Heartbeat(r, p, Gen(p, r))
            /\ IF run[r].desired = "running" THEN UNCHANGED wk
               ELSE wk' = [wk EXCEPT ![<<p, r>>].pc = "stop",
                                     ![<<p, r>>].s = "cancelled"]
       ELSE Exit(p, r) /\ UNCHANGED storeVars
    /\ Only

(* The cancellation token fires in the loop: stop_background_thread.        *)
Cancelled(p, r) ==
    /\ At(p, r, "loop") /\ wk[<<p, r>>].cancel
    /\ wk' = [wk EXCEPT
         ![<<p, r>>].pc = "stop",
         ![<<p, r>>].s =
            IF run[r].desired = "running" THEN "orphaned" ELSE "cancelled"]
    /\ Only /\ UNCHANGED storeVars

Stop(p, r) ==
    /\ At(p, r, "stop")
    /\ Put(p, r, wk[<<p, r>>].s, "ending")
    /\ Only

(* create_pending_interaction *)
AskUser(p, r, q) ==
    /\ InTurn(p, r) /\ ask[q].status = "none"
    /\ IF CanAsk(r, p, Gen(p, r))
       THEN /\ Ask(r, p, Gen(p, r), q)
            /\ wk' = [wk EXCEPT ![<<p, r>>].pc = "wait", ![<<p, r>>].q = q]
       ELSE Lose(p, r)
    /\ Only

(* wait_for_pending_interaction: a poll also expires what has timed out,    *)
(* beats and looks at the intent.                                           *)
WaitPoll(p, r) ==
    /\ At(p, r, "wait")
    /\ IF CanHeartbeat(r, p, Gen(p, r))
       THEN /\ Heartbeat(r, p, Gen(p, r))
            /\ \/ run[r].desired # "running" /\ Go(p, r, "error")
               \/ /\ run[r].desired = "running"
                  /\ ask[wk[<<p, r>>].q].status \in Closed
                  /\ Go(p, r, "answered")
               \/ /\ run[r].desired = "running"
                  /\ ask[wk[<<p, r>>].q].status \in Open
                  /\ UNCHANGED wk
       ELSE Lose(p, r)
    /\ Only

Expire(p, r, q) ==
    /\ At(p, r, "wait")
    /\ Answer(q, "expired")
    /\ UNCHANGED wk /\ Only

WaitCancelled(p, r) ==
    /\ At(p, r, "wait") /\ wk[<<p, r>>].cancel
    /\ IF CanAnswer(wk[<<p, r>>].q) THEN Answer(wk[<<p, r>>].q, "cancelled")
       ELSE UNCHANGED storeVars
    /\ Go(p, r, "error")
    /\ Only

Answered(p, r) ==
    /\ At(p, r, "answered")
    /\ Put(p, r, "running", "loop")
    /\ Only

-----------------------------------------------------------------------------
(* The end of a worker *)

Ending(p, r) ==
    /\ At(p, r, "ending")
    /\ FinishLease(r, p, Gen(p, r))
    /\ Exit(p, r)
    /\ Only

(* Anything else that fails: the configuration, the thread, the submission, *)
(* the event stream.                                                        *)
WorkerError(p, r) ==
    /\ wk[<<p, r>>].pc \in {"config", "thread", "prompt", "loop"}
    /\ Go(p, r, "error")
    /\ Only /\ UNCHANGED storeVars

(* mark_background_agent_worker_failed: it reads the run again and goes on  *)
(* with the generation it finds.                                            *)
MarkFailed(p, r) ==
    /\ At(p, r, "error")
    /\ IF run[r].supervisor_id = p /\ run[r].status \notin Ended
       THEN wk' = [wk EXCEPT
              ![<<p, r>>].pc = "failing",
              ![<<p, r>>].gen = run[r].generation,
              ![<<p, r>>].s =
                 IF run[r].desired = "running" THEN "failed" ELSE "cancelled"]
       ELSE Exit(p, r)
    /\ Only /\ UNCHANGED storeVars

Failing(p, r) ==
    LET w == wk[<<p, r>>] IN
    /\ At(p, r, "failing")
    /\ IF CanSetStatus(r, p, w.gen, w.s)
       THEN SetStatus(r, p, w.gen, w.s) /\ Go(p, r, "ending")
       ELSE Exit(p, r) /\ UNCHANGED storeVars
    /\ Only

(* A call stays busy through its retries: the worker leaves its run as it   *)
(* is, to be found by the sweep.                                            *)
BusyExit(p, r) ==
    /\ Alive(p, r) /\ wk[<<p, r>>].pc # "boot"
    /\ Fault("busy")
    /\ Exit(p, r)
    /\ WorkerOnly /\ UNCHANGED prompts /\ UNCHANGED storeVars

-----------------------------------------------------------------------------
(* A daemon and its worker processes *)

DaemonOnly == UNCHANGED <<host, prompts, req, requests>>

(* reconcile_background_agent_worker_processes claims before it spawns.     *)
DaemonClaim(d, r) ==
    /\ host[d] = "up" /\ d \in Daemons
    /\ Doing(d, r, "none") /\ tracked[<<d, r>>] = NULL
    /\ MayList(r)
    /\ Claim(r, d, VersionOf[d])
    /\ sup' = [sup EXCEPT ![<<d, r>>] =
         [pc |-> "claimed", o |-> d, g |-> run'[r].generation]]
    /\ DaemonOnly /\ UNCHANGED <<wk, tracked, receipts, faults>>

Spawn(d, r) ==
    /\ Doing(d, r, "claimed")
    /\ wk' = [wk EXCEPT ![<<d, r>>] =
         [NoWorker EXCEPT !.pc = "boot", !.gen = sup[<<d, r>>].g]]
    /\ tracked' = [tracked EXCEPT ![<<d, r>>] = <<d, sup[<<d, r>>].g>>]
    /\ Then(d, r, "spawned")
    /\ DaemonOnly /\ UNCHANGED <<receipts, faults, storeVars>>

(* The admission is no longer valid, or the spawn fails.                    *)
SpawnFails(d, r) ==
    /\ Doing(d, r, "claimed")
    /\ Then(d, r, "fail")
    /\ DaemonOnly /\ UNCHANGED <<wk, tracked, receipts, faults, storeVars>>

RecordSpawn(d, r) ==
    /\ Doing(d, r, "spawned")
    /\ IF CanRecord(r, d, sup[<<d, r>>].g)
       THEN RecordHandle(r, d, sup[<<d, r>>].g) /\ Then(d, r, "recorded")
       ELSE UNCHANGED storeVars /\ Then(d, r, "cleanup")
    /\ DaemonOnly /\ UNCHANGED <<wk, tracked, receipts, faults>>

WriteReceipt(d, r) ==
    LET t == sup[<<d, r>>] IN
    /\ Doing(d, r, "recorded")
    /\ IF CanHeartbeat(r, d, t.g)
       THEN receipts' = receipts \cup {<<r, t.g>>} /\ Then(d, r, "none")
       ELSE UNCHANGED receipts /\ Then(d, r, "cleanup")
    /\ DaemonOnly /\ UNCHANGED <<wk, tracked, faults, storeVars>>

BookkeepingFails(d, r) ==
    /\ Doing(d, r, "spawned") \/ Doing(d, r, "recorded")
    /\ Fault("busy")
    /\ Then(d, r, "cleanup")
    /\ DaemonOnly /\ UNCHANGED <<wk, tracked, receipts, storeVars>>

(* A handle names a process by its pid and start token.                     *)
HandleAlive(h, r) == Alive(h[1], r) /\ Gen(h[1], r) = h[2]
Kill(h, r) ==
    wk' = IF HandleAlive(h, r) THEN [wk EXCEPT ![<<h[1], r>>] = NoWorker] ELSE wk
Untrack(d, r) == tracked' = [tracked EXCEPT ![<<d, r>>] = NULL]

(* The cleanup; a stop that fails leaves the handle and is tried again.     *)
Cleanup(d, r) ==
    /\ Doing(d, r, "cleanup")
    /\ Kill(<<d, sup[<<d, r>>].g>>, r) /\ Untrack(d, r)
    /\ Then(d, r, "fail")
    /\ DaemonOnly /\ UNCHANGED <<receipts, faults, storeVars>>

(* fail_claimed_background_agent_worker_process: a look at the intent, ...  *)
FailClaimed(d, r) ==
    LET t == sup[<<d, r>>] IN
    /\ Doing(d, r, "fail")
    /\ Then(d, r, IF Owns(r, d, t.g) /\ run[r].desired # "running"
                  THEN "finalize" ELSE "write")
    /\ DaemonOnly /\ UNCHANGED <<wk, tracked, receipts, faults, storeVars>>

(* ... and the write.                                                       *)
WriteFailed(d, r) ==
    LET t == sup[<<d, r>>] IN
    /\ Doing(d, r, "write")
    /\ IF CanSetStatus(r, d, t.g, "failed")
       THEN SetStatus(r, d, t.g, "failed") /\ Then(d, r, "lease")
       ELSE UNCHANGED storeVars /\ Then(d, r, "none")
    /\ DaemonOnly /\ UNCHANGED <<wk, tracked, receipts, faults>>

FinishFailed(d, r) ==
    /\ Doing(d, r, "lease")
    /\ FinishLease(r, d, sup[<<d, r>>].g)
    /\ Then(d, r, "none")
    /\ DaemonOnly /\ UNCHANGED <<wk, tracked, receipts, faults>>

(* finalize_stopped_background_agent_process_for_run, for the owner and the *)
(* generation that were read                                                *)
FinalizeRead(d, r) ==
    LET t == sup[<<d, r>>] IN
    /\ Doing(d, r, "finalize")
    /\ IF t.o # NULL /\ CanFinalize(r, t.o, t.g)
       THEN Finalize(r, t.o, t.g) ELSE UNCHANGED storeVars
    /\ Then(d, r, "none")
    /\ DaemonOnly /\ UNCHANGED <<wk, tracked, receipts, faults>>

(* What a daemon does next about a run it has just read.                    *)
AfterRead(d, r, pc) ==
    sup' = [sup EXCEPT ![<<d, r>>] =
      IF pc = "none" THEN NoTask
      ELSE [pc |-> pc, o |-> run[r].supervisor_id, g |-> run[r].generation]]

(* The reconcile stops a process whose run it should not run any more:      *)
(* stop_tracked_background_agent_worker_process.                            *)
Obsolete(r) ==
    run[r].desired # "running" \/ run[r].status \in {"orphaned"} \cup Ended
StopTracked_NoKill(d, r) ==  \* mutant: the handle is dropped, not stopped
    /\ host[d] = "up" /\ Doing(d, r, "none") /\ tracked[<<d, r>>] # NULL
    /\ MayList(r) /\ Obsolete(r)
    /\ Untrack(d, r) /\ UNCHANGED wk
    /\ AfterRead(d, r, IF run[r].desired = "running" THEN "none"
                       ELSE "finalize")
    /\ DaemonOnly /\ UNCHANGED <<receipts, faults, storeVars>>
StopTracked(d, r) ==
    /\ host[d] = "up" /\ Doing(d, r, "none") /\ tracked[<<d, r>>] # NULL
    /\ MayList(r) /\ Obsolete(r)
    /\ Kill(tracked[<<d, r>>], r) /\ Untrack(d, r)
    /\ AfterRead(d, r, IF run[r].desired = "running" THEN "none"
                       ELSE "finalize")
    /\ DaemonOnly /\ UNCHANGED <<receipts, faults, storeVars>>

(* prune_finished_background_agent_worker_processes *)
Prune(d, r) ==
    /\ host[d] = "up" /\ Doing(d, r, "none") /\ tracked[<<d, r>>] # NULL
    /\ ~HandleAlive(tracked[<<d, r>>], r)
    /\ AfterRead(d, r,
         IF run[r].desired # "running" THEN "finalize"
         ELSE IF run[r].supervisor_id = d /\ run[r].status \in Live THEN "fail"
         ELSE "none")
    /\ Untrack(d, r)
    /\ DaemonOnly /\ UNCHANGED <<wk, receipts, faults, storeVars>>

(* rehydrate_background_agent_worker_processes: worker processes of this or *)
(* another daemon that the leases tell of                                   *)
Rehydrate(d, r) ==
    LET o == run[r].supervisor_id
        g == run[r].generation IN
    /\ host[d] = "up" /\ d \in Daemons
    /\ Doing(d, r, "none") /\ tracked[<<d, r>>] = NULL
    /\ run[r].status \in Owned \cup {"orphaned"} /\ o \in Daemons
    /\ lease[<<r, g>>].status = "running" /\ HandleAlive(<<o, g>>, r)
    /\ tracked' = [tracked EXCEPT ![<<d, r>>] = <<o, g>>]
    /\ DaemonOnly /\ UNCHANGED <<wk, sup, receipts, faults, storeVars>>

-----------------------------------------------------------------------------
(* Requests of clients *)

Still == UNCHANGED <<host, wk, sup, tracked, receipts, prompts, faults>>
Quiet == Still /\ UNCHANGED requests

(* agent_start: the start request first ends the runs its build cannot run, *)
(* then admits its own, or is refused.  A process of another build is only  *)
(* modelled by what its start requests do to the runs of this one.          *)
StartSweep(r) ==
    /\ \E v \in Versions : Terminalize(r, v)
    /\ Quiet /\ UNCHANGED req

StartRun(p, r) ==
    /\ host[p] = "up"
    /\ Admit(r, VersionOf[p])
    /\ Quiet /\ UNCHANGED req

(* agent_stop_inner reads the run, ...                                      *)
StopRead(p, r) ==
    /\ host[p] = "up" /\ req[r].pc = "none"
    /\ Exists(r) /\ run[r].retention = "active"
    /\ Request
    /\ req' = [req EXCEPT ![r] =
         [pc |-> IF run[r].status \in Ended THEN "cancel" ELSE "fence",
          h |-> p, o |-> run[r].supervisor_id, g |-> run[r].generation,
          left |-> 2]]
    /\ Still /\ UNCHANGED storeVars

(* ... stops the generation it has read, once more with a newer one, ...    *)
StopFence(r) ==
    LET q == req[r] IN
    /\ q.pc = "fence"
    /\ \/ /\ ~StopIsReplay(r, q.o, q.g)
          /\ RequestStop(r, q.o, q.g)
          /\ req' = [req EXCEPT ![r].pc = "questions"]
       \/ /\ StopIsReplay(r, q.o, q.g) \/ run[r].status \in Ended
          /\ req' = [req EXCEPT ![r].pc = "questions"]
          /\ UNCHANGED storeVars
       \/ /\ ~CanStop(r, q.o, q.g) /\ ~StopIsReplay(r, q.o, q.g)
          /\ run[r].status \notin Ended
          /\ req' = [req EXCEPT ![r] =
               IF q.left = 1 THEN NoRequest
               ELSE [q EXCEPT !.left = 1, !.o = run[r].supervisor_id,
                              !.g = run[r].generation]]
          /\ UNCHANGED storeVars
    /\ Quiet

(* ... cancels what the run still asks, and its worker if it runs here.     *)
StopQuestions(r) ==
    /\ req[r].pc = "questions"
    /\ CancelQuestions(r)
    /\ req' = [req EXCEPT ![r].pc = "cancel"]
    /\ Quiet

DeleteRun(p, r) ==
    /\ host[p] = "up" /\ req[r].pc = "none"
    /\ Request
    /\ RequestDelete(r)
    /\ req' = [req EXCEPT ![r] = [NoRequest EXCEPT !.pc = "cancel", !.h = p]]
    /\ Still

(* cancel_background_agent_worker: the token of a task, or the process,     *)
(* whose run is then finalized.                                             *)
CancelWorker(r) ==
    LET p == req[r].h
        h == tracked[<<p, r>>] IN
    /\ req[r].pc = "cancel"
    /\ \/ /\ h = NULL
          /\ wk' = [wk EXCEPT ![<<p, r>>].cancel =
                      p \notin Daemons /\ Alive(p, r)]
          /\ req' = [req EXCEPT ![r] = NoRequest]
          /\ UNCHANGED tracked
       \/ /\ h # NULL /\ Kill(h, r) /\ Untrack(p, r)
          /\ req' = [req EXCEPT ![r] =
               IF run[r].desired = "running" THEN NoRequest
               ELSE [@ EXCEPT !.pc = "finalize", !.o = run[r].supervisor_id,
                              !.g = run[r].generation]]
    /\ UNCHANGED <<host, sup, receipts, prompts, faults, requests, storeVars>>

CancelFinalize(r) ==
    LET q == req[r] IN
    /\ q.pc = "finalize"
    /\ IF q.o # NULL /\ CanFinalize(r, q.o, q.g)
       THEN Finalize(r, q.o, q.g) ELSE UNCHANGED storeVars
    /\ req' = [req EXCEPT ![r] = NoRequest]
    /\ Quiet

(* agent_attach and agent_pending_interaction_respond                       *)
Attach(q) ==
    Deliver(q) /\ Quiet /\ UNCHANGED req
Respond(q, s) ==
    Answer(q, s) /\ Quiet /\ UNCHANGED req

-----------------------------------------------------------------------------
(* Time, crashes and shutdown *)

(* Somebody who beats for the current generation is alive.                  *)
Attended(r) ==
    \E p \in Owners :
       /\ Owns(r, p, run[r].generation)
       /\ \/ Alive(p, r) /\ Gen(p, r) = run[r].generation
          \/ sup[<<p, r>>].pc # "none" /\ sup[<<p, r>>].g = run[r].generation

Age(r) ==
    /\ ~Attended(r) /\ Lapse(r)
    /\ Quiet /\ UNCHANGED req
Stall(r) ==
    /\ Attended(r) /\ Fault("stall") /\ Lapse(r)
    /\ UNCHANGED <<host, wk, sup, tracked, receipts, prompts, req, requests>>

(* The sweep every process makes before it reconciles.                      *)
Sweep(r) ==
    /\ \E p \in Owners : host[p] = "up"
    /\ Orphan(r) \/ CancelStale(r)
    /\ Quiet /\ UNCHANGED req

(* Tasks die with their process; worker processes do not.                   *)
Gone(p) ==
    /\ host' = [host EXCEPT ![p] = "down"]
    /\ wk' = [c \in Cells |->
                IF c[1] = p /\ p \notin Daemons THEN NoWorker ELSE wk[c]]
    /\ sup' = [c \in Cells |-> IF c[1] = p THEN NoTask ELSE sup[c]]
    /\ tracked' = [c \in Cells |-> IF c[1] = p THEN NULL ELSE tracked[c]]
    /\ req' = [r \in Runs |-> IF req[r].h = p THEN NoRequest ELSE req[r]]
    /\ UNCHANGED <<receipts, prompts, requests, storeVars>>

Crash(p) ==
    /\ p \in Crashable /\ host[p] # "down"
    /\ Fault("crash")
    /\ Gone(p)

WorkerCrash(p, r) ==
    /\ p \in Daemons \cap Crashable /\ Alive(p, r)
    /\ Fault("crash")
    /\ Exit(p, r)
    /\ WorkerOnly /\ UNCHANGED prompts /\ UNCHANGED storeVars

(* cancel_background_agent_workers: every token, and every tracked process. *)
Shutdown(p) ==
    /\ p \in Closable /\ host[p] = "up"
    /\ host' = [host EXCEPT ![p] = "closing"]
    /\ wk' = [c \in Cells |->
         LET h == tracked[<<p, c[2]>>] IN
         IF h # NULL /\ h[1] = c[1] /\ HandleAlive(h, c[2]) THEN NoWorker
         ELSE IF c[1] = p /\ p \notin Daemons /\ wk[c].pc # "none"
         THEN [wk[c] EXCEPT !.cancel = TRUE] ELSE wk[c]]
    /\ tracked' = [c \in Cells |-> IF c[1] = p THEN NULL ELSE tracked[c]]
    /\ UNCHANGED <<sup, receipts, prompts, req, faults, requests, storeVars>>

Leave(p) ==
    /\ host[p] = "closing"
    /\ \A r \in Runs : p \in Daemons \/ ~Alive(p, r)
    /\ Gone(p) /\ UNCHANGED faults

-----------------------------------------------------------------------------
AgentsInit ==
    /\ Init
    /\ host = [p \in Owners |-> "up"]
    /\ wk = [c \in Cells |-> NoWorker]
    /\ sup = [c \in Cells |-> NoTask]
    /\ tracked = [c \in Cells |-> NULL]
    /\ receipts = {}
    /\ prompts = [k \in Runs \X Gens |-> 0]
    /\ req = [r \in Runs |-> NoRequest]
    /\ faults = 0 /\ requests = 0

(* What a worker does by itself, without a fault and without its turn.      *)
WorkerStep(p, r) ==
    \/ ReadRun(p, r) \/ ClaimRun(p, r)
    \/ Boot(p, r) \/ AwaitReceipt(p, r) \/ ReceiptTimeout(p, r)
    \/ Configure(p, r) \/ Starting(p, r) \/ OpenThread(p, r) \/ Bind(p, r)
    \/ Running(p, r) \/ SubmitPrompt(p, r)
    \/ Tick(p, r) \/ Cancelled(p, r) \/ Stop(p, r)
    \/ WaitPoll(p, r) \/ WaitCancelled(p, r) \/ Answered(p, r)
    \/ Ending(p, r) \/ MarkFailed(p, r) \/ Failing(p, r)

TurnStep(p, r) ==
    \/ StartupBeat(p, r) \/ GoalTurn(p, r) \/ TurnEvent(p, r)
    \/ \E s \in Ended : TurnEnds(p, r, s)
    \/ \E q \in Questions : AskUser(p, r, q)
    \/ Defer(p, r) \/ WorkerError(p, r)

Expiry(p, r) == \E q \in Questions : Expire(p, r, q)

DaemonStep(d, r) ==
    \/ DaemonClaim(d, r) \/ Spawn(d, r) \/ RecordSpawn(d, r)
    \/ WriteReceipt(d, r) \/ Cleanup(d, r) \/ FailClaimed(d, r)
    \/ WriteFailed(d, r) \/ FinishFailed(d, r) \/ FinalizeRead(d, r)
    \/ StopTracked(d, r) \/ Prune(d, r)

RequestStep(p, r) ==
    StartRun(p, r) \/ StopRead(p, r) \/ DeleteRun(p, r)

Next ==
    \/ \E p \in Owners, r \in Runs :
         \/ WorkerStep(p, r) \/ TurnStep(p, r) \/ Expiry(p, r)
         \/ BusyExit(p, r) \/ WorkerCrash(p, r)
         \/ DaemonStep(p, r) \/ Rehydrate(p, r)
         \/ SpawnFails(p, r) \/ BookkeepingFails(p, r)
         \/ RequestStep(p, r)
    \/ \E r \in Runs :
         \/ StartSweep(r) \/ StopFence(r) \/ StopQuestions(r)
         \/ CancelWorker(r) \/ CancelFinalize(r)
         \/ Age(r) \/ Stall(r) \/ Sweep(r)
    \/ \E q \in Questions :
         Attach(q) \/ \E s \in Answers : Respond(q, s)
    \/ \E p \in Owners : Crash(p) \/ Shutdown(p) \/ Leave(p)

Spec == AgentsInit /\ [][Next]_vars

(* Steps a process takes only for a row in the list of its pass             *)
PassStep(p, r) ==
    ReadRun(p, r) \/ DaemonClaim(p, r) \/ StopTracked(p, r)

(* Workers and daemons are scheduled, heartbeats grow old, processes sweep, *)
(* a question that nobody answers times out.  A pass comes back to a row    *)
(* for certain only while the list is sure to hold it.  Nothing is assumed  *)
(* of turns, of clients, or of faults.                                      *)
FairSpec ==
    /\ Spec
    /\ \A p \in Owners, r \in Runs :
         /\ WF_vars(WorkerStep(p, r) /\ ~ReadRun(p, r))
         /\ WF_vars(DaemonStep(p, r) /\ ~PassStep(p, r))
         /\ WF_vars(EachLists(r) /\ PassStep(p, r))
         /\ WF_vars(Expiry(p, r))
    /\ \A r \in Runs : WF_vars(Age(r)) /\ WF_vars(Sweep(r))

-----------------------------------------------------------------------------
(* Properties *)

WorkerPcs ==
    {"none", "claim", "boot", "receipt", "config", "starting", "thread",
     "bind", "bound", "prompt", "loop", "stop", "wait", "answered", "ending",
     "error", "failing"}
WorkerRecord ==
    [pc: WorkerPcs, gen: 0 .. MaxGen, seen: Gens \cup {NULL},
     recorded: BOOLEAN, turn: BOOLEAN, cancel: BOOLEAN,
     q: Questions \cup {NULL}, s: Statuses \cup {NULL}]
TaskRecord ==
    [pc: {"none", "claimed", "spawned", "recorded", "cleanup", "fail",
          "write", "lease", "finalize"},
     o: Owners \cup {NULL}, g: 0 .. MaxGen]
RequestRecord ==
    [pc: {"none", "fence", "questions", "cancel", "finalize"},
     h: Owners \cup {NULL}, o: Owners \cup {NULL}, g: 0 .. MaxGen, left: 0 .. 2]

(***************************************************************************)
(* Types of the tables, of the workers and of the daemons.                 *)
(***************************************************************************)
AgentsTypeOK ==
    /\ StoreTypeOK
    /\ host \in [Owners -> {"up", "closing", "down"}]
    /\ wk \in [Cells -> WorkerRecord]
    /\ sup \in [Cells -> TaskRecord]
    /\ tracked \in [Cells -> (Owners \X Gens) \cup {NULL}]
    /\ receipts \subseteq Runs \X Gens
    /\ prompts \in [Runs \X Gens -> Nat]
    /\ req \in [Runs -> RequestRecord]
    /\ faults \in Nat /\ requests \in Nat

(***************************************************************************)
(* A question dies with the generation that asked it: a run that is free,  *)
(* that starts again or that runs has none open, so no answer meant for a  *)
(* worker that is gone reaches its successor.                              *)
(***************************************************************************)
NoInheritedQuestion ==
    \A q \in Questions :
       ask[q].status \in Open
         => run[ask[q].run_id].status \in {"waiting", "stopping"} \cup Ended

(***************************************************************************)
(* "A crash after thread binding or submission can therefore neither drop  *)
(* nor duplicate the initial prompt" (background-agent/ARCHITECTURE.md):   *)
(* the rollouts of a run hold its initial prompt at most once.             *)
(***************************************************************************)
PromptOnce ==
    \A r \in Runs, g \in Gens :
       prompts[<<r, g>>] > 0
         => /\ prompts[<<r, g>>] = 1
            /\ \A h \in Gens \ {g} : prompts[<<r, h>>] = 0

(***************************************************************************)
(* mark_background_agent_worker_failed goes on with whatever generation it *)
(* reads.  It is its own: a worker that fails late never fails or cancels  *)
(* a generation that its own process has claimed since.                    *)
(***************************************************************************)
FailureIsOwn ==
    [][\A p \in Owners, r \in Runs :
         At(p, r, "error") /\ wk'[<<p, r>>].pc = "failing"
           => wk'[<<p, r>>].gen = Gen(p, r)]_vars

(***************************************************************************)
(* A stop or delete request is carried out although the worker, its daemon *)
(* or the process that took the request may crash at any point.            *)
(***************************************************************************)
StopCompletes ==
    \A r \in Runs :
       (Exists(r) /\ ~Wanted(r)) ~> run[r].status \in Ended

(***************************************************************************)
(* A run does not wait for ever without a worker: whoever dropped it, at   *)
(* whatever point, it is attended again or ends.  That is so while no more *)
(* rows are kept than a pass of the reconcile reads (list_runs(Some(200)), *)
(* background_agent_live.rs:1906 and 2003).  Ended rows are kept and are   *)
(* read too: behind 200 rows updated later a run waits for ever.           *)
(***************************************************************************)
NobodyIsForgotten ==
    \A r \in Runs :
       (Exists(r) /\ ~Attended(r))
         ~> (Attended(r) \/ run[r].status \in Ended \/ ~EachLists(r))

==============================================================================
