----------------------- MODULE BackgroundAgentStoreProofs -----------------------
(***************************************************************************)
(* Proofs about the tables of background agents, for any runs, owners,     *)
(* generations, questions and versions, and for callers that may call any  *)
(* transaction with any arguments at any time.                             *)
(*                                                                         *)
(* The inductive invariant adds to the checked properties that a run that  *)
(* is free is also wanted: a withdrawn run is never up for a claim.        *)
(***************************************************************************)
EXTENDS BackgroundAgentStore, FiniteSetTheorems, TLAPS

(* What the transactions keep true of one row of background_agent_runs.     *)
RowOK(x) ==
    /\ x \in RunRow
    /\ x.status \in Owned => x.supervisor_id # NULL /\ x.generation > 0
    /\ x.status = "none" => x = NoRun
    /\ x.status \in Unclaimed =>
          x.desired = "running" /\ x.retention = "active"

RowsOK == run \in [Runs -> RunRow] /\ \A r \in Runs : RowOK(run[r])
LeasesOK == lease \in [Runs \X Gens -> LeaseRow]
AsksOK == ask \in [Questions -> AskRow]

StoreInv == RowsOK /\ LeasesOK /\ AsksOK /\ LeaseNamesOwner

-----------------------------------------------------------------------------
(* What the assumption on the constants says, in the form the steps use.    *)
LEMMA ConstantFacts ==
    /\ NULL \notin Owners /\ NULL \notin Runs /\ NULL \notin Nat
    /\ MaxGen \in Nat /\ MaxActive \in Nat /\ Gens \subseteq Nat
    /\ \A g \in Gens : g > 0 /\ g <= MaxGen
  BY StoreAssumption DEF Gens

LEMMA InvGivesType == StoreInv => StoreTypeOK
  BY DEF StoreInv, RowsOK, RowOK, LeasesOK, AsksOK, StoreTypeOK, Exists

LEMMA InitInv == Init => StoreInv
<1> SUFFICES ASSUME Init PROVE StoreInv
  OBVIOUS
<1>1. RowOK(NoRun)
  BY ConstantFacts
  DEF RowOK, NoRun, RunRow, Statuses, Owned, Live, Unclaimed, Ended
<1>2. RowsOK
  BY <1>1 DEF Init, RowsOK, RowOK
<1>3. LeasesOK /\ AsksOK
  BY DEF Init, LeasesOK, AsksOK, NoLease, NoAsk, LeaseRow, AskRow
<1>4. LeaseNamesOwner
  BY ConstantFacts DEF Init, LeaseNamesOwner, NoRun, NoLease
<1> QED
  BY <1>2, <1>3, <1>4 DEF StoreInv

(* A transaction that writes one row well writes the table well.            *)
LEMMA OneRow ==
    ASSUME StoreInv, NEW r \in Runs, NEW x, RowOK(x),
           run' = [run EXCEPT ![r] = x]
    PROVE  RowsOK'
  BY DEF StoreInv, RowsOK, RowOK

(* Questions keep their type when they are closed.                          *)
LEMMA CloseKeepsAsks ==
    ASSUME StoreInv, NEW r \in Runs, NEW s \in Closed, Close(r, s)
    PROVE  AsksOK'
  BY DEF StoreInv, AsksOK, AskRow, Close, OpenOf

(* Leases keep their type, their owner and their absence when a status that *)
(* is there is changed.                                                     *)
LeaseOnly(r, g, s) ==
    /\ EndLease(r, g, s)
    /\ s \in {"running", "stopped", "orphaned"}
    /\ lease[<<r, g>>].supervisor_id # NULL

LEMMA EndLeaseFacts ==
    ASSUME StoreInv, NEW r \in Runs, NEW g \in Gens, NEW s,
           LeaseOnly(r, g, s)
    PROVE  /\ LeasesOK'
           /\ \A k \in Runs \X Gens :
                 /\ lease'[k].supervisor_id = lease[k].supervisor_id
                 /\ lease[k] = NoLease => lease'[k] = NoLease
<1> USE DEF StoreInv, LeasesOK, LeaseRow, LeaseOnly, EndLease
<1>1. <<r, g>> \in Runs \X Gens
  OBVIOUS
<1>2. lease[<<r, g>>] # NoLease
  BY DEF NoLease
<1> QED
  BY <1>1, <1>2

(* LeaseNamesOwner survives a step that keeps owners and generations.       *)
LEMMA SameOwners ==
    ASSUME StoreInv,
           \A r \in Runs :
              /\ run'[r].supervisor_id = run[r].supervisor_id
              /\ run'[r].generation = run[r].generation,
           \A k \in Runs \X Gens :
              /\ lease'[k].supervisor_id = lease[k].supervisor_id
              /\ lease[k] = NoLease => lease'[k] = NoLease
    PROVE  LeaseNamesOwner'
<1> SUFFICES ASSUME NEW r \in Runs, NEW g \in Gens
             PROVE  /\ g = run'[r].generation
                         => lease'[<<r, g>>].supervisor_id
                              = run'[r].supervisor_id
                    /\ g > run'[r].generation => lease'[<<r, g>>] = NoLease
  BY DEF LeaseNamesOwner
<1>1. <<r, g>> \in Runs \X Gens
  OBVIOUS
<1> QED
  BY <1>1 DEF StoreInv, LeaseNamesOwner

-----------------------------------------------------------------------------
(* The transactions that write one row and leave its owner alone *)

(* A write of desired, status, retention, staleness, rollout and version.   *)
KeepsOwner(r, x) ==
    /\ run' = [run EXCEPT ![r] = x]
    /\ RowOK(x)
    /\ x.supervisor_id = run[r].supervisor_id
    /\ x.generation = run[r].generation

LeasesKept ==
    /\ LeasesOK'
    /\ \A k \in Runs \X Gens :
          /\ lease'[k].supervisor_id = lease[k].supervisor_id
          /\ lease[k] = NoLease => lease'[k] = NoLease

LEMMA SameLeases == StoreInv /\ UNCHANGED lease => LeasesKept
  BY DEF StoreInv, LeasesOK, LeasesKept

LEMMA SameAsks == StoreInv /\ UNCHANGED ask => AsksOK'
  BY DEF StoreInv, AsksOK

LEMMA RowWritten ==
    ASSUME StoreInv, NEW r \in Runs, NEW x, KeepsOwner(r, x),
           LeasesKept, AsksOK'
    PROVE  StoreInv'
<1>1. RowsOK'
  BY OneRow DEF KeepsOwner
<1>2. \A i \in Runs : /\ run'[i].supervisor_id = run[i].supervisor_id
                      /\ run'[i].generation = run[i].generation
  BY DEF KeepsOwner, StoreInv, RowsOK
<1>3. LeaseNamesOwner'
  BY <1>2, SameOwners DEF LeasesKept
<1> QED
  BY <1>1, <1>3 DEF StoreInv, LeasesKept

LEMMA RunsSame ==
    ASSUME StoreInv, UNCHANGED run, LeasesKept, AsksOK'
    PROVE  StoreInv'
<1>1. RowsOK'
  BY DEF StoreInv, RowsOK, RowOK
<1>2. LeaseNamesOwner'
  BY SameOwners DEF LeasesKept
<1> QED
  BY <1>1, <1>2 DEF StoreInv, LeasesKept

LEMMA AdmitInv ==
    ASSUME StoreInv, NEW r \in Runs, NEW v \in Versions, Admit(r, v)
    PROVE  StoreInv'
<1> DEFINE x == [NoRun EXCEPT !.status = "queued", !.version = v]
<1>1. run[r] = NoRun
  BY DEF StoreInv, RowsOK, RowOK, Admit, CanAdmit, Exists
<1>2. run' = [run EXCEPT ![r] = x]
  BY <1>1 DEF Admit, StoreInv, RowsOK, RunRow, NoRun
<1>3. RowOK(x)
  <2>1. /\ x.status = "queued" /\ x.desired = "running"
        /\ x.retention = "active"
    BY DEF NoRun
  <2>2. NoRun \in RunRow
    BY <1>1 DEF StoreInv, RowsOK
  <2>3. x \in RunRow
    BY <2>2 DEF RunRow, Statuses, Unclaimed
  <2> QED
    BY <2>1, <2>3 DEF RowOK, Owned, Live
<1>4. KeepsOwner(r, x)
  BY <1>1, <1>2, <1>3 DEF KeepsOwner, NoRun
<1> QED
  BY <1>4, RowWritten, SameLeases, SameAsks DEF Admit

(* The write of all the columns but the owner, the generation and version.  *)
Write(r, d, s, t, b, h) ==
    run' = [run EXCEPT ![r] =
      [run[r] EXCEPT !.desired = d, !.status = s, !.retention = t,
                     !.stale = b, !.rollout = h]]

LEMMA RowChanged ==
    ASSUME StoreInv, NEW r \in Runs, Exists(r),
           NEW d \in {"running", "stopped", "deleted"},
           NEW s \in Statuses \ {"none"},
           NEW t \in {"active", "delete_requested"},
           NEW b, b \in BOOLEAN, NEW h \in Gens \cup {NULL},
           s \in Owned => run[r].status \in Owned,
           s \in Unclaimed => d = "running" /\ t = "active",
           Write(r, d, s, t, b, h)
    PROVE  \E x : KeepsOwner(r, x)
<1> DEFINE x == [run[r] EXCEPT !.desired = d, !.status = s, !.retention = t,
                              !.stale = b, !.rollout = h]
<1>1. run[r] \in RunRow /\ RowOK(run[r])
  BY DEF StoreInv, RowsOK
<1>2. /\ x \in RunRow /\ x.status = s /\ x.desired = d /\ x.retention = t
      /\ x.supervisor_id = run[r].supervisor_id
      /\ x.generation = run[r].generation
  BY <1>1 DEF RunRow
<1>3. RowOK(x)
  BY <1>1, <1>2 DEF RowOK
<1> QED
  BY <1>2, <1>3 DEF KeepsOwner, Write

(* The shapes in which the transactions write a row.                        *)
LEMMA RowShapes ==
    ASSUME StoreInv, NEW r \in Runs, NEW d, NEW s, NEW t, NEW b, NEW h
    PROVE  /\ Settle(r, s) =>
                Write(r, run[r].desired, s, run[r].retention, run[r].stale,
                      run[r].rollout)
           /\ run' = [run EXCEPT ![r].stale = b] =>
                Write(r, run[r].desired, run[r].status, run[r].retention, b,
                      run[r].rollout)
           /\ run' = [run EXCEPT ![r].rollout = h] =>
                Write(r, run[r].desired, run[r].status, run[r].retention,
                      run[r].stale, h)
           /\ run' = [run EXCEPT ![r].desired = d, ![r].status = s] =>
                Write(r, d, s, run[r].retention, run[r].stale, run[r].rollout)
           /\ run' = [run EXCEPT ![r].desired = d, ![r].retention = t,
                                 ![r].status = s] =>
                Write(r, d, s, t, run[r].stale, run[r].rollout)
<1>1. run \in [Runs -> RunRow] /\ run[r] \in RunRow
  BY DEF StoreInv, RowsOK
<1> QED
  BY <1>1, ZenonT(60) DEF RunRow, Write, Settle

LEMMA RowFields ==
    ASSUME StoreInv, NEW r \in Runs
    PROVE  /\ run[r].desired \in {"running", "stopped", "deleted"}
           /\ run[r].status \in Statuses
           /\ run[r].retention \in {"active", "delete_requested"}
           /\ run[r].supervisor_id \in Owners \cup {NULL}
           /\ run[r].generation \in 0 .. MaxGen
           /\ run[r].stale \in BOOLEAN /\ run[r].rollout \in Gens \cup {NULL}
           /\ run[r].status \in Owned =>
                 /\ run[r].supervisor_id \in Owners
                 /\ run[r].generation \in Gens
                 /\ lease[<<r, run[r].generation>>].supervisor_id
                      = run[r].supervisor_id
           /\ run[r].status \in Unclaimed => Wanted(r)
<1>1. run[r] \in RunRow /\ RowOK(run[r])
  BY DEF StoreInv, RowsOK
<1>2. run[r].generation \in Nat /\ MaxGen \in Nat
  BY <1>1, ConstantFacts DEF RunRow
<1>3. run[r].status \in Owned =>
         run[r].supervisor_id \in Owners /\ run[r].generation \in Gens
  BY <1>1, <1>2, ConstantFacts DEF RowOK, RunRow, Gens
<1>4. run[r].status \in Owned =>
         lease[<<r, run[r].generation>>].supervisor_id = run[r].supervisor_id
  BY <1>3 DEF StoreInv, LeaseNamesOwner
<1> QED
  BY <1>1, <1>3, <1>4 DEF RowOK, RunRow, Wanted

(* Statuses that are not owned are the free ones, the ended ones and none.  *)
LEMMA StatusSets ==
    /\ Statuses = {"none"} \cup Owned \cup Unclaimed \cup Ended
    /\ "none" \notin Owned \cup Unclaimed \cup Ended
    /\ Owned \cap Unclaimed = {} /\ Owned \cap Ended = {}
    /\ Unclaimed \cap Ended = {} /\ Live \subseteq Owned
    /\ "stopping" \in Owned /\ "stopping" \notin Live
    /\ {"queued", "orphaned"} = Unclaimed
    /\ {"cancelled", "failed"} \subseteq Ended
    /\ {"starting", "waiting"} \subseteq Live
  BY DEF Statuses, Owned, Live, Unclaimed, Ended

LEMMA SettleKeeps ==
    ASSUME StoreInv, NEW r \in Runs, NEW s \in Statuses \ {"none"},
           run[r].status \in Owned, s \in Unclaimed => Wanted(r), Settle(r, s)
    PROVE  \E x : KeepsOwner(r, x)
<1>1. Write(r, run[r].desired, s, run[r].retention, run[r].stale,
            run[r].rollout)
  BY RowShapes
<1>2. Exists(r) /\ (s \in Owned => run[r].status \in Owned)
  BY StatusSets DEF Exists
<1>3. s \in Unclaimed => run[r].desired = "running" /\ run[r].retention = "active"
  BY DEF Wanted
<1> QED
  BY <1>1, <1>2, <1>3, RowFields, RowChanged DEF Write

(* A new heartbeat or thread leaves status and intent alone.                *)
LEMMA TouchKeeps ==
    ASSUME StoreInv, NEW r \in Runs, run[r].status \in Owned,
           NEW b, b \in BOOLEAN, NEW h \in Gens,
           \/ run' = [run EXCEPT ![r].stale = b]
           \/ run' = [run EXCEPT ![r].rollout = h]
    PROVE  \E x : KeepsOwner(r, x)
<1>1. /\ run \in [Runs -> RunRow] /\ run[r] \in RunRow /\ RowOK(run[r])
  BY DEF StoreInv, RowsOK
<1>2. CASE run' = [run EXCEPT ![r].stale = b]
  <2> DEFINE x == [run[r] EXCEPT !.stale = b]
  <2>1. /\ x \in RunRow /\ x.status = run[r].status
        /\ x.desired = run[r].desired /\ x.retention = run[r].retention
        /\ x.supervisor_id = run[r].supervisor_id
        /\ x.generation = run[r].generation
    BY <1>1 DEF RunRow
  <2>2. run' = [run EXCEPT ![r] = x]
    BY <1>1, <1>2
  <2>3. RowOK(x)
    BY <1>1, <2>1, StatusSets DEF RowOK
  <2> QED
    BY <2>1, <2>2, <2>3 DEF KeepsOwner
<1>3. CASE run' = [run EXCEPT ![r].rollout = h]
  <2> DEFINE x == [run[r] EXCEPT !.rollout = h]
  <2>1. /\ x \in RunRow /\ x.status = run[r].status
        /\ x.desired = run[r].desired /\ x.retention = run[r].retention
        /\ x.supervisor_id = run[r].supervisor_id
        /\ x.generation = run[r].generation
    BY <1>1 DEF RunRow
  <2>2. run' = [run EXCEPT ![r] = x]
    BY <1>1, <1>3
  <2>3. RowOK(x)
    BY <1>1, <2>1, StatusSets DEF RowOK
  <2> QED
    BY <2>1, <2>2, <2>3 DEF KeepsOwner
<1> QED
  BY <1>2, <1>3

LEMMA LeaseEnds ==
    ASSUME StoreInv, NEW r \in Runs, run[r].status \in Owned,
           NEW s \in {"running", "stopped", "orphaned"},
           EndLease(r, run[r].generation, s)
    PROVE  LeasesKept
<1>1. run[r].generation \in Gens /\ LeaseOnly(r, run[r].generation, s)
  BY RowFields, ConstantFacts DEF LeaseOnly
<1> QED
  BY <1>1, EndLeaseFacts DEF LeasesKept

LEMMA RecordHandleInv ==
    ASSUME StoreInv, NEW r \in Runs, NEW o \in Owners, NEW g \in Gens,
           RecordHandle(r, o, g)
    PROVE  StoreInv'
<1>1. run[r].status \in Owned /\ Exists(r) /\ g = run[r].generation
  BY StatusSets DEF RecordHandle, CanRecord, Owns, Exists
<1>2. PICK x : KeepsOwner(r, x)
  <2>1. run' = [run EXCEPT ![r].stale = FALSE]
    BY DEF RecordHandle
  <2> QED
    BY <1>1, <2>1, TouchKeeps
<1>3. LeasesKept
  BY <1>1, LeaseEnds DEF RecordHandle
<1> QED
  BY <1>2, <1>3, RowWritten, SameAsks DEF RecordHandle

LEMMA HeartbeatInv ==
    ASSUME StoreInv, NEW r \in Runs, NEW o \in Owners, NEW g \in Gens,
           Heartbeat(r, o, g)
    PROVE  StoreInv'
<1>1. run[r].status \in Owned /\ Exists(r)
  BY StatusSets DEF Heartbeat, CanHeartbeat, Exists
<1>2. PICK x : KeepsOwner(r, x)
  <2>1. run' = [run EXCEPT ![r].stale = FALSE]
    BY DEF Heartbeat
  <2> QED
    BY <1>1, <2>1, TouchKeeps
<1> QED
  BY <1>2, RowWritten, SameLeases, SameAsks DEF Heartbeat

LEMMA SetStatusInv ==
    ASSUME StoreInv, NEW r \in Runs, NEW o \in Owners, NEW g \in Gens,
           NEW s \in Statuses \ {"none", "stopping"}, SetStatus(r, o, g, s)
    PROVE  StoreInv'
<1>1. PICK x : KeepsOwner(r, x)
  BY SettleKeeps, StatusSets DEF SetStatus, CanSetStatus
<1> QED
  BY <1>1, RowWritten, SameLeases, SameAsks DEF SetStatus

LEMMA FinishLeaseInv ==
    ASSUME StoreInv, NEW r \in Runs, NEW o \in Owners, NEW g \in Gens,
           FinishLease(r, o, g)
    PROVE  StoreInv'
<1>1. LeaseOnly(r, g, "stopped")
  BY ConstantFacts DEF FinishLease, LeaseOnly
<1>2. LeasesKept
  BY <1>1, EndLeaseFacts DEF LeasesKept
<1> QED
  BY <1>2, RunsSame, SameAsks DEF FinishLease

LEMMA BindThreadInv ==
    ASSUME StoreInv, NEW r \in Runs, NEW o \in Owners, NEW g \in Gens,
           NEW t \in Gens, BindThread(r, o, g, t)
    PROVE  StoreInv'
<1>1. run[r].status \in Owned /\ Exists(r)
  BY StatusSets DEF BindThread, CanBind, Exists
<1>2. PICK x : KeepsOwner(r, x)
  <2>1. run' = [run EXCEPT ![r].rollout = t]
    BY DEF BindThread
  <2> QED
    BY <1>1, <2>1, TouchKeeps
<1> QED
  BY <1>2, RowWritten, SameLeases, SameAsks DEF BindThread

LEMMA OrphanInv ==
    ASSUME StoreInv, NEW r \in Runs, Orphan(r) PROVE StoreInv'
<1>1. run[r].status \in Owned /\ Wanted(r)
  BY StatusSets DEF Orphan, CanOrphan
<1>2. PICK x : KeepsOwner(r, x)
  BY <1>1, SettleKeeps, StatusSets DEF Orphan
<1>3. LeasesKept
  BY <1>1, LeaseEnds DEF Orphan
<1>4. AsksOK'
  BY CloseKeepsAsks DEF Orphan, Closed
<1> QED
  BY <1>2, <1>3, <1>4, RowWritten

LEMMA CancelStaleInv ==
    ASSUME StoreInv, NEW r \in Runs, CancelStale(r) PROVE StoreInv'
<1>1. run[r].status \in Owned
  BY StatusSets DEF CancelStale, CanCancelStale
<1>2. PICK x : KeepsOwner(r, x)
  BY <1>1, SettleKeeps, StatusSets DEF CancelStale
<1>3. LeasesKept
  BY <1>1, LeaseEnds DEF CancelStale
<1>4. AsksOK'
  BY CloseKeepsAsks DEF CancelStale, Closed, Answers
<1> QED
  BY <1>2, <1>3, <1>4, RowWritten

LEMMA FinalizeInv ==
    ASSUME StoreInv, NEW r \in Runs, NEW o \in Owners, NEW g \in Gens,
           Finalize(r, o, g)
    PROVE  StoreInv'
<1>1. run[r].status \in Owned /\ g = run[r].generation
  BY StatusSets DEF Finalize, CanFinalize, Owns
<1>2. PICK x : KeepsOwner(r, x)
  BY <1>1, SettleKeeps, StatusSets DEF Finalize
<1>3. LeasesKept
  BY <1>1, LeaseEnds DEF Finalize
<1>4. AsksOK'
  BY CloseKeepsAsks DEF Finalize, Closed, Answers
<1> QED
  BY <1>2, <1>3, <1>4, RowWritten

LEMMA LapseInv ==
    ASSUME StoreInv, NEW r \in Runs, Lapse(r) PROVE StoreInv'
<1>1. run[r].status \in Owned /\ run' = [run EXCEPT ![r].stale = TRUE]
  BY DEF Lapse
<1>2. PICK h \in Gens : TRUE
  BY <1>1, RowFields
<1>3. PICK x : KeepsOwner(r, x)
  BY <1>1, <1>2, TouchKeeps
<1> QED
  BY <1>3, RowWritten, SameLeases, SameAsks DEF Lapse

(* A withdrawn run: over at once or left to its owner, never free.          *)
LEMMA WithdrawKeeps ==
    ASSUME StoreInv, NEW r \in Runs, Exists(r),
           NEW d \in {"stopped", "deleted"},
           NEW s \in Owned \cup Ended,
           s \in Owned => run[r].status \in Owned,
           \/ run' = [run EXCEPT ![r].desired = d, ![r].status = s]
           \/ run' = [run EXCEPT ![r].desired = d,
                                 ![r].retention = "delete_requested",
                                 ![r].status = s]
    PROVE  \E x : KeepsOwner(r, x)
<1>1. s \in Statuses \ {"none"} /\ s \notin Unclaimed
  BY StatusSets
<1>2. CASE run' = [run EXCEPT ![r].desired = d, ![r].status = s]
  <2>1. Write(r, d, s, run[r].retention, run[r].stale, run[r].rollout)
    BY <1>2, RowShapes
  <2> QED
    BY <1>1, <2>1, RowFields, RowChanged DEF Write
<1>3. CASE run' = [run EXCEPT ![r].desired = d,
                              ![r].retention = "delete_requested",
                              ![r].status = s]
  <2>1. Write(r, d, s, "delete_requested", run[r].stale, run[r].rollout)
    BY <1>3, RowShapes
  <2> QED
    BY <1>1, <2>1, RowFields, RowChanged DEF Write
<1> QED
  BY <1>2, <1>3

LEMMA TerminalizeInv ==
    ASSUME StoreInv, NEW r \in Runs, NEW v \in Versions, Terminalize(r, v)
    PROVE  StoreInv'
<1>1. /\ Exists(r) /\ "failed" \in Owned \cup Ended /\ "failed" \notin Owned
      /\ run' = [run EXCEPT ![r].desired = "stopped", ![r].status = "failed"]
  BY StatusSets DEF Terminalize, CanTerminalize, Exists
<1>2. PICK x : KeepsOwner(r, x)
  BY <1>1, WithdrawKeeps
<1>3. LeasesKept
  BY DEF Terminalize, StoreInv, LeasesOK, LeasesKept, LeaseRow, NoLease
<1>4. AsksOK'
  BY CloseKeepsAsks DEF Terminalize, Closed, Answers
<1> QED
  BY <1>2, <1>3, <1>4, RowWritten

(* A run without an owner is not in the hands of one.                       *)
LEMMA IdleFacts ==
    ASSUME StoreInv, NEW r \in Runs
    PROVE  Idle(r) => run[r].status \notin Owned
  BY RowFields, ConstantFacts, StatusSets DEF Idle

LEMMA RequestStopInv ==
    ASSUME StoreInv, NEW r \in Runs, NEW o, NEW g, RequestStop(r, o, g)
    PROVE  StoreInv'
<1> DEFINE s == IF Idle(r) THEN "cancelled" ELSE "stopping"
<1>1. /\ run[r].status \in Owned \cup Unclaimed
      /\ run' = [run EXCEPT ![r].desired = "stopped", ![r].status = s]
  BY DEF RequestStop, CanStop
<1>2. Exists(r)
  BY <1>1, StatusSets DEF Exists
<1>3. CASE Idle(r)
  <2>1. "cancelled" \in Owned \cup Ended /\ "cancelled" \notin Owned
    BY StatusSets
  <2>2. PICK x : KeepsOwner(r, x)
    BY <1>1, <1>2, <1>3, <2>1, WithdrawKeeps
  <2>3. AsksOK'
    BY <1>3, CloseKeepsAsks DEF RequestStop, Closed, Answers
  <2> QED
    BY <2>2, <2>3, RowWritten, SameLeases DEF RequestStop
<1>4. CASE ~Idle(r)
  <2>1. "stopping" \in Owned \cup Ended /\ run[r].status \in Owned
    BY <1>1, <1>4, StatusSets DEF Idle
  <2>2. PICK x : KeepsOwner(r, x)
    BY <1>1, <1>2, <1>4, <2>1, WithdrawKeeps
  <2>3. UNCHANGED ask
    BY <1>4 DEF RequestStop
  <2> QED
    BY <2>2, <2>3, RowWritten, SameLeases, SameAsks DEF RequestStop
<1> QED
  BY <1>3, <1>4

(* What a delete makes of the status.                                       *)
Deleted(r, s) ==
    /\ Exists(r)
    /\ run' = [run EXCEPT ![r].desired = "deleted",
                          ![r].retention = "delete_requested",
                          ![r].status = s]
    /\ \/ run[r].status \in Ended /\ s = run[r].status
       \/ run[r].status \in Unclaimed /\ s = "cancelled"
       \/ run[r].status \in Owned /\ s = "stopping"

LEMMA DeleteFacts ==
    ASSUME StoreInv, NEW r \in Runs, RequestDelete(r)
    PROVE  \E s \in Owned \cup Ended : Deleted(r, s)
<1>1. Exists(r) /\ run[r].status \in Ended \cup Unclaimed \cup Owned
  BY RowFields, StatusSets DEF RequestDelete, Exists
<1>2. CASE run[r].status \in Ended
  BY <1>1, <1>2 DEF RequestDelete, Deleted
<1>3. CASE run[r].status \in Unclaimed
  <2>1. run[r].status \notin Ended /\ Idle(r) /\ "cancelled" \in Ended
    BY <1>3, StatusSets DEF Idle
  <2> QED
    BY <1>1, <1>3, <2>1 DEF RequestDelete, Deleted
<1>4. CASE run[r].status \in Owned
  <2>1. run[r].status \notin Ended /\ ~Idle(r) /\ "stopping" \in Owned
    BY <1>4, IdleFacts, StatusSets
  <2> QED
    BY <1>1, <1>4, <2>1 DEF RequestDelete, Deleted
<1> QED
  BY <1>1, <1>2, <1>3, <1>4

LEMMA RequestDeleteInv ==
    ASSUME StoreInv, NEW r \in Runs, RequestDelete(r) PROVE StoreInv'
<1>1. PICK s \in Owned \cup Ended : Deleted(r, s)
  BY DeleteFacts
<1>2. s \in Owned => run[r].status \in Owned
  BY <1>1, StatusSets DEF Deleted
<1>3. PICK x : KeepsOwner(r, x)
  BY <1>1, <1>2, WithdrawKeeps DEF Deleted
<1>4. UNCHANGED lease /\ (UNCHANGED ask \/ Close(r, "cancelled"))
  BY DEF RequestDelete
<1>5. AsksOK'
  BY <1>4, SameAsks, CloseKeepsAsks DEF Closed, Answers
<1> QED
  BY <1>3, <1>4, <1>5, RowWritten, SameLeases

LEMMA AskInv ==
    ASSUME StoreInv, NEW r \in Runs, NEW o \in Owners, NEW g \in Gens,
           NEW q \in Questions, Ask(r, o, g, q)
    PROVE  StoreInv'
<1>1. run[r].status \in Owned
  BY StatusSets DEF Ask, CanAsk
<1>2. PICK x : KeepsOwner(r, x)
  BY <1>1, SettleKeeps, StatusSets DEF Ask
<1>3. AsksOK'
  BY DEF Ask, StoreInv, AsksOK, AskRow, Open
<1> QED
  BY <1>2, <1>3, RowWritten, SameLeases DEF Ask

LEMMA QuestionsInv ==
    ASSUME StoreInv,
           \/ \E r \in Runs : CancelQuestions(r)
           \/ \E q \in Questions :
                \/ Deliver(q)
                \/ \E s \in Answers \cup {"expired"} : Answer(q, s)
    PROVE  StoreInv'
<1>1. CASE \E r \in Runs : CancelQuestions(r)
  BY <1>1, CloseKeepsAsks, RunsSame, SameLeases
  DEF CancelQuestions, Closed, Answers
<1>2. ASSUME NEW q \in Questions, Deliver(q) PROVE StoreInv'
  <2>1. AsksOK'
    BY <1>2 DEF Deliver, StoreInv, AsksOK, AskRow, Open
  <2> QED
    BY <1>2, <2>1, RunsSame, SameLeases DEF Deliver
<1>3. ASSUME NEW q \in Questions, NEW s \in Answers \cup {"expired"},
             Answer(q, s)
      PROVE  StoreInv'
  <2>1. AsksOK'
    BY <1>3 DEF Answer, StoreInv, AsksOK, AskRow, Closed
  <2> QED
    BY <1>3, <2>1, RunsSame, SameLeases DEF Answer
<1> QED
  BY <1>1, <1>2, <1>3

-----------------------------------------------------------------------------
(* The claim, which alone changes owners *)

LEMMA ClaimInv ==
    ASSUME StoreInv, NEW r \in Runs, NEW o \in Owners, NEW v \in Versions,
           Claim(r, o, v)
    PROVE  StoreInv'
<1> DEFINE g == run[r].generation + 1
           x == [run[r] EXCEPT !.supervisor_id = o, !.generation = g,
                               !.status = "starting", !.stale = FALSE]
<1>1. run[r] \in RunRow /\ run \in [Runs -> RunRow] /\ g \in Gens
  BY DEF StoreInv, RowsOK, Claim
<1>2. run' = [run EXCEPT ![r] = x]
  BY <1>1 DEF Claim, RunRow
<1>3. RowOK(x)
  <2>1. x \in RunRow /\ x.status = "starting"
    <3>1. g \in 0 .. MaxGen
      BY <1>1 DEF Gens
    <3>2. "starting" \in Statuses
      BY StatusSets
    <3> HIDE DEF g
    <3> QED
      BY <1>1, <3>1, <3>2 DEF RunRow
  <2>2. x.supervisor_id = o /\ x.generation = g
    BY <1>1 DEF RunRow
  <2> QED
    BY <1>1, <2>1, <2>2, ConstantFacts DEF RowOK, Owned, Live, Unclaimed
<1>4. RowsOK'
  BY <1>2, <1>3, OneRow
<1>5. LeasesOK' /\ AsksOK'
  BY <1>1 DEF Claim, StoreInv, LeasesOK, LeaseRow, AsksOK
<1>6. LeaseNamesOwner'
  <2>1. SUFFICES ASSUME NEW i \in Runs, NEW h \in Gens
                 PROVE  /\ h = run'[i].generation
                             => lease'[<<i, h>>].supervisor_id
                                  = run'[i].supervisor_id
                        /\ h > run'[i].generation => lease'[<<i, h>>] = NoLease
    BY DEF LeaseNamesOwner
  <2>2. /\ h = run[i].generation
             => lease[<<i, h>>].supervisor_id = run[i].supervisor_id
        /\ h > run[i].generation => lease[<<i, h>>] = NoLease
    BY DEF StoreInv, LeaseNamesOwner
  <2>3. /\ lease \in [Runs \X Gens -> LeaseRow] /\ <<i, h>> \in Runs \X Gens
        /\ lease' = [lease EXCEPT ![<<r, g>>] =
                       [supervisor_id |-> o, status |-> "starting"]]
    BY DEF StoreInv, LeasesOK, Claim
  <2>4. CASE i # r
    BY <1>1, <1>2, <2>2, <2>3, <2>4
  <2>5. CASE i = r
    <3>1. run'[i].generation = g /\ run'[i].supervisor_id = o
      BY <1>1, <1>2, <2>5 DEF RunRow
    <3>2. run[r].generation \in Nat /\ h \in Nat
      BY <1>1, ConstantFacts DEF RunRow
    <3> QED
      BY <1>1, <2>2, <2>3, <2>5, <3>1, <3>2
  <2> QED
    BY <2>4, <2>5
<1> QED
  BY <1>4, <1>5, <1>6 DEF StoreInv

LEMMA NextInv == StoreInv /\ [StoreNext]_storeVars => StoreInv'
<1> SUFFICES ASSUME StoreInv, [StoreNext]_storeVars PROVE StoreInv'
  OBVIOUS
<1>1. CASE UNCHANGED storeVars
  BY <1>1, RunsSame, SameLeases, SameAsks DEF storeVars
<1>2. ASSUME NEW r \in Runs, NEW v \in Versions, Admit(r, v) \/ Terminalize(r, v)
      PROVE  StoreInv'
  BY <1>2, AdmitInv, TerminalizeInv
<1>3. ASSUME NEW r \in Runs, NEW o \in Owners, NEW v \in Versions, Claim(r, o, v)
      PROVE  StoreInv'
  BY <1>3, ClaimInv
<1>4. ASSUME NEW r \in Runs, NEW o \in Owners, NEW g \in Gens, OwnerStep(r, o, g)
      PROVE  StoreInv'
  <2>1. CASE RecordHandle(r, o, g) \/ Heartbeat(r, o, g)
    BY <2>1, RecordHandleInv, HeartbeatInv
  <2>2. CASE FinishLease(r, o, g) \/ Finalize(r, o, g)
    BY <2>2, FinishLeaseInv, FinalizeInv
  <2>3. CASE \E s \in Statuses \ {"none", "stopping"} : SetStatus(r, o, g, s)
    BY <2>3, SetStatusInv
  <2>4. ASSUME NEW t \in 1 .. g, BindThread(r, o, g, t) PROVE StoreInv'
    <3>1. t \in Gens
      BY ConstantFacts DEF Gens
    <3> QED
      BY <2>4, <3>1, BindThreadInv
  <2>5. CASE \E q \in Questions : Ask(r, o, g, q)
    BY <2>5, AskInv
  <2> QED
    BY <1>4, <2>1, <2>2, <2>3, <2>4, <2>5 DEF OwnerStep
<1>5. ASSUME NEW r \in Runs, NEW o, NEW g, RequestStop(r, o, g)
      PROVE  StoreInv'
  BY <1>5, RequestStopInv
<1>6. ASSUME NEW r \in Runs, RequestDelete(r) \/ Orphan(r) \/ CancelStale(r)
                               \/ Lapse(r)
      PROVE  StoreInv'
  BY <1>6, RequestDeleteInv, OrphanInv, CancelStaleInv, LapseInv
<1>7. CASE \/ \E r \in Runs : CancelQuestions(r)
           \/ \E q \in Questions :
                \/ Deliver(q)
                \/ \E s \in Answers \cup {"expired"} : Answer(q, s)
  BY <1>7, QuestionsInv
<1> QED
  BY <1>1, <1>2, <1>3, <1>4, <1>5, <1>6, <1>7 DEF StoreNext

LEMMA InvHolds == StoreSpec => []StoreInv
<1>1. Init => StoreInv
  BY InitInv
<1>2. StoreInv /\ [StoreNext]_storeVars => StoreInv'
  BY NextInv
<1> QED
  BY <1>1, <1>2, PTL DEF StoreSpec

(***************************************************************************)
(* The rows of runs, leases and questions keep their types, and a run that *)
(* is owned has an owner and a generation, whatever is called.             *)
(***************************************************************************)
THEOREM StoreTypeCorrect == StoreSpec => []StoreTypeOK
  BY InvHolds, InvGivesType, PTL

(***************************************************************************)
(* The lease of the current generation is the lease of the recorded owner: *)
(* a claim writes both or neither, and nothing else writes an owner.       *)
(***************************************************************************)
THEOREM LeaseNamesOwnerHolds == StoreSpec => []LeaseNamesOwner
<1>1. StoreInv => LeaseNamesOwner
  BY DEF StoreInv
<1> QED
  BY <1>1, InvHolds, PTL

-----------------------------------------------------------------------------
(* What a step does to a run: every transaction has one of six effects.     *)

SameIntent(r) == run'[r].desired = run[r].desired
                   /\ run'[r].retention = run[r].retention
SameOwner(r) == run'[r].supervisor_id = run[r].supervisor_id
                  /\ run'[r].generation = run[r].generation

Admitted(r) ==
    /\ run[r] = NoRun /\ Cardinality(Counted) < MaxActive
    /\ run'[r].status = "queued" /\ SameIntent(r) /\ SameOwner(r)
Claimed(r) ==
    /\ run[r].status \in Unclaimed /\ Wanted(r) /\ SameIntent(r)
    /\ run'[r].status = "starting" /\ run'[r].supervisor_id \in Owners
    /\ run'[r].generation = run[r].generation + 1
Kept(r) ==
    /\ run[r].status \in Owned /\ SameIntent(r) /\ SameOwner(r)
    /\ run'[r].status \in Owned
    /\ Wanted(r) \/ run'[r].status = run[r].status
    /\ run'[r].status = "stopping" => run[r].status = "stopping"
Released(r) ==
    /\ run[r].status \in Owned /\ Wanted(r) /\ SameIntent(r) /\ SameOwner(r)
    /\ run'[r].status \in Unclaimed
Finished(r) ==
    /\ run[r].status \in Owned /\ SameIntent(r) /\ SameOwner(r)
    /\ run'[r].status \in Ended
    /\ Wanted(r) \/ run'[r].status = "cancelled"
Withdrawn(r) ==
    /\ run[r].status # "none" /\ SameOwner(r)
    /\ run'[r].desired # "running"
    /\ \/ run[r].status \in Owned /\ run'[r].status = "stopping"
       \/ run[r].status \in Unclaimed /\ run'[r].status \in Ended
       \/ run[r].status \in Ended /\ run'[r].status = run[r].status
RunStep(r) ==
    /\ \A i \in Runs \ {r} : run'[i] = run[i]
    /\ \/ Admitted(r) \/ Claimed(r) \/ Kept(r) \/ Released(r)
       \/ Finished(r) \/ Withdrawn(r)

(* The columns after each shape of a write.                                 *)
OtherRows(r) == \A i \in Runs \ {r} : run'[i] = run[i]

LEMMA SettledColumns ==
    ASSUME StoreInv, NEW r \in Runs, NEW s, Settle(r, s)
    PROVE  OtherRows(r) /\ SameIntent(r) /\ SameOwner(r) /\ run'[r].status = s
<1>1. run \in [Runs -> RunRow] /\ run[r] \in RunRow
  BY DEF StoreInv, RowsOK
<1> QED
  BY <1>1 DEF RunRow, Settle, OtherRows, SameIntent, SameOwner

LEMMA TouchedColumns ==
    ASSUME StoreInv, NEW r \in Runs, NEW b, NEW h,
           \/ run' = [run EXCEPT ![r].stale = b]
           \/ run' = [run EXCEPT ![r].rollout = h]
    PROVE  /\ OtherRows(r) /\ SameIntent(r) /\ SameOwner(r)
           /\ run'[r].status = run[r].status
<1>1. run \in [Runs -> RunRow] /\ run[r] \in RunRow
  BY DEF StoreInv, RowsOK
<1> QED
  BY <1>1 DEF RunRow, OtherRows, SameIntent, SameOwner

LEMMA WithdrawnColumns ==
    ASSUME StoreInv, NEW r \in Runs, NEW d, NEW s,
           \/ run' = [run EXCEPT ![r].desired = d, ![r].status = s]
           \/ run' = [run EXCEPT ![r].desired = d,
                                 ![r].retention = "delete_requested",
                                 ![r].status = s]
    PROVE  /\ OtherRows(r) /\ SameOwner(r)
           /\ run'[r].status = s /\ run'[r].desired = d
<1>1. run \in [Runs -> RunRow] /\ run[r] \in RunRow
  BY DEF StoreInv, RowsOK
<1> QED
  BY <1>1 DEF RunRow, OtherRows, SameOwner

LEMMA AdmitEffect ==
    ASSUME StoreInv, NEW r \in Runs, NEW v \in Versions, Admit(r, v)
    PROVE  RunStep(r)
<1>1. run \in [Runs -> RunRow] /\ run[r] \in RunRow /\ run[r] = NoRun
  BY DEF StoreInv, RowsOK, RowOK, Admit, CanAdmit, Exists
<1>2. run' = [run EXCEPT ![r].status = "queued", ![r].version = v]
  BY DEF Admit
<1>3. OtherRows(r) /\ SameIntent(r) /\ SameOwner(r) /\ run'[r].status = "queued"
  BY <1>1, <1>2 DEF RunRow, OtherRows, SameIntent, SameOwner
<1> QED
  BY <1>1, <1>3 DEF RunStep, Admitted, OtherRows, Admit, CanAdmit

LEMMA ClaimEffect ==
    ASSUME StoreInv, NEW r \in Runs, NEW o \in Owners, NEW v \in Versions,
           Claim(r, o, v)
    PROVE  RunStep(r) /\ Claimed(r) /\ run'[r].supervisor_id = o
<1>1. run \in [Runs -> RunRow] /\ run[r] \in RunRow
  BY DEF StoreInv, RowsOK
<1>2. run' = [run EXCEPT ![r].supervisor_id = o,
                         ![r].generation = run[r].generation + 1,
                         ![r].status = "starting", ![r].stale = FALSE]
  BY DEF Claim
<1>3. /\ OtherRows(r) /\ SameIntent(r) /\ run'[r].status = "starting"
      /\ run'[r].supervisor_id = o
      /\ run'[r].generation = run[r].generation + 1
  BY <1>1, <1>2 DEF RunRow, OtherRows, SameIntent
<1> QED
  BY <1>3 DEF RunStep, Claimed, OtherRows, Claim, CanClaim

LEMMA OwnerEffect ==
    ASSUME StoreInv, NEW r \in Runs, NEW o \in Owners, NEW g \in Gens,
           OwnerStep(r, o, g)
    PROVE  UNCHANGED run \/ RunStep(r)
<1>1. CASE RecordHandle(r, o, g) \/ Heartbeat(r, o, g)
  <2>1. run[r].status \in Owned /\ run' = [run EXCEPT ![r].stale = FALSE]
    BY <1>1, StatusSets DEF RecordHandle, Heartbeat, CanRecord, CanHeartbeat
  <2> QED
    BY <2>1, TouchedColumns DEF RunStep, Kept, OtherRows
<1>2. CASE FinishLease(r, o, g)
  BY <1>2 DEF FinishLease
<1>3. CASE Finalize(r, o, g)
  <2>1. run[r].status \in Owned /\ Settle(r, "cancelled")
    BY <1>3 DEF Finalize, CanFinalize
  <2> QED
    BY <2>1, SettledColumns, StatusSets DEF RunStep, Finished, OtherRows
<1>4. ASSUME NEW s \in Statuses \ {"none", "stopping"}, SetStatus(r, o, g, s)
      PROVE  RunStep(r)
  <2>1. /\ run[r].status \in Owned /\ Settle(r, s)
        /\ Wanted(r) \/ s = "cancelled"
    BY <1>4 DEF SetStatus, CanSetStatus
  <2>2. s \in Owned \cup Unclaimed \cup Ended
    BY StatusSets
  <2>3. s = "cancelled" => s \in Ended /\ s \notin Owned /\ s \notin Unclaimed
    BY StatusSets
  <2> QED
    BY <2>1, <2>2, <2>3, SettledColumns
    DEF RunStep, Finished, Kept, Released, OtherRows
<1>5. ASSUME NEW t \in 1 .. g, BindThread(r, o, g, t) PROVE RunStep(r)
  <2>1. run[r].status \in Owned /\ run' = [run EXCEPT ![r].rollout = t]
    BY <1>5, StatusSets DEF BindThread, CanBind
  <2> QED
    BY <2>1, TouchedColumns DEF RunStep, Kept, OtherRows
<1>6. ASSUME NEW q \in Questions, Ask(r, o, g, q) PROVE RunStep(r)
  <2>1. run[r].status \in Owned /\ Wanted(r) /\ Settle(r, "waiting")
    BY <1>6, StatusSets DEF Ask, CanAsk
  <2> QED
    BY <2>1, SettledColumns, StatusSets DEF RunStep, Kept, OtherRows
<1> QED
  BY <1>1, <1>2, <1>3, <1>4, <1>5, <1>6 DEF OwnerStep

LEMMA SweepEffect ==
    ASSUME StoreInv, NEW r \in Runs, Orphan(r) \/ CancelStale(r) \/ Lapse(r)
    PROVE  RunStep(r)
<1>1. CASE Orphan(r)
  <2>1. run[r].status \in Owned /\ Wanted(r) /\ Settle(r, "orphaned")
    BY <1>1, StatusSets DEF Orphan, CanOrphan
  <2> QED
    BY <2>1, SettledColumns, StatusSets DEF RunStep, Released, OtherRows
<1>2. CASE CancelStale(r)
  <2>1. run[r].status \in Owned /\ Settle(r, "cancelled")
    BY <1>2, StatusSets DEF CancelStale, CanCancelStale
  <2> QED
    BY <2>1, SettledColumns, StatusSets DEF RunStep, Finished, OtherRows
<1>3. CASE Lapse(r)
  <2>1. run[r].status \in Owned /\ run' = [run EXCEPT ![r].stale = TRUE]
    BY <1>3 DEF Lapse
  <2> QED
    BY <2>1, TouchedColumns DEF RunStep, Kept, OtherRows
<1> QED
  BY <1>1, <1>2, <1>3

LEMMA WithdrawEffect ==
    ASSUME StoreInv, NEW r \in Runs,
           \/ \E v \in Versions : Terminalize(r, v)
           \/ \E o \in Owners \cup {NULL}, g \in 0 .. MaxGen : RequestStop(r, o, g)
           \/ RequestDelete(r)
    PROVE  RunStep(r)
<1>1. ASSUME NEW v \in Versions, Terminalize(r, v) PROVE RunStep(r)
  <2>1. /\ run[r].status \in Unclaimed
        /\ run' = [run EXCEPT ![r].desired = "stopped", ![r].status = "failed"]
    BY <1>1 DEF Terminalize, CanTerminalize
  <2> QED
    BY <2>1, WithdrawnColumns, StatusSets, ZenonT(60)
    DEF RunStep, Withdrawn, OtherRows
<1>2. ASSUME NEW o, NEW g, RequestStop(r, o, g) PROVE RunStep(r)
  <2>1. run[r].status \in Owned \cup Unclaimed
    BY <1>2 DEF RequestStop, CanStop
  <2>2. CASE Idle(r)
    <3>1. run[r].status \in Unclaimed
      BY <2>1, <2>2, IdleFacts
    <3>2. run' = [run EXCEPT ![r].desired = "stopped", ![r].status = "cancelled"]
      BY <1>2, <2>2 DEF RequestStop
    <3> QED
      BY <3>1, <3>2, WithdrawnColumns, StatusSets, ZenonT(60)
      DEF RunStep, Withdrawn, OtherRows
  <2>3. CASE ~Idle(r)
    <3>1. run[r].status \in Owned
      BY <2>1, <2>3 DEF Idle
    <3>2. run' = [run EXCEPT ![r].desired = "stopped", ![r].status = "stopping"]
      BY <1>2, <2>3 DEF RequestStop
    <3> QED
      BY <3>1, <3>2, WithdrawnColumns, StatusSets
      DEF RunStep, Withdrawn, OtherRows
  <2> QED
    BY <2>2, <2>3
<1>3. ASSUME RequestDelete(r) PROVE RunStep(r)
  <2>1. PICK s \in Owned \cup Ended : Deleted(r, s)
    BY <1>3, DeleteFacts
  <2>2. /\ OtherRows(r) /\ SameOwner(r)
        /\ run'[r].status = s /\ run'[r].desired = "deleted"
    BY <2>1, WithdrawnColumns DEF Deleted
  <2> QED
    BY <2>1, <2>2, StatusSets
    DEF RunStep, Withdrawn, OtherRows, Deleted, Exists
<1> QED
  BY <1>1, <1>2, <1>3

LEMMA StepEffect ==
    ASSUME StoreInv, [StoreNext]_storeVars
    PROVE  UNCHANGED run \/ \E r \in Runs : RunStep(r)
<1>1. CASE UNCHANGED storeVars
  BY <1>1 DEF storeVars
<1>2. CASE StoreNext
  <2>1. CASE \E q \in Questions :
               \/ Deliver(q)
               \/ \E s \in Answers \cup {"expired"} : Answer(q, s)
    BY <2>1 DEF Deliver, Answer
  <2>2. CASE \E r \in Runs : CancelQuestions(r)
    BY <2>2 DEF CancelQuestions
  <2> QED
    BY <1>2, <2>1, <2>2, AdmitEffect, ClaimEffect, OwnerEffect, SweepEffect,
       WithdrawEffect
    DEF StoreNext
<1> QED
  BY <1>1, <1>2

(***************************************************************************)
(* A stop wins over a slow owner, the sweep and any claimer: a run that is *)
(* no longer wanted stays so and can only go on stopping or end cancelled. *)
(***************************************************************************)
THEOREM StopWinsHolds == StoreSpec => StopWins
<1>1. ASSUME StoreInv, [StoreNext]_storeVars, NEW r \in Runs,
             Exists(r), ~Wanted(r)
      PROVE  /\ run'[r].desired # "running" \/ run'[r].retention # "active"
             /\ run'[r].status \in {run[r].status, "stopping", "cancelled"}
             /\ run'[r].generation = run[r].generation
  <2>1. run[r].status \notin Unclaimed
    BY <1>1, RowFields
  <2>2. CASE UNCHANGED run
    BY <1>1, <2>2 DEF Wanted
  <2>3. ASSUME NEW i \in Runs, RunStep(i), i # r PROVE run'[r] = run[r]
    BY <2>3 DEF RunStep
  <2>4. CASE RunStep(r)
    <3>1. CASE Admitted(r)
      BY <1>1, <3>1 DEF Admitted, Exists, NoRun
    <3>2. CASE Claimed(r) \/ Released(r)
      BY <1>1, <3>2 DEF Claimed, Released
    <3>3. CASE Kept(r) \/ Finished(r)
      BY <1>1, <3>3 DEF Kept, Finished, SameIntent, SameOwner, Wanted
    <3>4. CASE Withdrawn(r)
      BY <2>1, <3>4 DEF Withdrawn, SameOwner
    <3> QED
      BY <2>4, <3>1, <3>2, <3>3, <3>4 DEF RunStep
  <2> QED
    BY <1>1, <2>2, <2>3, <2>4, StepEffect DEF Wanted
<1>2. StoreInv /\ [StoreNext]_storeVars =>
        [\A r \in Runs :
           Exists(r) /\ ~Wanted(r)
             => /\ run'[r].desired # "running" \/ run'[r].retention # "active"
                /\ run'[r].status \in {run[r].status, "stopping", "cancelled"}
                /\ run'[r].generation = run[r].generation]_storeVars
  BY <1>1
<1> QED
  BY <1>2, InvHolds, PTL DEF StoreSpec, StopWins

-----------------------------------------------------------------------------
(* Questions *)

LEMMA CloseIsFinal ==
    ASSUME StoreInv, NEW r, NEW s, Close(r, s) \/ UNCHANGED ask,
           NEW q \in Questions, ask[q].status \in Closed
    PROVE  ask'[q] = ask[q]
  BY DEF Close, OpenOf, Open, Closed, Answers

(* What a step may do to the questions.                                     *)
Closes == \E r \in Runs, s \in Closed : Close(r, s)
Asks ==
    \E r \in Runs, i \in Questions :
       /\ ask[i].status = "none"
       /\ ask' = [ask EXCEPT ![i] = [run_id |-> r, status |-> "pending"]]
Marks ==
    \E i \in Questions, s \in Closed \cup {"delivered"} :
       ask[i].status \in Open /\ ask' = [ask EXCEPT ![i].status = s]

LEMMA AskShapes ==
    ASSUME [StoreNext]_storeVars
    PROVE  UNCHANGED ask \/ Closes \/ Asks \/ Marks
<1>1. CASE UNCHANGED storeVars
  BY <1>1 DEF storeVars
<1>2. ASSUME NEW r \in Runs, NEW v \in Versions, Admit(r, v) \/ Terminalize(r, v)
      PROVE  UNCHANGED ask \/ Closes
  BY <1>2 DEF Admit, Terminalize, Closes, Closed, Answers
<1>3. ASSUME NEW r \in Runs, NEW o \in Owners, NEW v \in Versions, Claim(r, o, v)
      PROVE  UNCHANGED ask
  BY <1>3 DEF Claim
<1>4. ASSUME NEW r \in Runs, NEW o \in Owners, NEW g \in Gens, OwnerStep(r, o, g)
      PROVE  UNCHANGED ask \/ Closes \/ Asks
  <2>1. CASE \/ RecordHandle(r, o, g) \/ Heartbeat(r, o, g)
             \/ FinishLease(r, o, g)
             \/ \E s \in Statuses \ {"none", "stopping"} : SetStatus(r, o, g, s)
             \/ \E t \in 1 .. g : BindThread(r, o, g, t)
    BY <2>1 DEF RecordHandle, Heartbeat, FinishLease, SetStatus, BindThread
  <2>2. CASE Finalize(r, o, g)
    BY <2>2 DEF Finalize, Closes, Closed, Answers
  <2>3. CASE \E q \in Questions : Ask(r, o, g, q)
    BY <2>3 DEF Ask, Asks
  <2> QED
    BY <1>4, <2>1, <2>2, <2>3 DEF OwnerStep
<1>5. ASSUME NEW r \in Runs, NEW o, NEW g, RequestStop(r, o, g)
      PROVE  UNCHANGED ask \/ Closes
  BY <1>5 DEF RequestStop, Closes, Closed, Answers
<1>6. ASSUME NEW r \in Runs, RequestDelete(r) \/ CancelStale(r)
                               \/ Lapse(r) \/ CancelQuestions(r)
      PROVE  UNCHANGED ask \/ Closes
  <2>1. "cancelled" \in Closed
    BY DEF Closed, Answers
  <2> QED
    BY <1>6, <2>1
    DEF RequestDelete, CancelStale, Lapse, CancelQuestions, Closes
<1>7. ASSUME NEW r \in Runs, Orphan(r) PROVE Closes
  BY <1>7 DEF Orphan, Closes, Closed
<1>8. ASSUME NEW q \in Questions,
             Deliver(q) \/ \E s \in Answers \cup {"expired"} : Answer(q, s)
      PROVE  Marks
  BY <1>8 DEF Deliver, Answer, CanAnswer, Marks, Open, Closed, Answers
<1> QED
  BY <1>1, <1>2, <1>3, <1>4, <1>5, <1>6, <1>7, <1>8 DEF StoreNext

LEMMA AskEffect ==
    ASSUME StoreInv, [StoreNext]_storeVars, NEW q \in Questions,
           ask[q].status \in Closed
    PROVE  ask'[q] = ask[q]
<1>1. ask \in [Questions -> AskRow]
  BY DEF StoreInv, AsksOK
<1>2. ask[q].status # "none" /\ ask[q].status \notin Open
  BY DEF Closed, Answers, Open
<1>3. CASE UNCHANGED ask
  BY <1>3
<1>4. CASE Closes
  BY <1>4, CloseIsFinal DEF Closes
<1>5. CASE Asks \/ Marks
  BY <1>1, <1>2, <1>5 DEF Asks, Marks
<1> QED
  BY <1>3, <1>4, <1>5, AskShapes

(***************************************************************************)
(* A question is closed once: a client, the timeout, a stop and the sweep  *)
(* may all try, in any order, and only the first one writes.               *)
(***************************************************************************)
THEOREM AnsweredOnceHolds == StoreSpec => AnsweredOnce
<1>1. StoreInv /\ [StoreNext]_storeVars =>
        [\A q \in Questions :
           ask[q].status \in Closed => ask'[q] = ask[q]]_storeVars
  BY AskEffect
<1> QED
  BY <1>1, InvHolds, PTL DEF StoreSpec, AnsweredOnce

-----------------------------------------------------------------------------
(* The lifecycle *)

LEMMA PhaseFacts ==
    ASSUME NEW s \in Statuses
    PROVE  /\ s = "none" => PhaseOf(s) = "absent"
           /\ s \in Unclaimed => PhaseOf(s) = "free"
           /\ s \in Owned => PhaseOf(s) = "held"
           /\ s \in Ended => PhaseOf(s) = "over"
  BY DEF PhaseOf, Statuses, Unclaimed, Owned, Live, Ended

(* Runs that a step leaves alone look the same from outside.                *)
LEMMA LifeOthers ==
    ASSUME NEW i \in Runs, run'[i] = run[i]
    PROVE  /\ Phase(i)' = Phase(i) /\ Holder(i)' = Holder(i)
           /\ run'[i].generation = run[i].generation
           /\ Wanted(i)' = Wanted(i)
  BY DEF Phase, Holder, Wanted

LEMMA LifeInitial == Init => Lifecycle!LifeInit
<1> SUFFICES ASSUME Init PROVE Lifecycle!LifeInit
  OBVIOUS
<1>1. ASSUME NEW r \in Runs
      PROVE  /\ Phase(r) = "absent" /\ Holder(r) = NULL
             /\ run[r].generation = 0 /\ Wanted(r) = TRUE
  <2>1. run[r] = NoRun
    BY DEF Init
  <2>2. Phase(r) = "absent"
    BY <2>1, PhaseFacts, StatusSets DEF Phase, NoRun
  <2>3. Holder(r) = NULL
    BY <2>2 DEF Holder
  <2>4. run[r].generation = 0 /\ Wanted(r) = TRUE
    BY <2>1 DEF NoRun, Wanted
  <2> QED
    BY <2>2, <2>3, <2>4
<1> QED
  BY <1>1 DEF Lifecycle!LifeInit

(* A step of run r, seen from outside: what is left to show of each column. *)
LEMMA LifeStep ==
    ASSUME NEW r \in Runs, OtherRows(r)
    PROVE  /\ \A p : Phase(r)' = p =>
                [i \in Runs |-> Phase(i)]'
                  = [[i \in Runs |-> Phase(i)] EXCEPT ![r] = p]
           /\ \A h : Holder(r)' = h =>
                [i \in Runs |-> Holder(i)]'
                  = [[i \in Runs |-> Holder(i)] EXCEPT ![r] = h]
           /\ run'[r].generation = run[r].generation + 1 =>
                [i \in Runs |-> run[i].generation]'
                  = [[i \in Runs |-> run[i].generation] EXCEPT ![r] = @ + 1]
           /\ Wanted(r)' = FALSE =>
                [i \in Runs |-> Wanted(i)]'
                  = [[i \in Runs |-> Wanted(i)] EXCEPT ![r] = FALSE]
<1>1. ASSUME NEW i \in Runs, i # r
      PROVE  /\ Phase(i)' = Phase(i) /\ Holder(i)' = Holder(i)
             /\ run'[i].generation = run[i].generation
             /\ Wanted(i)' = Wanted(i)
  BY <1>1, LifeOthers DEF OtherRows
<1> QED
  BY <1>1

(* The columns that stay as they are.                                       *)
LEMMA LifeSame ==
    ASSUME NEW r \in Runs, OtherRows(r)
    PROVE  /\ Phase(r)' = Phase(r) =>
                UNCHANGED [i \in Runs |-> Phase(i)]
           /\ Holder(r)' = Holder(r) =>
                UNCHANGED [i \in Runs |-> Holder(i)]
           /\ run'[r].generation = run[r].generation =>
                UNCHANGED [i \in Runs |-> run[i].generation]
           /\ Wanted(r)' = Wanted(r) =>
                UNCHANGED [i \in Runs |-> Wanted(i)]
<1>1. ASSUME NEW i \in Runs, i # r
      PROVE  /\ Phase(i)' = Phase(i) /\ Holder(i)' = Holder(i)
             /\ run'[i].generation = run[i].generation
             /\ Wanted(i)' = Wanted(i)
  BY <1>1, LifeOthers DEF OtherRows
<1> QED
  BY <1>1

(* Phase and holder of a run before and after, from its status.             *)
LEMMA LifeStatus ==
    ASSUME NEW r \in Runs
    PROVE  /\ run[r].status = "none" => Phase(r) = "absent"
           /\ run[r].status \in Unclaimed => Phase(r) = "free"
           /\ run[r].status \in Owned => Phase(r) = "held"
           /\ run[r].status \in Ended => Phase(r) = "over"
           /\ Holder(r) = IF Phase(r) = "held" THEN run[r].supervisor_id
                          ELSE NULL
           /\ run'[r].status = "none" => Phase(r)' = "absent"
           /\ run'[r].status \in Unclaimed => Phase(r)' = "free"
           /\ run'[r].status \in Owned => Phase(r)' = "held"
           /\ run'[r].status \in Ended => Phase(r)' = "over"
           /\ Holder(r)' = IF Phase(r)' = "held" THEN run'[r].supervisor_id
                           ELSE NULL
<1>1. Phase(r)' = PhaseOf(run'[r].status) /\ Phase(r) = PhaseOf(run[r].status)
  BY DEF Phase, PhaseOf
<1> QED
  BY <1>1, PhaseFacts, StatusSets DEF Holder

LEMMA IntentKept ==
    ASSUME NEW r \in Runs, SameIntent(r) PROVE Wanted(r)' = Wanted(r)
  BY DEF SameIntent, Wanted

LEMMA RunStepIsLifeStep ==
    ASSUME StoreInv, NEW r \in Runs, RunStep(r)
    PROVE  [Lifecycle!LifeNext]_(Lifecycle!lifecycle)
<1>0. OtherRows(r)
  BY DEF RunStep, OtherRows
<1>1. CASE Admitted(r)
  <2>1. Phase(r) = "absent" /\ Phase(r)' = "free"
    BY <1>1, LifeStatus, StatusSets DEF Admitted, NoRun
  <2>2. Holder(r)' = Holder(r)
    BY <2>1, LifeStatus
  <2>3. run'[r].generation = run[r].generation /\ Wanted(r)' = Wanted(r)
    BY <1>1, IntentKept DEF Admitted, SameOwner
  <2>4. Lifecycle!Submit(r)
    BY <1>0, <2>1, <2>2, <2>3, LifeStep, LifeSame DEF Lifecycle!Submit
  <2> QED
    BY <2>4 DEF Lifecycle!LifeNext
<1>2. CASE Claimed(r)
  <2>0. PICK o \in Owners : o = run'[r].supervisor_id
    BY <1>2 DEF Claimed
  <2>1. Phase(r) = "free" /\ Phase(r)' = "held" /\ Wanted(r)
    BY <1>2, LifeStatus, StatusSets DEF Claimed
  <2>2. Holder(r)' = o
    BY <2>0, <2>1, LifeStatus
  <2>3. /\ run'[r].generation = run[r].generation + 1
        /\ Wanted(r)' = Wanted(r)
    BY <1>2, IntentKept DEF Claimed
  <2>4. Lifecycle!Take(r, o)
    BY <1>0, <2>1, <2>2, <2>3, LifeStep, LifeSame DEF Lifecycle!Take
  <2> QED
    BY <2>4 DEF Lifecycle!LifeNext
<1>3. CASE Kept(r)
  <2>1. Phase(r) = "held" /\ Phase(r)' = "held"
    BY <1>3, LifeStatus DEF Kept
  <2>2. Holder(r)' = Holder(r) /\ run'[r].generation = run[r].generation
    BY <1>3, <2>1, LifeStatus DEF Kept, SameOwner
  <2>3. Wanted(r)' = Wanted(r)
    BY <1>3, IntentKept DEF Kept
  <2> QED
    BY <1>0, <2>1, <2>2, <2>3, LifeSame DEF Lifecycle!lifecycle
<1>4. CASE Released(r)
  <2>1. Phase(r) = "held" /\ Phase(r)' = "free" /\ Wanted(r)
    BY <1>4, LifeStatus DEF Released
  <2>2. Holder(r)' = NULL
    BY <2>1, LifeStatus
  <2>3. run'[r].generation = run[r].generation /\ Wanted(r)' = Wanted(r)
    BY <1>4, IntentKept DEF Released, SameOwner
  <2>4. Lifecycle!Release(r)
    BY <1>0, <2>1, <2>2, <2>3, LifeStep, LifeSame DEF Lifecycle!Release
  <2> QED
    BY <2>4 DEF Lifecycle!LifeNext
<1>5. CASE Finished(r)
  <2>1. Phase(r) = "held" /\ Phase(r)' = "over"
    BY <1>5, LifeStatus DEF Finished
  <2>2. Holder(r)' = NULL
    BY <2>1, LifeStatus
  <2>3. run'[r].generation = run[r].generation /\ Wanted(r)' = Wanted(r)
    BY <1>5, IntentKept DEF Finished, SameOwner
  <2>4. Lifecycle!Finish(r)
    BY <1>0, <2>1, <2>2, <2>3, LifeStep, LifeSame DEF Lifecycle!Finish
  <2> QED
    BY <2>4 DEF Lifecycle!LifeNext
<1>6. CASE Withdrawn(r)
  <2>1. /\ Phase(r) # "absent"
        /\ Phase(r)' = IF Phase(r) = "free" THEN "over" ELSE Phase(r)
        /\ Holder(r)' = Holder(r)
    <3>1. CASE run[r].status \in Owned
      BY <1>6, <3>1, LifeStatus, StatusSets DEF Withdrawn, SameOwner
    <3>2. CASE run[r].status \in Unclaimed
      BY <1>6, <3>2, LifeStatus, StatusSets DEF Withdrawn
    <3>3. CASE run[r].status \in Ended
      BY <1>6, <3>3, LifeStatus, StatusSets DEF Withdrawn
    <3> QED
      BY <1>6, <3>1, <3>2, <3>3 DEF Withdrawn
  <2>2. run'[r].generation = run[r].generation /\ Wanted(r)' = FALSE
    BY <1>6 DEF Withdrawn, SameOwner, Wanted
  <2>3. Lifecycle!Withdraw(r)
    <3>1. PICK p : p = Phase(r)'
      OBVIOUS
    <3>2. [i \in Runs |-> Phase(i)]'
             = [[i \in Runs |-> Phase(i)] EXCEPT ![r] = p]
      BY <1>0, <3>1, LifeStep
    <3>3. p = IF [i \in Runs |-> Phase(i)][r] = "free" THEN "over"
              ELSE [i \in Runs |-> Phase(i)][r]
      BY <2>1, <3>1
    <3>4. [i \in Runs |-> Wanted(i)]'
             = [[i \in Runs |-> Wanted(i)] EXCEPT ![r] = FALSE]
      BY <1>0, <2>2, LifeStep
    <3>5. UNCHANGED <<[i \in Runs |-> Holder(i)],
                      [i \in Runs |-> run[i].generation]>>
      BY <1>0, <2>1, <2>2, LifeSame
    <3> QED
      BY <2>1, <3>2, <3>3, <3>4, <3>5 DEF Lifecycle!Withdraw
  <2> QED
    BY <2>3 DEF Lifecycle!LifeNext
<1> QED
  BY <1>1, <1>2, <1>3, <1>4, <1>5, <1>6 DEF RunStep

(***************************************************************************)
(* Refinement: whoever calls which transaction in which order, the tables  *)
(* go through the lifecycle of AgentLifecycle: one owner at a time, a new  *)
(* epoch for every owner, and no way back from the end or from a stop.     *)
(***************************************************************************)
THEOREM StoreImplementsLifecycle == StoreSpec => ImplementsLifecycle
<1>1. Init => Lifecycle!LifeInit
  BY LifeInitial
<1>2. StoreInv /\ [StoreNext]_storeVars
        => [Lifecycle!LifeNext]_(Lifecycle!lifecycle)
  <2> SUFFICES ASSUME StoreInv, [StoreNext]_storeVars
               PROVE  [Lifecycle!LifeNext]_(Lifecycle!lifecycle)
    OBVIOUS
  <2>1. CASE UNCHANGED run
    BY <2>1 DEF Lifecycle!lifecycle, Phase, Holder, Wanted
  <2>2. CASE \E r \in Runs : RunStep(r)
    BY <2>2, RunStepIsLifeStep
  <2> QED
    BY <2>1, <2>2, StepEffect
<1> QED
  BY <1>1, <1>2, InvHolds, PTL
  DEF StoreSpec, ImplementsLifecycle, Lifecycle!LifeSpec

-----------------------------------------------------------------------------
(* Capacity *)

Unfinished == {r \in Runs : Exists(r) /\ run[r].status \notin Ended}

(* An admission counts exactly the runs that are not over: every owned run  *)
(* has an owner, and every free run is wanted.                              *)
LEMMA CountedIsUnfinished == StoreInv => Counted = Unfinished
<1> SUFFICES ASSUME StoreInv, NEW r \in Runs
             PROVE  r \in Counted <=> r \in Unfinished
  BY DEF Counted, Unfinished
<1>1. Exists(r) /\ run[r].status \notin Ended
        <=> run[r].status \in Owned \cup Unclaimed
  BY RowFields, StatusSets DEF Exists
<1>2. run[r].status \in Owned => run[r].supervisor_id # NULL
  BY RowFields, ConstantFacts
<1>3. run[r].status \in Unclaimed => Wanted(r)
  BY RowFields
<1>4. run[r].status \in Owned
        <=> run[r].status \in Live \/ run[r].status = "stopping"
  BY DEF Owned
<1> QED
  BY <1>1, <1>2, <1>3, <1>4 DEF Counted, Unfinished

LEMMA CapacityStep ==
    ASSUME StoreInv, CapacityKept, [StoreNext]_storeVars
    PROVE  CapacityKept'
<1>1. CapacityKept <=> Cardinality(Unfinished) <= MaxActive
  BY DEF CapacityKept, Unfinished
<1>2. CapacityKept' <=> Cardinality(Unfinished') <= MaxActive
  BY DEF CapacityKept, Unfinished, Exists
<1>3. IsFiniteSet(Unfinished) /\ Cardinality(Unfinished) \in Nat
  BY StoreAssumption, FS_Subset, FS_CardinalityType DEF Unfinished
<1>4. CASE UNCHANGED run
  BY <1>1, <1>2, <1>4 DEF Unfinished, Exists
<1>5. ASSUME NEW r \in Runs, RunStep(r) PROVE CapacityKept'
  <2>1. \A i \in Runs \ {r} : i \in Unfinished' <=> i \in Unfinished
    BY <1>5 DEF RunStep, Unfinished, Exists
  <2>2. CASE Admitted(r)
    <3>1. Cardinality(Unfinished) < MaxActive
      BY <2>2, CountedIsUnfinished DEF Admitted
    <3>2. r \notin Unfinished
      BY <2>2 DEF Admitted, Unfinished, Exists, NoRun
    <3>3. Unfinished' \subseteq Unfinished \cup {r}
      BY <2>1 DEF Unfinished
    <3>4. /\ IsFiniteSet(Unfinished \cup {r})
          /\ Cardinality(Unfinished \cup {r}) = Cardinality(Unfinished) + 1
      BY <1>3, <3>2, FS_AddElement
    <3>5. Cardinality(Unfinished') <= Cardinality(Unfinished) + 1
      BY <3>3, <3>4, FS_Subset
    <3>6. Cardinality(Unfinished') \in Nat
      BY <3>3, <3>4, FS_Subset, FS_CardinalityType
    <3> QED
      BY <1>2, <1>3, <3>1, <3>5, <3>6, ConstantFacts
  <2>3. CASE ~Admitted(r)
    <3>1. r \in Unfinished' => r \in Unfinished
      BY <1>5, <2>3, StatusSets
      DEF RunStep, Claimed, Kept, Released, Finished, Withdrawn, Unfinished,
          Exists
    <3>2. Unfinished' \subseteq Unfinished
      BY <2>1, <3>1 DEF Unfinished
    <3>3. /\ Cardinality(Unfinished') <= Cardinality(Unfinished)
          /\ Cardinality(Unfinished') \in Nat
      BY <1>3, <3>2, FS_Subset, FS_CardinalityType
    <3> QED
      BY <1>1, <1>2, <1>3, <3>3, ConstantFacts
  <2> QED
    BY <2>2, <2>3
<1> QED
  BY <1>4, <1>5, StepEffect

(***************************************************************************)
(* Capacity: the runs that are not over never outnumber max_active_runs,   *)
(* because the transaction that admits one counts them all, the orphaned   *)
(* and the stopping ones included, and no other transaction adds one.      *)
(***************************************************************************)
THEOREM CapacityHolds == StoreSpec => []CapacityKept
<1>1. Init => CapacityKept
  <2> SUFFICES ASSUME Init PROVE CapacityKept
    OBVIOUS
  <2>1. {r \in Runs : Exists(r) /\ run[r].status \notin Ended} = {}
    BY DEF Init, Exists, NoRun
  <2> QED
    BY <2>1, FS_EmptySet, ConstantFacts DEF CapacityKept
<1>2. StoreInv /\ CapacityKept /\ [StoreNext]_storeVars => CapacityKept'
  BY CapacityStep
<1> QED
  BY <1>1, <1>2, InvHolds, PTL DEF StoreSpec

==============================================================================
