------------------------- MODULE WorkflowRunsProofs -------------------------
(***************************************************************************)
(* Proofs about WorkflowRuns: for any steps, dependencies, gates,          *)
(* verifiers, processes and bounds.                                        *)
(***************************************************************************)
EXTENDS WorkflowRuns, FiniteSetTheorems, WellFoundedInduction, TLAPS

-----------------------------------------------------------------------------
(* The order in which verifiers are claimed has a first element.            *)

LEMMA LeastNatural ==
    ASSUME NEW T, T \subseteq Nat, T # {}
    PROVE  \E x \in T : \A y \in T : x <= y
<1>1. PICK x \in T : \A y \in T : ~(<<y, x>> \in OpToRel(<, Nat))
  BY NatLessThanWellFounded, WFMin
<1>2. \A y \in T : ~(y < x)
  BY <1>1 DEF OpToRel
<1> QED
  BY <1>2

LEMMA NextVerifierClaimable ==
    ASSUME Claimable # {} PROVE NextVerifier \in Claimable
<1>1. Claimable \subseteq Verifiers /\ Verifiers \subseteq Nat
  BY WorkflowAssumption DEF Claimable
<1>2. \A v \in Claimable : StepOf[v] \in Nat
  BY <1>1, WorkflowAssumption
<1> DEFINE Numbers == {StepOf[v] : v \in Claimable}
<1>3. PICK n \in Numbers : \A m \in Numbers : n <= m
  BY <1>2, LeastNatural
<1> DEFINE First == {v \in Claimable : StepOf[v] = n}
<1>4. PICK v \in First : \A w \in First : v <= w
  <2>1. First # {} /\ First \subseteq Nat
    BY <1>1, <1>3
  <2> QED
    BY <2>1, LeastNatural
<1>5. ASSUME NEW w \in Claimable
      PROVE  \/ StepOf[v] < StepOf[w]
             \/ StepOf[v] = StepOf[w] /\ v <= w
  <2>1. StepOf[v] = n /\ StepOf[v] <= StepOf[w]
    BY <1>3, <1>4
  <2>2. CASE StepOf[w] = n
    BY <1>4, <2>1, <2>2
  <2>3. CASE StepOf[w] # n
    BY <1>2, <1>4, <2>1, <2>3
  <2> QED
    BY <2>2, <2>3
<1> QED
  BY <1>4, <1>5 DEF NextVerifier

-----------------------------------------------------------------------------
(* Types, one part for each group of variables, and what a supervisor       *)
(* remembers while a verifier runs.                                         *)

Pcs == Driving \cup {"off", "idle", "block", "block_verify"}
RunRow == [status : RunStatuses, owner : Procs \cup {Nobody}, gen : Nat,
           live : BOOLEAN]
StepTable == [Steps -> StepStatuses]
VerifierTable == [Verifiers -> [status : VerifierStatuses, attempts : Nat]]
Supervisor == [pc : Pcs, gen : Nat, seen : SUBSET Steps,
               ver : Verifiers \cup {0}, attempt : Nat, passed : BOOLEAN]

SupervisorOK(x) ==
    x \in Supervisor /\ (x.pc \in {"exec", "record"} => x.ver \in Verifiers)

RunOK == run \in RunRow
StepsOK == step \in StepTable
ApprovalsOK == approval \in [Steps -> {"none", "approved", "rejected"}]
AgentsOK == agent \in [Steps -> AgentStatuses]
VerifiersOK == ver \in VerifierTable
SupervisorsOK ==
    sup \in [Procs -> Supervisor] /\ \A p \in Procs : SupervisorOK(sup[p])
BesideOK ==
    /\ plan \in {"none", "active", "paused", "blocked", "shelved", "stuck"}
    /\ goals \subseteq Steps
    /\ owed \subseteq {"create", "block", "pause", "resume"}
    /\ faults \in 0 .. MaxFaults /\ requests \in 0 .. MaxRequests

TablesOK == RunOK /\ StepsOK /\ ApprovalsOK /\ AgentsOK /\ VerifiersOK
TypeInv == TablesOK /\ SupervisorsOK /\ BesideOK

LEMMA TypeInvIsTypeOK == TypeInv => WorkflowTypeOK
  BY DEF TypeInv, TablesOK, RunOK, StepsOK, ApprovalsOK, AgentsOK,
         VerifiersOK, SupervisorsOK, BesideOK, WorkflowTypeOK, RunRow,
         StepTable, VerifierTable, Supervisor, Pcs

(* The functions of the transactions, on tables of the right type.          *)
LEMMA StepFunctions ==
    ASSUME NEW st \in StepTable, NEW vs \in VerifierTable, NEW ss,
           NEW w \in StepStatuses
    PROVE  MarkReady(st) \in StepTable /\ Promote(st, vs) \in StepTable
           /\ Move(st, ss, w) \in StepTable
  BY DEF StepTable, MarkReady, Promote, Move, StepStatuses, TerminalStep

LEMMA VerifierFunctions ==
    ASSUME NEW vs \in VerifierTable, NEW ss, NEW w \in VerifierStatuses
    PROVE  AwaitExecutor(vs, ss) \in VerifierTable
           /\ Settle(vs, ss, w) \in VerifierTable
  BY DEF VerifierTable, AwaitExecutor, Settle, VerifierStatuses,
         TerminalVerifier

LEMMA DerivedStatus ==
    ASSUME NEW st
    PROVE  /\ Derived(st) \in {"failed", "blocked", "waiting", "completed",
                               "running"}
           /\ Derived(st) \in RunStatuses
           /\ Derived(st) = "completed" => AllDone(st)
  BY DEF Derived, RunStatuses, TerminalRun

LEMMA StatusRow ==
    ASSUME RunOK, NEW w \in RunStatuses
    PROVE  [run EXCEPT !.status = w] \in RunRow
           /\ [run EXCEPT !.status = w].status = w
           /\ [run EXCEPT !.status = w].owner = run.owner
           /\ [run EXCEPT !.status = w].gen = run.gen
  BY DEF RunOK, RunRow

(* The supervisor's own steps.                                              *)
LEMMA ParkedOK ==
    ASSUME SupervisorsOK, NEW p \in Procs, NEW pc \in {"off", "idle", "block"},
           Park(p, pc)
    PROVE  SupervisorsOK'
<1>1. SupervisorOK(Parked(pc))
  BY DEF SupervisorOK, Parked, Supervisor, Pcs
<1> QED
  BY <1>1 DEF Park, SupervisorsOK, SupervisorOK

LEMMA GoneOn ==
    ASSUME SupervisorsOK, NEW p \in Procs, NEW pc \in Pcs \ {"exec", "record"},
           Go(p, pc)
    PROVE  SupervisorsOK'
<1>1. SupervisorOK([sup[p] EXCEPT !.pc = pc])
  BY DEF SupervisorsOK, SupervisorOK, Supervisor
<1> QED
  BY <1>1 DEF Go, SupervisorsOK, SupervisorOK

LEMMA OnwardOK ==
    ASSUME SupervisorsOK, NEW p \in Procs, NEW w,
           NEW pc \in Pcs \ {"exec", "record"}, Onward(p, w, pc)
    PROVE  SupervisorsOK'
<1>1. CASE w \in TerminalRun \cup {"paused"}
  BY <1>1, ParkedOK DEF Onward
<1>2. CASE w \notin TerminalRun \cup {"paused"}
  <2>1. SupervisorOK([sup[p] EXCEPT !.pc = pc, !.seen = {}])
    BY DEF SupervisorsOK, SupervisorOK, Supervisor
  <2> QED
    BY <1>2, <2>1 DEF Onward, SupervisorsOK, SupervisorOK
<1> QED
  BY <1>1, <1>2

LEMMA StoreKeeps ==
    ASSUME UNCHANGED store PROVE TablesOK => TablesOK'
  BY DEF store, TablesOK, RunOK, StepsOK, ApprovalsOK, AgentsOK, VerifiersOK

LEMMA InitTypes == Init => TypeInv
<1> SUFFICES ASSUME Init PROVE TypeInv
  OBVIOUS
<1>1. TablesOK
  BY DEF Init, TablesOK, RunOK, StepsOK, ApprovalsOK, AgentsOK, VerifiersOK,
         RunRow, StepTable, VerifierTable, RunStatuses, StepStatuses,
         AgentStatuses, VerifierStatuses
<1>2. SupervisorsOK
  <2>1. SupervisorOK(Parked("off"))
    BY DEF SupervisorOK, Parked, Supervisor, Pcs
  <2> QED
    BY <2>1 DEF Init, SupervisorsOK, SupervisorOK
<1>3. BesideOK
  BY WorkflowAssumption DEF Init, BesideOK
<1> QED
  BY <1>1, <1>2, <1>3 DEF TypeInv

-----------------------------------------------------------------------------
(* What every step of the system does to the tables.                        *)

(* A step that has ended stays; it becomes ready behind its dependencies,   *)
(* is never ready again later, and succeeds with its verifiers.             *)
StepsMove ==
    \A s \in Steps :
       /\ step[s] \in TerminalStep => step'[s] = step[s]
       /\ step'[s] = "ready" =>
             \/ step[s] = "ready"
             \/ \A d \in Deps[s] : step[d] = "succeeded"
       /\ step'[s] \in {"pending", "ready"} => step[s] \in {"pending", "ready"}
       /\ step'[s] = "succeeded" =>
             \/ step[s] = "succeeded"
             \/ \A v \in VerifiersOf(s) : ver'[v].status = "passed"

(* A decision is taken before the branch is; a rejection skips the step.    *)
ApprovalsMove ==
    \A s \in Steps :
       \/ approval'[s] = approval[s]
       \/ /\ step[s] \in {"pending", "ready"} /\ agent'[s] = agent[s]
          /\ approval'[s] = "rejected" => step'[s] = "skipped"

(* An agent is created for a candidate only; one that was told to stop or   *)
(* has ended does not come back.                                            *)
AgentsMove ==
    \A s \in Steps :
       /\ agent[s] = "none" =>
             \/ agent'[s] = "none"
             \/ /\ s \in Candidates /\ step'[s] = "active"
                /\ approval'[s] = approval[s] /\ run.status \notin TerminalRun
       /\ agent[s] \notin {"none", "queued", "live"} =>
             agent'[s] \notin {"none", "queued", "live"}

(* A verifier with a result keeps it.                                       *)
VerifiersMove ==
    \A v \in Verifiers :
       ver[v].status \in TerminalVerifier => ver'[v] = ver[v]

Quiet ==
    /\ \A s \in Steps : /\ step[s] \in TerminalStep
                        /\ agent[s] \notin {"queued", "live"}
    /\ \A v \in Verifiers : ver[v].status \in TerminalVerifier

RunMoves ==
    /\ run.status \in TerminalRun => run'.status = run.status /\ ver' = ver
    /\ run'.status = "completed" => run.status = "completed" \/ AllDone(step')
    /\ run'.status = "cancelled" => run.status = "cancelled" \/ Quiet'

Effect == /\ StepsMove /\ ApprovalsMove /\ AgentsMove
          /\ VerifiersMove /\ RunMoves

Good == TypeInv' /\ Effect

LEMMA SameStore ==
    ASSUME TypeInv, UNCHANGED store, SupervisorsOK', BesideOK' PROVE Good
<1>1. TypeInv'
  BY StoreKeeps DEF TypeInv
<1>2. Effect
  BY DEF store, Effect, StepsMove, ApprovalsMove, AgentsMove, VerifiersMove,
         RunMoves
<1> QED
  BY <1>1, <1>2 DEF Good

LEMMA SameBeside ==
    ASSUME BesideOK, UNCHANGED <<plan, goals, owed, faults, requests>>
    PROVE  BesideOK'
  BY DEF BesideOK

(* Transactions of the supervisor that do not write.                        *)
LEMMA QuietSteps ==
    ASSUME TypeInv, NEW p \in Procs,
           \/ SupervisorEnds(p) \/ LoseFence(p) \/ AdvanceEnded(p)
           \/ Activate(p) \/ AdmitNone(p) \/ AdmitRefused(p)
    PROVE  Good
<1>0. SupervisorsOK /\ BesideOK
  BY DEF TypeInv
<1>1. SupervisorsOK'
  <2>1. CASE SupervisorEnds(p)
    BY <1>0, <2>1, ParkedOK DEF SupervisorEnds
  <2>2. CASE LoseFence(p)
    BY <1>0, <2>2, ParkedOK DEF LoseFence
  <2>3. CASE AdvanceEnded(p)
    BY <1>0, <2>3, ParkedOK DEF AdvanceEnded
  <2>4. CASE Activate(p)
    BY <1>0, <2>4, ParkedOK DEF Activate
  <2>5. CASE AdmitNone(p)
    <3>1. "verify" \in Pcs \ {"exec", "record"}
      BY DEF Pcs, Driving
    <3> QED
      BY <1>0, <2>5, <3>1, OnwardOK DEF AdmitNone
  <2>6. CASE AdmitRefused(p)
    <3>1. "beat" \in Pcs \ {"exec", "record"}
      BY DEF Pcs, Driving
    <3> QED
      BY <1>0, <2>6, <3>1, GoneOn DEF AdmitRefused
  <2> QED
    BY <2>1, <2>2, <2>3, <2>4, <2>5, <2>6
<1>2. UNCHANGED store /\ UNCHANGED <<plan, goals, owed, faults, requests>>
  BY DEF SupervisorEnds, LoseFence, AdvanceEnded, Activate, AdmitNone,
         AdmitRefused
<1> QED
  BY <1>0, <1>1, <1>2, SameStore, SameBeside

LEMMA BeatStep ==
    ASSUME TypeInv, NEW p \in Procs, Beat(p) PROVE Good
<1>0. SupervisorsOK /\ BesideOK
  BY DEF TypeInv
<1>1. SupervisorOK([sup[p] EXCEPT !.pc = "advance", !.seen = goals])
  BY <1>0 DEF SupervisorsOK, SupervisorOK, Supervisor, BesideOK, Pcs, Driving
<1>2. SupervisorsOK'
  BY <1>0, <1>1 DEF Beat, SupervisorsOK, SupervisorOK
<1> QED
  BY <1>0, <1>2, SameStore, SameBeside DEF Beat

LEMMA BlockPlanStep ==
    ASSUME TypeInv, NEW p \in Procs, BlockPlan(p) PROVE Good
<1>0. SupervisorsOK /\ BesideOK
  BY DEF TypeInv
<1>1. {"idle", "verify"} \subseteq Pcs \ {"exec", "record"}
  BY DEF Pcs, Driving
<1>2. SupervisorsOK'
  BY <1>0, <1>1, GoneOn DEF BlockPlan
<1>3. BesideOK'
  BY <1>0 DEF BlockPlan, BesideOK, Blocked
<1> QED
  BY <1>2, <1>3, SameStore DEF BlockPlan

LEMMA ExecuteStep ==
    ASSUME TypeInv, NEW p \in Procs, Execute(p) PROVE Good
<1>0. SupervisorsOK /\ BesideOK
  BY DEF TypeInv
<1>1. PICK b \in BOOLEAN :
         sup' = [sup EXCEPT ![p].pc = "record", ![p].passed = b]
  BY DEF Execute
<1>2. SupervisorOK([sup[p] EXCEPT !.pc = "record", !.passed = b])
  BY <1>0 DEF Execute, At, SupervisorsOK, SupervisorOK, Supervisor, Pcs,
              Driving
<1>3. SupervisorsOK'
  BY <1>0, <1>1, <1>2 DEF SupervisorsOK, SupervisorOK
<1> QED
  BY <1>0, <1>3, SameStore, SameBeside DEF Execute

(* Transactions on the row of the run and on verifiers.                     *)
LEMMA SameSteps ==
    ASSUME TypeInv, UNCHANGED <<step, approval, agent>>,
           RunOK', VerifiersOK', SupervisorsOK', BesideOK',
           run.status \notin TerminalRun, VerifiersMove,
           run'.status \notin {"completed", "cancelled"}
    PROVE  Good
<1>1. TypeInv'
  BY DEF TypeInv, TablesOK, StepsOK, ApprovalsOK, AgentsOK
<1>2. StepsMove /\ ApprovalsMove /\ AgentsMove /\ RunMoves
  BY DEF StepsMove, ApprovalsMove, AgentsMove, RunMoves
<1> QED
  BY <1>1, <1>2 DEF Good, Effect

LEMMA ClaimRunStep ==
    ASSUME TypeInv, NEW p \in Procs, ClaimRun(p) PROVE Good
<1>0. RunOK /\ VerifiersOK /\ SupervisorsOK /\ BesideOK
  BY DEF TypeInv, TablesOK
<1>1. RunOK' /\ run'.status \notin {"completed", "cancelled"}
  BY <1>0 DEF ClaimRun, RunOK, RunRow, RunStatuses, TerminalRun
<1>2. VerifiersOK' /\ VerifiersMove
  BY <1>0 DEF ClaimRun, VerifiersOK, VerifierTable, VerifierStatuses,
              VerifiersMove, TerminalVerifier
<1>3. SupervisorsOK'
  <2>1. PICK g \in Nat : g = run.gen + 1
    BY <1>0 DEF RunOK, RunRow
  <2>2. SupervisorOK([sup[p] EXCEPT !.pc = "beat", !.gen = g])
    BY <1>0 DEF SupervisorsOK, SupervisorOK, Supervisor, Pcs, Driving
  <2>3. sup' = [sup EXCEPT ![p].pc = "beat", ![p].gen = g]
    BY <2>1 DEF ClaimRun
  <2> QED
    BY <1>0, <2>2, <2>3 DEF SupervisorsOK, SupervisorOK
<1> QED
  BY <1>0, <1>1, <1>2, <1>3, SameSteps, SameBeside DEF ClaimRun

LEMMA ClaimVerifierStep ==
    ASSUME TypeInv, NEW p \in Procs, ClaimVerifier(p) PROVE Good
<1>0. RunOK /\ VerifiersOK /\ SupervisorsOK /\ BesideOK
  BY DEF TypeInv, TablesOK
<1>1. CASE VerifiableRun /\ Claimable # {}
  <2> DEFINE v == NextVerifier
  <2>1. v \in Verifiers /\ ver[v].status \in {"pending", "blocked"}
    BY <1>1, NextVerifierClaimable DEF Claimable
  <2>a. PICK n \in Nat : n = ver[v].attempts + 1
    BY <1>0, <2>1 DEF VerifiersOK, VerifierTable
  <2>2. /\ ver' = [ver EXCEPT ![v].status = "running", ![v].attempts = n]
        /\ sup' = [sup EXCEPT ![p].pc = "exec", ![p].ver = v,
                              ![p].attempt = n]
    BY <1>1, <2>a DEF ClaimVerifier
  <2> HIDE DEF v
  <2>3. VerifiersOK' /\ VerifiersMove
    BY <1>0, <2>1, <2>2 DEF VerifiersOK, VerifierTable, VerifierStatuses,
                            VerifiersMove, TerminalVerifier
  <2>4. SupervisorOK([sup[p] EXCEPT !.pc = "exec", !.ver = v, !.attempt = n])
    BY <1>0, <2>1 DEF SupervisorsOK, SupervisorOK, Supervisor, Pcs, Driving
  <2>5. SupervisorsOK'
    BY <1>0, <2>2, <2>4 DEF SupervisorsOK, SupervisorOK
  <2>6. UNCHANGED <<run, step, approval, agent>> /\ RunOK'
    BY <1>0 DEF ClaimVerifier, RunOK
  <2> QED
    BY <1>0, <1>1, <2>3, <2>5, <2>6, SameSteps, SameBeside
    DEF ClaimVerifier, VerifiableRun, TerminalRun
<1>2. CASE ~(VerifiableRun /\ Claimable # {})
  <2>1. "beat" \in Pcs \ {"exec", "record"}
    BY DEF Pcs, Driving
  <2>2. SupervisorsOK'
    BY <1>0, <1>2, <2>1, GoneOn DEF ClaimVerifier
  <2> QED
    BY <1>0, <1>2, <2>2, SameStore, SameBeside DEF ClaimVerifier, store
<1> QED
  BY <1>1, <1>2

LEMMA RequestOK ==
    ASSUME TypeInv, run.status \notin TerminalRun,
           NEW w \in {"cancel_requested", "paused", "waiting"},
           NEW u \in {"block", "pause", "resume"}, Request(w, u)
    PROVE  Good
<1>1. RunOK' /\ run'.status \notin {"completed", "cancelled"}
  BY DEF TypeInv, TablesOK, RunOK, RunRow, RunStatuses, Request, Unowned
<1>2. VerifiersOK' /\ VerifiersMove /\ SupervisorsOK'
  BY DEF TypeInv, TablesOK, VerifiersOK, VerifiersMove, SupervisorsOK,
         SupervisorOK, Request
<1>3. BesideOK'
  BY WorkflowAssumption DEF TypeInv, BesideOK, Request
<1> QED
  BY <1>1, <1>2, <1>3, SameSteps DEF Request

LEMMA RequestSteps ==
    ASSUME TypeInv, CancelRequest \/ PauseRequest \/ ResumeRequest PROVE Good
<1>1. "paused" \notin TerminalRun
  BY DEF TerminalRun
<1> QED
  BY <1>1, RequestOK DEF CancelRequest, PauseRequest, ResumeRequest

LEMMA LeaseSteps ==
    ASSUME TypeInv, Expire \/ Stall PROVE Good
<1>1. run' = [run EXCEPT !.live = FALSE] /\ run.status \notin TerminalRun
  BY DEF Expire, Stall
<1>2. RunOK' /\ run'.status = run.status
  BY <1>1 DEF TypeInv, TablesOK, RunOK, RunRow
<1>3. UNCHANGED <<step, approval, agent, ver, sup, plan, goals, owed, requests>>
  BY DEF Expire, Stall
<1>4. VerifiersOK' /\ VerifiersMove /\ SupervisorsOK'
  BY <1>3 DEF TypeInv, TablesOK, VerifiersOK, VerifiersMove, SupervisorsOK,
              SupervisorOK
<1>5. BesideOK'
  BY <1>3, WorkflowAssumption DEF TypeInv, BesideOK, Expire, Stall, Fault
<1> QED
  BY <1>1, <1>2, <1>3, <1>4, <1>5, SameSteps DEF TerminalRun

(* The goal plan, the environment.                                          *)
LEMMA BesideSteps ==
    ASSUME TypeInv,
           \/ \E u \in owed, p \in Procs : UpdatePlan(u, p)
           \/ \E s \in Worked : CompleteGoal(s)
    PROVE  Good
<1>2. CASE \E u \in owed, p \in Procs : UpdatePlan(u, p)
  <2>1. PICK u \in owed, p \in Procs : UpdatePlan(u, p)
    BY <1>2
  <2>2. u \in {"create", "block", "pause", "resume"}
    BY DEF TypeInv, BesideOK
  <2>3. BesideOK'
    <3>1. plan' \in {"none", "active", "paused", "blocked", "shelved", "stuck"}
      BY <2>1, <2>2
      DEF TypeInv, BesideOK, UpdatePlan, Blocked, Paused, Resumed
    <3>2. owed' \subseteq owed /\ UNCHANGED <<goals, faults, requests>>
      BY <2>1 DEF UpdatePlan
    <3> QED
      BY <3>1, <3>2 DEF TypeInv, BesideOK
  <2>4. SupervisorsOK'
    <3>1. Park(p, "idle") \/ UNCHANGED sup
      BY <2>1 DEF UpdatePlan
    <3>2. CASE Park(p, "idle")
      BY <3>2, ParkedOK DEF TypeInv
    <3>3. CASE UNCHANGED sup
      BY <3>3 DEF TypeInv, SupervisorsOK, SupervisorOK
    <3> QED
      BY <3>1, <3>2, <3>3
  <2>5. UNCHANGED store
    BY <2>1 DEF UpdatePlan
  <2> QED
    BY <2>3, <2>4, <2>5, SameStore
<1>3. CASE \E s \in Worked : CompleteGoal(s)
  <2>1. BesideOK'
    BY <1>3, WorkflowAssumption DEF TypeInv, BesideOK, CompleteGoal
  <2>2. SupervisorsOK'
    BY <1>3 DEF TypeInv, SupervisorsOK, SupervisorOK, CompleteGoal
  <2> QED
    BY <1>3, <2>1, <2>2, SameStore DEF CompleteGoal
<1> QED
  BY <1>2, <1>3

LEMMA FaultSteps ==
    ASSUME TypeInv, NEW p \in Procs, DbFails(p) \/ Crash(p) PROVE Good
<1>1. SupervisorsOK'
  BY ParkedOK DEF TypeInv, DbFails, Crash
<1>2. BesideOK'
  <2>1. faults' \in 0 .. MaxFaults
    BY WorkflowAssumption DEF TypeInv, BesideOK, DbFails, Crash, Fault
  <2>2. owed' \subseteq owed
    BY DEF DbFails, Crash
  <2>3. UNCHANGED <<plan, goals, requests>>
    BY DEF DbFails, Crash
  <2> QED
    BY <2>1, <2>2, <2>3 DEF TypeInv, BesideOK
<1> QED
  BY <1>1, <1>2, SameStore DEF DbFails, Crash

(* Transactions on steps.                                                   *)
LEMMA MarkReadyMoves ==
    ASSUME NEW st \in StepTable, NEW s \in Steps
    PROVE  \/ MarkReady(st)[s] = st[s]
           \/ /\ st[s] = "pending" /\ MarkReady(st)[s] = "ready"
              /\ \A d \in Deps[s] : st[d] = "succeeded"
  BY DEF MarkReady

LEMMA MoveMoves ==
    ASSUME NEW st \in StepTable, NEW ss, NEW w, NEW s \in Steps
    PROVE  Move(st, ss, w)[s] = IF s \in ss THEN w ELSE st[s]
  BY DEF Move

LEMMA PromoteMoves ==
    ASSUME NEW st \in StepTable, NEW vs, NEW s \in Steps
    PROVE  \/ Promote(st, vs)[s] = st[s]
           \/ /\ st[s] = "waiting_verifier" /\ Promote(st, vs)[s] = "succeeded"
              /\ \A v \in VerifiersOf(s) : vs[v].status = "passed"
  BY DEF Promote

LEMMA ResultsKept ==
    ASSUME NEW vs \in VerifierTable, NEW ss, NEW w, NEW v \in Verifiers,
           vs[v].status \in TerminalVerifier
    PROVE  AwaitExecutor(vs, ss)[v] = vs[v] /\ Settle(vs, ss, w)[v] = vs[v]
  BY DEF AwaitExecutor, Settle, TerminalVerifier

LEMMA AdvanceRunStep ==
    ASSUME TypeInv, NEW p \in Procs, AdvanceRun(p) PROVE Good
<1>0. /\ RunOK /\ StepsOK /\ ApprovalsOK /\ AgentsOK /\ VerifiersOK
      /\ SupervisorsOK /\ BesideOK
  BY DEF TypeInv, TablesOK
<1> DEFINE ready == MarkReady(step)
           moved == Observed(ready, sup[p].seen)
           vs    == AwaitExecutor(ver, moved)
           wait  == Move(ready, moved, "waiting_verifier")
           st    == Promote(wait, vs)
<1>1. /\ step' = st /\ ver' = vs
      /\ run' = [run EXCEPT !.status = Derived(st)]
      /\ Onward(p, Derived(st), "reconcile")
      /\ UNCHANGED <<approval, agent, plan, goals, owed, faults, requests>>
      /\ run.status \notin TerminalRun
  BY DEF AdvanceRun
<1>2. /\ ready \in StepTable /\ vs \in VerifierTable
      /\ wait \in StepTable /\ st \in StepTable
  <2>1. "waiting_verifier" \in StepStatuses /\ "pending" \in VerifierStatuses
    BY DEF StepStatuses, VerifierStatuses
  <2>2. ready \in StepTable /\ vs \in VerifierTable
    BY <1>0, <2>1, StepFunctions, VerifierFunctions DEF StepsOK, VerifiersOK
  <2>3. wait \in StepTable
    BY <2>1, <2>2, StepFunctions
  <2> QED
    BY <2>1, <2>2, <2>3, StepFunctions
<1>3. \A s \in moved : ready[s] \in {"pending", "ready", "active"}
  BY DEF Observed
<1>4. ASSUME NEW s \in Steps
      PROVE  \/ st[s] = wait[s]
             \/ /\ wait[s] = "waiting_verifier" /\ st[s] = "succeeded"
                /\ \A v \in VerifiersOf(s) : vs[v].status = "passed"
  BY <1>2, PromoteMoves
<1>5. ASSUME NEW s \in Steps
      PROVE  \/ wait[s] = ready[s]
             \/ /\ ready[s] \in {"pending", "ready", "active"}
                /\ wait[s] = "waiting_verifier"
  BY <1>2, <1>3, MoveMoves
<1>6. ASSUME NEW s \in Steps
      PROVE  \/ ready[s] = step[s]
             \/ /\ step[s] = "pending" /\ ready[s] = "ready"
                /\ \A d \in Deps[s] : step[d] = "succeeded"
  BY <1>0, MarkReadyMoves DEF StepsOK
<1>7. VerifiersMove
  BY <1>0, <1>1, ResultsKept DEF VerifiersMove, VerifiersOK
<1> HIDE DEF ready, moved, vs, wait, st
<1>8. StepsMove
  BY <1>1, <1>4, <1>5, <1>6 DEF StepsMove, TerminalStep
<1>9. RunOK' /\ run'.status = Derived(st)
  BY <1>0, <1>1, DerivedStatus, StatusRow DEF RunOK
<1>10. RunMoves
  BY <1>1, <1>9, DerivedStatus DEF RunMoves
<1>11. ApprovalsMove /\ AgentsMove
  BY <1>1 DEF ApprovalsMove, AgentsMove
<1>12. SupervisorsOK'
  <2>1. "reconcile" \in Pcs \ {"exec", "record"}
    BY DEF Pcs, Driving
  <2> QED
    BY <1>0, <1>1, <2>1, OnwardOK
<1>13. TablesOK'
  BY <1>0, <1>1, <1>2, <1>9 DEF TablesOK, StepsOK, ApprovalsOK, AgentsOK,
                                VerifiersOK
<1> QED
  BY <1>0, <1>1, <1>7, <1>8, <1>10, <1>11, <1>12, <1>13, SameBeside
  DEF Good, Effect, TypeInv

LEMMA StoppedAgents ==
    ASSUME AgentsOK, NEW s \in Steps
    PROVE  /\ StopAgent(s) \in AgentStatuses
           /\ StopAgent(s) \notin {"queued", "live"}
           /\ agent[s] = "none" <=> StopAgent(s) = "none"
  BY DEF AgentsOK, StopAgent, AgentStatuses, TerminalAgent

LEMMA AdvanceCancelStep ==
    ASSUME TypeInv, NEW p \in Procs, AdvanceCancel(p) PROVE Good
<1>0. /\ RunOK /\ StepsOK /\ ApprovalsOK /\ AgentsOK /\ VerifiersOK
      /\ SupervisorsOK /\ BesideOK
  BY DEF TypeInv, TablesOK
<1>1. run.status \notin TerminalRun
  BY DEF AdvanceCancel, TerminalRun
<1>2. RunOK' /\ run'.status = "cancelled"
  BY <1>0 DEF AdvanceCancel, RunOK, RunRow, RunStatuses, TerminalRun
<1>3. AgentsOK' /\ \A s \in Steps : agent'[s] = StopAgent(s)
  BY <1>0, StoppedAgents DEF AdvanceCancel, AgentsOK
<1>4. \A s \in Steps : step'[s] = IF step[s] \in TerminalStep THEN step[s]
                                  ELSE "cancelled"
  BY <1>0, MoveMoves DEF AdvanceCancel, StepsOK
<1>5. StepsOK'
  <2>1. "cancelled" \in StepStatuses
    BY DEF StepStatuses, TerminalStep
  <2> QED
    BY <1>0, <2>1, StepFunctions DEF AdvanceCancel, StepsOK, VerifiersOK
<1>6. VerifiersOK' /\ VerifiersMove
  <2>1. "skipped" \in VerifierStatuses
    BY DEF VerifierStatuses, TerminalVerifier
  <2> QED
    BY <1>0, <2>1, VerifierFunctions, ResultsKept
    DEF AdvanceCancel, VerifiersOK, VerifiersMove
<1>7. \A v \in Verifiers : ver'[v].status \in TerminalVerifier
  BY <1>0, WorkflowAssumption
  DEF AdvanceCancel, VerifiersOK, VerifierTable, Settle, TerminalVerifier
<1>8. StepsMove
  BY <1>4 DEF StepsMove, TerminalStep
<1>9. AgentsMove
  BY <1>0, <1>3, StoppedAgents DEF AgentsMove
<1>10. RunMoves
  <2>1. Quiet'
    BY <1>0, <1>3, <1>4, <1>7, StoppedAgents DEF Quiet, TerminalStep
  <2> QED
    BY <1>1, <1>2, <2>1 DEF RunMoves
<1>11. ApprovalsMove /\ ApprovalsOK'
  BY <1>0 DEF AdvanceCancel, ApprovalsMove, ApprovalsOK
<1>12. SupervisorsOK'
  BY <1>0, ParkedOK DEF AdvanceCancel
<1>13. BesideOK'
  BY <1>0, SameBeside DEF AdvanceCancel
<1> QED
  BY <1>2, <1>3, <1>5, <1>6, <1>8, <1>9, <1>10, <1>11, <1>12, <1>13
  DEF Good, Effect, TypeInv, TablesOK

LEMMA ReconcileStep ==
    ASSUME TypeInv, NEW p \in Procs, Reconcile(p) PROVE Good
<1>0. /\ RunOK /\ StepsOK /\ ApprovalsOK /\ AgentsOK /\ VerifiersOK
      /\ SupervisorsOK /\ BesideOK
  BY DEF TypeInv, TablesOK
<1>a. "admit" \in Pcs \ {"exec", "record"}
  BY DEF Pcs, Driving
<1>b. BesideOK'
  BY <1>0, SameBeside DEF Reconcile
<1>1. CASE run.status \in TerminalRun \cup {"cancel_requested"}
  BY <1>0, <1>1, <1>a, <1>b, OnwardOK, SameStore DEF Reconcile
<1>2. CASE run.status \notin TerminalRun \cup {"cancel_requested"}
  <2> DEFINE done   == {s \in Steps : step[s] = "active"
                                      /\ agent[s] \in {"completed"}}
             broken == {s \in Steps : step[s] = "active"
                                      /\ agent[s] \in {"ended"}}
             wait   == Move(step, done, "waiting_verifier")
             st     == Move(wait, broken, "failed")
             vs     == AwaitExecutor(ver, done)
  <2>1. /\ step' = st /\ ver' = Settle(vs, broken, "skipped")
        /\ run' = [run EXCEPT !.status = Derived(st)]
        /\ Onward(p, Derived(st), "admit") /\ UNCHANGED <<approval, agent>>
    BY <1>2 DEF Reconcile
  <2>2. wait \in StepTable /\ st \in StepTable
    <3>1. {"waiting_verifier", "failed"} \subseteq StepStatuses
      BY DEF StepStatuses, TerminalStep
    <3>2. wait \in StepTable
      BY <1>0, <3>1, StepFunctions DEF StepsOK, VerifiersOK
    <3> QED
      BY <1>0, <3>1, <3>2, StepFunctions DEF VerifiersOK
  <2>3. \A s \in Steps : \/ st[s] = step[s]
                         \/ /\ step[s] = "active"
                            /\ st[s] \in {"waiting_verifier", "failed"}
    BY <1>0, <2>2, MoveMoves DEF StepsOK
  <2>4. VerifiersOK' /\ VerifiersMove
    <3>1. "skipped" \in VerifierStatuses
      BY DEF VerifierStatuses, TerminalVerifier
    <3>2. vs \in VerifierTable
      BY <1>0, <3>1, VerifierFunctions DEF VerifiersOK
    <3>3. VerifiersOK'
      BY <2>1, <3>1, <3>2, VerifierFunctions DEF VerifiersOK
    <3>4. ASSUME NEW v \in Verifiers, ver[v].status \in TerminalVerifier
          PROVE  ver'[v] = ver[v]
      <4>1. vs[v] = ver[v]
        BY <1>0, <3>4, ResultsKept DEF VerifiersOK
      <4> QED
        BY <2>1, <3>2, <3>4, <4>1, ResultsKept
    <3> QED
      BY <3>3, <3>4 DEF VerifiersMove
  <2> HIDE DEF done, broken, wait, st, vs
  <2>5. StepsMove
    BY <2>1, <2>3 DEF StepsMove, TerminalStep
  <2>6. RunOK' /\ run'.status = Derived(st)
    BY <1>0, <2>1, DerivedStatus, StatusRow DEF RunOK
  <2>7. RunMoves
    BY <1>2, <2>1, <2>6, DerivedStatus DEF RunMoves
  <2>8. ApprovalsMove /\ AgentsMove /\ ApprovalsOK' /\ AgentsOK' /\ StepsOK'
    BY <1>0, <2>1, <2>2 DEF ApprovalsMove, AgentsMove, ApprovalsOK, AgentsOK,
                            StepsOK
  <2>9. SupervisorsOK'
    BY <1>0, <1>a, <2>1, OnwardOK
  <2> QED
    BY <1>b, <2>4, <2>5, <2>6, <2>7, <2>8, <2>9
    DEF Good, Effect, TypeInv, TablesOK
<1> QED
  BY <1>1, <1>2

LEMMA AdmitBlockedStep ==
    ASSUME TypeInv, NEW p \in Procs, AdmitBlocked(p) PROVE Good
<1>0. /\ RunOK /\ StepsOK /\ ApprovalsOK /\ AgentsOK /\ VerifiersOK
      /\ SupervisorsOK /\ BesideOK
  BY DEF TypeInv, TablesOK
<1> DEFINE st == Move(step, Unserved(p), "blocked")
<1>1. /\ step' = st /\ run' = [run EXCEPT !.status = Derived(st)]
      /\ ver' = Settle(ver, Unserved(p), "unavailable")
      /\ UNCHANGED <<approval, agent>> /\ run.status \notin TerminalRun
  BY DEF AdmitBlocked, AdmitStatus
<1>2. \A s \in Steps : \/ st[s] = step[s]
                       \/ step[s] = "ready" /\ st[s] = "blocked"
  BY <1>0, MoveMoves DEF StepsOK, Unserved, Candidates
<1>3. StepsOK'
  <2>1. "blocked" \in StepStatuses
    BY DEF StepStatuses
  <2> QED
    BY <1>0, <1>1, <2>1, StepFunctions DEF StepsOK, VerifiersOK
<1>4. VerifiersOK' /\ VerifiersMove
  <2>1. "unavailable" \in VerifierStatuses
    BY DEF VerifierStatuses
  <2> QED
    BY <1>0, <1>1, <2>1, VerifierFunctions, ResultsKept
    DEF VerifiersOK, VerifiersMove
<1> HIDE DEF st
<1>5. StepsMove
  BY <1>1, <1>2 DEF StepsMove, TerminalStep
<1>6. RunOK' /\ run'.status = Derived(st)
  BY <1>0, <1>1, DerivedStatus, StatusRow DEF RunOK
<1>7. RunMoves
  BY <1>1, <1>6, DerivedStatus DEF RunMoves
<1>8. ApprovalsMove /\ AgentsMove /\ ApprovalsOK' /\ AgentsOK'
  BY <1>0, <1>1 DEF ApprovalsMove, AgentsMove, ApprovalsOK, AgentsOK
<1>9. SupervisorsOK' /\ BesideOK'
  <2>1. "block_verify" \in Pcs \ {"exec", "record"}
    BY DEF Pcs
  <2> QED
    BY <1>0, <2>1, GoneOn, SameBeside DEF AdmitBlocked
<1> QED
  BY <1>3, <1>4, <1>5, <1>6, <1>7, <1>8, <1>9
  DEF Good, Effect, TypeInv, TablesOK

LEMMA AdmitBranchesStep ==
    ASSUME TypeInv, NEW p \in Procs, AdmitBranches(p) PROVE Good
<1>0. /\ RunOK /\ StepsOK /\ ApprovalsOK /\ AgentsOK /\ VerifiersOK
      /\ SupervisorsOK /\ BesideOK
  BY DEF TypeInv, TablesOK
<1> DEFINE st == Move(step, Admitted, "active")
<1>1. /\ step' = st
      /\ run' = [run EXCEPT !.status = IF Admitted = {} THEN run.status
                                       ELSE Derived(st)]
      /\ agent' = [s \in Steps |->
                     IF s \in Admitted THEN "queued" ELSE agent[s]]
      /\ UNCHANGED <<approval, ver>> /\ run.status \notin TerminalRun
  BY DEF AdmitBranches, AdmitStatus
<1>2. Admitted \subseteq Candidates
  BY DEF Admitted
<1>3. \A s \in Steps : \/ st[s] = step[s] /\ agent'[s] = agent[s]
                       \/ /\ s \in Candidates /\ step[s] = "ready"
                          /\ agent[s] = "none" /\ st[s] = "active"
  BY <1>0, <1>1, <1>2, MoveMoves DEF StepsOK, Candidates
<1>4. StepsOK' /\ AgentsOK'
  <2>1. "active" \in StepStatuses /\ "queued" \in AgentStatuses
    BY DEF StepStatuses, AgentStatuses
  <2>2. StepsOK'
    BY <1>0, <1>1, <2>1, StepFunctions DEF StepsOK, VerifiersOK
  <2> QED
    BY <1>0, <1>1, <2>1, <2>2 DEF AgentsOK
<1> HIDE DEF st
<1>5. StepsMove
  BY <1>1, <1>3 DEF StepsMove, TerminalStep
<1>6. AgentsMove
  BY <1>1, <1>3 DEF AgentsMove
<1>7. RunOK' /\ run'.status \in {run.status, Derived(st)}
  <2>1. run.status \in RunStatuses
    BY <1>0 DEF RunOK, RunRow
  <2>2. CASE Admitted = {}
    BY <1>0, <1>1, <2>1, <2>2, StatusRow DEF RunOK
  <2>3. CASE Admitted # {}
    BY <1>0, <1>1, <2>3, DerivedStatus, StatusRow DEF RunOK
  <2> QED
    BY <2>2, <2>3
<1>8. RunMoves
  BY <1>1, <1>7, DerivedStatus DEF RunMoves, TerminalRun
<1>9. ApprovalsMove /\ VerifiersMove /\ ApprovalsOK' /\ VerifiersOK'
  BY <1>0, <1>1 DEF ApprovalsMove, VerifiersMove, ApprovalsOK, VerifiersOK
<1>10. SupervisorsOK' /\ BesideOK'
  <2>1. "verify" \in Pcs \ {"exec", "record"}
    BY DEF Pcs, Driving
  <2> QED
    BY <1>0, <2>1, GoneOn, SameBeside DEF AdmitBranches
<1> QED
  BY <1>4, <1>5, <1>6, <1>7, <1>8, <1>9, <1>10
  DEF Good, Effect, TypeInv, TablesOK

LEMMA RecordedOK ==
    ASSUME SupervisorsOK, NEW p \in Procs, sup' = Recorded(p)
    PROVE  SupervisorsOK'
<1>1. SupervisorOK([Parked("beat") EXCEPT !.gen = sup[p].gen])
  BY DEF SupervisorsOK, SupervisorOK, Supervisor, Parked, Pcs, Driving
<1> QED
  BY <1>1 DEF Recorded, SupervisorsOK, SupervisorOK

(* The status w of a verifier that was running is its only change.          *)
LEMMA ResultWritten ==
    ASSUME VerifiersOK, NEW v \in Verifiers, ver[v].status = "running",
           NEW w \in VerifierStatuses, ver' = [ver EXCEPT ![v].status = w]
    PROVE  /\ VerifiersOK' /\ VerifiersMove
           /\ \A x \in Verifiers \ {v} : ver'[x] = ver[x]
           /\ ver'[v].status = w
  BY DEF VerifiersOK, VerifierTable, VerifiersMove, TerminalVerifier

LEMMA RecordPassStep ==
    ASSUME TypeInv, NEW v \in Verifiers, ver[v].status = "running",
           RecordPass(v), VerifiableRun, UNCHANGED <<approval, agent>>
    PROVE  TablesOK' /\ Effect
<1>0. /\ RunOK /\ StepsOK /\ ApprovalsOK /\ AgentsOK /\ VerifiersOK
  BY DEF TypeInv, TablesOK
<1>1. "passed" \in VerifierStatuses /\ ver' = [ver EXCEPT ![v].status = "passed"]
  BY DEF VerifierStatuses, TerminalVerifier, RecordPass
<1>2. VerifiersOK' /\ VerifiersMove
  BY <1>0, <1>1, ResultWritten
<1>3. \/ step' = step
      \/ /\ step' = [step EXCEPT ![StepOf[v]] = "succeeded"]
         /\ step[StepOf[v]] = "waiting_verifier"
         /\ \A w \in VerifiersOf(StepOf[v]) : ver'[w].status = "passed"
  BY DEF RecordPass
<1>4. StepOf[v] \in Steps
  BY WorkflowAssumption
<1>5. StepsOK' /\ StepsMove
  BY <1>0, <1>3, <1>4 DEF StepsOK, StepTable, StepStatuses, TerminalStep,
                          StepsMove
<1>6. PICK b \in BOOLEAN :
         /\ run' = [run EXCEPT !.status = IF b THEN "completed" ELSE run.status]
         /\ b => AllDone(step')
  <2> DEFINE all == \A w \in VerifiersOf(StepOf[v]) : ver'[w].status = "passed"
             b == all /\ AllDone(step')
  <2>1. run' = [run EXCEPT !.status = IF b THEN "completed" ELSE run.status]
    BY DEF RecordPass
  <2> QED
    BY <2>1
<1>7. RunOK' /\ run'.status = IF b THEN "completed" ELSE run.status
  <2>1. run.status \in RunStatuses /\ "completed" \in RunStatuses
    BY <1>0 DEF RunOK, RunRow, RunStatuses, TerminalRun
  <2> QED
    BY <1>0, <1>6, <2>1, StatusRow DEF RunOK
<1>8. RunMoves
  BY <1>6, <1>7 DEF RunMoves, VerifiableRun, TerminalRun
<1>9. ApprovalsMove /\ AgentsMove /\ ApprovalsOK' /\ AgentsOK'
  BY <1>0 DEF ApprovalsMove, AgentsMove, ApprovalsOK, AgentsOK
<1> QED
  BY <1>2, <1>5, <1>7, <1>8, <1>9 DEF TablesOK, Effect

LEMMA RecordFailStep ==
    ASSUME TypeInv, NEW v \in Verifiers, ver[v].status = "running",
           RecordFail(v), VerifiableRun, UNCHANGED <<approval, agent>>
    PROVE  TablesOK' /\ Effect
<1>0. /\ RunOK /\ StepsOK /\ ApprovalsOK /\ AgentsOK /\ VerifiersOK
  BY DEF TypeInv, TablesOK
<1>1. VerifiersOK' /\ VerifiersMove
  <2>1. {"blocked", "failed"} \subseteq VerifierStatuses
    BY DEF VerifierStatuses, TerminalVerifier
  <2> QED
    BY <1>0, <2>1, ResultWritten DEF RecordFail
<1>2. \/ UNCHANGED <<step, run>>
      \/ /\ step' = [step EXCEPT ![StepOf[v]] =
                        IF step[StepOf[v]] \in TerminalStep
                        THEN step[StepOf[v]] ELSE "failed"]
         /\ run' = [run EXCEPT !.status = "failed"]
  BY DEF RecordFail
<1>3. StepOf[v] \in Steps
  BY WorkflowAssumption
<1>4. StepsOK' /\ StepsMove
  BY <1>0, <1>2, <1>3 DEF StepsOK, StepTable, StepStatuses, TerminalStep,
                          StepsMove
<1>5. RunOK' /\ (run' = run \/ run'.status = "failed")
  BY <1>0, <1>2 DEF RunOK, RunRow, RunStatuses, TerminalRun
<1>6. RunMoves
  BY <1>5 DEF RunMoves, VerifiableRun, TerminalRun
<1>7. ApprovalsMove /\ AgentsMove /\ ApprovalsOK' /\ AgentsOK'
  BY <1>0 DEF ApprovalsMove, AgentsMove, ApprovalsOK, AgentsOK
<1> QED
  BY <1>1, <1>4, <1>5, <1>6, <1>7 DEF TablesOK, Effect

LEMMA RecordStep ==
    ASSUME TypeInv, NEW p \in Procs, Record(p) PROVE Good
<1>0. SupervisorsOK /\ BesideOK /\ BesideOK'
  BY SameBeside DEF TypeInv, Record
<1> DEFINE v == sup[p].ver
<1>1. v \in Verifiers
  BY <1>0 DEF Record, At, SupervisorsOK, SupervisorOK
<1>2. UNCHANGED <<approval, agent>>
  BY DEF Record
<1>3. CASE VerifiableRun /\ ver[v].status = "running"
  <2>1. (RecordPass(v) \/ RecordFail(v)) /\ sup' = Recorded(p)
    BY <1>3 DEF Record
  <2> HIDE DEF v
  <2>2. TablesOK' /\ Effect
    BY <1>1, <1>2, <1>3, <2>1, RecordPassStep, RecordFailStep
  <2>3. SupervisorsOK'
    BY <1>0, <2>1, RecordedOK
  <2> QED
    BY <1>0, <2>2, <2>3 DEF Good, TypeInv
<1>4. CASE ~(VerifiableRun /\ ver[v].status = "running")
  <2>1. Park(p, "idle") /\ UNCHANGED store
    BY <1>2, <1>4 DEF Record, store
  <2>2. SupervisorsOK'
    BY <1>0, <2>1, ParkedOK
  <2> QED
    BY <1>0, <2>1, <2>2, SameStore
<1> QED
  BY <1>3, <1>4

(* Approvals, and the background agents.                                    *)
LEMMA DecisionSteps ==
    ASSUME TypeInv, NEW s \in Gated, Approve(s) \/ Reject(s) PROVE Good
<1>0. /\ StepsOK /\ ApprovalsOK /\ s \in Steps
  BY WorkflowAssumption DEF TypeInv, TablesOK
<1>1. step[s] \in {"pending", "ready"}
  BY DEF Approve, Reject, Decidable
<1>2. /\ UNCHANGED <<run, agent, ver, plan, goals, owed, sup, faults, requests>>
      /\ \/ step' = step /\ approval' = [approval EXCEPT ![s] = "approved"]
         \/ /\ step' = [step EXCEPT ![s] = "skipped"]
            /\ approval' = [approval EXCEPT ![s] = "rejected"]
  BY DEF Approve, Reject
<1>3. StepsOK' /\ ApprovalsOK'
  BY <1>0, <1>2 DEF StepsOK, StepTable, StepStatuses, TerminalStep,
                    ApprovalsOK
<1>4. StepsMove
  BY <1>0, <1>1, <1>2 DEF StepsMove, StepsOK, StepTable, TerminalStep
<1>5. ApprovalsMove
  BY <1>0, <1>1, <1>2 DEF ApprovalsMove, StepsOK, StepTable, ApprovalsOK
<1>6. AgentsMove /\ VerifiersMove /\ RunMoves
  BY <1>2 DEF AgentsMove, VerifiersMove, RunMoves
<1>7. RunOK' /\ AgentsOK' /\ VerifiersOK' /\ SupervisorsOK' /\ BesideOK'
  BY <1>2 DEF TypeInv, TablesOK, RunOK, AgentsOK, VerifiersOK, SupervisorsOK,
              SupervisorOK, BesideOK
<1> QED
  BY <1>3, <1>4, <1>5, <1>6, <1>7 DEF Good, Effect, TypeInv, TablesOK

LEMMA AgentSteps ==
    ASSUME TypeInv, NEW s \in Steps,
           AgentStep(s) \/ AgentOrphaned(s) \/ UserStops(s)
    PROVE  Good
<1>0. AgentsOK /\ BesideOK
  BY DEF TypeInv, TablesOK
<1>1. PICK w \in AgentStatuses \ {"none"} :
         /\ SetAgent(s, w) /\ agent[s] # "none"
         /\ agent[s] \notin {"queued", "live"} => w \notin {"queued", "live"}
  <2>1. CASE AgentClaimed(s)
    BY <2>1 DEF AgentClaimed, AgentStatuses
  <2>2. CASE AgentEnds(s)
    BY <2>2 DEF AgentEnds, AgentStatuses, TerminalAgent
  <2>3. CASE AgentStopped(s)
    BY <2>3 DEF AgentStopped, AgentStatuses, TerminalAgent
  <2>4. CASE AgentOrphaned(s)
    BY <2>4 DEF AgentOrphaned, AgentStatuses
  <2>5. CASE UserStops(s)
    BY <1>0, <2>5, StoppedAgents DEF UserStops, AgentsOK
  <2> QED
    BY <2>1, <2>2, <2>3, <2>4, <2>5 DEF AgentStep
<1>2. faults' \in 0 .. MaxFaults
  BY <1>0, WorkflowAssumption
  DEF BesideOK, AgentStep, AgentClaimed, AgentEnds, AgentStopped,
      AgentOrphaned, UserStops
<1>3. /\ agent' = [agent EXCEPT ![s] = w]
      /\ UNCHANGED <<run, step, approval, ver, plan, goals, owed, sup,
                     requests>>
  BY <1>1 DEF SetAgent
<1>4. AgentsOK' /\ AgentsMove
  BY <1>0, <1>1, <1>3 DEF AgentsOK, AgentsMove
<1>5. StepsMove /\ ApprovalsMove /\ VerifiersMove /\ RunMoves
  BY <1>3 DEF StepsMove, ApprovalsMove, VerifiersMove, RunMoves
<1>6. /\ RunOK' /\ StepsOK' /\ ApprovalsOK' /\ VerifiersOK' /\ SupervisorsOK'
      /\ BesideOK'
  BY <1>2, <1>3 DEF TypeInv, TablesOK, RunOK, StepsOK, ApprovalsOK,
                    VerifiersOK, SupervisorsOK, SupervisorOK, BesideOK
<1> QED
  BY <1>4, <1>5, <1>6 DEF Good, Effect, TypeInv, TablesOK

(* Together: every step of the system.                                      *)
LEMMA EveryStep == ASSUME TypeInv, [Next]_vars PROVE Good
<1>1. ASSUME NEW p \in Procs, SupervisorStep(p) PROVE Good
  BY <1>1, QuietSteps, BeatStep, BlockPlanStep, ExecuteStep, ClaimRunStep,
     ClaimVerifierStep, AdvanceRunStep, AdvanceCancelStep, ReconcileStep,
     AdmitBlockedStep, AdmitBranchesStep, RecordStep
  DEF SupervisorStep
<1>2. ASSUME RequestStep PROVE Good
  BY <1>2, RequestSteps, BesideSteps, DecisionSteps DEF RequestStep
<1>3. ASSUME UNCHANGED vars PROVE Good
  <2>1. UNCHANGED store /\ UNCHANGED <<plan, goals, owed, faults, requests>>
        /\ UNCHANGED sup
    BY <1>3 DEF vars, store
  <2>2. SupervisorsOK' /\ BesideOK'
    BY <2>1, SameBeside DEF TypeInv, SupervisorsOK, SupervisorOK
  <2> QED
    BY <2>1, <2>2, SameStore
<1> QED
  BY <1>1, <1>2, <1>3, QuietSteps, FaultSteps, AgentSteps, BesideSteps,
     LeaseSteps
  DEF Next

-----------------------------------------------------------------------------
(***************************************************************************)
(* Types: no transaction of the orchestrator, of a verifier or of a request*)
(* stores a status that the tables do not know, and a supervisor that      *)
(* executes or records a verifier remembers which one.                     *)
(***************************************************************************)
THEOREM WorkflowTypeCorrect == Spec => []WorkflowTypeOK
<1>1. TypeInv /\ [Next]_vars => TypeInv'
  BY EveryStep DEF Good
<1> QED
  BY <1>1, InitTypes, TypeInvIsTypeOK, PTL DEF Spec

(***************************************************************************)
(* The strengthening of NothingRunsWithoutConsent: a step that has an agent*)
(* can no longer be decided upon, a ready step is behind succeeded ones,   *)
(* and a rejected step is skipped for good.                                *)
(***************************************************************************)
Consent ==
    /\ \A s \in Steps : agent[s] # "none" =>
          /\ step[s] \notin {"pending", "ready"}
          /\ s \in Gated => approval[s] = "approved"
          /\ \A d \in Deps[s] : step[d] = "succeeded"
    /\ \A s \in Steps : step[s] = "ready" =>
          \A d \in Deps[s] : step[d] = "succeeded"
    /\ \A s \in Steps : approval[s] = "rejected" => step[s] = "skipped"

LEMMA ConsentStep ==
    ASSUME TypeInv, Consent, Effect PROVE Consent'
<1>1. \A s \in Steps : \A d \in Deps[s] : d \in Steps
  BY WorkflowAssumption
<1>2. \A s \in Steps : step[s] \in {"succeeded", "skipped"} => step'[s] = step[s]
  BY DEF Effect, StepsMove, TerminalStep
<1>3. ASSUME NEW s \in Steps, agent'[s] # "none"
      PROVE  /\ step'[s] \notin {"pending", "ready"}
             /\ s \in Gated => approval'[s] = "approved"
             /\ \A d \in Deps[s] : step'[d] = "succeeded"
  <2>1. CASE agent[s] # "none"
    <3>1. step[s] \notin {"pending", "ready"}
      BY <2>1 DEF Consent
    <3>2. step'[s] \notin {"pending", "ready"}
      BY <3>1 DEF Effect, StepsMove
    <3>3. approval'[s] = approval[s]
      BY <3>1 DEF Effect, ApprovalsMove
    <3> QED
      BY <1>1, <1>2, <2>1, <3>2, <3>3 DEF Consent
  <2>2. CASE agent[s] = "none"
    <3>1. /\ s \in Candidates /\ step'[s] = "active"
          /\ approval'[s] = approval[s]
      BY <1>3, <2>2 DEF Effect, AgentsMove
    <3>2. step[s] = "ready" /\ (s \in Gated => approval[s] = "approved")
      BY <3>1 DEF Candidates
    <3> QED
      BY <1>1, <1>2, <3>1, <3>2 DEF Consent
  <2> QED
    BY <2>1, <2>2
<1>4. ASSUME NEW s \in Steps, step'[s] = "ready", NEW d \in Deps[s]
      PROVE  step'[d] = "succeeded"
  BY <1>1, <1>2, <1>4 DEF Effect, StepsMove, Consent
<1>5. ASSUME NEW s \in Steps, approval'[s] = "rejected"
      PROVE  step'[s] = "skipped"
  BY <1>2, <1>5 DEF Effect, ApprovalsMove, Consent
<1> QED
  BY <1>3, <1>4, <1>5 DEF Consent

(***************************************************************************)
(* Consent: a branch is started only behind succeeded steps, none of them  *)
(* rejected, and a gated one only with an approval, which nobody can take  *)
(* back afterwards, whatever the interleaving of approvals, takeovers,     *)
(* completed goals and admissions.                                         *)
(***************************************************************************)
THEOREM ConsentHolds == Spec => []NothingRunsWithoutConsent
<1>1. Init => Consent
  BY DEF Init, Consent
<1>2. TypeInv /\ Consent /\ [Next]_vars => TypeInv' /\ Consent'
  BY EveryStep, ConsentStep DEF Good
<1>3. Consent => NothingRunsWithoutConsent
  <2> SUFFICES ASSUME Consent, NEW s \in Steps, agent[s] # "none",
                      NEW d \in Deps[s]
               PROVE  approval[d] # "rejected"
    BY DEF Consent, NothingRunsWithoutConsent
  <2>1. d \in Steps
    BY WorkflowAssumption
  <2> QED
    BY <2>1 DEF Consent
<1> QED
  BY <1>1, <1>2, <1>3, InitTypes, PTL DEF Spec

(***************************************************************************)
(* Verification: the two transactions that promote a step agree that all   *)
(* of its verifiers have passed, none of them ever loses its result, and a *)
(* run that completes has no step left.                                    *)
(***************************************************************************)
THEOREM SuccessIsVerifiedHolds == Spec => []SuccessIsVerified
<1>1. Init => SuccessIsVerified
  BY DEF Init, SuccessIsVerified
<1>2. ASSUME TypeInv, SuccessIsVerified, Effect PROVE SuccessIsVerified'
  <2>1. ASSUME NEW s \in Steps, step'[s] = "succeeded", NEW v \in VerifiersOf(s)
        PROVE  ver'[v].status = "passed"
    <3>1. CASE step[s] = "succeeded"
      <4>1. v \in Verifiers /\ ver[v].status = "passed"
        BY <1>2, <3>1 DEF SuccessIsVerified, VerifiersOf
      <4> QED
        BY <1>2, <4>1 DEF Effect, VerifiersMove, TerminalVerifier
    <3>2. CASE step[s] # "succeeded"
      BY <1>2, <2>1, <3>2 DEF Effect, StepsMove
    <3> QED
      BY <3>1, <3>2
  <2>2. ASSUME run'.status = "completed" PROVE AllDone(step')
    <3>1. AllDone(step) => AllDone(step')
      BY <1>2 DEF AllDone, Effect, StepsMove, TerminalStep
    <3> QED
      BY <1>2, <2>2, <3>1 DEF Effect, RunMoves, SuccessIsVerified
  <2> QED
    BY <2>1, <2>2 DEF SuccessIsVerified, VerifiersOf, AllDone
<1>3. TypeInv /\ SuccessIsVerified /\ [Next]_vars
        => TypeInv' /\ SuccessIsVerified'
  BY <1>2, EveryStep DEF Good
<1> QED
  BY <1>1, <1>3, InitTypes, PTL DEF Spec

(***************************************************************************)
(* Cancellation: from the transaction that cancels a run on, no step, no   *)
(* verifier and no agent of it is at work or can be started.               *)
(***************************************************************************)
THEOREM CancelledQuiet == Spec => []CancelledRunIsQuiet
<1>1. Init => CancelledRunIsQuiet
  BY DEF Init, CancelledRunIsQuiet
<1>2. ASSUME TypeInv, CancelledRunIsQuiet, Effect PROVE CancelledRunIsQuiet'
  <2>1. CancelledRunIsQuiet <=> (run.status = "cancelled" => Quiet)
    BY DEF CancelledRunIsQuiet, Quiet
  <2>2. CancelledRunIsQuiet' <=> (run'.status = "cancelled" => Quiet')
    BY DEF CancelledRunIsQuiet, Quiet
  <2>3. ASSUME run.status = "cancelled", Quiet PROVE Quiet'
    <3>1. \A s \in Steps : step'[s] \in TerminalStep
      BY <1>2, <2>3 DEF Quiet, Effect, StepsMove
    <3>2. \A s \in Steps : agent'[s] \notin {"queued", "live"}
      BY <1>2, <2>3 DEF Quiet, Effect, AgentsMove, TerminalRun
    <3>3. \A v \in Verifiers : ver'[v].status \in TerminalVerifier
      BY <1>2, <2>3 DEF Quiet, Effect, VerifiersMove
    <3> QED
      BY <3>1, <3>2, <3>3 DEF Quiet
  <2> QED
    BY <1>2, <2>1, <2>2, <2>3 DEF Effect, RunMoves
<1>3. TypeInv /\ CancelledRunIsQuiet /\ [Next]_vars
        => TypeInv' /\ CancelledRunIsQuiet'
  BY <1>2, EveryStep DEF Good
<1> QED
  BY <1>1, <1>3, InitTypes, PTL DEF Spec

(***************************************************************************)
(* Finality: whoever still acts on a run that has ended (an owner whose    *)
(* lease is live, a late verifier, a request) changes neither its status   *)
(* nor a verifier and starts no agent.                                     *)
(***************************************************************************)
THEOREM EndedFinal == Spec => EndedRunIsFinal
<1>1. TypeInv /\ [Next]_vars => TypeInv'
  BY EveryStep DEF Good
<1>2. TypeInv /\ [Next]_vars =>
        [run.status \in TerminalRun =>
           /\ run'.status = run.status
           /\ ver' = ver
           /\ \A s \in Steps : agent[s] = "none" => agent'[s] = "none"]_vars
  BY EveryStep DEF Good, Effect, RunMoves, AgentsMove
<1> QED
  BY <1>1, <1>2, InitTypes, PTL DEF Spec, EndedRunIsFinal

-----------------------------------------------------------------------------
(* Attempts: an owner that still holds the run knows the current attempt of *)
(* the verifier it executes.                                                *)

AtWork(p) == sup[p].pc \in {"exec", "record"}
Holds(p) == run.owner = p /\ run.gen = sup[p].gen
Current ==
    \A p \in Procs : AtWork(p) /\ Holds(p)
                       => ver[sup[p].ver].attempts = sup[p].attempt

(* No attempt is counted and no result written.                             *)
AttemptsKept ==
    \A v \in Verifiers :
       /\ ver'[v].attempts = ver[v].attempts
       /\ ver[v].status = "running" => ver'[v].status \notin {"passed", "failed"}

(* Whoever holds the run with a verifier at work did so before.             *)
WorkKept ==
    \A q \in Procs : AtWork(q)' /\ Holds(q)' =>
       /\ AtWork(q) /\ Holds(q)
       /\ sup'[q].ver = sup[q].ver /\ sup'[q].attempt = sup[q].attempt

(* The owner stays for its generation, or gives the run up.                 *)
OwnerKept ==
    \/ run'.owner = run.owner /\ run'.gen = run.gen
    \/ run'.owner = Nobody

(* The supervisor p goes on to a label other than those at work.            *)
NotAtWork(p) ==
    /\ \A q \in Procs \ {p} : sup'[q] = sup[q]
    /\ sup'[p].pc \notin {"exec", "record"}

LEMMA WorkIsKept ==
    ASSUME OwnerKept, UNCHANGED sup \/ \E p \in Procs : NotAtWork(p)
    PROVE  WorkKept
  BY WorkflowAssumption DEF OwnerKept, NotAtWork, WorkKept, AtWork, Holds

LEMMA ParkedRests ==
    ASSUME TypeInv, NEW p \in Procs, NEW pc \in {"off", "idle", "block"},
           Park(p, pc)
    PROVE  NotAtWork(p)
  BY DEF TypeInv, SupervisorsOK, Park, Parked, NotAtWork

LEMMA GoesOn ==
    ASSUME TypeInv, NEW p \in Procs, NEW pc, pc \notin {"exec", "record"},
           Go(p, pc)
    PROVE  NotAtWork(p)
  BY DEF TypeInv, SupervisorsOK, Supervisor, Go, NotAtWork

LEMMA OnwardRests ==
    ASSUME TypeInv, NEW p \in Procs, NEW w, NEW pc,
           pc \notin {"exec", "record"}, Onward(p, w, pc)
    PROVE  NotAtWork(p)
<1>1. CASE w \in TerminalRun \cup {"paused"}
  BY <1>1, ParkedRests DEF Onward
<1>2. CASE w \notin TerminalRun \cup {"paused"}
  BY <1>2 DEF Onward, TypeInv, SupervisorsOK, Supervisor, NotAtWork
<1> QED
  BY <1>1, <1>2

LEMMA AwaitingKeeps ==
    ASSUME NEW vs \in VerifierTable, NEW ss, NEW v \in Verifiers
    PROVE  /\ AwaitExecutor(vs, ss)[v].attempts = vs[v].attempts
           /\ AwaitExecutor(vs, ss)[v].status \in {vs[v].status, "blocked"}
  BY DEF VerifierTable, AwaitExecutor, Settle

LEMMA SettlingKeeps ==
    ASSUME NEW vs \in VerifierTable, NEW ss, NEW w \in VerifierStatuses,
           NEW v \in Verifiers
    PROVE  /\ Settle(vs, ss, w)[v].attempts = vs[v].attempts
           /\ Settle(vs, ss, w)[v].status \in {vs[v].status, w}
  BY DEF VerifierTable, Settle

LEMMA StatusKeepsOwner ==
    ASSUME RunOK, NEW w, run' = [run EXCEPT !.status = w] PROVE OwnerKept
  BY DEF RunOK, RunRow, OwnerKept

(* Every step but the claim of a verifier and the record of its result.     *)
Keeps == AttemptsKept /\ WorkKept

LEMMA SupervisorKeeps ==
    ASSUME TypeInv, NEW p \in Procs, SupervisorStep(p), ~Record(p),
           ~ClaimVerifier(p)
    PROVE  Keeps
<1>0. RunOK /\ VerifiersOK /\ SupervisorsOK
  BY DEF TypeInv, TablesOK
<1>1. ASSUME UNCHANGED <<run, ver>>, NotAtWork(p) PROVE Keeps
  <2>1. AttemptsKept /\ OwnerKept
    BY <1>1 DEF AttemptsKept, OwnerKept
  <2> QED
    BY <1>1, <2>1, WorkIsKept DEF Keeps
<1>2. CASE SupervisorEnds(p) \/ LoseFence(p) \/ AdvanceEnded(p)
  BY <1>1, <1>2, ParkedRests
  DEF SupervisorEnds, LoseFence, AdvanceEnded, store
<1>3. CASE AdmitNone(p)
  BY <1>1, <1>3, OnwardRests DEF AdmitNone, store
<1>4. CASE BlockPlan(p)
  BY <1>1, <1>4, GoesOn DEF BlockPlan, store
<1>5. CASE Beat(p)
  <2>1. NotAtWork(p)
    BY <1>0, <1>5 DEF Beat, SupervisorsOK, Supervisor, NotAtWork
  <2> QED
    BY <1>1, <1>5, <2>1 DEF Beat, store
<1>6. CASE Execute(p)
  <2>1. UNCHANGED <<run, ver>>
    BY <1>6 DEF Execute, store
  <2>2. /\ \A q \in Procs \ {p} : sup'[q] = sup[q]
        /\ sup'[p].gen = sup[p].gen /\ sup'[p].ver = sup[p].ver
        /\ sup'[p].attempt = sup[p].attempt /\ sup[p].pc = "exec"
    BY <1>0, <1>6 DEF Execute, At, SupervisorsOK, Supervisor
  <2> QED
    BY <2>1, <2>2 DEF Keeps, AttemptsKept, WorkKept, AtWork, Holds
<1>7. CASE ClaimRun(p)
  <2>1. AttemptsKept
    BY <1>0, <1>7 DEF ClaimRun, VerifiersOK, VerifierTable, AttemptsKept
  <2>2. run'.owner = p /\ NotAtWork(p)
    BY <1>0, <1>7 DEF ClaimRun, SupervisorsOK, Supervisor, NotAtWork
  <2> QED
    BY <2>1, <2>2 DEF Keeps, WorkKept, AtWork, Holds, NotAtWork
<1>8. CASE AdvanceCancel(p)
  <2>1. AttemptsKept
    <3>1. "skipped" \in VerifierStatuses
      BY DEF VerifierStatuses, TerminalVerifier
    <3> QED
      BY <1>0, <1>8, <3>1, SettlingKeeps
      DEF AdvanceCancel, VerifiersOK, AttemptsKept
  <2>2. OwnerKept
    BY <1>0, <1>8 DEF AdvanceCancel, RunOK, RunRow, OwnerKept
  <2> QED
    BY <1>8, <2>1, <2>2, ParkedRests, WorkIsKept DEF AdvanceCancel, Keeps
<1>9. CASE AdvanceRun(p)
  <2>1. PICK ss, w : /\ ver' = AwaitExecutor(ver, ss)
                     /\ run' = [run EXCEPT !.status = w]
                     /\ Onward(p, w, "reconcile")
    BY <1>9 DEF AdvanceRun
  <2>2. AttemptsKept
    <3>1. ASSUME NEW v \in Verifiers
          PROVE  /\ ver'[v].attempts = ver[v].attempts
                 /\ ver'[v].status \in {ver[v].status, "blocked"}
      <4>1. ver \in VerifierTable
        BY <1>0 DEF VerifiersOK
      <4> QED
        BY <2>1, <4>1, AwaitingKeeps
    <3> QED
      BY <3>1 DEF AttemptsKept
  <2> QED
    BY <1>0, <2>1, <2>2, OnwardRests, StatusKeepsOwner, WorkIsKept DEF Keeps
<1>10. CASE Reconcile(p)
  <2>1. CASE run.status \in TerminalRun \cup {"cancel_requested"}
    BY <1>1, <1>10, <2>1, OnwardRests DEF Reconcile, store
  <2>2. CASE run.status \notin TerminalRun \cup {"cancel_requested"}
    <3>1. PICK ss, tt, w :
             /\ ver' = Settle(AwaitExecutor(ver, ss), tt, "skipped")
             /\ run' = [run EXCEPT !.status = w]
             /\ Onward(p, w, "admit")
      BY <1>10, <2>2 DEF Reconcile
    <3>2. AttemptsKept
      <4>1. "skipped" \in VerifierStatuses
        BY DEF VerifierStatuses, TerminalVerifier
      <4>2. AwaitExecutor(ver, ss) \in VerifierTable
        BY <1>0, <4>1, VerifierFunctions DEF VerifiersOK
      <4>3. ASSUME NEW v \in Verifiers
            PROVE  /\ ver'[v].attempts = ver[v].attempts
                   /\ ver'[v].status \in {ver[v].status, "blocked", "skipped"}
        <5>1. ver \in VerifierTable
          BY <1>0 DEF VerifiersOK
        <5>2. /\ AwaitExecutor(ver, ss)[v].attempts = ver[v].attempts
              /\ AwaitExecutor(ver, ss)[v].status \in {ver[v].status, "blocked"}
          BY <5>1, AwaitingKeeps
        <5>3. /\ ver'[v].attempts = AwaitExecutor(ver, ss)[v].attempts
              /\ ver'[v].status \in {AwaitExecutor(ver, ss)[v].status, "skipped"}
          BY <3>1, <4>1, <4>2, SettlingKeeps
        <5> QED
          BY <5>2, <5>3
      <4> QED
        BY <4>3 DEF AttemptsKept
    <3> QED
      BY <1>0, <3>1, <3>2, OnwardRests, StatusKeepsOwner, WorkIsKept DEF Keeps
  <2> QED
    BY <2>1, <2>2
<1>11. CASE AdmitBlocked(p)
  <2>1. AttemptsKept
    <3>1. "unavailable" \in VerifierStatuses
      BY DEF VerifierStatuses
    <3> QED
      BY <1>0, <1>11, <3>1, SettlingKeeps
      DEF AdmitBlocked, VerifiersOK, AttemptsKept
  <2>2. OwnerKept
    BY <1>0, <1>11, StatusKeepsOwner DEF AdmitBlocked
  <2> QED
    BY <1>11, <2>1, <2>2, GoesOn, WorkIsKept DEF AdmitBlocked, Keeps
<1>12. CASE AdmitBranches(p)
  <2>1. AttemptsKept
    BY <1>12 DEF AdmitBranches, AttemptsKept
  <2>2. OwnerKept
    BY <1>0, <1>12 DEF AdmitBranches, RunOK, RunRow, OwnerKept
  <2> QED
    BY <1>12, <2>1, <2>2, GoesOn, WorkIsKept DEF AdmitBranches, Keeps
<1>13. CASE AdmitRefused(p)
  BY <1>1, <1>13, GoesOn DEF AdmitRefused, store
<1> QED
  BY <1>2, <1>3, <1>4, <1>5, <1>6, <1>7, <1>8, <1>9, <1>10, <1>11, <1>12, <1>13
  DEF SupervisorStep

LEMMA OtherStepsKeep ==
    ASSUME TypeInv, [Next]_vars, ~\E p \in Procs : SupervisorStep(p)
    PROVE  Keeps
<1>1. UNCHANGED ver
  BY DEF Next, vars, Activate, DbFails, Crash, AgentStep, AgentClaimed, AgentEnds,
         AgentStopped, AgentOrphaned, UserStops, SetAgent, CompleteGoal,
         RequestStep, CancelRequest, PauseRequest, ResumeRequest, Request,
         UpdatePlan, Approve, Reject, Expire, Stall, store
<1>2. OwnerKept
  <2>1. CASE Expire \/ Stall
    BY <2>1 DEF Expire, Stall, TypeInv, TablesOK, RunOK, RunRow, OwnerKept
  <2>2. CASE CancelRequest \/ PauseRequest \/ ResumeRequest
    BY <2>2 DEF CancelRequest, PauseRequest, ResumeRequest, Request, Unowned,
                OwnerKept
  <2>3. CASE UNCHANGED run
    BY <2>3 DEF OwnerKept
  <2> QED
    BY <2>1, <2>2, <2>3
    DEF Next, vars, Activate, DbFails, Crash, AgentStep, AgentClaimed, AgentEnds,
        AgentStopped, AgentOrphaned, UserStops, SetAgent, CompleteGoal,
        RequestStep, UpdatePlan, Approve, Reject, store
<1>3. UNCHANGED sup \/ \E p \in Procs : NotAtWork(p)
  <2>1. CASE \E p \in Procs : Activate(p) \/ DbFails(p) \/ Crash(p)
    BY <2>1, ParkedRests DEF Activate, DbFails, Crash
  <2>2. CASE \E u \in owed, p \in Procs : UpdatePlan(u, p)
    BY <2>2, ParkedRests DEF UpdatePlan
  <2>3. CASE UNCHANGED sup
    BY <2>3
  <2> QED
    BY <2>1, <2>2, <2>3
    DEF Next, vars, AgentStep, AgentClaimed, AgentEnds, AgentStopped,
        AgentOrphaned, UserStops, SetAgent, CompleteGoal, RequestStep,
        CancelRequest, PauseRequest, ResumeRequest, Request, Approve, Reject,
        Expire, Stall
<1> QED
  BY <1>1, <1>2, <1>3, WorkIsKept DEF Keeps, AttemptsKept

(* The claim counts the attempt that it hands to its own supervisor.        *)
LEMMA ClaimIsCurrent ==
    ASSUME TypeInv, Current, NEW p \in Procs, ClaimVerifier(p)
    PROVE  /\ Current'
           /\ \A v \in Verifiers : ver[v].status = "running" =>
                 ver'[v].status \notin {"passed", "failed"}
<1>0. VerifiersOK /\ SupervisorsOK /\ UNCHANGED run
  BY DEF TypeInv, TablesOK, ClaimVerifier
<1>1. CASE VerifiableRun /\ Claimable # {}
  <2> DEFINE v == NextVerifier
  <2>1. v \in Verifiers
    BY <1>1, NextVerifierClaimable DEF Claimable
  <2>2. PICK n : n = ver[v].attempts + 1
    OBVIOUS
  <2>3. /\ ver' = [ver EXCEPT ![v].status = "running", ![v].attempts = n]
        /\ sup' = [sup EXCEPT ![p].pc = "exec", ![p].ver = v,
                              ![p].attempt = n]
    BY <1>1, <2>2 DEF ClaimVerifier
  <2> HIDE DEF v
  <2>4. /\ ver'[v].attempts = n /\ ver'[v].status = "running"
        /\ \A x \in Verifiers \ {v} : ver'[x] = ver[x]
    BY <1>0, <2>1, <2>3 DEF VerifiersOK, VerifierTable
  <2>5. /\ sup'[p].ver = v /\ sup'[p].attempt = n
        /\ \A q \in Procs \ {p} : sup'[q] = sup[q]
    BY <1>0, <2>3 DEF SupervisorsOK, Supervisor
  <2>6. run.owner = p
    BY DEF ClaimVerifier, Fenced
  <2>7. Current'
    BY <1>0, <2>4, <2>5, <2>6 DEF Current, AtWork, Holds
  <2> QED
    BY <2>4, <2>7
<1>2. CASE ~(VerifiableRun /\ Claimable # {})
  <2>1. UNCHANGED ver /\ Go(p, "beat")
    BY <1>2 DEF ClaimVerifier
  <2>2. WorkKept
    BY <1>0, <2>1, GoesOn, WorkIsKept DEF OwnerKept
  <2> QED
    BY <2>1, <2>2 DEF WorkKept, Current
<1> QED
  BY <1>1, <1>2

(* The record writes the result of the verifier it remembers and rests.     *)
LEMMA RecordIsCurrent ==
    ASSUME TypeInv, Current, NEW p \in Procs, Record(p)
    PROVE  /\ Current'
           /\ sup'[p] # sup[p]
           /\ \A v \in Verifiers :
                 ver[v].status = "running"
                   /\ ver'[v].status \in {"passed", "failed"} => v = sup[p].ver
<1>0. VerifiersOK /\ SupervisorsOK /\ RunOK
  BY DEF TypeInv, TablesOK
<1>1. NotAtWork(p)
  <2>1. CASE Park(p, "idle")
    BY <2>1, ParkedRests
  <2>2. CASE sup' = Recorded(p)
    <3>1. [Parked("beat") EXCEPT !.gen = sup[p].gen].pc = "beat"
      BY DEF Parked
    <3> QED
      BY <1>0, <2>2, <3>1 DEF Recorded, SupervisorsOK, NotAtWork
  <2> QED
    BY <2>1, <2>2 DEF Record
<1>2. PICK w \in VerifierStatuses :
         ver' = ver \/ ver' = [ver EXCEPT ![sup[p].ver].status = w]
  <2>1. {"passed", "failed", "blocked"} \subseteq VerifierStatuses
    BY DEF VerifierStatuses, TerminalVerifier
  <2> QED
    BY <2>1 DEF Record, RecordPass, RecordFail
<1>3. \A v \in Verifiers : /\ ver'[v].attempts = ver[v].attempts
                           /\ v # sup[p].ver => ver'[v] = ver[v]
  BY <1>0, <1>2 DEF VerifiersOK, VerifierTable
<1>4. OwnerKept
  BY <1>0 DEF Record, RecordPass, RecordFail, RunOK, RunRow, OwnerKept
<1>5. WorkKept
  BY <1>1, <1>4, WorkIsKept
<1>6. Current'
  BY <1>0, <1>3, <1>5 DEF WorkKept, Current, AtWork, SupervisorsOK,
                          SupervisorOK
<1>7. sup'[p] # sup[p]
  BY <1>1 DEF NotAtWork, Record, At
<1> QED
  BY <1>3, <1>6, <1>7

(***************************************************************************)
(* Currency: the result of an attempt is recorded only by the owner that   *)
(* claimed this very attempt.  The fence compares owner and generation and *)
(* not the attempt; that suffices because only the holder of the current   *)
(* generation counts attempts.                                             *)
(***************************************************************************)
THEOREM ResultsCurrent == Spec => ResultIsCurrent
<1>1. Init => Current
  BY DEF Init, Current, AtWork, Parked
<1> DEFINE A == \A v \in Verifiers :
          ver[v].status = "running" /\ ver'[v].status \in {"passed", "failed"}
          => \E p \in Procs : /\ At(p, "record") /\ sup[p].ver = v
                              /\ sup[p].attempt = ver[v].attempts
                              /\ sup'[p] # sup[p]
<1>2. ASSUME TypeInv, Current, [Next]_vars PROVE Current' /\ A
  <2>1. ASSUME Keeps PROVE Current' /\ A
    <3>1. \A q \in Procs : AtWork(q) => sup[q].ver \in Verifiers
      BY <1>2 DEF TypeInv, SupervisorsOK, SupervisorOK, AtWork
    <3>2. Current'
      BY <1>2, <2>1, <3>1 DEF Keeps, AttemptsKept, WorkKept, Current
    <3> QED
      BY <2>1, <3>2 DEF Keeps, AttemptsKept
  <2>2. ASSUME NEW p \in Procs, Record(p) PROVE Current' /\ A
    <3>1. At(p, "record") /\ sup[p].attempt = ver[sup[p].ver].attempts
      BY <1>2, <2>2 DEF Record, At, Fenced, Current, AtWork, Holds
    <3> QED
      BY <1>2, <2>2, <3>1, RecordIsCurrent
  <2>3. ASSUME NEW p \in Procs, ClaimVerifier(p) PROVE Current' /\ A
    BY <1>2, <2>3, ClaimIsCurrent
  <2> QED
    BY <1>2, <2>1, <2>2, <2>3, SupervisorKeeps, OtherStepsKeep
<1>3. TypeInv /\ [Next]_vars => TypeInv'
  BY EveryStep DEF Good
<1>4. TypeInv /\ Current /\ [Next]_vars => TypeInv' /\ Current' /\ [A]_vars
  BY <1>2, <1>3
<1> QED
  BY <1>1, <1>4, InitTypes, PTL DEF Spec, ResultIsCurrent

-----------------------------------------------------------------------------
(* Limits on branches.  First, finite sets of numbers.                      *)

(* A nonempty finite set of numbers has a largest one: the element with the *)
(* fewest elements above it.                                                *)
LEMMA Largest ==
    ASSUME NEW T, T \subseteq Nat, T # {}, IsFiniteSet(T)
    PROVE  \E x \in T : \A y \in T : y <= x
<1> DEFINE Above(x) == {y \in T : x < y}
           Counts == {Cardinality(Above(x)) : x \in T}
<1>1. ASSUME NEW x \in T
      PROVE  IsFiniteSet(Above(x)) /\ Cardinality(Above(x)) \in Nat
  <2>1. Above(x) \in SUBSET T
    OBVIOUS
  <2> QED
    BY <2>1, FS_Subset, FS_CardinalityType
<1>2. Counts \subseteq Nat /\ Counts # {}
  BY <1>1
<1>3. PICK n \in Counts : \A m \in Counts : n <= m
  BY <1>2, LeastNatural
<1>4. PICK x \in T : n = Cardinality(Above(x))
  OBVIOUS
<1>5. ASSUME NEW y \in T, x < y PROVE FALSE
  <2>1. Above(y) \in SUBSET Above(x) /\ y \in Above(x) /\ y \notin Above(y)
    <3>1. \A z \in T : y < z => x < z
      BY <1>4, <1>5
    <3>2. ~(y < y)
      BY <1>5
    <3> QED
      BY <1>5, <3>1, <3>2
  <2>2. /\ Cardinality(Above(y)) <= Cardinality(Above(x))
        /\ Cardinality(Above(x)) = Cardinality(Above(y)) => Above(x) = Above(y)
    BY <1>1, <2>1, FS_Subset
  <2>3. Cardinality(Above(x)) # Cardinality(Above(y))
    BY <2>1, <2>2
  <2>4. n <= Cardinality(Above(y))
    BY <1>3
  <2> HIDE DEF Above
  <2> QED
    BY <1>1, <1>4, <2>2, <2>3, <2>4
<1> QED
  BY <1>5

(* Elements of T with fewer than k elements of F below them, when T is part *)
(* of F: there are at most k.                                               *)
LEMMA FirstFew ==
    ASSUME NEW F, F \subseteq Nat, IsFiniteSet(F), NEW T \in SUBSET F,
           NEW k \in Nat,
           \A s \in T : Cardinality({r \in F : r < s}) < k
    PROVE  IsFiniteSet(T) /\ Cardinality(T) \in 0 .. k
<1>1. IsFiniteSet(T) /\ Cardinality(T) \in Nat
  BY FS_Subset, FS_CardinalityType
<1>2. CASE T = {}
  BY <1>1, <1>2, FS_EmptySet
<1>3. CASE T # {}
  <2>1. PICK x \in T : \A y \in T : y <= x
    BY <1>1, <1>3, Largest
  <2> DEFINE B == {r \in F : r < x}
  <2>2. IsFiniteSet(B) /\ Cardinality(B) \in Nat
    <3>1. B \in SUBSET F
      OBVIOUS
    <3> QED
      BY <3>1, FS_Subset, FS_CardinalityType
  <2>3. T \ {x} \in SUBSET B
    BY <2>1
  <2>4. Cardinality(T \ {x}) = Cardinality(T) - 1
    BY <1>1, FS_RemoveElement
  <2>5. Cardinality(T \ {x}) <= Cardinality(B) /\ Cardinality(B) < k
    BY <2>2, <2>3, FS_Subset
  <2> HIDE DEF B
  <2> QED
    BY <1>1, <2>2, <2>4, <2>5
<1> QED
  BY <1>2, <1>3

LEMMA Counting ==
    ASSUME NEW T \in SUBSET Steps
    PROVE  IsFiniteSet(T) /\ Cardinality(T) \in Nat /\ T \subseteq Nat
  BY WorkflowAssumption, FS_Subset, FS_CardinalityType

(* A part of Steps that grows by another part.                              *)
LEMMA Grown ==
    ASSUME NEW S \in SUBSET Steps, NEW T \in SUBSET Steps,
           NEW U \in SUBSET (S \cup T)
    PROVE  Cardinality(U) <= Cardinality(S) + Cardinality(T)
<1>1. /\ IsFiniteSet(S) /\ IsFiniteSet(T) /\ IsFiniteSet(S \cup T)
      /\ IsFiniteSet(S \cap T)
      /\ Cardinality(S) \in Nat /\ Cardinality(T) \in Nat
      /\ Cardinality(S \cap T) \in Nat /\ Cardinality(S \cup T) \in Nat
      /\ Cardinality(U) \in Nat
  BY Counting
<1>2. Cardinality(S \cup T) = Cardinality(S) + Cardinality(T)
                                - Cardinality(S \cap T)
  BY <1>1, FS_Union
<1>3. Cardinality(U) <= Cardinality(S \cup T)
  BY <1>1, FS_Subset
<1> QED
  BY <1>1, <1>2, <1>3

(* What an admission may take.                                              *)
LEMMA AdmittedFew ==
    ASSUME BranchCapacity > 0, BranchLimits
    PROVE  /\ Admitted \in SUBSET Candidates
           /\ Cardinality(Admitted) <= BranchCapacity
           /\ BranchCapacity \in Nat
           /\ Cardinality(ActiveBranches \cap Isolated)
                + Cardinality(Admitted \cap Isolated) <= MaxWorktrees
<1> DEFINE trees == Cardinality(ActiveBranches \cap Isolated)
           wooded == Candidates \cap Isolated
           fits(s) == s \in Isolated =>
             trees + Cardinality({r \in wooded : r < s}) < MaxWorktrees
           fit == {s \in Candidates : fits(s)}
<1>1. Admitted = {s \in fit : Cardinality({r \in fit : r < s})
                                < BranchCapacity}
  BY DEF Admitted
<1>2. /\ Candidates \in SUBSET Steps /\ ActiveBranches \in SUBSET Steps
      /\ LiveAgents \in SUBSET Steps
  BY DEF Candidates, ActiveBranches, LiveAgents
<1>3. BranchCapacity \in Nat
  BY <1>2, Counting, WorkflowAssumption DEF BranchCapacity, Min2
<1>4. fit \in SUBSET Steps /\ Admitted \in SUBSET fit
  BY <1>1, <1>2
<1>5. Cardinality(Admitted) <= BranchCapacity
  <2>1. \A s \in Admitted : Cardinality({r \in fit : r < s}) < BranchCapacity
    BY <1>1
  <2> HIDE DEF fit
  <2>2. IsFiniteSet(fit) /\ fit \subseteq Nat
    BY <1>4, Counting
  <2>3. Cardinality(Admitted) \in 0 .. BranchCapacity
    BY <1>3, <1>4, <2>1, <2>2, FirstFew
  <2> QED
    BY <1>3, <2>3
<1>6. trees \in Nat /\ trees <= MaxWorktrees /\ MaxWorktrees - trees \in Nat
  <2>1. ActiveBranches \cap Isolated \in SUBSET Steps
    BY <1>2
  <2>2. trees \in Nat
    BY <2>1, Counting
  <2> QED
    BY <2>2, WorkflowAssumption DEF BranchLimits
<1>7. Cardinality(Admitted \cap Isolated) \in 0 .. MaxWorktrees - trees
  <2>1. Admitted \cap Isolated \in SUBSET wooded /\ wooded \in SUBSET Steps
    BY <1>1, <1>2
  <2>2. ASSUME NEW s \in Admitted \cap Isolated
        PROVE  Cardinality({r \in wooded : r < s}) < MaxWorktrees - trees
    <3>1. trees + Cardinality({r \in wooded : r < s}) < MaxWorktrees
      BY <1>1, <2>2
    <3>2. {r \in wooded : r < s} \in SUBSET Steps
      BY <2>1
    <3>3. Cardinality({r \in wooded : r < s}) \in Nat
      BY <3>2, Counting
    <3> HIDE DEF wooded, trees
    <3> QED
      BY <1>6, <3>1, <3>3, WorkflowAssumption
  <2>3. IsFiniteSet(wooded) /\ wooded \subseteq Nat
    BY <2>1, Counting
  <2> HIDE DEF wooded, trees
  <2> QED
    BY <1>6, <2>1, <2>2, <2>3, FirstFew
<1>8. Admitted \in SUBSET Candidates
  BY <1>1
<1> HIDE DEF trees, fit, wooded
<1>9. trees + Cardinality(Admitted \cap Isolated) <= MaxWorktrees
  BY <1>6, <1>7, WorkflowAssumption
<1> QED
  BY <1>3, <1>5, <1>8, <1>9 DEF trees

(* No branch and no agent begins.                                           *)
NoneBegins ==
    \A s \in Steps :
       /\ step'[s] = "active" => step[s] = "active"
       /\ agent[s] = "none" => agent'[s] = "none"
       /\ agent[s] \in TerminalAgent => agent'[s] \in TerminalAgent

LEMMA LimitsKept ==
    ASSUME BranchLimits, NoneBegins PROVE BranchLimits'
<1>1. /\ ActiveBranches' \in SUBSET ActiveBranches
      /\ (ActiveBranches \cap Isolated)' \in SUBSET (ActiveBranches \cap Isolated)
      /\ LiveAgents' \in SUBSET LiveAgents
  BY DEF NoneBegins, ActiveBranches, LiveAgents, TerminalAgent
<1>2. /\ ActiveBranches \in SUBSET Steps /\ LiveAgents \in SUBSET Steps
      /\ ActiveBranches \cap Isolated \in SUBSET Steps
  BY DEF ActiveBranches, LiveAgents
<1>3. /\ Cardinality(ActiveBranches') <= Cardinality(ActiveBranches)
      /\ Cardinality((ActiveBranches \cap Isolated)')
           <= Cardinality(ActiveBranches \cap Isolated)
      /\ Cardinality(LiveAgents') <= Cardinality(LiveAgents)
  BY <1>1, <1>2, Counting, FS_Subset
<1>4. /\ {Cardinality(ActiveBranches), Cardinality(LiveAgents),
          Cardinality(ActiveBranches \cap Isolated)} \subseteq Nat
      /\ {Cardinality(ActiveBranches'), Cardinality(LiveAgents'),
          Cardinality((ActiveBranches \cap Isolated)')} \subseteq Nat
  BY <1>1, <1>2, Counting
<1> QED
  BY <1>3, <1>4, WorkflowAssumption DEF BranchLimits

LEMMA AdmissionKeepsLimits ==
    ASSUME TypeInv, BranchLimits, NEW p \in Procs, AdmitBranches(p)
    PROVE  BranchLimits'
<1>1. BranchCapacity > 0 /\ StepsOK /\ AgentsOK
  BY DEF AdmitBranches, TypeInv, TablesOK
<1>2. /\ Admitted \in SUBSET Candidates
      /\ Cardinality(Admitted) <= BranchCapacity /\ BranchCapacity \in Nat
      /\ Cardinality(ActiveBranches \cap Isolated)
           + Cardinality(Admitted \cap Isolated) <= MaxWorktrees
  BY <1>1, AdmittedFew
<1>3. \A s \in Steps : step'[s] = IF s \in Admitted THEN "active" ELSE step[s]
  BY <1>1 DEF AdmitBranches, Move
<1>4. \A s \in Steps : agent'[s] = IF s \in Admitted THEN "queued" ELSE agent[s]
  BY <1>1 DEF AdmitBranches
<1>5. /\ ActiveBranches' \in SUBSET (ActiveBranches \cup Admitted)
      /\ (ActiveBranches \cap Isolated)' \in
            SUBSET ((ActiveBranches \cap Isolated) \cup (Admitted \cap Isolated))
      /\ LiveAgents' \in SUBSET (LiveAgents \cup Admitted)
  BY <1>3, <1>4 DEF ActiveBranches, LiveAgents
<1>6. /\ ActiveBranches \in SUBSET Steps /\ LiveAgents \in SUBSET Steps
      /\ ActiveBranches \cap Isolated \in SUBSET Steps
      /\ Admitted \in SUBSET Steps /\ Admitted \cap Isolated \in SUBSET Steps
  BY <1>2 DEF ActiveBranches, LiveAgents, Candidates
<1>7. /\ Cardinality(ActiveBranches')
           <= Cardinality(ActiveBranches) + Cardinality(Admitted)
      /\ Cardinality((ActiveBranches \cap Isolated)')
           <= Cardinality(ActiveBranches \cap Isolated)
                + Cardinality(Admitted \cap Isolated)
      /\ Cardinality(LiveAgents')
           <= Cardinality(LiveAgents) + Cardinality(Admitted)
  BY <1>5, <1>6, Grown
<1>8. /\ Cardinality(ActiveBranches) \in Nat /\ Cardinality(LiveAgents) \in Nat
      /\ Cardinality(ActiveBranches \cap Isolated) \in Nat
      /\ Cardinality(Admitted) \in Nat
      /\ Cardinality(Admitted \cap Isolated) \in Nat
  BY <1>6, Counting
<1>9. /\ Cardinality(ActiveBranches') \in Nat /\ Cardinality(LiveAgents') \in Nat
      /\ Cardinality((ActiveBranches \cap Isolated)') \in Nat
  <2>1. /\ ActiveBranches' \in SUBSET Steps /\ LiveAgents' \in SUBSET Steps
        /\ (ActiveBranches \cap Isolated)' \in SUBSET Steps
    BY <1>5, <1>6
  <2> QED
    BY <2>1, Counting
<1>10. /\ Cardinality(ActiveBranches) + BranchCapacity <= MaxParallel
       /\ Cardinality(LiveAgents) + BranchCapacity <= MaxAgents
  BY <1>2, <1>8, WorkflowAssumption DEF BranchCapacity, Min2
<1> QED
  BY <1>2, <1>7, <1>8, <1>9, <1>10, WorkflowAssumption DEF BranchLimits

LEMMA OnlyAdmissionBegins ==
    ASSUME TypeInv, [Next]_vars, ~\E p \in Procs : AdmitBranches(p)
    PROVE  NoneBegins
<1>0. StepsOK /\ AgentsOK /\ VerifiersOK /\ step \in StepTable
      /\ SupervisorsOK
  BY DEF TypeInv, TablesOK, StepsOK
<1>1. ASSUME UNCHANGED <<step, agent>> PROVE NoneBegins
  BY <1>1 DEF NoneBegins
<1>2. ASSUME NEW p \in Procs, SupervisorStep(p) PROVE NoneBegins
  <2>1. CASE AdvanceCancel(p)
    <3>1. \A s \in Steps : step'[s] \in {step[s], "cancelled"}
      BY <1>0, <2>1 DEF AdvanceCancel, Move
    <3>2. \A s \in Steps : agent'[s] = StopAgent(s)
      BY <2>1 DEF AdvanceCancel
    <3> QED
      BY <3>1, <3>2 DEF NoneBegins, StopAgent, TerminalAgent
  <2>2. CASE AdvanceRun(p)
    <3>1. PICK ss, vs :
             /\ step' = Promote(Move(MarkReady(step), ss, "waiting_verifier"), vs)
             /\ UNCHANGED agent
      BY <2>2 DEF AdvanceRun
    <3>2. \A s \in Steps :
             step'[s] \in {step[s], "ready", "waiting_verifier", "succeeded"}
      BY <1>0, <3>1 DEF Promote, Move, MarkReady
    <3> QED
      BY <3>1, <3>2 DEF NoneBegins
  <2>3. CASE Reconcile(p)
    <3>1. CASE run.status \in TerminalRun \cup {"cancel_requested"}
      BY <1>1, <2>3, <3>1 DEF Reconcile, store
    <3>2. CASE run.status \notin TerminalRun \cup {"cancel_requested"}
      <4>1. PICK ss, tt :
               /\ step' = Move(Move(step, ss, "waiting_verifier"), tt, "failed")
               /\ UNCHANGED agent
        BY <2>3, <3>2 DEF Reconcile
      <4>2. \A s \in Steps : step'[s] \in {step[s], "waiting_verifier", "failed"}
        BY <1>0, <4>1 DEF Move
      <4> QED
        BY <4>1, <4>2 DEF NoneBegins
    <3> QED
      BY <3>1, <3>2
  <2>4. CASE AdmitBlocked(p)
    <3>1. /\ \A s \in Steps : step'[s] \in {step[s], "blocked"}
          /\ UNCHANGED agent
      BY <1>0, <2>4 DEF AdmitBlocked, Move
    <3> QED
      BY <3>1 DEF NoneBegins
  <2>5. CASE Record(p)
    <3>1. /\ \A s \in Steps : step'[s] \in {step[s], "succeeded", "failed"}
          /\ UNCHANGED agent
      BY <1>0, <2>5 DEF Record, RecordPass, RecordFail, StepTable
    <3> QED
      BY <3>1 DEF NoneBegins
  <2>6. CASE \/ ClaimRun(p) \/ SupervisorEnds(p) \/ LoseFence(p) \/ Beat(p)
             \/ AdvanceEnded(p) \/ BlockPlan(p) \/ AdmitNone(p)
             \/ AdmitRefused(p) \/ ClaimVerifier(p) \/ Execute(p)
    BY <1>1, <2>6
    DEF ClaimRun, SupervisorEnds, LoseFence, Beat, AdvanceEnded, BlockPlan,
        AdmitNone, AdmitRefused, ClaimVerifier, Execute, store
  <2> QED
    BY <1>2, <2>1, <2>2, <2>3, <2>4, <2>5, <2>6 DEF SupervisorStep
<1>3. ASSUME NEW s \in Steps, AgentStep(s) \/ AgentOrphaned(s) \/ UserStops(s)
      PROVE  NoneBegins
  <2>1. PICK w \in AgentStatuses \ {"none"} :
           /\ agent' = [agent EXCEPT ![s] = w] /\ UNCHANGED step
           /\ agent[s] \in {"queued", "live", "stopping"}
    BY <1>3 DEF AgentStep, AgentOrphaned, UserStops, AgentClaimed, AgentEnds,
                AgentStopped, SetAgent, StopAgent, AgentStatuses, TerminalAgent
  <2> QED
    BY <1>0, <2>1 DEF NoneBegins, AgentsOK, TerminalAgent
<1>4. ASSUME NEW s \in Gated, Approve(s) \/ Reject(s) PROVE NoneBegins
  <2>1. UNCHANGED agent /\ \A t \in Steps : step'[t] \in {step[t], "skipped"}
    BY <1>0, <1>4 DEF Approve, Reject, StepTable
  <2> QED
    BY <2>1 DEF NoneBegins
<1>5. CASE \/ CancelRequest \/ PauseRequest \/ ResumeRequest
           \/ \E u \in owed, p \in Procs : UpdatePlan(u, p)
           \/ \E s \in Worked : CompleteGoal(s)
           \/ \E p \in Procs : Activate(p) \/ DbFails(p) \/ Crash(p)
           \/ Expire \/ Stall \/ UNCHANGED vars
  BY <1>1, <1>5
  DEF CancelRequest, PauseRequest, ResumeRequest, Request, UpdatePlan,
      CompleteGoal, Activate, DbFails, Crash, Expire, Stall, vars, store
<1> QED
  BY <1>2, <1>3, <1>4, <1>5 DEF Next, RequestStep

(***************************************************************************)
(* Limits: supervisors of several generations admit branches, and agents   *)
(* end, are stopped, lost and claimed again in between, but never more     *)
(* branches, worktrees or agents exist than admit_ready_workflow_branches  *)
(* allows, because every admission counts again in its own transaction.    *)
(***************************************************************************)
THEOREM BranchLimitsHold == Spec => []BranchLimits
<1>1. Init => BranchLimits
  <2> SUFFICES ASSUME Init PROVE BranchLimits
    OBVIOUS
  <2>1. /\ ActiveBranches = {} /\ LiveAgents = {}
        /\ ActiveBranches \cap Isolated = {}
    BY DEF Init, ActiveBranches, LiveAgents
  <2> QED
    BY <2>1, FS_EmptySet, WorkflowAssumption DEF BranchLimits
<1>2. TypeInv /\ BranchLimits /\ [Next]_vars => TypeInv' /\ BranchLimits'
  BY EveryStep, AdmissionKeepsLimits, OnlyAdmissionBegins, LimitsKept DEF Good
<1> QED
  BY <1>1, <1>2, InitTypes, PTL DEF Spec

=============================================================================
