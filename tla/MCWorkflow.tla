----------------------------- MODULE MCWorkflow -----------------------------
(* Small instances of WorkflowRuns for TLC. *)
EXTENDS WorkflowRuns, TLC

\* Step 3 needs the gated step 2; step 1 is independent.
NeedsGated == 1 :> {} @@ 2 :> {} @@ 3 :> {2}

Independent == [s \in Steps |-> {}]

\* One verifier, on step 1 or on step 2.
VerifyFirst == 1 :> 1
VerifySecond == 1 :> 2
=============================================================================
