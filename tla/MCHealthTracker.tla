---------------------------- MODULE MCHealthTracker ----------------------------
(* The parts of the tracker share no variable, so each is explored on its   *)
(* own: outcomes vary while calls repeat nothing, calls repeat while every  *)
(* outcome is the same, or the test loop runs.  traffic, fixed initially,   *)
(* says which.                                                              *)
EXTENDS HealthTracker, MCTestLoop

VARIABLE traffic

MCInit == Init /\ TestInit /\ traffic \in {"outcomes", "repeats", "tests"}

MCObserve ==
    /\ \/ traffic = "outcomes" /\ \E t \in Tools, ok \in BOOLEAN : Observe(t, ok, NoHash)
       \/ traffic = "repeats" /\ \E t \in Tools, h \in Hashes : Observe(t, TRUE, h)
       \/ traffic # "tests" /\ Tick
    /\ UNCHANGED testVars

MCTest == traffic = "tests" /\ TestNext /\ UNCHANGED vars

MCNext == (MCObserve \/ MCTest) /\ UNCHANGED traffic

MCSpec == MCInit /\ [][MCNext]_<<vars, testVars, traffic>>
================================================================================
