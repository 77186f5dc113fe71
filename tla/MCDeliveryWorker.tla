------------------------------- MODULE MCDeliveryWorker -------------------------------
(***************************************************************************)
(* Instances of DeliveryWorker for TLC: which faults a run allows.         *)
(***************************************************************************)
EXTENDS DeliveryWorker, TLC

NoFaults == [f \in FaultKinds |-> 0]

OneLostLock == [NoFaults EXCEPT !["lock"] = 1]

OneLostRequest == [NoFaults EXCEPT !["queue"] = 1]

\* One of each, except that no job goes to two workers.
OneOfEach == [f \in FaultKinds |-> IF f = "lock" THEN 0 ELSE 1]

Symmetry ==
    Permutations(Notifications) \cup Permutations(Workers) \cup Permutations(Jobs)
=============================================================================
