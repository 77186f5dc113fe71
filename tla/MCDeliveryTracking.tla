-------------------------- MODULE MCDeliveryTracking --------------------------
(***************************************************************************)
(* Instances of DeliveryTrackingAlone for TLC: which events a provider     *)
(* reports in a run.                                                       *)
(***************************************************************************)
EXTENDS DeliveryTrackingAlone, TLC

\* One of each kind the tracking service tells apart.
ResendOutcomes == {"email.sent", "email.delivered", "email.bounced"}

ResendKinds == ResendOutcomes \cup {"email.opened"}

\* What tells outcomes and their order apart.
TwilioKinds == {"sent", "delivered", "undelivered"}

Symmetry == Permutations(Hooks)
=============================================================================
