------------------------- MODULE MCUpgradeReconciler -------------------------
(* Small instances of UpgradeReconciler for TLC. *)
EXTENDS UpgradeReconciler

(* One ClusterPolicy, as the operator expects. *)
MCOnePolicy == {"p1"}

(* Two ClusterPolicies, one of them a duplicate. *)
MCTwoPolicies == {"p1", "p2"}

=============================================================================
