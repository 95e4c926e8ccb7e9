----------------------- MODULE MCClusterPolicyController -----------------------
(* Small instances of ClusterPolicyController for TLC. *)
EXTENDS ClusterPolicyController, StageEnablement

PCI == "feature.node.kubernetes.io/pci-10de.present"

(* A GPU node NFD has labelled, and a node with no labels yet. *)
MCInitLabels ==
  {[NoLabels EXCEPT ![PCI] = "true", ![NFDKernel] = "5.15.0"], NoLabels}

(* NFD adds or drops the GPU and kernel labels; an admin disables operands. *)
MCEnvEdits ==
  {<<PCI, "true">>, <<PCI, Absent>>, <<NFDKernel, "5.15.0">>,
   <<CommonOperands, "false">>}

(* The policy of the runs: the device plugin disabled, every other     *)
(* component left to its default.                                        *)
MCPolicySpec ==
  [driver |-> <<>>, toolkit |-> <<>>, devicePlugin |-> <<FALSE>>,
   gfd |-> <<>>, nodeStatusExporter |-> <<>>]

(* The stages init registers, enabled as isStateEnabled says.  The       *)
(* pre-requisites stage only creates runtime classes, whose controls do  *)
(* not consult isStateEnabled (which would call the name invalid), so it *)
(* is always enabled.                                                     *)
MCStageEnabled ==
  [s \in 1..Len(StateNames) |->
     s = 1 \/ isStateEnabled(StateNames[s], MCPolicySpec)]

ASSUME MCStagesAssumption == NumStages = Len(StateNames)

=============================================================================
