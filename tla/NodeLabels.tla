----------------------------- MODULE NodeLabels -----------------------------
(***************************************************************************)
(* The node-label classification rules of controllers/state_manager.go,   *)
(* as operators on one node's label map.  A label map is a total function *)
(* from the label keys the operator reads or writes to a value, with      *)
(* Absent standing for "key not in the map".  No variables: the modules   *)
(* LabelReconciler and ClusterPolicyController apply these operators to   *)
(* their nodes.                                                            *)
(***************************************************************************)

(* Marker for a key that is not in the Go map. *)
Absent == "<absent>"

(* Label keys (state_manager.go constants). *)
CommonGPU         == "xdxct.com/gpu.present"
CommonOperands    == "xdxct.com/gpu.deploy.operands"
MigManager        == "xdxct.com/gpu.deploy.mig-manager"
MigCapable        == "xdxct.com/mig.capable"
VgpuHostDriver    == "xdxct.com/vgpu.host-driver-version"
GPUProduct        == "xdxct.com/gpu.product"
WorkloadConfigKey == "xdxct.com/gpu.workload.config"
NFDKernel         == "feature.node.kubernetes.io/kernel-version.full"
NFDOSTree         == "feature.node.kubernetes.io/system-os_release.OSTREE_VERSION"

(* The workload configurations, keys of gpuStateLabels. *)
Container     == "container"
VMPassthrough == "vm-passthrough"
VMVgpu        == "vm-vgpu"
WorkloadConfigs == {Container, VMPassthrough, VMVgpu}

(* gpuStateLabels: the deployment labels of each workload configuration;  *)
(* every one of them is set to "true".  The sandbox families share three *)
(* keys.                                                                   *)
gpuStateLabels ==
  [c \in WorkloadConfigs |->
     CASE c = Container ->
            {"xdxct.com/gpu.deploy.driver",
             "xdxct.com/gpu.deploy.gpu-feature-discovery",
             "xdxct.com/gpu.deploy.container-toolkit",
             "xdxct.com/gpu.deploy.device-plugin",
             "xdxct.com/gpu.deploy.node-status-exporter",
             "xdxct.com/gpu.deploy.operator-validator"}
       [] c = VMPassthrough ->
            {"xdxct.com/gpu.deploy.sandbox-device-plugin",
             "xdxct.com/gpu.deploy.sandbox-validator",
             "xdxct.com/gpu.deploy.vfio-manager",
             "xdxct.com/gpu.deploy.kata-manager",
             "xdxct.com/gpu.deploy.cc-manager"}
       [] c = VMVgpu ->
            {"xdxct.com/gpu.deploy.sandbox-device-plugin",
             "xdxct.com/gpu.deploy.vgpu-manager",
             "xdxct.com/gpu.deploy.vgpu-device-manager",
             "xdxct.com/gpu.deploy.sandbox-validator",
             "xdxct.com/gpu.deploy.cc-manager"}]

StateLabelKeys == UNION {gpuStateLabels[c] : c \in WorkloadConfigs}

(* The labels this component manages: every state label and MIG manager. *)
ManagedKeys == StateLabelKeys \cup {MigManager}

(* gpuNodeLabels: PCI discovery labels that mark a GPU; value "true". *)
gpuNodeLabels ==
  {"feature.node.kubernetes.io/pci-10de.present",
   "feature.node.kubernetes.io/pci-0302_10de.present",
   "feature.node.kubernetes.io/pci-0300_10de.present"}

(* The keys that carry the nfdLabelPrefix "feature.node.kubernetes.io/". *)
NFDKeys == gpuNodeLabels \cup {NFDKernel, NFDOSTree}

Keys == ManagedKeys \cup NFDKeys \cup
        {CommonGPU, CommonOperands, MigCapable, VgpuHostDriver,
         GPUProduct, WorkloadConfigKey}

(* Product names: the lower-cased name contains "h100", "a100" or "a30" *)
(* exactly for the members of MIGFamilyProducts.                         *)
MIGFamilyProducts == {"NVIDIA-A100-SXM4-40GB", "NVIDIA-H100-PCIe"}
OtherProducts     == {"Tesla-T4"}

Values == {Absent, "true", "false", "", "5.15.0", "535.54.03", "bogus"}
          \cup WorkloadConfigs \cup MIGFamilyProducts \cup OtherProducts

Labels == [Keys -> Values]

(* A label map with no labels at all. *)
NoLabels == [k \in Keys |-> Absent]

(***************************************************************************)
(* Predicates, state_manager.go lines 208-304.                             *)
(***************************************************************************)
hasCommonGPULabel(l) == l[CommonGPU] = "true"

hasGPULabels(l) == \E k \in gpuNodeLabels : l[k] = "true"

hasNFDLabels(l) == \E k \in NFDKeys : l[k] # Absent

(* vGPU host nodes are never MIG capable; an explicit mig.capable label *)
(* decides next; else the product family.                               *)
hasMIGCapableGPU(l) ==
  IF l[VgpuHostDriver] \notin {Absent, ""} THEN FALSE
  ELSE IF l[MigCapable] # Absent THEN l[MigCapable] = "true"
  ELSE l[GPUProduct] \in MIGFamilyProducts

hasMIGManagerLabel(l) == l[MigManager] # Absent

hasOperandsDisabled(l) == l[CommonOperands] = "false"

(* The workload configuration of the node; an absent or unknown label   *)
(* falls back to container (the error is only logged).                  *)
getWorkloadConfig(l, sandboxEnabled) ==
  IF ~sandboxEnabled THEN Container
  ELSE IF l[WorkloadConfigKey] \in WorkloadConfigs THEN l[WorkloadConfigKey]
  ELSE Container

(***************************************************************************)
(* Label updates, state_manager.go lines 306-385.                          *)
(***************************************************************************)
(* Fault variant: the "null" marker of applyDriverAutoUpgradeAnnotation  *)
(* written instead of deleting the key.                                   *)
removeAllGPUStateLabelsNull(l) ==
  [k \in Keys |-> IF k \in ManagedKeys /\ l[k] # Absent THEN "null" ELSE l[k]]

removeAllGPUStateLabels(l) ==
  [k \in Keys |-> IF k \in ManagedKeys THEN Absent ELSE l[k]]

(* Fault variant: MIG manager is kept outside container mode. *)
removeGPUStateLabelsKeepMig(l, config) ==
  [k \in Keys |-> IF k \in StateLabelKeys \ gpuStateLabels[config]
                  THEN Absent ELSE l[k]]

(* Delete the labels of the other configurations that the target       *)
(* configuration does not also use, and MIG manager outside container.  *)
removeGPUStateLabels(l, config) ==
  LET drop == (StateLabelKeys \ gpuStateLabels[config])
              \cup (IF config # Container THEN {MigManager} ELSE {})
  IN  [k \in Keys |-> IF k \in drop THEN Absent ELSE l[k]]

(* Fault variant: present values are overwritten with "true". *)
addGPUStateLabelsOverwrite(l, config) ==
  LET added == [k \in Keys |->
                  IF k \in gpuStateLabels[config] THEN "true" ELSE l[k]]
  IN  IF config = Container /\ hasMIGCapableGPU(added)
         /\ ~hasMIGManagerLabel(added)
      THEN [added EXCEPT ![MigManager] = "true"]
      ELSE added

(* Add the missing labels of the configuration, keeping present values; *)
(* then MIG manager for a MIG-capable container node that lacks it.      *)
addGPUStateLabels(l, config) ==
  LET added == [k \in Keys |->
                  IF k \in gpuStateLabels[config] /\ l[k] = Absent
                  THEN "true" ELSE l[k]]
  IN  IF config = Container /\ hasMIGCapableGPU(added)
         /\ ~hasMIGManagerLabel(added)
      THEN [added EXCEPT ![MigManager] = "true"]
      ELSE added

updateGPUStateLabels(l, config) ==
  IF hasOperandsDisabled(l) THEN removeAllGPUStateLabels(l)
  ELSE addGPUStateLabels(removeGPUStateLabels(l, config), config)

(***************************************************************************)
(* The labels labelGPUNodes gives one node (state_manager.go 459-501): the *)
(* common GPU label first, then the state labels of a GPU node.           *)
(***************************************************************************)
commonLabelled(l) ==
  IF ~hasCommonGPULabel(l) /\ hasGPULabels(l)
  THEN [l EXCEPT ![CommonGPU] = "true"]
  ELSE IF hasCommonGPULabel(l) /\ ~hasGPULabels(l)
  THEN removeAllGPUStateLabels([l EXCEPT ![CommonGPU] = "false"])
  ELSE l

(* Fault variant: the state labels are gated on the labels as listed,    *)
(* not on the common label just set.                                      *)
LabelGPUNodeStale(l, sandboxEnabled) ==
  LET c == commonLabelled(l)
  IN  IF hasCommonGPULabel(l)
      THEN updateGPUStateLabels(c, getWorkloadConfig(l, sandboxEnabled))
      ELSE c

LabelGPUNode(l, sandboxEnabled) ==
  LET c == commonLabelled(l)
  IN  IF hasCommonGPULabel(c)
      THEN updateGPUStateLabels(c, getWorkloadConfig(l, sandboxEnabled))
      ELSE c

(***************************************************************************)
(* The node watch's UpdateFunc predicate (clusterpolicy_controller.go     *)
(* 245-283): does a label change from old to new enqueue the policies?    *)
(***************************************************************************)
NodeUpdateNeedsReconcile(old, new) ==
  \/ hasGPULabels(new) /\ ~hasCommonGPULabel(new)
  \/ ~hasGPULabels(new) /\ hasCommonGPULabel(new)
  \/ hasMIGCapableGPU(new) /\ ~hasMIGManagerLabel(new)
  \/ hasOperandsDisabled(old) # hasOperandsDisabled(new)
  \/ getWorkloadConfig(old, TRUE) # getWorkloadConfig(new, TRUE)
  \/ old[NFDOSTree] # new[NFDOSTree]

=============================================================================
