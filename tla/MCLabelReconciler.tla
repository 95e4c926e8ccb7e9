------------------------- MODULE MCLabelReconciler -------------------------
(* Small instances of LabelReconciler for TLC. *)
EXTENDS LabelReconciler

PCI == "feature.node.kubernetes.io/pci-10de.present"
DevicePlugin == "xdxct.com/gpu.deploy.device-plugin"
SandboxDevicePlugin == "xdxct.com/gpu.deploy.sandbox-device-plugin"

(* A fresh A100 node found by NFD, and a node with no labels. *)
MCInitLabels ==
  {[NoLabels EXCEPT ![PCI] = "true", ![NFDKernel] = "5.15.0",
                    ![GPUProduct] = "NVIDIA-A100-SXM4-40GB"],
   NoLabels}

(* GPU appears or goes, operands disabled or re-enabled, the workload     *)
(* configuration chosen (one unknown value), MIG capability denied, a vGPU *)
(* host driver, and an admin switching a deployment label off.            *)
MCEnvEdits ==
  {<<PCI, "true">>, <<PCI, Absent>>,
   <<CommonOperands, "false">>, <<CommonOperands, Absent>>,
   <<WorkloadConfigKey, VMPassthrough>>, <<WorkloadConfigKey, VMVgpu>>,
   <<WorkloadConfigKey, "bogus">>,
   <<MigCapable, "false">>, <<VgpuHostDriver, "535.54.03">>,
   <<DevicePlugin, "false">>, <<SandboxDevicePlugin, "false">>}

=============================================================================
