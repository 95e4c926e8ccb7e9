---------------------------- MODULE StageEnablement ----------------------------
(***************************************************************************)
(* Which stages a ClusterPolicy enables: the states init registers with   *)
(* addState (controllers/state_manager.go), isStateEnabled, and the       *)
(* IsEnabled defaults of the component specs (api/v1).                    *)
(*                                                                         *)
(* An optional boolean of the API, a *bool, is a sequence: <<>> for nil,*)
(* <<b>> for a pointer to b.                                               *)
(***************************************************************************)
EXTENDS Sequences

OptionalBools == {<<>>, <<TRUE>>, <<FALSE>>}

(* The "enabled" fields of ClusterPolicySpec (api/v1 41-52). *)
PolicySpecs ==
  [driver : OptionalBools, toolkit : OptionalBools,
   devicePlugin : OptionalBools, gfd : OptionalBools,
   nodeStatusExporter : OptionalBools]

(* The value of an optional boolean, or dflt when it is nil. *)
IsEnabledOr(ptr, dflt) == IF ptr = <<>> THEN dflt ELSE Head(ptr)

(* DriverSpec.IsEnabled (966-973): enabled unless set false. *)
DriverIsEnabled(spec) == IsEnabledOr(spec.driver, TRUE)

(* DevicePluginSpec.IsEnabled (984-991): enabled unless set false. *)
DevicePluginIsEnabled(spec) == IsEnabledOr(spec.devicePlugin, TRUE)

(* GPUFeatureDiscoverySpec.IsEnabled (993-1000): enabled unless set false. *)
GFDIsEnabled(spec) == IsEnabledOr(spec.gfd, TRUE)

(* ToolkitSpec.IsEnabled (1002-1009): enabled unless set false. *)
ToolkitIsEnabled(spec) == IsEnabledOr(spec.toolkit, TRUE)

(* NodeStatusExporterSpec.IsEnabled (1029-1037): disabled unless set true. *)
NodeStatusExporterIsEnabled(spec) == IsEnabledOr(spec.nodeStatusExporter, FALSE)

(* init 724-730 through addState (157-165): the base names of the state *)
(* directories registered, in order; the other addState calls are      *)
(* commented out.                                                        *)
StateNames == <<"pre-requisites", "state-container-toolkit", "state-device-plugin">>

(* isStateEnabled (858-880): a state name is enabled by its component's *)
(* IsEnabled, validation and metrics always, and any other name is an   *)
(* "invalid state": logged and not enabled.                              *)
isStateEnabled(stateName, spec) ==
  CASE stateName = "state-driver"               -> DriverIsEnabled(spec)
    [] stateName = "state-container-toolkit"    -> ToolkitIsEnabled(spec)
    [] stateName = "state-device-plugin"        -> DevicePluginIsEnabled(spec)
    [] stateName = "gpu-feature-discovery"      -> GFDIsEnabled(spec)
    [] stateName = "state-node-status-exporter" -> NodeStatusExporterIsEnabled(spec)
    [] stateName \in {"state-operator-validation", "state-operator-metrics"} -> TRUE
    [] OTHER -> FALSE

=============================================================================
