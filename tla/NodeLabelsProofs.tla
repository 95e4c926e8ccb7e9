--------------------------- MODULE NodeLabelsProofs ---------------------------
(***************************************************************************)
(* Lemmas on the label operators of NodeLabels (labelGPUNodes and its      *)
(* helpers in state_manager.go), for every label map: the updates map     *)
(* label maps to label maps, one pass is idempotent, and what a pass      *)
(* leaves on a GPU node.  LabelReconcilerProofs and                        *)
(* ClusterPolicyControllerProofs cite them.                                *)
(***************************************************************************)
EXTENDS NodeLabels, TLAPS

(* Setting one label of a label map gives a label map. *)
LEMMA LabelsExcept ==
  ASSUME NEW l \in Labels, NEW k \in Keys, NEW v \in Values
  PROVE  [l EXCEPT ![k] = v] \in Labels
BY DEF Labels

(* removeAllGPUStateLabels deletes keys and leaves a label map. *)
LEMMA RemoveAllType ==
  ASSUME NEW l \in Labels
  PROVE  removeAllGPUStateLabels(l) \in Labels
BY DEF removeAllGPUStateLabels, Labels, Values, Absent

(* updateGPUStateLabels (remove, then add) leaves a label map, whatever *)
(* the workload configuration.                                          *)
LEMMA UpdateType ==
  ASSUME NEW l \in Labels, NEW config
  PROVE  updateGPUStateLabels(l, config) \in Labels
<1>1. removeGPUStateLabels(l, config) \in Labels
  BY DEF removeGPUStateLabels, Labels, Values, Absent
<1>2. ASSUME NEW m \in Labels PROVE addGPUStateLabels(m, config) \in Labels
  <2>1. [k \in Keys |-> IF k \in gpuStateLabels[config] /\ m[k] = Absent
                        THEN "true" ELSE m[k]] \in Labels
    BY DEF Labels, Values
  <2>2. MigManager \in Keys /\ "true" \in Values
    BY DEF Keys, ManagedKeys, Values
  <2>. QED  BY <2>1, <2>2, LabelsExcept DEF addGPUStateLabels
<1>. QED  BY <1>1, <1>2, RemoveAllType DEF updateGPUStateLabels

(* One node's pass of labelGPUNodes leaves a label map. *)
LEMMA LabelGPUNodeType ==
  ASSUME NEW l \in Labels, NEW sb
  PROVE  LabelGPUNode(l, sb) \in Labels
<1>1. CommonGPU \in Keys /\ "true" \in Values /\ "false" \in Values
  BY DEF Keys, Values
<1>2. commonLabelled(l) \in Labels
  BY <1>1, LabelsExcept, RemoveAllType DEF commonLabelled
<1>. QED  BY <1>2, UpdateType DEF LabelGPUNode

(* The keys the pass reads to classify a node are not among the keys it *)
(* manages, and MIG manager is no deployment label of any configuration. *)
LEMMA KeyFacts ==
  /\ MigManager \in Keys /\ MigManager \notin StateLabelKeys
  /\ ManagedKeys \subseteq Keys
  /\ {CommonGPU, CommonOperands, WorkloadConfigKey, VgpuHostDriver,
      MigCapable, GPUProduct} \cap ManagedKeys = {}
  /\ gpuNodeLabels \cap ManagedKeys = {}
  /\ CommonGPU \in Keys
  /\ \A c \in WorkloadConfigs : gpuStateLabels[c] \subseteq StateLabelKeys
<1>1. \A c \in WorkloadConfigs : gpuStateLabels[c] \subseteq StateLabelKeys
  BY DEF StateLabelKeys
<1>2. StateLabelKeys =
        gpuStateLabels[Container] \cup gpuStateLabels[VMPassthrough]
        \cup gpuStateLabels[VMVgpu]
  BY DEF StateLabelKeys, WorkloadConfigs
<1>3. /\ gpuStateLabels[Container] =
            {"xdxct.com/gpu.deploy.driver",
             "xdxct.com/gpu.deploy.gpu-feature-discovery",
             "xdxct.com/gpu.deploy.container-toolkit",
             "xdxct.com/gpu.deploy.device-plugin",
             "xdxct.com/gpu.deploy.node-status-exporter",
             "xdxct.com/gpu.deploy.operator-validator"}
      /\ gpuStateLabels[VMPassthrough] =
            {"xdxct.com/gpu.deploy.sandbox-device-plugin",
             "xdxct.com/gpu.deploy.sandbox-validator",
             "xdxct.com/gpu.deploy.vfio-manager",
             "xdxct.com/gpu.deploy.kata-manager",
             "xdxct.com/gpu.deploy.cc-manager"}
      /\ gpuStateLabels[VMVgpu] =
            {"xdxct.com/gpu.deploy.sandbox-device-plugin",
             "xdxct.com/gpu.deploy.vgpu-manager",
             "xdxct.com/gpu.deploy.vgpu-device-manager",
             "xdxct.com/gpu.deploy.sandbox-validator",
             "xdxct.com/gpu.deploy.cc-manager"}
  BY DEF gpuStateLabels, WorkloadConfigs, Container, VMPassthrough, VMVgpu
<1>4. ManagedKeys = StateLabelKeys \cup {MigManager}
  BY DEF ManagedKeys
<1>. QED
  BY <1>1, <1>2, <1>3, <1>4
  DEF Keys, NFDKeys, gpuNodeLabels, MigManager, CommonGPU, CommonOperands,
      WorkloadConfigKey, VgpuHostDriver, MigCapable, GPUProduct, NFDKernel,
      NFDOSTree

(* The labels a configuration drops: those of the other configurations *)
(* it does not share, and MIG manager outside container mode.           *)
Dropped(config) ==
  (StateLabelKeys \ gpuStateLabels[config])
  \cup (IF config # Container THEN {MigManager} ELSE {})

(* updateGPUStateLabels with operands enabled is a fixpoint after one    *)
(* application: removing the other configurations' labels and adding    *)
(* the missing ones of its own again changes nothing.                    *)
LEMMA RemoveAddFixpoint ==
  ASSUME NEW l \in Labels, NEW config \in WorkloadConfigs
  PROVE  LET r == addGPUStateLabels(removeGPUStateLabels(l, config), config)
         IN  /\ removeGPUStateLabels(r, config) = r
             /\ addGPUStateLabels(r, config) = r
<1> DEFINE m == removeGPUStateLabels(l, config)
           a == [k \in Keys |-> IF k \in gpuStateLabels[config] /\ m[k] = Absent
                                THEN "true" ELSE m[k]]
           r == addGPUStateLabels(m, config)
<1>1. m = [k \in Keys |-> IF k \in Dropped(config) THEN Absent ELSE l[k]]
  BY DEF removeGPUStateLabels, Dropped
<1>2. gpuStateLabels[config] \cap Dropped(config) = {}
  BY KeyFacts DEF Dropped
<1>3. \A k \in Dropped(config) : a[k] = Absent
  BY <1>1, <1>2, KeyFacts DEF Dropped, ManagedKeys, StateLabelKeys
<1>4. \A k \in gpuStateLabels[config] : a[k] # Absent
  <2>1. gpuStateLabels[config] \subseteq Keys
    BY KeyFacts DEF ManagedKeys
  <2>. QED  BY <2>1 DEF Absent
<1>5. hasMIGCapableGPU(r) = hasMIGCapableGPU(a)
  <2>1. r = a \/ r = [a EXCEPT ![MigManager] = "true"]
    BY DEF addGPUStateLabels
  <2>2. {VgpuHostDriver, MigCapable, GPUProduct} \subseteq Keys \ {MigManager}
    BY DEF Keys, MigManager, VgpuHostDriver, MigCapable, GPUProduct
  <2>3. /\ r[VgpuHostDriver] = a[VgpuHostDriver]
        /\ r[MigCapable] = a[MigCapable]
        /\ r[GPUProduct] = a[GPUProduct]
    BY <2>1, <2>2
  <2>. QED  BY <2>3 DEF hasMIGCapableGPU
<1>6. CASE config = Container /\ hasMIGCapableGPU(a) /\ ~hasMIGManagerLabel(a)
  <2>1. r = [a EXCEPT ![MigManager] = "true"]
    BY <1>6 DEF addGPUStateLabels
  <2>2. MigManager \notin Dropped(Container)
    BY KeyFacts DEF Dropped
  <2>3. removeGPUStateLabels(r, config) = r
    BY <1>3, <1>6, <2>1, <2>2, KeyFacts DEF removeGPUStateLabels, Dropped
  <2>4. addGPUStateLabels(r, config) = r
    BY <1>4, <1>5, <1>6, <2>1, KeyFacts DEF addGPUStateLabels, hasMIGManagerLabel, Absent
  <2>. QED  BY <2>3, <2>4
<1>7. CASE ~(config = Container /\ hasMIGCapableGPU(a) /\ ~hasMIGManagerLabel(a))
  <2>1. r = a
    BY <1>7 DEF addGPUStateLabels
  <2>2. removeGPUStateLabels(r, config) = r
    BY <1>3, <2>1 DEF removeGPUStateLabels, Dropped
  <2>3. addGPUStateLabels(r, config) = r
    BY <1>4, <1>5, <1>7, <2>1 DEF addGPUStateLabels
  <2>. QED  BY <2>2, <2>3
<1>. QED  BY <1>6, <1>7

(* Two label maps that agree outside the managed keys. *)
SameOutside(x, y, K) == \A k \in Keys \ K : x[k] = y[k]

(* The classification of a node reads no managed label: two label maps  *)
(* that agree outside the managed keys are classified alike.            *)
LEMMA ClassifyOutside ==
  ASSUME NEW x, NEW y, SameOutside(x, y, ManagedKeys), NEW sb
  PROVE  /\ hasCommonGPULabel(x) = hasCommonGPULabel(y)
         /\ hasGPULabels(x) = hasGPULabels(y)
         /\ hasOperandsDisabled(x) = hasOperandsDisabled(y)
         /\ hasMIGCapableGPU(x) = hasMIGCapableGPU(y)
         /\ getWorkloadConfig(x, sb) = getWorkloadConfig(y, sb)
<1>1. {CommonGPU, CommonOperands, WorkloadConfigKey, VgpuHostDriver,
       MigCapable, GPUProduct} \cup gpuNodeLabels \subseteq Keys \ ManagedKeys
  BY KeyFacts DEF Keys, NFDKeys
<1>. QED
  BY <1>1 DEF SameOutside, hasCommonGPULabel, hasGPULabels,
             hasOperandsDisabled, hasMIGCapableGPU, getWorkloadConfig

(* updateGPUStateLabels writes managed keys only. *)
LEMMA UpdateOutside ==
  ASSUME NEW l \in Labels, NEW config \in WorkloadConfigs
  PROVE  SameOutside(updateGPUStateLabels(l, config), l, ManagedKeys)
<1>1. SameOutside(removeAllGPUStateLabels(l), l, ManagedKeys)
  BY DEF SameOutside, removeAllGPUStateLabels
<1>2. SameOutside(removeGPUStateLabels(l, config), l, ManagedKeys)
  BY DEF SameOutside, removeGPUStateLabels, ManagedKeys, StateLabelKeys
<1>3. ASSUME NEW m \in Labels
      PROVE  SameOutside(addGPUStateLabels(m, config), m, ManagedKeys)
  <2>1. gpuStateLabels[config] \subseteq ManagedKeys /\ MigManager \in ManagedKeys
    BY KeyFacts DEF ManagedKeys
  <2>2. SameOutside([k \in Keys |-> IF k \in gpuStateLabels[config] /\ m[k] = Absent
                                    THEN "true" ELSE m[k]], m, ManagedKeys)
    BY <2>1 DEF SameOutside
  <2>. QED  BY <2>1, <2>2 DEF addGPUStateLabels, SameOutside
<1>. QED
  BY <1>1, <1>2, <1>3, UpdateType
  DEF updateGPUStateLabels, SameOutside, removeGPUStateLabels, Labels, Values, Absent

(* The workload configuration is one of the three. *)
LEMMA ConfigType ==
  ASSUME NEW l, NEW sb
  PROVE  getWorkloadConfig(l, sb) \in WorkloadConfigs
BY DEF getWorkloadConfig, WorkloadConfigs

(* The common GPU label step: it writes the common label and, when the  *)
(* GPU is gone, deletes the managed labels.  The node it leaves carries  *)
(* the common label only with PCI GPU labels, and a node left without it *)
(* is left alone by a second application.                                *)
LEMMA CommonLabelledFacts ==
  ASSUME NEW l \in Labels, NEW sb
  PROVE  LET c == commonLabelled(l) IN
         /\ c \in Labels
         /\ hasGPULabels(c) = hasGPULabels(l)
         /\ hasOperandsDisabled(c) = hasOperandsDisabled(l)
         /\ getWorkloadConfig(c, sb) = getWorkloadConfig(l, sb)
         /\ hasCommonGPULabel(c) => hasGPULabels(c)
         /\ hasCommonGPULabel(l) /\ hasGPULabels(l) => c = l
         /\ ~hasCommonGPULabel(c) => commonLabelled(c) = c
<1> DEFINE c == commonLabelled(l)
<1>1. {CommonOperands, WorkloadConfigKey} \cup gpuNodeLabels
        \subseteq Keys \ (ManagedKeys \cup {CommonGPU})
  BY KeyFacts DEF Keys, NFDKeys, CommonGPU, CommonOperands, WorkloadConfigKey,
                  gpuNodeLabels
<1>2. c \in Labels
  BY LabelGPUNodeType, LabelsExcept, RemoveAllType, KeyFacts
  DEF commonLabelled, Values
<1>3. SameOutside(c, l, ManagedKeys \cup {CommonGPU})
  BY DEF commonLabelled, SameOutside, removeAllGPUStateLabels
<1>4. /\ hasGPULabels(c) = hasGPULabels(l)
      /\ hasOperandsDisabled(c) = hasOperandsDisabled(l)
      /\ getWorkloadConfig(c, sb) = getWorkloadConfig(l, sb)
  BY <1>1, <1>3 DEF SameOutside, hasGPULabels, hasOperandsDisabled,
                    getWorkloadConfig
<1>5. c[CommonGPU] = IF ~hasCommonGPULabel(l) /\ hasGPULabels(l) THEN "true"
                     ELSE IF hasCommonGPULabel(l) /\ ~hasGPULabels(l) THEN "false"
                     ELSE l[CommonGPU]
  BY KeyFacts DEF commonLabelled, removeAllGPUStateLabels, Labels
<1>6. hasCommonGPULabel(c) => hasGPULabels(c)
  BY <1>4, <1>5 DEF hasCommonGPULabel
<1>7. hasCommonGPULabel(l) /\ hasGPULabels(l) => c = l
  BY DEF commonLabelled
<1>8. ~hasCommonGPULabel(c) => commonLabelled(c) = c
  BY <1>4, <1>5 DEF commonLabelled, hasCommonGPULabel
<1>. QED  BY <1>2, <1>4, <1>6, <1>7, <1>8

(* A pass keeps the node's workload configuration, and the node keeps  *)
(* the common GPU label the first step gave it.                          *)
LEMMA PassClassification ==
  ASSUME NEW l \in Labels, NEW sb
  PROVE  /\ getWorkloadConfig(LabelGPUNode(l, sb), sb) = getWorkloadConfig(l, sb)
         /\ hasCommonGPULabel(LabelGPUNode(l, sb)) = hasCommonGPULabel(commonLabelled(l))
         /\ hasOperandsDisabled(LabelGPUNode(l, sb)) = hasOperandsDisabled(l)
<1> DEFINE c == commonLabelled(l)
           cfg == getWorkloadConfig(l, sb)
<1>1. c \in Labels /\ getWorkloadConfig(c, sb) = cfg
      /\ hasOperandsDisabled(c) = hasOperandsDisabled(l)
  BY CommonLabelledFacts
<1>2. CASE hasCommonGPULabel(c)
  <2>1. SameOutside(LabelGPUNode(l, sb), c, ManagedKeys)
    BY <1>1, <1>2, UpdateOutside, ConfigType DEF LabelGPUNode
  <2>. QED  BY <1>1, <2>1, ClassifyOutside
<1>3. CASE ~hasCommonGPULabel(c)
  BY <1>1, <1>3 DEF LabelGPUNode
<1>. QED  BY <1>2, <1>3

(* One pass of labelGPUNodes on a node is idempotent: a second pass on  *)
(* the labels it wrote changes nothing, so the operator's own writes    *)
(* never make the node oscillate.                                        *)
LEMMA PassIdempotent ==
  ASSUME NEW l \in Labels, NEW sb
  PROVE  LabelGPUNode(LabelGPUNode(l, sb), sb) = LabelGPUNode(l, sb)
<1> DEFINE c == commonLabelled(l)
           cfg == getWorkloadConfig(l, sb)
           r == LabelGPUNode(l, sb)
<1>1. /\ c \in Labels
      /\ getWorkloadConfig(c, sb) = cfg
      /\ hasGPULabels(c) = hasGPULabels(l)
      /\ hasCommonGPULabel(c) => hasGPULabels(c)
      /\ ~hasCommonGPULabel(c) => commonLabelled(c) = c
  BY CommonLabelledFacts
<1>2. cfg \in WorkloadConfigs
  BY ConfigType
<1>3. getWorkloadConfig(r, sb) = cfg /\ hasCommonGPULabel(r) = hasCommonGPULabel(c)
  BY PassClassification
<1>4. CASE hasCommonGPULabel(c)
  <2>1. r = updateGPUStateLabels(c, cfg)
    BY <1>4 DEF LabelGPUNode
  <2>2. SameOutside(r, c, ManagedKeys) /\ r \in Labels
    BY <1>1, <1>2, <2>1, UpdateOutside, UpdateType
  <2>3. hasCommonGPULabel(r) /\ hasGPULabels(r)
      /\ hasOperandsDisabled(r) = hasOperandsDisabled(c)
    BY <1>1, <1>4, <2>2, ClassifyOutside
  <2>4. commonLabelled(r) = r
    BY <2>3 DEF commonLabelled
  <2>5. LabelGPUNode(r, sb) = updateGPUStateLabels(r, cfg)
    BY <1>3, <2>3, <2>4 DEF LabelGPUNode
  <2>6. CASE hasOperandsDisabled(c)
    <3>1. r = removeAllGPUStateLabels(c)
      BY <2>1, <2>6 DEF updateGPUStateLabels
    <3>2. updateGPUStateLabels(r, cfg) = removeAllGPUStateLabels(r)
      BY <2>3, <2>6 DEF updateGPUStateLabels
    <3>. QED  BY <1>1, <2>5, <3>1, <3>2 DEF removeAllGPUStateLabels
  <2>7. CASE ~hasOperandsDisabled(c)
    <3>1. r = addGPUStateLabels(removeGPUStateLabels(c, cfg), cfg)
      BY <2>1, <2>7 DEF updateGPUStateLabels
    <3>2. updateGPUStateLabels(r, cfg) = addGPUStateLabels(removeGPUStateLabels(r, cfg), cfg)
      BY <2>3, <2>7 DEF updateGPUStateLabels
    <3>. QED  BY <1>1, <1>2, <2>5, <3>1, <3>2, RemoveAddFixpoint
  <2>. QED  BY <2>6, <2>7
<1>5. CASE ~hasCommonGPULabel(c)
  <2>1. r = c
    BY <1>5 DEF LabelGPUNode
  <2>. QED  BY <1>1, <1>5, <2>1 DEF LabelGPUNode
<1>. QED  BY <1>4, <1>5

(* The managed labels a GPU node may carry in a configuration. *)
Allowed(config) ==
  gpuStateLabels[config] \cup (IF config = Container THEN {MigManager} ELSE {})

(* After a pass, a node with the common GPU label carries managed labels *)
(* of its own workload configuration only, MIG manager only in           *)
(* container mode.                                                        *)
LEMMA PassModeExclusive ==
  ASSUME NEW l \in Labels, NEW sb, hasCommonGPULabel(LabelGPUNode(l, sb)),
         NEW k \in ManagedKeys \ Allowed(getWorkloadConfig(l, sb))
  PROVE  LabelGPUNode(l, sb)[k] = Absent
<1> DEFINE c == commonLabelled(l)
           cfg == getWorkloadConfig(l, sb)
           m == removeGPUStateLabels(c, cfg)
           a == [j \in Keys |-> IF j \in gpuStateLabels[cfg] /\ m[j] = Absent
                                THEN "true" ELSE m[j]]
<1>1. c \in Labels /\ cfg \in WorkloadConfigs /\ k \in Keys
  BY CommonLabelledFacts, ConfigType, KeyFacts
<1>2. hasCommonGPULabel(c)
  BY PassClassification
<1>3. LabelGPUNode(l, sb) = updateGPUStateLabels(c, cfg)
  BY <1>2 DEF LabelGPUNode
<1>4. CASE hasOperandsDisabled(c)
  BY <1>1, <1>3, <1>4 DEF updateGPUStateLabels, removeAllGPUStateLabels
<1>5. CASE ~hasOperandsDisabled(c)
  <2>1. k \in Dropped(cfg) /\ k \notin gpuStateLabels[cfg]
    BY DEF Allowed, Dropped, ManagedKeys
  <2>2. a[k] = Absent
    BY <1>1, <2>1 DEF removeGPUStateLabels, Dropped
  <2>3. k = MigManager => cfg # Container
    BY DEF Allowed
  <2>4. addGPUStateLabels(m, cfg)[k] = a[k]
    BY <2>3 DEF addGPUStateLabels
  <2>. QED  BY <1>3, <1>5, <2>2, <2>4 DEF updateGPUStateLabels
<1>. QED  BY <1>4, <1>5

(* A pass on a GPU node with operands enabled keeps the value of every  *)
(* deployment label of its configuration that is present: it only adds *)
(* the missing ones.                                                     *)
LEMMA PassKeepsPresent ==
  ASSUME NEW l \in Labels, NEW sb,
         hasCommonGPULabel(l), hasGPULabels(l), ~hasOperandsDisabled(l),
         NEW k \in gpuStateLabels[getWorkloadConfig(l, sb)], l[k] # Absent
  PROVE  LabelGPUNode(l, sb)[k] = l[k]
<1> DEFINE cfg == getWorkloadConfig(l, sb)
           m == removeGPUStateLabels(l, cfg)
<1>1. cfg \in WorkloadConfigs /\ k \in Keys /\ k # MigManager
  BY ConfigType, KeyFacts DEF ManagedKeys
<1>2. commonLabelled(l) = l
  BY CommonLabelledFacts
<1>3. LabelGPUNode(l, sb) = addGPUStateLabels(m, cfg)
  BY <1>2 DEF LabelGPUNode, updateGPUStateLabels
<1>4. m[k] = l[k]
  BY <1>1 DEF removeGPUStateLabels
<1>. QED  BY <1>1, <1>3, <1>4 DEF addGPUStateLabels

=============================================================================
