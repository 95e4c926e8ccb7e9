# TLA+ models of the xdxct GPU operator

This directory holds TLA+ specifications of the GPU operator's controllers in
`src/`. It also holds the TLC configurations that model-check them and the
TLAPS proofs of their main invariants.

## The system

The operator is a controller-runtime manager with two reconcilers:

* **ClusterPolicy reconciler** (`controllers/clusterpolicy_controller.go`,
  `controllers/state_manager.go`).
  * It has one worker (`MaxConcurrentReconciles: 1`) fed by three watches:
    * ClusterPolicy objects: every update enqueues the policy, status writes
      included.
    * Node label changes, filtered by the `UpdateFunc` predicate
      (lines 245-283). A match enqueues *every* ClusterPolicy.
    * DaemonSets owned by a ClusterPolicy.
  * `Reconcile` does the following, in order:
    1. Fetches the policy.
    2. Ignores every policy but the first it latched in the process-global
       `clusterPolicyCtrl.singleton`.
    3. Runs `init`:
       * first use only: Kubernetes version and stage registration;
       * namespace Pod Security labels;
       * `labelGPUNodes`;
       * annotations, runtime detection and kernel versions.
    4. Walks the stages with `step`/`last`, from the cursor `idx`.
    5. Writes the status through `updateCRState`, whose error every caller
       drops.
    6. Returns a requeue: 5s after an error or NotReady, 45s while no node
       has NFD labels, none otherwise.
* **Node labelling** (`state_manager.go` 199-536). For each node,
  `labelGPUNodes`:
  * sets `gpu.present` from the PCI labels;
  * computes the workload configuration (container, vm-passthrough or
    vm-vgpu);
  * removes the deployment labels of the other configurations and adds the
    missing ones of its own;
  * adds the MIG manager label on a MIG-capable container node.

  Nodes are written back with `Update` from the one `List` snapshot, so an
  edit made in between makes the `Update` conflict.
* **Upgrade reconciler** (`controllers/upgrade_controller.go`). It has one
  worker and no singleton latch: every ClusterPolicy is reconciled. With
  auto-upgrade on, it hands the cluster to the upgrade library's
  `BuildState`/`ApplyState` (not in this repository) and requeues itself
  every two minutes. With auto-upgrade off, `removeNodeUpgradeStateLabels`
  deletes the upgrade-state label from every node, one `Update` per node
  from one `List`. Any node label change enqueues every ClusterPolicy.
* **Driver auto-upgrade annotation** (`applyDriverAutoUpgradeAnnotation`,
  `state_manager.go` 387-440), run by every `init`: each GPU node gets the
  `gpu-driver-upgrade-enabled` annotation when the policy enables
  auto-upgrade without sandbox workloads, and loses it otherwise.
* **Runtime detection** (`getRuntime`, `getRuntimeString`, 538-689): the
  runtime of the listed GPU nodes, containerd preferred and by default.
* **API types** (`api/v1`): the `State` values, `SetStatus`, `IsEnabled`
  defaults and image path resolution. The deep-copy functions are generated.
* A vendored OCI-directory tag store (`vendor/.../ocidir/tag.go`).

## Modules

| Module | Models | State | Actions |
|---|---|---|---|
| `NodeLabels` | label constants, predicates and label updates of `state_manager.go`; the node watch predicate | none: operators on a label map `[Keys -> Values]`, with `Absent` for a missing key | `LabelGPUNode(l, sandbox)` is one node's pass of `labelGPUNodes` |
| `LabelReconciler` | the per-node pass against NFD and administrator edits | `labels`, `synced`, `edits` | `ReconcileNode(n)`, `EditLabel(n, e)` |
| `ClusterPolicyController` | `Reconcile`, `updateCRState`, `init`, `labelGPUNodes`, `step`, `last`, the watches and the work queue | cluster: `policies`, `status`, `labels`, `ready`, `dsOwner`; queue: `queue`, `delayed`; process: `singleton`, `hasControls`, `idx`, `hasNFD`, `hasGPUNodes`; worker: `pc`, `req`, `todo`, `listed`, `dirty`, `nfdAcc`, `gpuAcc`, `overall`, `notReady`, `failed`; history: `visited` | `ReconcileGet`, `InitStart`, `LabelNode(n)`, `InitFinish`, `Step`, `UpdateStatus`, `Requeue(p)`; environment: `CreatePolicy`, `DeletePolicy`, `DaemonSetReadiness`, `EditNodeLabel`, `Restart` |
| `StageEnablement` | `addState`'s registered state names, `isStateEnabled`, the `IsEnabled` defaults of the API | none: operators on a policy spec whose optional booleans are `<<>>` (nil) or `<<b>>` | |
| `PolicyLatch` | what the ClusterPolicy reconciler promises about which policy it acts on (abstract) | `policies`, `status`, `singleton`, `restarts` | `Create(p)`, `Delete(p)`, `Latch(p)`, `Report(v)`, `Restart` |
| `NodeLabelsProofs` | TLAPS lemmas on the label operators of `NodeLabels` | | |
| `ClusterPolicyControllerProofs`, `LabelReconcilerProofs`, `UpgradeReconcilerProofs`, `DriverUpgradeAnnotationProofs`, `RuntimeDetectionProofs` | TLAPS proofs of the module they extend | | |
| `UpgradeReconciler` | `Reconcile`, `removeNodeUpgradeStateLabels` and the watches of `upgrade_controller.go` | cluster: `policies`, `auto`, `upgrade`; queue: `queue`, `delayed`; worker: `pc`, `req`, `listed`, `todo` | `ReconcileGet(p)`, `RemoveLabel(n)`, `Apply`, `Requeue(p)`; environment: `CreatePolicy`, `DeletePolicy`, `SetAutoUpgrade`, `SetNodeState`, `Restart` |
| `DriverUpgradeAnnotation` | `applyDriverAutoUpgradeAnnotation` as a pass of every reconcile | `node` (GPU label, annotation, nil map), `autoUpgrade`, `pending`; pass: `pc`, `enable`, `listed`, `todo` | `StartPass`, `Annotate(n)`; environment: `SetAutoUpgrade`, `SetGPU(n)` |
| `RuntimeDetection` | `getRuntime`'s loop and `getRuntimeString`, `Runtime.String` | `nodes` (the listed runtime strings), `i`, `runtime`, `pc` | `Iterate`, `LoopEnd`, `Default` |
| `OCITagDelete` | `TagDelete` of the vendored OCI-directory store, with Go slice semantics | `orig`, `arr` (the backing array), `len`, `i`, `changed`, `pc` | `Iterate`, `Finish` |
| `MCClusterPolicyController`, `MCLabelReconciler`, `MCUpgradeReconciler` | TLC instances: the label maps and edits a node starts with; the stage enablement, computed with `StageEnablement` from a policy with the device plugin disabled; the policy sets | | |

Correspondence and abstractions in `ClusterPolicyController`:

* A reconcile is cut at the calls that reach the API server, so that cluster
  changes and a restart can happen between them:
  * `ReconcileGet` covers the Get, the latch and the cursor reset.
  * `InitStart` covers stage registration, namespace labels and the node
    List.
  * `LabelNode(n)` is one iteration of the node loop.
  * `InitFinish` covers the annotation, runtime and kernel passes.
  * `Step` is one stage.
  * `UpdateStatus` is `updateCRState` plus the return of `Reconcile`.
* Any of these calls may fail (`Fail`), at most `MaxErrors` times. A failure
  takes the code's error path:
  * init errors return and requeue;
  * a step error writes NotReady and requeues;
  * a status write error is dropped.
* The work queue is a set, because the queue de-duplicates. `delayed` holds
  requests waiting for `RequeueAfter` or the rate limiter.
* A node Update carries the `resourceVersion` of the List. The model keeps
  the listed labels in `listed`, and an Update conflicts when
  `labels[n] # listed[n]`.
* The stages' control functions are not in this repository. A stage's status
  is therefore:
  * Disabled when `StageEnabled[s]` is false. `MCClusterPolicyController`
    computes it with `isStateEnabled` from the names `init` registers; the
    first stage, pre-requisites, is always enabled because its controls
    (outside the repository) do not consult `isStateEnabled`;
  * otherwise Ready or NotReady, from the readiness the environment toggles.
* `Restart` models a crash of the operator process:
  * `clusterPolicyCtrl` is zeroed;
  * the reconcile in progress and its timers are lost;
  * the informers' initial list enqueues every policy.
* `AbsLatch == INSTANCE PolicyLatch` with the identity mapping on
  `policies`, `status`, `singleton` and `restarts`: the worker's
  intermediate variables are hidden.
* Data is abstracted:
  * label values are a small set of strings;
  * the "a100/h100/a30 in the product name" test is membership of
    `MIGFamilyProducts`;
  * `sandboxEnabled` is never assigned in `src/`, so it is a constant (FALSE
    in the driver runs; both values in `LabelReconciler`).

## Runs

| Run | Config | Expect | Shows |
|---|---|---|---|
| driver_safety | `MCClusterPolicyController.cfg` | pass | Two policies, create/delete, DaemonSet flips, 4 kinds of node label edit, 1 API failure and 1 restart. Ready is written only after a full clean walk (`ReadyOnlyAfterFullWalk`). The loop implements `PolicyLatch` (`ImplementsPolicyLatch`): a policy is latched only when none is, only the latched policy has its status written, and only a restart clears the latch. |
| driver_converge | `MCConverge.cfg` | pass | Under weak fairness of the worker and the timers, the latched policy's status eventually matches stage readiness (`StatusConverges`), and NFD labels are eventually noticed (`NFDNoticed`). |
| status_write_lost | `MCStatusWriteLost.cfg` | violation | A failed `Status().Update` of Ready after a clean walk is never retried. |
| others_ignored | `MCIgnored.cfg` | violation | A duplicate ClusterPolicy is never marked `ignored` in the store. |
| labels | `MCLabelReconciler.cfg` | pass | The per-node pass, with sandbox workloads enabled:<br>• it leaves only its mode's deployment labels (`ModeExclusive`);<br>• a second pass changes nothing (`PassIsFixpoint`);<br>• it never overwrites an admin's value of its own mode's label (`AdminValuesKept`). |
| mig_manager_stale | `MCMIGManager.cfg` | violation | A container-mode node that stops being MIG capable keeps the MIG manager label. |
| upgrade_cleanup | `MCUpgradeReconciler.cfg` | pass | One policy whose auto-upgrade is toggled, two nodes with leftover or admin-set labels, two API failures, a restart: with auto-upgrade off every upgrade-state label is eventually removed (`UpgradeLabelsCleared`), despite conflicts, early returns and labels the library wrote after the disable. `TypeOK` checks that the node watch's `mapFn` enqueues ClusterPolicy names only. |
| upgrade_duplicate_fight | `MCUpgradeDuplicate.cfg` | violation | Two ClusterPolicies, auto-upgrade on in one and off in the other: one reconcile writes the node's label, the other removes it, each write a node event that enqueues both, forever (`LabelsSettle`). |
| annotation | `MCDriverUpgradeAnnotation.cfg` | pass | Two nodes, policy toggles, GPU labels appearing and vanishing, Update conflicts and a failure: every GPU node eventually has the annotation exactly when the policy asks for it (`AnnotationFollowsPolicy`). |
| annotation_nil_map | `MCAnnotationNilMap.cfg` | violation | A GPU node without any annotations makes the pass assign into a nil map when auto-upgrade is on: a panic, not an error (`PassNeverPanics`). |
| runtime_detection | `MCRuntimeDetection.cfg` | pass | For every List of up to three GPU nodes with known, unknown and unreported runtimes, the loop with its break and default yields the design's runtime (`RuntimeAsSpecified`). |
| tag_delete_leftover | `MCOCITagRemoved.cfg` | violation | Two adjacent manifests with the tag: `[t,t,u]` leaves `[t,u]`, and `[t,t]` panics on `m[i+1:]` (`TagRemoved`). |

Every property of a passing run has a fault variant (PROJECT.json
"mutants"). Each variant changes one mapped definition the way a plausible
bug would, and TLC finds the property violated under it. The variants are:

* the walk stopping one stage early;
* no latch check;
* no retry after an error;
* no 45s NFD poll;
* any non-Ready stage status copied into the overall status;
* MIG manager kept outside container mode;
* present labels overwritten;
* the state labels gated on the labels as listed;
* a "null" marker left in place of a deleted key;
* the latch taken although a policy is latched;
* the upgrade node watch reacting to label removals only;
* `ApplyState` giving a node a state outside the state machine;
* an unknown runtime string passed on, and containerd not ending the loop;
* the annotation pass's error dropped instead of requeued.

**Bounds.**

* Driver runs:
  * Nodes: one, which already exercises the List/Update conflict, the
    `updateLabels` carry-over and the node predicate.
  * Stages: three, as many as `init` registers. The third is disabled, so
    that a Disabled stage takes part in the aggregation.
  * One API failure and one restart.
  * Three environment steps, enough for a create/delete and a readiness flip
    around a reconcile.
  * Two policies for the safety run. One policy for the liveness run, which
    is about the latched policy; two policies there take over 5 minutes.
* Label run:
  * one node that starts either as a fresh A100 with PCI and NFD labels or
    unlabelled;
  * four edits out of eleven. The edits cover GPU appear/vanish, operands
    off/absent, all three workload configurations and an unknown one,
    mig.capable=false, a vGPU host driver, and admin-disabled device-plugin
    and sandbox-device-plugin.

* Upgrade run: one policy (two only in the violation run, where no failures,
  cluster changes or restarts are needed), two nodes so that the cleanup loop
  can stop between them, two failures, three cluster changes and a restart.
* Annotation run: two nodes, one failure and three cluster changes; the
  nil-map run needs one node and no failures.
* The runtime run enumerates every List of up to three GPU nodes: all
  orders of known, unknown and empty runtime strings. The tag run enumerates
  every index of up to three manifests, which includes adjacent matches.

**Fairness.**

* `WF_vars(Worker)`: the single worker goroutine runs whenever the queue has
  work or a reconcile is in progress.
* `WF_vars(Requeue(p))`: the delaying queue does fire its timers.
* The upgrade reconciler has the same worker and timers, and the same
  fairness. The annotation pass runs in the ClusterPolicy worker: weak
  fairness of `StartPass` and `Annotate`.
* None for the cluster or for restarts.
* The runtime and tag runs check terminating loops; their final states have no
  successor, which is why they too set `CHECK_DEADLOCK FALSE`.
* `CHECK_DEADLOCK FALSE`: an idle controller waiting for watch events is the
  normal state, not a deadlock.

## Proofs

`ClusterPolicyControllerProofs` proves, for every value of the constants
allowed by `ConstantsAssumption`:

* `TypeCorrect`: `Spec => []TypeOK`.
* `ReadyOnlyAfterFullWalkHolds`: `Spec => []ReadyOnlyAfterFullWalk`.
* `RefinesPolicyLatch`: `Spec => ImplementsPolicyLatch`, that is, the
  reconcile loop implements `PolicyLatch`.

Both rest on the inductive invariant `IInv == TypeOK /\ WalkInv`, checked
with TLC on the driver_safety instance before it was proved. `TypeOK` alone
is not inductive, for two reasons:

* The cursor bound `idx \in 0..NumStages` holds only because `Reconcile`
  resets `idx` before `init` and `last()` ends the walk at `NumStages`.
* The requeue `delayed \cup {req}` needs `req` to be a policy name outside
  idle.

`WalkInv` records these facts, and also what the walk has done so far:

* outside idle, `req` is a policy name and is the latched `singleton`;

* stages `1..idx` have been visited;
* `overall = Ready` iff no visited stage was NotReady;
* an unfailed walk reaches the status write with `idx = NumStages`.

The refinement is proved step by step (`NextRefines`): under `IInv`,
`ReconcileGet` either leaves the latch alone or is a `Latch(p)` step; an
`UpdateStatus` that writes is a `Report` for the latched policy (this needs
`req = singleton` from `WalkInv`); `Restart`, `CreatePolicy` and
`DeletePolicy` are the abstract actions of the same names; every other action
leaves the four mapped variables unchanged. The theorem then combines the
initial-state step, `NextRefines` and the invariant with PTL.

`FailBound` and `EnvStepBound` keep the counters within their bounds.

`NodeLabelsProofs` holds the lemmas about the label operators that the
other proofs cite:

* every label update maps label maps to label maps (`LabelGPUNodeType`,
  `UpdateType`, `RemoveAllType`, `LabelsExcept`);
* removing and then re-adding a configuration's labels gives a map that
  both operations leave unchanged (`RemoveAddFixpoint`);
* labels outside the managed keys decide the classification, so a pass
  does not change how a node is classified (`ClassifyOutside`,
  `PassClassification`);
* one pass is idempotent: `LabelGPUNode(LabelGPUNode(l, sb), sb) =
  LabelGPUNode(l, sb)` (`PassIdempotent`);
* after a pass, a GPU node carries managed labels of its own configuration
  only (`PassModeExclusive`);
* a pass keeps the value of a present label of its configuration
  (`PassKeepsPresent`).

`LabelReconcilerProofs` proves `TypeOK`, `ModeExclusive` and
`PassIsFixpoint` for every instance (`LabelTypeCorrect`,
`ModeExclusiveHolds`, `PassIsFixpointHolds`). The three together are
inductive:

* a pass establishes both properties for its node, by the lemmas above;
* an edit clears `synced` for the node it touches, so neither property
  speaks of that node until the next pass.

`AdminValuesKeptHolds` proves the action property `AdminValuesKept` from a
one-step lemma (`AdminStep`) and the type invariant.

`UpgradeReconcilerProofs` proves `UpgradeTypeCorrect`
(`Spec => []TypeOK`) with `IInv == TypeOK /\ WorkerInv`, where `WorkerInv`
says that outside idle the worker holds a policy name. `TypeOK` alone is not
inductive: the requeue on a return from `Reconcile` puts `req` into the
delaying queue.

`DriverUpgradeAnnotationProofs` proves `AnnotationTypeCorrect`: the "null"
marker never reaches the store. `TypeOK` is inductive by itself, given the
lemma that `Written` deletes the key for "null".

`RuntimeDetectionProofs` proves `RuntimeTypeCorrect` and
`RuntimeAsSpecifiedHolds` for every `MaxNodes`, that is, for Lists of any
length. `RuntimeAsSpecified` speaks of the final state only, so the proof
strengthens it with the loop invariant `LoopInv`:

* while looping, the visited prefix `1..i-1` holds no containerd node, and
  `runtime` is the zero value if no visited string is recognised, else the
  runtime of the last recognised one (`PrefixDone`);
* after the loop, either it broke on containerd (`Broke`) or `PrefixDone`
  holds for the whole List.

`LoopInv` was checked with TLC on the runtime_detection instance before it
was proved. For the proof, `RuntimeDetection` states its List bound and
`SpecifiedRuntime` without the recursive operators of `SequencesExt` and
`FiniteSetsExt`: `Lists` is the set `BoundedSeq` denotes, and
`LastOf(known)` is the largest recognised position, as `Max` was. Z3's
encoding has no empty string, so the zero value `NoRuntime` (`""`) is kept
opaque and its facts are proved once with Zenon (`NoRuntimeFacts`).

Only model-checked:

* the liveness properties (`StatusConverges`, `NFDNoticed`,
  `UpgradeLabelsCleared`, `AnnotationFollowsPolicy`). They need fairness
  and `ENABLED`, which are out of the prover's reach;
* the violation runs, which show counterexamples rather than facts;
* `OCITagDelete`, which uses the recursive operators of `SequencesExt`.
  tlapm loses its SMT backend in a module that reaches a `RECURSIVE`
  definition.

## Not modelled

* The upgrade library (`BuildState`, `ApplyState`, the per-node state
  machine): not in this repository. `ApplyState` is an abstract step that
  moves each node along the states, with the intermediate ones folded
  together. The DaemonSet watch of the upgrade controller (232-234) is
  not modelled. With auto-upgrade on, it only adds reconciles that the
  two-minute requeue already provides. With auto-upgrade off, no requeue
  stands in for it. Leaving it out removes reconciles, never adds them, so
  `UpgradeLabelsCleared` holds without it and therefore with it. The
  library's `BuildState` only covers nodes that run a pod labelled
  `app=nvidia-driver-daemonset`, which this fork no longer deploys
  (`state_manager.go:728` is commented out). The model's `Advance` lets the
  library label any node, so the upgrade_duplicate_fight trace needs such a
  pod, for instance from an earlier deployment.
* `imagePath`/`ImagePath`: string formatting with environment fallbacks.
* The generated deep-copy code.
* `initOCPParams` and the driver-toolkit branch, which the code never
  reaches.
* `getKernelVersionsMap` and `setPodSecurityLabelsForNamespace` keep only
  their failure points in `ClusterPolicyController`: their results are not
  read by any stage in this repository.
* `TagList` and the index read/write of the OCI-directory store.

## Plan

1. `TagList` (de-duplication and sort of tag names) against a reference
   definition.
2. Compose `DriverUpgradeAnnotation` and `RuntimeDetection` into
   `InitFinish` of `ClusterPolicyController`, where the model now keeps only
   their failure points.
3. Proofs: `TagDelete` once `OCITagDelete` states its slices without the
   recursive operators of `SequencesExt`, as `RuntimeDetection` now does.
