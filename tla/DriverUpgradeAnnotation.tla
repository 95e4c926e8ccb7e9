------------------------ MODULE DriverUpgradeAnnotation ------------------------
(***************************************************************************)
(* The driver auto-upgrade annotation pass of init:                       *)
(* applyDriverAutoUpgradeAnnotation of controllers/state_manager.go.      *)
(*                                                                         *)
(* Each reconcile of the ClusterPolicy lists the nodes and, on every GPU  *)
(* node (one with the common GPU label), sets the annotation              *)
(* gpu-driver-upgrade-enabled=true when the policy enables auto-upgrade   *)
(* and sandbox workloads are off, and removes it otherwise.  Each node is *)
(* written back with Update from the List; an error ends the pass and     *)
(* init returns it, so the reconcile is requeued.                          *)
(***************************************************************************)
EXTENDS Naturals

CONSTANTS
  Nodes,            \* cluster nodes
  SandboxEnabled,   \* n.sandboxEnabled
  NilAnnotations,   \* may a node have no annotation map at all?
  MaxErrors,        \* bound on failed API calls
  MaxEnv            \* bound on changes made by the cluster

ASSUME AnnotationConstantsAssumption ==
  /\ SandboxEnabled \in BOOLEAN
  /\ NilAnnotations \in BOOLEAN
  /\ MaxErrors \in Nat /\ MaxEnv \in Nat

(* Values of the annotation: Absent for a missing key, "false" as an    *)
(* earlier writer may have left it, and the "null" removal marker.       *)
Absent == "absent"
Values == {Absent, "true", "false", "null"}

(* A node as the pass sees it: its common GPU label, the annotation and *)
(* whether the annotation map is nil (then the annotation is Absent).   *)
NodeViews ==
  {v \in [gpu : BOOLEAN, annot : Values, nilMap : BOOLEAN] :
     v.nilMap => v.annot = Absent}

VARIABLES
  node,        \* node[n]: node n in the store
  autoUpgrade, \* UpgradePolicy != nil && UpgradePolicy.AutoUpgrade
  pending,     \* a reconcile of the policy is queued
  pc,          \* "idle", "loop" (in the node loop) or "panicked"
  enable,      \* the branch of the pass, fixed from n.singleton at its start
  listed,      \* the nodes as the pass listed them
  todo,        \* nodes the loop has not visited yet
  errors, envSteps

vars == <<node, autoUpgrade, pending, pc, enable, listed, todo, errors, envSteps>>

(* A failed API call, while errors are left to inject. *)
Fail == errors < MaxErrors /\ errors' = errors + 1

(* The annotation the pass leaves on a GPU node. *)
Wanted(en) == IF en THEN "true" ELSE Absent

(* Fault variant of Written: the "null" marker is written, not deleted. *)
WrittenNull(v, value) == [v EXCEPT !.annot = value]

(* state_manager.go 425-429: the annotation is set to the value, and    *)
(* the "null" value deletes the key instead.                             *)
Written(v, value) ==
  [v EXCEPT !.annot = IF value = "null" THEN Absent ELSE value]

Init ==
  /\ node \in [Nodes -> {v \in NodeViews : v.annot # "null" /\ (v.nilMap => NilAnnotations)}]
  /\ autoUpgrade \in BOOLEAN
  /\ pending = TRUE
  /\ pc = "idle"
  /\ enable = FALSE
  /\ listed = node
  /\ todo = {}
  /\ errors = 0
  /\ envSteps = 0

(***************************************************************************)
(* state_manager.go 387-395: a reconcile reaches the pass, which lists the *)
(* nodes; a List error is returned and the reconcile requeued.  The       *)
(* branch taken for every node is fixed by the policy as the reconcile    *)
(* read it and by sandboxEnabled (404-416).                                *)
(***************************************************************************)
StartPass ==
  /\ pc = "idle"
  /\ pending
  /\ \/ /\ Fail
        /\ UNCHANGED <<pending, pc, enable, listed, todo>>
     \/ /\ pending' = FALSE
        /\ pc' = "loop"
        /\ enable' = (autoUpgrade /\ ~SandboxEnabled)
        /\ listed' = node
        /\ todo' = Nodes
        /\ UNCHANGED errors
  /\ UNCHANGED <<node, autoUpgrade, envSteps>>

(* Fault variant of ReturnError: the error is logged and nil returned. *)
ReturnErrorDropped ==
  /\ pc' = "idle"
  /\ UNCHANGED pending

(* state_manager.go 431-436 and init 757-760: an Update error ends the  *)
(* pass and init; Reconcile returns it and the request is requeued.     *)
ReturnError ==
  /\ pc' = "idle"
  /\ pending' = TRUE

(* After the node n the loop goes on, or the pass returns nil. *)
Continue(n) ==
  /\ todo' = todo \ {n}
  /\ pc' = IF todo' = {} THEN "idle" ELSE "loop"

(***************************************************************************)
(* state_manager.go 396-437: one iteration.  A non-GPU node is skipped,   *)
(* so is one whose annotation already agrees.  Otherwise the value is     *)
(* written into the listed node's annotation map (a nil map makes the     *)
(* assignment panic) and the node is written back with Update, which      *)
(* conflicts if the node changed since the List; an error is returned.   *)
(***************************************************************************)
Annotate(n) ==
  /\ pc = "loop"
  /\ n \in todo
  /\ LET v     == listed[n]
         value == IF enable THEN "true" ELSE "null"
         required == IF enable THEN v.annot # "true" ELSE v.annot # Absent
     IN  \/ /\ ~v.gpu \/ ~required
            /\ Continue(n)
            /\ UNCHANGED <<node, pending, errors>>
         \/ /\ v.gpu /\ required
            /\ v.nilMap
            /\ pc' = "panicked"
            /\ UNCHANGED <<node, pending, todo, errors>>
         \/ /\ v.gpu /\ required
            /\ ~v.nilMap
            /\ node[n] # v
            /\ ReturnError
            /\ UNCHANGED <<node, todo, errors>>
         \/ /\ v.gpu /\ required
            /\ ~v.nilMap
            /\ Fail
            /\ ReturnError
            /\ UNCHANGED <<node, todo>>
         \/ /\ v.gpu /\ required
            /\ ~v.nilMap
            /\ node[n] = v
            /\ node' = [node EXCEPT ![n] = Written(v, value)]
            /\ Continue(n)
            /\ UNCHANGED <<pending, errors>>
  /\ UNCHANGED <<autoUpgrade, enable, listed, envSteps>>

(***************************************************************************)
(* The cluster.  A change of the policy is an event of the ClusterPolicy  *)
(* watch; a node gaining or losing its GPU labels passes the node         *)
(* predicate (clusterpolicy_controller.go 245-283).  Both queue a         *)
(* reconcile.                                                              *)
(***************************************************************************)
EnvStep == envSteps < MaxEnv /\ envSteps' = envSteps + 1

SetAutoUpgrade ==
  /\ EnvStep
  /\ autoUpgrade' = ~autoUpgrade
  /\ pending' = TRUE
  /\ UNCHANGED <<node, pc, enable, listed, todo, errors>>

SetGPU(n) ==
  /\ EnvStep
  /\ node' = [node EXCEPT ![n].gpu = ~node[n].gpu]
  /\ pending' = TRUE
  /\ UNCHANGED <<autoUpgrade, pc, enable, listed, todo, errors>>

Next ==
  \/ StartPass
  \/ \E n \in Nodes : Annotate(n)
  \/ SetAutoUpgrade
  \/ \E n \in Nodes : SetGPU(n)

(* The worker runs the queued reconcile; the cluster is not forced to   *)
(* change.                                                               *)
Spec == Init /\ [][Next]_vars /\ WF_vars(StartPass \/ \E n \in Nodes : Annotate(n))

-----------------------------------------------------------------------------
(* Type invariant of the annotation pass: nodes keep their shape and the *)
(* "null" marker never reaches the store.                                *)
TypeOK ==
  /\ node \in [Nodes -> {v \in NodeViews : v.annot # "null"}]
  /\ autoUpgrade \in BOOLEAN
  /\ pending \in BOOLEAN
  /\ pc \in {"idle", "loop", "panicked"}
  /\ enable \in BOOLEAN
  /\ listed \in [Nodes -> NodeViews]
  /\ todo \subseteq Nodes
  /\ errors \in 0..MaxErrors
  /\ envSteps \in 0..MaxEnv

(* Once the cluster stops changing, every GPU node carries the           *)
(* annotation exactly when the policy enables auto-upgrade without      *)
(* sandbox workloads, despite conflicts with concurrent node changes    *)
(* and failed Updates that end a pass early.                             *)
AnnotationFollowsPolicy ==
  <>[](\A n \in Nodes : node[n].gpu =>
          node[n].annot = Wanted(autoUpgrade /\ ~SandboxEnabled))

(* The design's error model: a pass either finishes or returns an       *)
(* error to be retried; it never brings the operator down (state_manager *)
(* 425 on a node object without annotations).                            *)
PassNeverPanics == pc # "panicked"

=============================================================================
