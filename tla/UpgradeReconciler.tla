---------------------------- MODULE UpgradeReconciler ----------------------------
(***************************************************************************)
(* The driver upgrade reconciler of controllers/upgrade_controller.go.    *)
(*                                                                         *)
(* One worker (MaxConcurrentReconciles: 1) reconciles ClusterPolicy       *)
(* names.  With auto-upgrade enabled in the policy it hands the cluster   *)
(* to the upgrade library (BuildState, ApplyState), which moves the       *)
(* per-node upgrade-state label along its state machine, and requeues     *)
(* itself every two minutes.  With auto-upgrade disabled it removes the   *)
(* upgrade-state label from every node, one Update per node from one      *)
(* List.  Node label changes enqueue every ClusterPolicy.                 *)
(***************************************************************************)
EXTENDS Naturals, FiniteSets

CONSTANTS
  Policies,     \* names of ClusterPolicy objects
  Nodes,        \* cluster nodes
  NoPolicy,     \* no request (an idle worker)
  MaxErrors,    \* bound on failed API calls
  MaxEnv,       \* bound on changes made by the cluster
  MaxRestarts   \* bound on operator restarts

ASSUME UpgradeConstantsAssumption ==
  /\ NoPolicy \notin Policies
  /\ MaxErrors \in Nat /\ MaxEnv \in Nat /\ MaxRestarts \in Nat

(* Values of the upgrade-state node label; NoState for a missing label.  *)
(* The library's intermediate states (cordon, drain, pod restart) are    *)
(* folded into Required.                                                 *)
NoState  == ""
Required == "upgrade-required"
Done     == "upgrade-done"
States   == {NoState, Required, Done}

VARIABLES
  policies,   \* ClusterPolicy objects in the store
  auto,       \* auto[p]: Spec.Driver.UpgradePolicy set with AutoUpgrade
  upgrade,    \* upgrade[n]: the upgrade-state label of node n in the store
  queue,      \* work queue (a set: the queue de-duplicates)
  delayed,    \* requests waiting for RequeueAfter or the rate limiter
  pc,         \* where the worker is in Reconcile
  req,        \* the request being reconciled
  listed,     \* the labels as removeNodeUpgradeStateLabels listed them
  todo,       \* nodes its loop has not visited yet
  errors, envSteps, restarts

vars == <<policies, auto, upgrade, queue, delayed, pc, req, listed, todo,
          errors, envSteps, restarts>>

(* A failed API call, while errors are left to inject. *)
Fail == errors < MaxErrors /\ errors' = errors + 1

(* Fault variant of NodeEventEnqueues: the node watch reacts only to a  *)
(* label being removed.                                                  *)
NodeEventOnRemoval(old, new) == old # new /\ new = NoState

(* SetupWithManager 221-227: LabelChangedPredicate passes a node update *)
(* whose labels changed, and mapFn then enqueues every ClusterPolicy.   *)
NodeEventEnqueues(old, new) == old # new

(* Fault variant of AfterNodeEvent: mapFn returns a request named after *)
(* each changed node instead of one for every ClusterPolicy.            *)
AfterNodeEventByNode(old, new) ==
  queue \cup {n \in Nodes : NodeEventEnqueues(old[n], new[n])}

(* The queue after node labels went from old to new. *)
AfterNodeEvent(old, new) ==
  IF \E n \in Nodes : NodeEventEnqueues(old[n], new[n])
  THEN queue \cup policies ELSE queue

(* Reconcile 100 with removeNodeUpgradeStateLabels 169-177: the loop's  *)
(* error is the result of Reconcile, which the rate limiter requeues.   *)
RemoveReturn(err) ==
  /\ pc' = "idle"
  /\ delayed' = IF err THEN delayed \cup {req} ELSE delayed

(* Return from Reconcile with an error, or with RequeueAfter: both put  *)
(* the request back after a delay (Reconcile 110-147).                  *)
ReturnRequeue ==
  /\ pc' = "idle"
  /\ delayed' = delayed \cup {req}

(* One ApplyState of the library: every node keeps its state or moves   *)
(* along the state machine; a node without state is classified first.   *)
Advance(s) ==
  CASE s = NoState  -> {Required, Done}
    [] s = Required -> {Required, Done}
    [] s = Done     -> {Done}

Applied ==
  {f \in [Nodes -> UNION {Advance(s) : s \in States}] :
     \A n \in Nodes : f[n] \in Advance(upgrade[n])}

Init ==
  /\ policies \in SUBSET Policies
  /\ auto \in [Policies -> BOOLEAN]
  /\ upgrade \in [Nodes -> States]
  /\ queue = policies
  /\ delayed = {}
  /\ pc = "idle"
  /\ req = NoPolicy
  /\ listed = upgrade
  /\ todo = {}
  /\ errors = 0
  /\ envSteps = 0
  /\ restarts = 0

(***************************************************************************)
(* Reconcile 71-101 with the List of removeNodeUpgradeStateLabels 155-160:*)
(* a missing policy ends the request, a failed Get or List returns the    *)
(* error; a policy without auto-upgrade starts the label cleanup from a   *)
(* List of the nodes, one with auto-upgrade goes on to the library.      *)
(***************************************************************************)
ReconcileGet(p) ==
  /\ pc = "idle"
  /\ p \in queue
  /\ queue' = queue \ {p}
  /\ req' = p
  /\ \/ /\ p \notin policies
        /\ UNCHANGED <<delayed, pc, listed, todo, errors>>
     \/ /\ p \in policies
        /\ Fail
        /\ delayed' = delayed \cup {p}
        /\ UNCHANGED <<pc, listed, todo>>
     \/ /\ p \in policies
        /\ ~auto[p]
        /\ pc' = "remove"
        /\ listed' = upgrade
        /\ todo' = Nodes
        /\ UNCHANGED <<delayed, errors>>
     \/ /\ p \in policies
        /\ auto[p]
        /\ pc' = "apply"
        /\ UNCHANGED <<delayed, listed, todo, errors>>
  /\ UNCHANGED <<policies, auto, upgrade, envSteps, restarts>>

(***************************************************************************)
(* One iteration of the loop of removeNodeUpgradeStateLabels (164-176), in *)
(* List order: a node listed with the label has it deleted and is written *)
(* back with Update, which carries the listed resourceVersion and so      *)
(* conflicts if the label changed since; any error returns at once.  The  *)
(* written change is a node label event.  After the last node it returns *)
(* nil and Reconcile ends without a requeue.                              *)
(***************************************************************************)
RemoveLabel(n) ==
  /\ pc = "remove"
  /\ n \in todo
  /\ todo' = todo \ {n}
  /\ \/ /\ listed[n] = NoState
        /\ IF todo' = {} THEN RemoveReturn(FALSE) ELSE UNCHANGED <<pc, delayed>>
        /\ UNCHANGED <<upgrade, queue, errors>>
     \/ /\ listed[n] # NoState
        /\ upgrade[n] # listed[n]
        /\ RemoveReturn(TRUE)
        /\ UNCHANGED <<upgrade, queue, errors>>
     \/ /\ listed[n] # NoState
        /\ Fail
        /\ RemoveReturn(TRUE)
        /\ UNCHANGED <<upgrade, queue>>
     \/ /\ listed[n] # NoState
        /\ upgrade[n] = listed[n]
        /\ upgrade' = [upgrade EXCEPT ![n] = NoState]
        /\ queue' = AfterNodeEvent(upgrade, upgrade')
        /\ IF todo' = {} THEN RemoveReturn(FALSE) ELSE UNCHANGED <<pc, delayed>>
        /\ UNCHANGED errors
  /\ UNCHANGED <<policies, auto, req, listed, envSteps, restarts>>

(***************************************************************************)
(* Reconcile 107-147: BuildState, the maxUnavailable computation and      *)
(* ApplyState each may fail and return the error; ApplyState may have     *)
(* moved some nodes when it fails.  Success returns RequeueAfter two      *)
(* minutes.  Label changes the library writes are node label events.     *)
(***************************************************************************)
Apply ==
  /\ pc = "apply"
  /\ \/ /\ Fail
        /\ UNCHANGED <<upgrade, queue>>
     \/ /\ \E f \in Applied : upgrade' = f
        /\ queue' = AfterNodeEvent(upgrade, upgrade')
        /\ \/ UNCHANGED errors
           \/ Fail
  /\ ReturnRequeue
  /\ UNCHANGED <<policies, auto, req, listed, todo, envSteps, restarts>>

(* A RequeueAfter delay or the rate limiter's back-off expires. *)
Requeue(p) ==
  /\ p \in delayed
  /\ delayed' = delayed \ {p}
  /\ queue' = queue \cup {p}
  /\ UNCHANGED <<policies, auto, upgrade, pc, req, listed, todo,
                 errors, envSteps, restarts>>

(***************************************************************************)
(* The cluster.  Policy changes are events of the ClusterPolicy watch     *)
(* (191); an administrator sets or clears a node's upgrade-state      *)
(* label, an event of the node watch.                                    *)
(***************************************************************************)
EnvStep == envSteps < MaxEnv /\ envSteps' = envSteps + 1

CreatePolicy(p, a) ==
  /\ EnvStep
  /\ p \notin policies
  /\ policies' = policies \cup {p}
  /\ auto' = [auto EXCEPT ![p] = a]
  /\ queue' = queue \cup {p}
  /\ UNCHANGED <<upgrade, delayed, pc, req, listed, todo, errors, restarts>>

DeletePolicy(p) ==
  /\ EnvStep
  /\ p \in policies
  /\ policies' = policies \ {p}
  /\ queue' = queue \cup {p}
  /\ UNCHANGED <<auto, upgrade, delayed, pc, req, listed, todo, errors, restarts>>

SetAutoUpgrade(p) ==
  /\ EnvStep
  /\ p \in policies
  /\ auto' = [auto EXCEPT ![p] = ~auto[p]]
  /\ queue' = queue \cup {p}
  /\ UNCHANGED <<policies, upgrade, delayed, pc, req, listed, todo, errors, restarts>>

SetNodeState(n, s) ==
  /\ EnvStep
  /\ upgrade[n] # s
  /\ upgrade' = [upgrade EXCEPT ![n] = s]
  /\ queue' = AfterNodeEvent(upgrade, upgrade')
  /\ UNCHANGED <<policies, auto, delayed, pc, req, listed, todo, errors, restarts>>

(* The operator restarts: the reconcile in progress and its timers are  *)
(* lost, and the informers' initial list enqueues every policy.         *)
Restart ==
  /\ restarts < MaxRestarts
  /\ restarts' = restarts + 1
  /\ pc' = "idle"
  /\ queue' = policies
  /\ delayed' = {}
  /\ UNCHANGED <<policies, auto, upgrade, req, listed, todo, errors, envSteps>>

Worker ==
  \/ \E p \in Policies : ReconcileGet(p)
  \/ \E n \in Nodes : RemoveLabel(n)
  \/ Apply

Environment ==
  \/ \E p \in Policies, a \in BOOLEAN : CreatePolicy(p, a)
  \/ \E p \in Policies : DeletePolicy(p) \/ SetAutoUpgrade(p)
  \/ \E n \in Nodes, s \in States : SetNodeState(n, s)
  \/ Restart

Next ==
  \/ Worker
  \/ \E p \in Policies : Requeue(p)
  \/ Environment

(* The single worker runs whenever it has work, and timers expire; the  *)
(* cluster and restarts are not forced to happen.                        *)
Fairness ==
  /\ WF_vars(Worker)
  /\ \A p \in Policies : WF_vars(Requeue(p))

Spec == Init /\ [][Next]_vars /\ Fairness

-----------------------------------------------------------------------------
(* Type invariant of the upgrade reconciler: the store, the queue and   *)
(* the worker's locals keep their types and the counters their bounds;  *)
(* in particular the node watch's mapFn (196-219) enqueues ClusterPolicy *)
(* names only, so every request Reconcile Gets names a policy.           *)
TypeOK ==
  /\ policies \subseteq Policies
  /\ auto \in [Policies -> BOOLEAN]
  /\ upgrade \in [Nodes -> States]
  /\ queue \subseteq Policies
  /\ delayed \subseteq Policies
  /\ pc \in {"idle", "remove", "apply"}
  /\ req \in Policies \cup {NoPolicy}
  /\ listed \in [Nodes -> States]
  /\ todo \subseteq Nodes
  /\ errors \in 0..MaxErrors
  /\ envSteps \in 0..MaxEnv
  /\ restarts \in 0..MaxRestarts

(* Cleanup when auto-upgrade is disabled (Reconcile 93-101): once the   *)
(* cluster stops changing, if every ClusterPolicy has auto-upgrade off, *)
(* no node keeps an upgrade-state label, whatever conflicts and failed  *)
(* Updates the loop met and whatever labels were set behind its back.   *)
UpgradeLabelsCleared ==
  <>[]( policies # {} /\ (\A p \in policies : ~auto[p])
        => \A n \in Nodes : upgrade[n] = NoState )

(* The spec: duplicate ClusterPolicies are ignored.  Then, once the     *)
(* cluster stops changing, the reconciler stops rewriting node upgrade  *)
(* labels (Reconcile 93-147 runs for every ClusterPolicy).              *)
LabelsSettle == <>[][UNCHANGED upgrade]_upgrade

=============================================================================
