------------------------- MODULE UpgradeReconcilerProofs -------------------------
(***************************************************************************)
(* Proofs about the upgrade reconciler (UpgradeReconciler), for every set *)
(* of policies and nodes and every bound UpgradeConstantsAssumption       *)
(* allows.                                                                 *)
(*                                                                         *)
(* TypeOK alone is not inductive: a return from Reconcile puts req back   *)
(* into the delaying queue, which stays a set of policy names only        *)
(* because the worker is never inside Reconcile without a request.        *)
(***************************************************************************)
EXTENDS UpgradeReconciler, TLAPS

(* Inside Reconcile the worker holds a request for a policy name. *)
WorkerInv == pc # "idle" => req \in Policies

IInv == TypeOK /\ WorkerInv

(* A failed API call keeps the error count within MaxErrors. *)
LEMMA UpgradeFailBound ==
  ASSUME errors \in 0..MaxErrors, Fail
  PROVE  errors' \in 0..MaxErrors
BY UpgradeConstantsAssumption DEF Fail

(* A change made by the cluster keeps its count within MaxEnv. *)
LEMMA UpgradeEnvStepBound ==
  ASSUME envSteps \in 0..MaxEnv, EnvStep
  PROVE  envSteps' \in 0..MaxEnv
BY UpgradeConstantsAssumption DEF EnvStep

(* A node event enqueues policy names only. *)
LEMMA AfterNodeEventType ==
  ASSUME queue \subseteq Policies, policies \subseteq Policies, NEW old, NEW new
  PROVE  AfterNodeEvent(old, new) \subseteq Policies
BY DEF AfterNodeEvent

(* ApplyState leaves every node in a state of the state machine. *)
LEMMA AppliedType ==
  ASSUME upgrade \in [Nodes -> States], NEW f \in Applied
  PROVE  f \in [Nodes -> States]
BY DEF Applied, Advance, States, NoState, Required, Done

LEMMA InitIInv == Init => IInv
BY UpgradeConstantsAssumption DEF Init, IInv, TypeOK, WorkerInv

LEMMA ReconcileGetIInv ==
  ASSUME IInv, NEW p \in Policies, ReconcileGet(p)
  PROVE  IInv'
<1>1. req' = p /\ queue' = queue \ {p}
  BY DEF ReconcileGet
<1>2. delayed' \subseteq Policies /\ errors' \in 0..MaxErrors
      /\ pc' \in {"idle", "remove", "apply"}
      /\ listed' \in [Nodes -> States] /\ todo' \subseteq Nodes
  BY UpgradeFailBound DEF ReconcileGet, IInv, TypeOK
<1>. QED  BY <1>1, <1>2 DEF ReconcileGet, IInv, TypeOK, WorkerInv

LEMMA RemoveLabelIInv ==
  ASSUME IInv, NEW n \in Nodes, RemoveLabel(n)
  PROVE  IInv'
<1>1. upgrade' \in [Nodes -> States] /\ queue' \subseteq Policies
  BY AfterNodeEventType DEF RemoveLabel, IInv, TypeOK, States
<1>2. delayed' \subseteq Policies /\ pc' \in {"idle", "remove", "apply"}
  BY DEF RemoveLabel, RemoveReturn, IInv, TypeOK, WorkerInv
<1>3. errors' \in 0..MaxErrors
  BY UpgradeFailBound DEF RemoveLabel, IInv, TypeOK
<1>. QED  BY <1>1, <1>2, <1>3 DEF RemoveLabel, IInv, TypeOK, WorkerInv

LEMMA ApplyIInv ==
  ASSUME IInv, Apply
  PROVE  IInv'
<1>1. upgrade' \in [Nodes -> States]
  BY AppliedType DEF Apply, IInv, TypeOK
<1>2. queue' \subseteq Policies
  BY AfterNodeEventType DEF Apply, IInv, TypeOK
<1>3. errors' \in 0..MaxErrors
  BY UpgradeFailBound DEF Apply, IInv, TypeOK
<1>4. delayed' \subseteq Policies /\ pc' = "idle"
  BY DEF Apply, ReturnRequeue, IInv, TypeOK, WorkerInv
<1>. QED  BY <1>1, <1>2, <1>3, <1>4 DEF Apply, IInv, TypeOK, WorkerInv

LEMMA EnvironmentIInv ==
  ASSUME IInv, Environment
  PROVE  IInv'
<1>1. CASE \E p \in Policies, a \in BOOLEAN : CreatePolicy(p, a)
  BY <1>1, UpgradeEnvStepBound DEF CreatePolicy, IInv, TypeOK, WorkerInv
<1>2. CASE \E p \in Policies : DeletePolicy(p)
  BY <1>2, UpgradeEnvStepBound DEF DeletePolicy, IInv, TypeOK, WorkerInv
<1>3. CASE \E p \in Policies : SetAutoUpgrade(p)
  BY <1>3, UpgradeEnvStepBound DEF SetAutoUpgrade, IInv, TypeOK, WorkerInv
<1>4. CASE \E n \in Nodes, s \in States : SetNodeState(n, s)
  BY <1>4, UpgradeEnvStepBound, AfterNodeEventType
  DEF SetNodeState, IInv, TypeOK, WorkerInv
<1>5. CASE Restart
  BY <1>5, UpgradeConstantsAssumption DEF Restart, IInv, TypeOK, WorkerInv
<1>. QED  BY <1>1, <1>2, <1>3, <1>4, <1>5 DEF Environment

LEMMA NextIInv == IInv /\ [Next]_vars => IInv'
<1> SUFFICES ASSUME IInv, [Next]_vars PROVE IInv'
  OBVIOUS
<1>1. CASE \E p \in Policies : ReconcileGet(p)
  BY <1>1, ReconcileGetIInv
<1>2. CASE \E n \in Nodes : RemoveLabel(n)
  BY <1>2, RemoveLabelIInv
<1>3. CASE Apply
  BY <1>3, ApplyIInv
<1>4. CASE \E p \in Policies : Requeue(p)
  BY <1>4 DEF Requeue, IInv, TypeOK, WorkerInv
<1>5. CASE Environment
  BY <1>5, EnvironmentIInv
<1>6. CASE UNCHANGED vars
  BY <1>6 DEF vars, IInv, TypeOK, WorkerInv
<1>. QED  BY <1>1, <1>2, <1>3, <1>4, <1>5, <1>6 DEF Next, Worker

(* Type correctness of the upgrade reconciler: ApplyState keeps every   *)
(* node's upgrade-state label within the library's state machine, the   *)
(* work queue and the delaying queue hold policy names only, and the    *)
(* counters stay within their bounds.                                   *)
THEOREM UpgradeTypeCorrect == Spec => []TypeOK
BY InitIInv, NextIInv, PTL DEF Spec, IInv

=============================================================================
