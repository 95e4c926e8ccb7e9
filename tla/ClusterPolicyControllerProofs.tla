-------------------- MODULE ClusterPolicyControllerProofs --------------------
(***************************************************************************)
(* Proofs about the ClusterPolicy reconcile loop, for every value of the  *)
(* constants that ConstantsAssumption allows.                              *)
(***************************************************************************)
EXTENDS ClusterPolicyController, NodeLabelsProofs, TLAPS

(* A failed API call keeps the error count within MaxErrors. *)
LEMMA FailBound ==
  ASSUME errors \in 0..MaxErrors, Fail
  PROVE  errors' \in 0..MaxErrors
BY ConstantsAssumption DEF Fail

(* A change made by the cluster keeps its count within MaxEnv. *)
LEMMA EnvStepBound ==
  ASSUME envSteps \in 0..MaxEnv, EnvStep
  PROVE  envSteps' \in 0..MaxEnv
BY ConstantsAssumption DEF EnvStep

(***************************************************************************)
(* The inductive invariant.  TypeOK alone is not inductive: the bound on  *)
(* the cursor idx holds only because Reconcile resets it before init and  *)
(* last() stops the walk at NumStages.  WalkInv records where the worker  *)
(* is in the walk: before it idx is 0; while stepping, the stages 1..idx  *)
(* have been visited and overall is NotReady exactly when one of them was *)
(* NotReady; an unfailed walk reaches the status write at NumStages.      *)
(* Outside idle the request is the latched policy: a policy name, which  *)
(* the requeues need, and the one the status write may touch.            *)
(***************************************************************************)
WalkInv ==
  /\ pc # "idle" => req \in Policies /\ req = singleton
  /\ pc \in {"init", "label", "finish"} => idx = 0
  /\ pc = "step" => idx < NumStages /\ ~failed
  /\ pc \in {"step", "status"} /\ ~failed =>
        /\ visited = 1..idx
        /\ (overall = Ready <=> notReady = {})
  /\ pc = "status" /\ ~failed => idx = NumStages

IInv == TypeOK /\ WalkInv

(* The initial states (a fresh process, no reconcile yet) satisfy IInv. *)
LEMMA InitIInv == Init => IInv
<1> SUFFICES ASSUME Init PROVE IInv
  OBVIOUS
<1>1. labels \in [Nodes -> Labels] /\ listed \in [Nodes -> Labels]
  BY ConstantsAssumption DEF Init
<1>2. idx \in 0..NumStages /\ errors \in 0..MaxErrors
      /\ envSteps \in 0..MaxEnv /\ restarts \in 0..MaxRestarts
  BY ConstantsAssumption DEF Init
<1>3. status \in [Policies -> {NoStatus, Ready, NotReady, Ignored}]
  BY DEF Init
<1>4. TypeOK
  BY <1>1, <1>2, <1>3, Zenon DEF Init, TypeOK, Stages, PCs
<1>5. WalkInv
  BY DEF Init, WalkInv
<1>. QED  BY <1>4, <1>5 DEF IInv

(* Every step of the worker, the timers, the cluster and a restart       *)
(* preserves IInv.                                                        *)
LEMMA NextIInv == IInv /\ [Next]_vars => IInv'
<1> SUFFICES ASSUME IInv, [Next]_vars PROVE IInv'
  OBVIOUS
<1> USE ConstantsAssumption DEF IInv, TypeOK, WalkInv, Stages, PCs,
                                clusterVars, procVars, workVars
<1>1. ASSUME NEW p \in Policies, ReconcileGet(p) PROVE IInv'
  <2>1. TypeOK'  BY <1>1 DEF ReconcileGet, Fail, Latched
  <2>2. WalkInv'  BY <1>1 DEF ReconcileGet, Fail, Latched
  <2>. QED  BY <2>1, <2>2
<1>2. CASE InitStart
  <2>1. CASE Fail /\ hasControls' \in {hasControls, TRUE} /\ ReturnRequeue
             /\ UNCHANGED <<todo, listed, dirty, nfdAcc, gpuAcc>>
    <3>1. errors' \in 0..MaxErrors  BY <2>1, FailBound
    <3>2. hasControls' \in BOOLEAN /\ pc' = "idle"
          /\ delayed' \subseteq Policies
      BY <1>2, <2>1 DEF InitStart, ReturnRequeue
    <3>3. TypeOK'  BY <1>2, <3>1, <3>2, Zenon DEF InitStart
    <3>4. WalkInv'  BY <3>2
    <3>. QED  BY <3>3, <3>4
  <2>2. CASE hasControls' = TRUE /\ pc' = "label" /\ todo' = Nodes
             /\ listed' = labels /\ dirty' = FALSE /\ nfdAcc' = FALSE
             /\ gpuAcc' = FALSE /\ UNCHANGED <<delayed, errors>>
    <3>1. TypeOK'  BY <1>2, <2>2 DEF InitStart
    <3>2. WalkInv'  BY <1>2, <2>2 DEF InitStart
    <3>. QED  BY <3>1, <3>2
  <2>. QED  BY <1>2, <2>1, <2>2 DEF InitStart
<1>3. ASSUME NEW n \in Nodes, LabelNode(n) PROVE IInv'
  <2>1. LabelGPUNode(listed[n], SandboxEnabled) \in Labels
    BY LabelGPUNodeType
  <2>2. TypeOK'
    <3>1. errors' \in 0..MaxErrors  BY <1>3, FailBound DEF LabelNode
    <3>2. labels' \in [Nodes -> Labels]  BY <1>3, <2>1 DEF LabelNode
    <3>. QED  BY <1>3, <3>1, <3>2, Zenon DEF LabelNode, ReturnRequeue
  <2>3. WalkInv'  BY <1>3 DEF LabelNode, Fail, ReturnRequeue
  <2>. QED  BY <2>2, <2>3
<1>4. CASE InitFinish
  <2>1. TypeOK'
    <3>1. errors' \in 0..MaxErrors  BY <1>4, FailBound DEF InitFinish
    <3>. QED  BY <1>4, <3>1, Zenon DEF InitFinish, ReturnRequeue
  <2>2. WalkInv'  BY <1>4 DEF InitFinish, Fail, ReturnRequeue
  <2>. QED  BY <2>1, <2>2
<1>5. CASE Step
  <2> DEFINE s == idx + 1
             st == StageStatus(s)
  <2>1. pc = "step" /\ idx < NumStages /\ ~failed /\ s \in Stages
    BY <1>5 DEF Step
  <2>2. Aggregate(overall, st) \in {Ready, NotReady}
    BY DEF Aggregate
  <2>3. Aggregate(overall, st) = Ready <=> overall = Ready /\ st # NotReady
    BY DEF Aggregate, Ready, NotReady
  <2>4. CASE dsOwner' = req /\ visited' = visited \cup {s} /\ Fail
             /\ failed' = TRUE /\ pc' = "status"
             /\ UNCHANGED <<idx, overall, notReady>>
    <3>1. TypeOK'  BY <1>5, <2>1, <2>4 DEF Step, Fail
    <3>2. WalkInv'  BY <1>5, <2>4 DEF Step
    <3>. QED  BY <3>1, <3>2
  <2>5. CASE /\ dsOwner' = req /\ visited' = visited \cup {s}
             /\ idx' = idx + 1
             /\ overall' = Aggregate(overall, st)
             /\ notReady' = IF st = NotReady THEN notReady \cup {s}
                            ELSE notReady
             /\ pc' = IF last(idx') THEN "status" ELSE "step"
             /\ UNCHANGED <<failed, errors>>
    <3>1. TypeOK'  BY <1>5, <2>1, <2>2, <2>5 DEF Step, last
    <3>2. (visited = 1..idx)'  BY <2>1, <2>5
    <3>3. (overall = Ready <=> notReady = {})'  BY <2>1, <2>3, <2>5
    <3>4. WalkInv'  BY <1>5, <2>1, <2>5, <3>2, <3>3 DEF Step, last
    <3>. QED  BY <3>1, <3>4
  <2>. QED  BY <1>5, <2>4, <2>5 DEF Step
<1>6. CASE UpdateStatus
  <2>1. target \in {Ready, NotReady}  BY DEF target
  <2>2. TypeOK'
    <3>1. errors' \in 0..MaxErrors  BY <1>6, FailBound DEF UpdateStatus
    <3>2. status' \in [Policies -> {NoStatus, Ready, NotReady, Ignored}]
      BY <1>6, <2>1 DEF UpdateStatus
    <3>. QED  BY <1>6, <3>1, <3>2 DEF UpdateStatus
  <2>3. WalkInv'  BY <1>6 DEF UpdateStatus
  <2>. QED  BY <2>2, <2>3
<1>7. ASSUME NEW p \in Policies, Requeue(p) PROVE IInv'
  BY <1>7 DEF Requeue
<1>8. ASSUME NEW p \in Policies, CreatePolicy(p) \/ DeletePolicy(p)
      PROVE IInv'
  <2>1. CASE CreatePolicy(p)
    <3>1. envSteps' \in 0..MaxEnv  BY <2>1, EnvStepBound DEF CreatePolicy
    <3>2. TypeOK'  BY <2>1, <3>1 DEF CreatePolicy
    <3>3. WalkInv'  BY <2>1 DEF CreatePolicy
    <3>. QED  BY <3>2, <3>3
  <2>2. CASE DeletePolicy(p)
    <3>1. envSteps' \in 0..MaxEnv  BY <2>2, EnvStepBound DEF DeletePolicy
    <3>2. TypeOK'  BY <2>2, <3>1 DEF DeletePolicy
    <3>3. WalkInv'  BY <2>2 DEF DeletePolicy
    <3>. QED  BY <3>2, <3>3
  <2>. QED  BY <1>8, <2>1, <2>2
<1>9. ASSUME NEW s \in Stages, DaemonSetReadiness(s) PROVE IInv'
  BY <1>9 DEF DaemonSetReadiness, EnvStep
<1>10. ASSUME NEW n \in Nodes, NEW e \in EnvEdits, EditNodeLabel(n, e)
       PROVE IInv'
  <2>1. [labels[n] EXCEPT ![e[1]] = e[2]] \in Labels
    BY LabelsExcept
  <2>. QED  BY <1>10, <2>1 DEF EditNodeLabel, EnvStep
<1>11. CASE Restart
  <2>1. TypeOK'
    <3>1. restarts' \in 0..MaxRestarts /\ idx' \in 0..NumStages
      BY <1>11 DEF Restart
    <3>. QED  BY <1>11, <3>1, Zenon DEF Restart
  <2>2. WalkInv'  BY <1>11 DEF Restart
  <2>. QED  BY <2>1, <2>2
<1>12. CASE UNCHANGED vars
  BY <1>12 DEF vars, clusterVars, procVars, workVars
<1>. QED
  BY <1>1, <1>2, <1>3, <1>4, <1>5, <1>6, <1>7, <1>8, <1>9, <1>10, <1>11,
     <1>12 DEF Next, Worker, Environment

(* Type correctness of the reconcile loop: every variable keeps its type, *)
(* in particular the stage cursor n.idx stays within 0..len(n.controls)   *)
(* (state_manager.go step/last), so step never indexes past the stages.   *)
THEOREM TypeCorrect == Spec => []TypeOK
<1>1. Init => IInv  BY InitIInv
<1>2. IInv /\ [Next]_vars => IInv'  BY NextIInv
<1>3. IInv => TypeOK  BY DEF IInv
<1>. QED  BY <1>1, <1>2, <1>3, PTL DEF Spec

(* Ready is written only after a full walk (Reconcile 128-187 with step  *)
(* and last): when updateCRState is about to write Ready, every stage was *)
(* stepped in this reconcile and none of them reported NotReady.          *)
THEOREM ReadyOnlyAfterFullWalkHolds == Spec => []ReadyOnlyAfterFullWalk
<1>1. IInv => ReadyOnlyAfterFullWalk
  BY DEF IInv, WalkInv, TypeOK, ReadyOnlyAfterFullWalk, target, Stages,
         Ready, NotReady
<1>. QED  BY <1>1, InitIInv, NextIInv, PTL DEF Spec

(***************************************************************************)
(* Refinement of PolicyLatch.  The mapping is the identity on the store,  *)
(* the latch and the restart count; every other variable is hidden.  A    *)
(* latch in ReconcileGet is a Latch step (or a stutter when the policy    *)
(* was latched already), a status write is a Report step for the         *)
(* singleton because the request of a reconcile in progress is the       *)
(* latched policy (WalkInv), and a restart is a Restart step.             *)
(***************************************************************************)
(* Every step of the reconciler is a step of PolicyLatch or leaves the   *)
(* store, the latch and the restart count alone.                          *)
LEMMA NextRefines == IInv /\ [Next]_vars => [AbsLatch!Next]_AbsLatch!vars
<1> SUFFICES ASSUME IInv, [Next]_vars PROVE [AbsLatch!Next]_AbsLatch!vars
  OBVIOUS
<1>1. ASSUME NEW p \in Policies, ReconcileGet(p)
      PROVE  [AbsLatch!Next]_AbsLatch!vars
  <2>1. UNCHANGED <<policies, status, restarts>>
    BY <1>1 DEF ReconcileGet, clusterVars
  <2>2. CASE UNCHANGED singleton
    BY <2>1, <2>2 DEF AbsLatch!vars
  <2>3. CASE singleton' # singleton
    <3>1. singleton = NoPolicy /\ p \in policies /\ singleton' = p
      BY <1>1, <2>3 DEF ReconcileGet, Latched, procVars
    <3>2. AbsLatch!Latch(p)
      BY <2>1, <3>1 DEF AbsLatch!Latch
    <3>. QED  BY <3>2 DEF AbsLatch!Next
  <2>. QED  BY <2>2, <2>3
<1>2. CASE UpdateStatus
  <2>1. UNCHANGED <<policies, singleton, restarts>>
    BY <1>2 DEF UpdateStatus, procVars
  <2>2. pc = "status"
    BY <1>2 DEF UpdateStatus
  <2>3. req = singleton /\ req \in Policies
    BY <2>2 DEF IInv, WalkInv
  <2>4. target \in {AbsLatch!Ready, AbsLatch!NotReady}
    BY DEF target, IInv, TypeOK, Ready, NotReady, AbsLatch!Ready,
           AbsLatch!NotReady
  <2>5. CASE req \in policies /\ status' = [status EXCEPT ![req] = target]
    <3>1. AbsLatch!Report(target)
      BY <2>1, <2>3, <2>5 DEF AbsLatch!Report
    <3>. QED  BY <2>4, <3>1 DEF AbsLatch!Next
  <2>6. CASE UNCHANGED status
    BY <2>1, <2>6 DEF AbsLatch!vars
  <2>. QED  BY <1>2, <2>5, <2>6 DEF UpdateStatus
<1>3. CASE Restart
  <2>1. AbsLatch!Restart
    BY <1>3 DEF Restart, AbsLatch!Restart, clusterVars
  <2>. QED  BY <2>1 DEF AbsLatch!Next
<1>4. ASSUME NEW p \in Policies, CreatePolicy(p)
      PROVE  [AbsLatch!Next]_AbsLatch!vars
  <2>1. AbsLatch!Create(p)
    BY <1>4 DEF CreatePolicy, AbsLatch!Create, procVars, AbsLatch!NoStatus,
              NoStatus
  <2>. QED  BY <2>1 DEF AbsLatch!Next
<1>5. ASSUME NEW p \in Policies, DeletePolicy(p)
      PROVE  [AbsLatch!Next]_AbsLatch!vars
  <2>1. AbsLatch!Delete(p)
    BY <1>5 DEF DeletePolicy, AbsLatch!Delete, procVars, AbsLatch!NoStatus,
              NoStatus
  <2>. QED  BY <2>1 DEF AbsLatch!Next
<1>6. CASE \/ InitStart \/ InitFinish \/ Step
           \/ \E n \in Nodes : LabelNode(n)
           \/ \E p \in Policies : Requeue(p)
           \/ \E s \in Stages : DaemonSetReadiness(s)
           \/ \E n \in Nodes, e \in EnvEdits : EditNodeLabel(n, e)
           \/ UNCHANGED vars
  <2>1. UNCHANGED <<policies, status, singleton, restarts>>
    BY <1>6 DEF InitStart, InitFinish, Step, LabelNode, Requeue,
                DaemonSetReadiness, EditNodeLabel, vars, clusterVars,
                procVars
  <2>. QED  BY <2>1 DEF AbsLatch!vars
<1>. QED
  BY <1>1, <1>2, <1>3, <1>4, <1>5, <1>6 DEF Next, Worker, Environment

(* The reconciler implements PolicyLatch (ImplementsPolicyLatch): the    *)
(* latch of Reconcile 100-105 holds a policy for a whole process         *)
(* lifetime, and updateCRState writes Ready or NotReady for it alone.    *)
THEOREM RefinesPolicyLatch == Spec => ImplementsPolicyLatch
<1>1. Init => AbsLatch!Init
  BY DEF Init, AbsLatch!Init, NoStatus, AbsLatch!NoStatus
<1>2. IInv /\ [Next]_vars => [AbsLatch!Next]_AbsLatch!vars
  BY NextRefines
<1>. QED
  BY <1>1, <1>2, InitIInv, NextIInv, PTL
  DEF Spec, ImplementsPolicyLatch, AbsLatch!Spec

=============================================================================
