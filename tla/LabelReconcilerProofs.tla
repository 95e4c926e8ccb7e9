------------------------- MODULE LabelReconcilerProofs -------------------------
(***************************************************************************)
(* Proofs about the per-node label pass of labelGPUNodes against NFD and  *)
(* administrator edits (LabelReconciler), for every set of nodes, every   *)
(* set of initial label maps and edits, and both values of sandboxEnabled *)
(* that LabelConstantsAssumption allows.                                   *)
(*                                                                         *)
(* The properties the labels run checks are inductive together with the   *)
(* type invariant: a pass leaves a node that a second pass would not      *)
(* change and that carries only its own mode's labels (NodeLabelsProofs), *)
(* and an edit clears synced for the node it touches.                     *)
(***************************************************************************)
EXTENDS LabelReconciler, NodeLabelsProofs, TLAPS

IInv == TypeOK /\ ModeExclusive /\ PassIsFixpoint

(* The initial states satisfy IInv: no node has been passed over yet. *)
LEMMA InitIInv == Init => IInv
BY LabelConstantsAssumption
DEF Init, IInv, TypeOK, ModeExclusive, PassIsFixpoint

(* The operator's pass on node n preserves IInv. *)
LEMMA ReconcileNodeIInv ==
  ASSUME IInv, NEW n \in Nodes, ReconcileNode(n)
  PROVE  IInv'
<1> DEFINE l == labels[n]
           r == LabelGPUNode(l, SandboxEnabled)
<1>1. l \in Labels /\ r \in Labels
  BY LabelGPUNodeType DEF IInv, TypeOK
<1>2. labels' = [labels EXCEPT ![n] = r] /\ synced' = [synced EXCEPT ![n] = TRUE]
      /\ edits' = edits
  BY DEF ReconcileNode
<1>3. TypeOK'
  BY <1>1, <1>2 DEF IInv, TypeOK
<1>4. ModeExclusive'
  <2> SUFFICES ASSUME NEW m \in Nodes, synced'[m], hasCommonGPULabel(labels'[m]),
                      NEW k \in ManagedKeys, labels'[m][k] # Absent
               PROVE  k \in gpuStateLabels[config(m)']
                              \cup (IF config(m)' = Container THEN {MigManager} ELSE {})
    BY DEF ModeExclusive
  <2>1. CASE m = n
    <3>1. getWorkloadConfig(r, SandboxEnabled) = getWorkloadConfig(l, SandboxEnabled)
      BY <1>1, PassClassification
    <3>2. config(m)' = getWorkloadConfig(l, SandboxEnabled)
      BY <1>2, <2>1, <3>1 DEF config, IInv, TypeOK
    <3>3. hasCommonGPULabel(r) /\ r[k] # Absent
      BY <1>2, <2>1 DEF IInv, TypeOK
    <3>. QED  BY <1>1, <3>2, <3>3, PassModeExclusive DEF Allowed
  <2>2. CASE m # n
    BY <1>2, <2>2 DEF IInv, ModeExclusive, config, TypeOK
  <2>. QED  BY <2>1, <2>2
<1>5. PassIsFixpoint'
  <2> SUFFICES ASSUME NEW m \in Nodes, synced'[m]
               PROVE  LabelGPUNode(labels'[m], SandboxEnabled) = labels'[m]
    BY DEF PassIsFixpoint
  <2>1. CASE m = n
    BY <1>1, <1>2, <2>1, PassIdempotent DEF IInv, TypeOK
  <2>2. CASE m # n
    BY <1>2, <2>2 DEF IInv, PassIsFixpoint, TypeOK
  <2>. QED  BY <2>1, <2>2
<1>. QED  BY <1>3, <1>4, <1>5 DEF IInv

(* An edit of NFD or an administrator preserves IInv: it clears synced *)
(* for the node it changes.                                             *)
LEMMA EditLabelIInv ==
  ASSUME IInv, NEW n \in Nodes, NEW e \in EnvEdits, EditLabel(n, e)
  PROVE  IInv'
<1>1. e[1] \in Keys /\ e[2] \in Values
  BY LabelConstantsAssumption
<1>2. labels[n] \in Labels
  BY DEF IInv, TypeOK
<1>3. [labels[n] EXCEPT ![e[1]] = e[2]] \in Labels
  BY <1>1, <1>2, LabelsExcept
<1>4. TypeOK'
  BY <1>3, LabelConstantsAssumption DEF IInv, TypeOK, EditLabel
<1>5. ModeExclusive' /\ PassIsFixpoint'
  BY DEF EditLabel, IInv, TypeOK, ModeExclusive, PassIsFixpoint, config
<1>. QED  BY <1>4, <1>5 DEF IInv

(* Every step preserves IInv. *)
LEMMA NextIInv == IInv /\ [Next]_vars => IInv'
<1> SUFFICES ASSUME IInv, [Next]_vars PROVE IInv'
  OBVIOUS
<1>1. CASE \E n \in Nodes : ReconcileNode(n)
  BY <1>1, ReconcileNodeIInv
<1>2. CASE \E n \in Nodes, e \in EnvEdits : EditLabel(n, e)
  BY <1>2, EditLabelIInv
<1>3. CASE UNCHANGED vars
  BY <1>3 DEF vars, IInv, TypeOK, ModeExclusive, PassIsFixpoint, config
<1>. QED  BY <1>1, <1>2, <1>3 DEF Next

(* Type correctness of the label pass: every node keeps a label map     *)
(* over the modelled values, so the pass never leaves a marker value.   *)
THEOREM LabelTypeCorrect == Spec => []TypeOK
BY InitIInv, NextIInv, PTL DEF Spec, IInv

(* Mode exclusivity (removeGPUStateLabels, addGPUStateLabels): after a  *)
(* pass, a GPU node carries deployment labels of its own workload       *)
(* configuration only, and MIG manager only in container mode, for     *)
(* every label map a node may start with and every sequence of edits.   *)
THEOREM ModeExclusiveHolds == Spec => []ModeExclusive
BY InitIInv, NextIInv, PTL DEF Spec, IInv

(* Convergence of labelGPUNodes: on a node no edit reached since the    *)
(* operator's last pass, another pass changes nothing.                  *)
THEOREM PassIsFixpointHolds == Spec => []PassIsFixpoint
BY InitIInv, NextIInv, PTL DEF Spec, IInv

(* A step that is no edit never changes the value an administrator gave *)
(* a present deployment label of the node's own configuration           *)
(* (addGPUStateLabels only adds missing labels).                        *)
LEMMA AdminStep ==
  ASSUME TypeOK, [Next]_vars
  PROVE  edits' = edits =>
           \A n \in Nodes :
             LET l == labels[n] IN
             hasCommonGPULabel(l) /\ hasGPULabels(l) /\ ~hasOperandsDisabled(l) =>
               \A k \in gpuStateLabels[config(n)] :
                 l[k] # Absent => labels'[n][k] = l[k]
<1> SUFFICES ASSUME edits' = edits, NEW n \in Nodes,
                    hasCommonGPULabel(labels[n]), hasGPULabels(labels[n]),
                    ~hasOperandsDisabled(labels[n]),
                    NEW k \in gpuStateLabels[config(n)], labels[n][k] # Absent
             PROVE  labels'[n][k] = labels[n][k]
  OBVIOUS
<1>1. CASE \E m \in Nodes : ReconcileNode(m)
  <2>1. PICK m \in Nodes : ReconcileNode(m)
    BY <1>1
  <2>2. CASE m = n
    BY <2>1, <2>2, PassKeepsPresent DEF ReconcileNode, TypeOK, config
  <2>3. CASE m # n
    BY <2>1, <2>3 DEF ReconcileNode, TypeOK
  <2>. QED  BY <2>2, <2>3
<1>2. CASE \E m \in Nodes, e \in EnvEdits : EditLabel(m, e)
  BY <1>2 DEF EditLabel, TypeOK
<1>3. CASE UNCHANGED vars
  BY <1>3 DEF vars
<1>. QED  BY <1>1, <1>2, <1>3 DEF Next

(* AdminValuesKept for every instance. *)
THEOREM AdminValuesKeptHolds == Spec => AdminValuesKept
<1>1. TypeOK /\ [Next]_vars => [edits' = edits =>
        \A n \in Nodes :
          LET l == labels[n] IN
          hasCommonGPULabel(l) /\ hasGPULabels(l) /\ ~hasOperandsDisabled(l) =>
            \A k \in gpuStateLabels[config(n)] :
              l[k] # Absent => labels'[n][k] = l[k]]_vars
  BY AdminStep
<1>. QED  BY <1>1, LabelTypeCorrect, PTL DEF Spec, AdminValuesKept

=============================================================================
