--------------------------- MODULE LabelReconciler ---------------------------
(***************************************************************************)
(* The per-node label pass of labelGPUNodes (state_manager.go 458-501)    *)
(* against the edits NFD and administrators make to the same nodes.  The  *)
(* operator's pass on a node is one step: it reads the node and writes    *)
(* LabelGPUNode of what it read (a conflicting write is the driver's      *)
(* concern, see ClusterPolicyController).  synced[n] records that no edit *)
(* reached n since the operator's last pass on it.                        *)
(***************************************************************************)
EXTENDS Naturals, NodeLabels

CONSTANTS
  Nodes,           \* cluster nodes
  SandboxEnabled,  \* n.sandboxEnabled
  InitLabels,      \* label maps a node may start with
  EnvEdits,        \* <<key, value>> edits NFD or an admin may make
  MaxEdits         \* bound on edits in a behaviour

ASSUME LabelConstantsAssumption ==
  /\ SandboxEnabled \in BOOLEAN
  /\ InitLabels \subseteq Labels /\ InitLabels # {}
  /\ EnvEdits \subseteq Keys \X Values
  /\ MaxEdits \in Nat

VARIABLES labels, synced, edits

vars == <<labels, synced, edits>>

Init ==
  /\ labels \in [Nodes -> InitLabels]
  /\ synced = [n \in Nodes |-> FALSE]
  /\ edits = 0

(* The operator's pass on node n: LabelGPUNode, written back. *)
ReconcileNode(n) ==
  /\ labels' = [labels EXCEPT ![n] = LabelGPUNode(labels[n], SandboxEnabled)]
  /\ synced' = [synced EXCEPT ![n] = TRUE]
  /\ UNCHANGED edits

(* NFD or an administrator sets or removes one label of node n. *)
EditLabel(n, e) ==
  /\ edits < MaxEdits
  /\ labels[n][e[1]] # e[2]
  /\ labels' = [labels EXCEPT ![n][e[1]] = e[2]]
  /\ synced' = [synced EXCEPT ![n] = FALSE]
  /\ edits' = edits + 1

Next ==
  \/ \E n \in Nodes : ReconcileNode(n)
  \/ \E n \in Nodes, e \in EnvEdits : EditLabel(n, e)

Spec == Init /\ [][Next]_vars

-----------------------------------------------------------------------------
(* Type invariant: every label the pass writes is one of the modelled    *)
(* values, so no marker value (such as "null") is left on a node.        *)
TypeOK ==
  /\ labels \in [Nodes -> Labels]
  /\ synced \in [Nodes -> BOOLEAN]
  /\ edits \in 0..MaxEdits

(* The workload configuration the pass applies to node n. *)
config(n) == getWorkloadConfig(labels[n], SandboxEnabled)

(* Mode exclusivity: after a pass, a GPU node carries deployment labels *)
(* of its own workload configuration only, and MIG manager only in      *)
(* container mode (removeGPUStateLabels keeps the shared sandbox keys). *)
ModeExclusive ==
  \A n \in Nodes :
    synced[n] /\ hasCommonGPULabel(labels[n]) =>
      \A k \in ManagedKeys :
        labels[n][k] # Absent =>
          k \in gpuStateLabels[config(n)]
                \cup (IF config(n) = Container THEN {MigManager} ELSE {})

(* Convergence: one pass reaches the final labels; a second pass on an  *)
(* unchanged node changes nothing (no oscillation, so no watch events). *)
PassIsFixpoint ==
  \A n \in Nodes :
    synced[n] => LabelGPUNode(labels[n], SandboxEnabled) = labels[n]

(* A pass never overwrites the value an administrator gave a deployment *)
(* label of the node's own configuration: it only adds missing ones     *)
(* (addGPUStateLabels), unless operands are disabled or the GPU is gone. *)
AdminValuesKept ==
  [][edits' = edits =>
     \A n \in Nodes :
       LET l == labels[n] IN
       hasCommonGPULabel(l) /\ hasGPULabels(l) /\ ~hasOperandsDisabled(l) =>
         \A k \in gpuStateLabels[config(n)] :
           l[k] # Absent => labels'[n][k] = l[k]]_vars

(* The spec: the MIG manager label is present on a GPU node with        *)
(* operands enabled iff it is in container mode and MIG capable.         *)
MIGManagerExact ==
  \A n \in Nodes :
    LET l == labels[n] IN
    synced[n] /\ hasCommonGPULabel(l) /\ ~hasOperandsDisabled(l) =>
      (hasMIGManagerLabel(l) <=> config(n) = Container /\ hasMIGCapableGPU(l))

=============================================================================
