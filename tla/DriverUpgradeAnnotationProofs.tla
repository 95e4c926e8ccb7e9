---------------------- MODULE DriverUpgradeAnnotationProofs ----------------------
(***************************************************************************)
(* Proofs about the driver auto-upgrade annotation pass                   *)
(* (DriverUpgradeAnnotation), for every set of nodes and every value of   *)
(* the constants AnnotationConstantsAssumption allows.                    *)
(***************************************************************************)
EXTENDS DriverUpgradeAnnotation, TLAPS

(* The node views the store may hold: no "null" annotation. *)
StoredViews == {v \in NodeViews : v.annot # "null"}

(* Writing the pass's value into a listed node with an annotation map  *)
(* gives a stored view: the "null" marker deletes the key.             *)
LEMMA WrittenType ==
  ASSUME NEW v \in NodeViews, ~v.nilMap, NEW value \in {"true", "null"}
  PROVE  Written(v, value) \in StoredViews
BY DEF Written, StoredViews, NodeViews, Values, Absent

(* Flipping the GPU label of a stored view gives a stored view. *)
LEMMA FlipGPUType ==
  ASSUME NEW v \in StoredViews
  PROVE  [v EXCEPT !.gpu = ~v.gpu] \in StoredViews
BY DEF StoredViews, NodeViews

LEMMA AnnotFailBound ==
  ASSUME errors \in 0..MaxErrors, Fail
  PROVE  errors' \in 0..MaxErrors
BY AnnotationConstantsAssumption DEF Fail

LEMMA AnnotEnvStepBound ==
  ASSUME envSteps \in 0..MaxEnv, EnvStep
  PROVE  envSteps' \in 0..MaxEnv
BY AnnotationConstantsAssumption DEF EnvStep

LEMMA InitTypeOK == Init => TypeOK
<1> SUFFICES ASSUME Init PROVE TypeOK
  OBVIOUS
<1>1. node \in [Nodes -> StoredViews]
  BY DEF Init, StoredViews
<1>2. listed \in [Nodes -> NodeViews]
  BY <1>1 DEF Init, StoredViews
<1>3. errors \in 0..MaxErrors /\ envSteps \in 0..MaxEnv
  BY AnnotationConstantsAssumption DEF Init
<1>. QED  BY <1>1, <1>2, <1>3 DEF Init, TypeOK, StoredViews

LEMMA AnnotateTypeOK ==
  ASSUME TypeOK, NEW n \in Nodes, Annotate(n)
  PROVE  TypeOK'
<1> DEFINE v == listed[n]
           value == IF enable THEN "true" ELSE "null"
<1>1. v \in NodeViews /\ value \in {"true", "null"}
  BY DEF TypeOK
<1>2. node' = node \/ (~v.nilMap /\ node' = [node EXCEPT ![n] = Written(v, value)])
  BY DEF Annotate
<1>3. node' \in [Nodes -> StoredViews]
  BY <1>1, <1>2, WrittenType DEF TypeOK, StoredViews
<1>4. errors' \in 0..MaxErrors
  BY AnnotFailBound DEF Annotate, TypeOK
<1>5. pc' \in {"idle", "loop", "panicked"} /\ pending' \in BOOLEAN /\ todo' \subseteq Nodes
  BY DEF Annotate, Continue, ReturnError, TypeOK
<1>. QED  BY <1>3, <1>4, <1>5 DEF Annotate, TypeOK, StoredViews

LEMMA NextTypeOK == TypeOK /\ [Next]_vars => TypeOK'
<1> SUFFICES ASSUME TypeOK, [Next]_vars PROVE TypeOK'
  OBVIOUS
<1>1. CASE StartPass
  BY <1>1, AnnotFailBound DEF StartPass, TypeOK
<1>2. CASE \E n \in Nodes : Annotate(n)
  BY <1>2, AnnotateTypeOK
<1>3. CASE SetAutoUpgrade
  BY <1>3, AnnotEnvStepBound DEF SetAutoUpgrade, TypeOK
<1>4. CASE \E n \in Nodes : SetGPU(n)
  <2>1. PICK n \in Nodes : SetGPU(n)
    BY <1>4
  <2>2. node' \in [Nodes -> StoredViews]
    BY <2>1, FlipGPUType DEF SetGPU, TypeOK, StoredViews
  <2>. QED  BY <2>1, <2>2, AnnotEnvStepBound DEF SetGPU, TypeOK, StoredViews
<1>5. CASE UNCHANGED vars
  BY <1>5 DEF vars, TypeOK
<1>. QED  BY <1>1, <1>2, <1>3, <1>4, <1>5 DEF Next

(* Type correctness of the annotation pass: the "null" removal marker   *)
(* never reaches a node in the store (state_manager.go 425-429 delete   *)
(* the key instead), whatever conflicts, failures and cluster changes   *)
(* interleave with the pass.                                             *)
THEOREM AnnotationTypeCorrect == Spec => []TypeOK
BY InitTypeOK, NextTypeOK, PTL DEF Spec

=============================================================================
