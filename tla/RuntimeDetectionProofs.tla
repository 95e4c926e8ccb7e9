------------------------- MODULE RuntimeDetectionProofs -------------------------
(***************************************************************************)
(* Proofs about getRuntime's loop (RuntimeDetection), for every List of   *)
(* up to MaxNodes GPU nodes and every MaxNodes in Nat.                     *)
(*                                                                         *)
(* RuntimeAsSpecified speaks of the state after the default only; the     *)
(* loop invariant LoopInv says what the loop has computed for the nodes   *)
(* it has visited: none of them runs containerd, and runtime is the       *)
(* runtime of the last recognised one, or the zero value if there is      *)
(* none.  After the containerd break, runtime is containerd and a node    *)
(* runs it.                                                                *)
(***************************************************************************)
EXTENDS RuntimeDetection, SequenceTheorems, TLAPS

(* The loop has visited positions 1..p of the List without a break. *)
PrefixDone(p) ==
  /\ \A j \in 1..p : getRuntimeString(nodes[j]) # Containerd
  /\ \/ KnownIn(nodes, p) = {} /\ runtime = NoRuntime
     \/ \E j \in KnownIn(nodes, p) :
          /\ \A m \in KnownIn(nodes, p) : m <= j
          /\ runtime = getRuntimeString(nodes[j])

(* The loop broke on a node that runs containerd. *)
Broke ==
  /\ runtime = Containerd
  /\ \E j \in 1..Len(nodes) : getRuntimeString(nodes[j]) = Containerd

LoopInv ==
  /\ pc = "loop" => i \in 1..Len(nodes) + 1 /\ PrefixDone(i - 1)
  /\ pc = "default" => Broke \/ PrefixDone(Len(nodes))
  /\ pc = "done" => runtime = SpecifiedRuntime(nodes)

IInv == TypeOK /\ LoopInv

(* The zero value is no runtime, and Runtime.String is the identity on  *)
(* runtimes and the zero value.  (Proved by Zenon: the SMT encoding has  *)
(* no empty string literal, so the other steps keep NoRuntime opaque.)  *)
LEMMA NoRuntimeFacts ==
  /\ NoRuntime \notin Runtimes
  /\ \A r \in Runtimes : RuntimeString(r) = r
  /\ RuntimeString(NoRuntime) = NoRuntime
BY Zenon DEF NoRuntime, Runtimes, Docker, CRIO, Containerd, RuntimeString

(* getRuntimeString yields a runtime or the zero value. *)
LEMMA RuntimeStringType ==
  ASSUME NEW v
  PROVE  getRuntimeString(v) \in Runtimes \cup {NoRuntime}
BY DEF getRuntimeString, Runtimes, Docker, CRIO, Containerd

(* A List getRuntime may receive is a sequence of at most MaxNodes. *)
LEMMA ListsAreSeqs ==
  ASSUME NEW s \in Lists
  PROVE  s \in Seq(RuntimeVersions) /\ Len(s) <= MaxNodes
<1>1. PICK k \in 0..MaxNodes : s \in [1..k -> RuntimeVersions]
  BY DEF Lists
<1>2. s \in Seq(RuntimeVersions)
  BY <1>1, SeqDef, RuntimeConstantsAssumption
<1>3. Len(s) \in Nat /\ DOMAIN s = 1..Len(s)
  BY <1>2, LenProperties
<1>4. Len(s) = k
  BY <1>1, <1>3, RuntimeConstantsAssumption
<1>. QED  BY <1>2, <1>4

LEMMA InitIInv == Init => IInv
<1> SUFFICES ASSUME Init PROVE IInv
  OBVIOUS
<1>1. nodes \in Seq(RuntimeVersions) /\ Len(nodes) <= MaxNodes
  BY ListsAreSeqs DEF Init
<1>2. KnownIn(nodes, 0) = {}
  BY DEF KnownIn
<1>. QED  BY <1>1, <1>2, RuntimeConstantsAssumption
          DEF Init, IInv, TypeOK, LoopInv, PrefixDone, Runtimes

LEMMA IterateIInv ==
  ASSUME IInv, Iterate
  PROVE  IInv'
<1> DEFINE rt == getRuntimeString(nodes[i])
<1>1. pc = "loop" /\ i \in 1..Len(nodes) /\ PrefixDone(i - 1) /\ nodes' = nodes
  BY DEF Iterate, IInv, LoopInv, TypeOK
<1>2. Len(nodes) \in Nat /\ Len(nodes) <= MaxNodes
  BY DEF IInv, TypeOK
<1>3. rt \in Runtimes \cup {NoRuntime}
  BY RuntimeStringType
<1>4. CASE rt = NoRuntime
  <2>1. i' = i + 1 /\ runtime' = runtime /\ pc' = "loop"
    BY <1>4 DEF Iterate
  <2>2. KnownIn(nodes, i) = KnownIn(nodes, i - 1)
    BY <1>1, <1>4 DEF KnownIn
  <2>3. \A j \in 1..i : getRuntimeString(nodes[j]) # Containerd
    BY <1>1, <1>2, <1>4, NoRuntimeFacts DEF PrefixDone, Containerd, Runtimes
  <2>4. PrefixDone(i - 1)'
    BY <1>1, <1>2, <2>1, <2>2, <2>3 DEF PrefixDone
  <2>5. TypeOK'
    <3>1. nodes' \in Seq(RuntimeVersions) /\ Len(nodes') <= MaxNodes
      BY <1>1 DEF IInv, TypeOK
    <3>2. i' \in 1..MaxNodes + 1
      BY <1>1, <1>2, <2>1, RuntimeConstantsAssumption
    <3>. QED  BY <2>1, <3>1, <3>2 DEF IInv, TypeOK
  <2>6. LoopInv'
    BY <1>1, <2>1, <2>4 DEF LoopInv
  <2>. QED  BY <2>5, <2>6 DEF IInv
<1>5. CASE rt = Containerd
  <2>1. pc' = "default" /\ runtime' = Containerd /\ i' = i
    BY <1>5, <1>3, NoRuntimeFacts DEF Iterate, Containerd, Runtimes
  <2>2. Broke'
    BY <1>1, <1>5, <2>1 DEF Broke
  <2>. QED  BY <1>1, <2>1, <2>2 DEF IInv, TypeOK, LoopInv, Runtimes
<1>6. CASE rt \in {Docker, CRIO}
  <2>1. i' = i + 1 /\ runtime' = rt /\ pc' = "loop"
    BY <1>6, NoRuntimeFacts DEF Iterate, Docker, CRIO, Containerd, Runtimes
  <2>2. i \in KnownIn(nodes, i) /\ \A m \in KnownIn(nodes, i) : m <= i
    BY <1>1, <1>2, <1>6, NoRuntimeFacts DEF KnownIn, Docker, CRIO, Runtimes
  <2>3. \A j \in 1..i : getRuntimeString(nodes[j]) # Containerd
    BY <1>1, <1>2, <1>6, NoRuntimeFacts DEF PrefixDone, Docker, CRIO, Containerd
  <2>4. PrefixDone(i - 1)'
    BY <1>1, <1>2, <2>1, <2>2, <2>3 DEF PrefixDone
  <2>5. TypeOK'
    <3>1. nodes' \in Seq(RuntimeVersions) /\ Len(nodes') <= MaxNodes
      BY <1>1 DEF IInv, TypeOK
    <3>2. i' \in 1..MaxNodes + 1
      BY <1>1, <1>2, <2>1, RuntimeConstantsAssumption
    <3>3. runtime' \in Runtimes \cup {NoRuntime}
      BY <1>6, <2>1 DEF Runtimes
    <3>. QED  BY <2>1, <3>1, <3>2, <3>3 DEF TypeOK
  <2>6. LoopInv'
    BY <1>1, <2>1, <2>4 DEF LoopInv
  <2>. QED  BY <2>5, <2>6 DEF IInv
<1>. QED  BY <1>3, <1>4, <1>5, <1>6 DEF Runtimes

LEMMA LoopEndIInv ==
  ASSUME IInv, LoopEnd
  PROVE  IInv'
<1>1. i = Len(nodes) + 1 /\ PrefixDone(i - 1)
  BY DEF LoopEnd, IInv, LoopInv, TypeOK
<1>. QED  BY <1>1 DEF LoopEnd, IInv, TypeOK, LoopInv, PrefixDone

(* The last of a set is the position every other one is at most. *)
LEMMA LastOfIsMax ==
  ASSUME NEW S \in SUBSET Nat, NEW j \in S, \A m \in S : m <= j
  PROVE  LastOf(S) = j
<1>1. \E x \in S : \A m \in S : m <= x
  OBVIOUS
<1>2. LastOf(S) \in S /\ \A m \in S : m <= LastOf(S)
  BY <1>1 DEF LastOf
<1>3. LastOf(S) <= j /\ j <= LastOf(S)
  BY <1>2
<1>4. \A x, y \in Nat : x <= y /\ y <= x => x = y
  OBVIOUS
<1>. QED  BY <1>2, <1>3, <1>4, Zenon

(* Default restated without Runtime.String. *)
LEMMA DefaultValue ==
  ASSUME NEW r \in Runtimes \cup {NoRuntime}
  PROVE  (IF RuntimeString(r) = "" THEN Containerd ELSE r)
           = IF r = NoRuntime THEN Containerd ELSE r
<1>1. RuntimeString(r) = r
  BY NoRuntimeFacts
<1>. QED  BY <1>1, Zenon DEF NoRuntime

LEMMA DefaultIInv ==
  ASSUME IInv, Default
  PROVE  IInv'
<1> DEFINE known == KnownIn(nodes, Len(nodes))
<1>1. pc = "default" /\ pc' = "done" /\ nodes' = nodes
      /\ runtime' = IF runtime = NoRuntime THEN Containerd ELSE runtime
  <2>1. runtime \in Runtimes \cup {NoRuntime}
    BY DEF IInv, TypeOK
  <2>. QED  BY <2>1, DefaultValue DEF Default, IInv, LoopInv
<1>2. runtime' \in Runtimes \cup {NoRuntime}
  BY <1>1 DEF IInv, TypeOK, Runtimes, Containerd
<1>3. runtime' = SpecifiedRuntime(nodes)
  <2>1. CASE Broke
    <3>1. \E j \in known : getRuntimeString(nodes[j]) = Containerd
      BY <2>1, NoRuntimeFacts DEF Broke, KnownIn, Containerd, Runtimes
    <3>2. runtime' = Containerd
      BY <1>1, <2>1 DEF Broke
    <3>. QED  BY <3>1, <3>2 DEF SpecifiedRuntime
  <2>2. CASE PrefixDone(Len(nodes)) /\ known = {}
    <3>1. runtime = NoRuntime
      BY <2>2 DEF PrefixDone
    <3>2. runtime' = Containerd
      BY <1>1, <3>1
    <3>. QED  BY <2>2, <3>2 DEF SpecifiedRuntime
  <2>3. CASE PrefixDone(Len(nodes)) /\ known # {}
    <3>1. PICK j \in known : (\A m \in known : m <= j)
                             /\ runtime = getRuntimeString(nodes[j])
      BY <2>3 DEF PrefixDone
    <3>2. runtime \in Runtimes
      BY <3>1, RuntimeStringType DEF KnownIn
    <3>3. runtime' = runtime
      BY <1>1, <3>2, NoRuntimeFacts
    <3>4. LastOf(known) = j
      BY <3>1, LastOfIsMax DEF KnownIn
    <3>5. ~\E m \in known : getRuntimeString(nodes[m]) = Containerd
      BY <2>3 DEF PrefixDone, KnownIn
    <3>. QED  BY <2>3, <3>1, <3>3, <3>4, <3>5 DEF SpecifiedRuntime
  <2>. QED  BY <1>1, <2>1, <2>2, <2>3 DEF IInv, LoopInv
<1>. QED  BY <1>1, <1>2, <1>3 DEF Default, IInv, TypeOK, LoopInv

LEMMA NextIInv == IInv /\ [Next]_vars => IInv'
<1> SUFFICES ASSUME IInv, [Next]_vars PROVE IInv'
  OBVIOUS
<1>1. CASE Iterate
  BY <1>1, IterateIInv
<1>2. CASE LoopEnd
  BY <1>2, LoopEndIInv
<1>3. CASE Default
  BY <1>3, DefaultIInv
<1>4. CASE UNCHANGED vars
  BY <1>4 DEF vars, IInv, TypeOK, LoopInv, PrefixDone, Broke, KnownIn, SpecifiedRuntime
<1>. QED  BY <1>1, <1>2, <1>3, <1>4 DEF Next

(* Type correctness of getRuntime: the local runtime only ever holds a  *)
(* Runtime value or the zero value, never an unparsed version string,   *)
(* and the loop index stays within the List.                             *)
THEOREM RuntimeTypeCorrect == Spec => []TypeOK
BY InitIInv, NextIInv, PTL DEF Spec, IInv

(* getRuntime's loop, its containerd break and its containerd default   *)
(* compute the runtime the design specifies, for every List of up to    *)
(* MaxNodes GPU nodes and every MaxNodes.                                *)
THEOREM RuntimeAsSpecifiedHolds == Spec => []RuntimeAsSpecified
<1>1. IInv => RuntimeAsSpecified
  BY DEF IInv, LoopInv, RuntimeAsSpecified
<1>. QED  BY <1>1, InitIInv, NextIInv, PTL DEF Spec

=============================================================================
