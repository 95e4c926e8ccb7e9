---------------------------- MODULE RuntimeDetection ----------------------------
(***************************************************************************)
(* Container runtime detection: getRuntime and getRuntimeString of        *)
(* controllers/state_manager.go, executed one loop iteration per step.   *)
(*                                                                         *)
(* getRuntime lists the nodes labelled gpu.present=true and walks them in *)
(* List order: an unrecognised runtime string is skipped, a recognised    *)
(* one becomes the result, and containerd ends the loop.  With nothing    *)
(* recognised the result defaults to containerd.                          *)
(***************************************************************************)
EXTENDS Naturals, Sequences

CONSTANT MaxNodes   \* bound on the number of GPU nodes listed

ASSUME RuntimeConstantsAssumption == MaxNodes \in Nat

(* gpuv1.Runtime values (api/v1 62-75); NoRuntime is the zero value "".  *)
Docker     == "docker"
CRIO       == "crio"
Containerd == "containerd"
NoRuntime  == ""
Runtimes   == {Docker, CRIO, Containerd}

(***************************************************************************)
(* ContainerRuntimeVersion strings look like <runtime>://<x.y.z>.  The    *)
(* version after the scheme is never read, so a string is represented by  *)
(* its scheme: the three known ones, an unknown runtime and the empty     *)
(* string of a node whose kubelet has not reported yet.  No scheme here   *)
(* extends another, so HasPrefix on them is equality of schemes.          *)
(***************************************************************************)
RuntimeVersions == {"docker", "containerd", "cri-o", "rkt", ""}

HasPrefix(v, p) == v = p

(* Fault variant of getRuntimeString: an unknown scheme is passed on as  *)
(* the runtime instead of being reported as an error.                     *)
getRuntimeStringLoose(v) ==
  IF HasPrefix(v, "docker") THEN Docker
  ELSE IF HasPrefix(v, "containerd") THEN Containerd
  ELSE IF HasPrefix(v, "cri-o") THEN CRIO
  ELSE v

(* getRuntimeString (538-552): the runtime a version string names, or   *)
(* NoRuntime for the "runtime not recognized" error.                     *)
getRuntimeString(v) ==
  IF HasPrefix(v, "docker") THEN Docker
  ELSE IF HasPrefix(v, "containerd") THEN Containerd
  ELSE IF HasPrefix(v, "cri-o") THEN CRIO
  ELSE NoRuntime

(* Runtime.String (api/v1 77-88): the name, or "" for any other value.   *)
RuntimeString(r) == IF r \in Runtimes THEN r ELSE ""

(* The Lists getRuntime may receive: up to MaxNodes runtime strings. *)
Lists == UNION {[1..k -> RuntimeVersions] : k \in 0..MaxNodes}

VARIABLES
  nodes,     \* runtime strings of the listed GPU nodes, in List order
  i,         \* the loop index
  runtime,   \* the local variable runtime
  pc         \* "loop", "default" (after the loop) or "done"

vars == <<nodes, i, runtime, pc>>

(* getRuntime 659-668: the List succeeded with up to MaxNodes GPU nodes. *)
Init ==
  /\ nodes \in Lists
  /\ i = 1
  /\ runtime = NoRuntime
  /\ pc = "loop"

(* Fault variant of Iterate: containerd does not end the loop. *)
IterateNoBreak ==
  /\ pc = "loop"
  /\ i <= Len(nodes)
  /\ LET rt == getRuntimeString(nodes[i]) IN
       /\ runtime' = IF rt = NoRuntime THEN runtime ELSE rt
       /\ i' = i + 1
  /\ UNCHANGED <<nodes, pc>>

(* getRuntime 671-682: one iteration.  An unrecognised runtime is logged *)
(* and skipped; a recognised one is kept, and containerd breaks.         *)
Iterate ==
  /\ pc = "loop"
  /\ i <= Len(nodes)
  /\ LET rt == getRuntimeString(nodes[i]) IN
       IF rt = NoRuntime
       THEN /\ i' = i + 1
            /\ UNCHANGED <<runtime, pc>>
       ELSE /\ runtime' = rt
            /\ IF rt = Containerd
               THEN pc' = "default" /\ UNCHANGED i
               ELSE i' = i + 1 /\ UNCHANGED pc
  /\ UNCHANGED nodes

(* The range loop ends after the last node. *)
LoopEnd ==
  /\ pc = "loop"
  /\ i > Len(nodes)
  /\ pc' = "default"
  /\ UNCHANGED <<nodes, i, runtime>>

(* getRuntime 684-689: nothing recognised defaults to containerd; the   *)
(* result is stored in n.runtime.                                        *)
Default ==
  /\ pc = "default"
  /\ runtime' = IF RuntimeString(runtime) = "" THEN Containerd ELSE runtime
  /\ pc' = "done"
  /\ UNCHANGED <<nodes, i>>

Next == Iterate \/ LoopEnd \/ Default

Spec == Init /\ [][Next]_vars

-----------------------------------------------------------------------------
(* Type invariant of getRuntime: the local runtime is always a Runtime  *)
(* value or the zero value, never an unparsed version string.           *)
TypeOK ==
  /\ nodes \in Seq(RuntimeVersions) /\ Len(nodes) <= MaxNodes
  /\ i \in 1..MaxNodes + 1
  /\ runtime \in Runtimes \cup {NoRuntime}
  /\ pc \in {"loop", "default", "done"}

(* The positions of s up to p whose runtime string is recognised. *)
KnownIn(s, p) == {j \in 1..p : getRuntimeString(s[j]) # NoRuntime}

(* The last of a nonempty set of positions. *)
LastOf(S) == CHOOSE j \in S : \A m \in S : m <= j

(* The runtime the design (RuntimeDetector) asks for: the preferred     *)
(* runtime, containerd, if any GPU node runs it; otherwise the runtime  *)
(* of the last node whose string is recognised; containerd by default.  *)
SpecifiedRuntime(s) ==
  LET known == KnownIn(s, Len(s))
  IN  IF \E j \in known : getRuntimeString(s[j]) = Containerd THEN Containerd
      ELSE IF known = {} THEN Containerd
      ELSE getRuntimeString(s[LastOf(known)])

(* getRuntime's loop with its early break and its default computes the  *)
(* specified runtime for every List of GPU nodes, whatever the order of *)
(* recognised, unrecognised and unreported runtime strings in it.       *)
RuntimeAsSpecified ==
  pc = "done" => runtime = SpecifiedRuntime(nodes)

=============================================================================
