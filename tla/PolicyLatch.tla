------------------------------ MODULE PolicyLatch ------------------------------
(***************************************************************************)
(* What the ClusterPolicy reconciler promises about which policy it acts *)
(* on, abstracted from how it walks the stages.                           *)
(*                                                                         *)
(* Within one lifetime of the operator process the first ClusterPolicy it *)
(* reconciles becomes the effective one, and stays so even if deleted.    *)
(* Only the effective policy has a status reported, Ready or NotReady;    *)
(* every other one keeps the status it was created with.  Only a restart *)
(* of the process lets another policy become effective.                   *)
(***************************************************************************)
EXTENDS Naturals

CONSTANTS
  Policies,   \* names of ClusterPolicy objects
  NoPolicy    \* no effective policy yet

Ready    == "ready"
NotReady == "notReady"
NoStatus == ""

VARIABLES
  policies,   \* ClusterPolicy objects in the store
  status,     \* their stored status
  singleton,  \* the effective policy of this process lifetime
  restarts    \* process lifetimes ended so far

vars == <<policies, status, singleton, restarts>>

Init ==
  /\ policies \in SUBSET Policies
  /\ status = [p \in Policies |-> NoStatus]
  /\ singleton = NoPolicy
  /\ restarts = 0

Create(p) ==
  /\ p \notin policies
  /\ policies' = policies \cup {p}
  /\ status' = [status EXCEPT ![p] = NoStatus]
  /\ UNCHANGED <<singleton, restarts>>

Delete(p) ==
  /\ p \in policies
  /\ policies' = policies \ {p}
  /\ status' = [status EXCEPT ![p] = NoStatus]
  /\ UNCHANGED <<singleton, restarts>>

(* The first policy reconciled in this lifetime becomes effective. *)
Latch(p) ==
  /\ singleton = NoPolicy
  /\ p \in policies
  /\ singleton' = p
  /\ UNCHANGED <<policies, status, restarts>>

(* A status is reported for the effective policy only. *)
Report(v) ==
  /\ singleton \in policies
  /\ status' = [status EXCEPT ![singleton] = v]
  /\ UNCHANGED <<policies, singleton, restarts>>

(* A restart forgets the effective policy. *)
Restart ==
  /\ singleton' = NoPolicy
  /\ restarts' = restarts + 1
  /\ UNCHANGED <<policies, status>>

Next ==
  \/ \E p \in Policies : Create(p) \/ Delete(p) \/ Latch(p)
  \/ \E v \in {Ready, NotReady} : Report(v)
  \/ Restart

Spec == Init /\ [][Next]_vars

=============================================================================
