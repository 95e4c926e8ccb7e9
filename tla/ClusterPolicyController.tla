-------------------------- MODULE ClusterPolicyController --------------------------
(***************************************************************************)
(* The ClusterPolicy reconcile loop: Reconcile and updateCRState of       *)
(* controllers/clusterpolicy_controller.go and init, labelGPUNodes, step  *)
(* and last of controllers/state_manager.go.                               *)
(*                                                                         *)
(* One worker (MaxConcurrentReconciles: 1) takes ClusterPolicy names from *)
(* the work queue.  A reconcile is split at the calls that reach the API  *)
(* server, so that the cluster (policies, node labels, DaemonSet          *)
(* readiness) and a process restart can interleave with it.  The store    *)
(* may fail any call, at most MaxErrors times in a behaviour.             *)
(***************************************************************************)
EXTENDS Naturals, FiniteSets, NodeLabels

CONSTANTS
  Policies,          \* names of ClusterPolicy objects
  Nodes,             \* cluster nodes
  NoPolicy,          \* the nil singleton pointer
  NumStages,         \* len(n.controls): the states added by init
  StageEnabled,      \* StageEnabled[s]: isStateEnabled of stage s
  SandboxEnabled,    \* n.sandboxEnabled
  InitLabels,        \* label maps a node may start with
  EnvEdits,          \* <<key, value>> label edits by NFD or an admin
  StatusWriteFails,  \* may Status().Update fail (as any other call)?
  MaxErrors,         \* bound on failed API calls
  MaxEnv,            \* bound on changes made by the cluster
  MaxRestarts        \* bound on operator restarts

ASSUME ConstantsAssumption ==
  /\ NoPolicy \notin Policies
  /\ NumStages \in Nat \ {0}
  /\ StageEnabled \in [1..NumStages -> BOOLEAN]
  /\ SandboxEnabled \in BOOLEAN
  /\ InitLabels \subseteq Labels /\ InitLabels # {}
  /\ EnvEdits \subseteq Keys \X Values
  /\ StatusWriteFails \in BOOLEAN
  /\ MaxErrors \in Nat /\ MaxEnv \in Nat /\ MaxRestarts \in Nat

(* The ClusterPolicy status values (api/v1 State) and "" for none yet. *)
Ready    == "ready"
NotReady == "notReady"
Ignored  == "ignored"
Disabled == "disabled"
NoStatus == ""

Stages == 1..NumStages

VARIABLES
  policies,     \* ClusterPolicy objects in the store
  status,       \* status.state stored for each of them
  labels,       \* node labels in the store
  ready,        \* ready[s]: the DaemonSets of stage s are ready
  dsOwner,      \* the policy owning the stage objects
  queue,        \* work queue (a set: the queue de-duplicates)
  delayed,      \* requests waiting for RequeueAfter or the rate limiter
  singleton,    \* clusterPolicyCtrl.singleton (its name)
  hasControls,  \* len(n.controls) # 0
  idx,          \* n.idx, the stage cursor
  hasNFD,       \* n.hasNFDLabels
  hasGPUNodes,  \* n.hasGPUNodes
  pc,           \* where the worker is in Reconcile
  req,          \* the request being reconciled
  todo,         \* nodes labelGPUNodes has not visited yet
  listed,       \* the node labels as labelGPUNodes listed them
  dirty,        \* updateLabels in labelGPUNodes
  nfdAcc,       \* clusterHasNFDLabels in labelGPUNodes
  gpuAcc,       \* gpuNodesTotal # 0 in labelGPUNodes
  overall,      \* overallStatus in Reconcile
  notReady,     \* statesNotReady in Reconcile
  failed,       \* step returned an error
  visited,      \* stages stepped in this reconcile (history)
  errors, envSteps, restarts

clusterVars == <<policies, status, labels, ready, dsOwner>>
procVars    == <<singleton, hasControls, idx, hasNFD, hasGPUNodes>>
workVars    == <<pc, req, todo, listed, dirty, nfdAcc, gpuAcc,
                 overall, notReady, failed, visited>>
vars == <<clusterVars, queue, delayed, procVars, workVars,
          errors, envSteps, restarts>>

PCs == {"idle", "init", "label", "finish", "step", "status"}

(* The status updateCRState is asked to write at the end of the walk.   *)
target == IF failed THEN NotReady ELSE overall

(* What the cluster wants the status to be. *)
Expected == IF \A s \in Stages : StageEnabled[s] => ready[s]
            THEN Ready ELSE NotReady

ClusterHasNFD == \E n \in Nodes : hasNFDLabels(labels[n])

(* A failed API call, while errors are left to inject. *)
Fail == errors < MaxErrors /\ errors' = errors + 1

(* Fault variant of Latched: no singleton check at all. *)
LatchedAnyway(p) == TRUE

(* Reconcile 100: is p the latched singleton, or is none latched yet? *)
Latched(p) == singleton \in {NoPolicy, p}

(* Fault variants of RequeueAfterWalk: no requeue after a step error,  *)
(* and no polling while NFD labels are missing.                        *)
RequeueNoErrorRetry == overall = NotReady \/ ~hasNFD
RequeueNoNFDPoll    == failed \/ overall = NotReady

(* Reconcile 130-187: does the end of the walk requeue the request? *)
RequeueAfterWalk == failed \/ overall = NotReady \/ ~hasNFD

(* Return from Reconcile with a requeue of the request. *)
ReturnRequeue ==
  /\ pc' = "idle"
  /\ delayed' = delayed \cup {req}

Init ==
  /\ policies \in SUBSET Policies
  /\ status = [p \in Policies |-> NoStatus]
  /\ labels \in [Nodes -> InitLabels]
  /\ ready = [s \in Stages |-> FALSE]
  /\ dsOwner = NoPolicy
  /\ queue = policies
  /\ delayed = {}
  /\ singleton = NoPolicy
  /\ hasControls = FALSE
  /\ idx = 0
  /\ hasNFD = FALSE
  /\ hasGPUNodes = FALSE
  /\ pc = "idle"
  /\ req = NoPolicy
  /\ todo = {}
  /\ listed = labels
  /\ dirty = FALSE
  /\ nfdAcc = FALSE
  /\ gpuAcc = FALSE
  /\ overall = Ready
  /\ notReady = {}
  /\ failed = FALSE
  /\ visited = {}
  /\ errors = 0
  /\ envSteps = 0
  /\ restarts = 0

(***************************************************************************)
(* Reconcile, clusterpolicy_controller.go 80-107 and init 692-696: fetch  *)
(* the policy; a missing one ends the request, a failed Get requeues it,  *)
(* a policy other than the latched singleton is "ignored" (SetStatus on   *)
(* the in-memory copy only, never written back), the singleton is latched *)
(* and the cursor reset.                                                   *)
(***************************************************************************)
ReconcileGet(p) ==
  /\ pc = "idle"
  /\ p \in queue
  /\ queue' = queue \ {p}
  /\ req' = p
  /\ \/ /\ p \notin policies
        /\ UNCHANGED <<delayed, procVars, pc, errors>>
     \/ /\ p \in policies
        /\ Fail
        /\ delayed' = delayed \cup {p}
        /\ UNCHANGED <<procVars, pc>>
     \/ /\ p \in policies
        /\ ~Latched(p)
        /\ UNCHANGED <<delayed, procVars, pc, errors>>
     \/ /\ p \in policies
        /\ Latched(p)
        /\ singleton' = p
        /\ idx' = 0
        /\ pc' = "init"
        /\ UNCHANGED <<delayed, hasControls, hasNFD, hasGPUNodes, errors>>
  /\ UNCHANGED <<clusterVars, todo, listed, dirty, nfdAcc, gpuAcc,
                 overall, notReady, failed, visited, envSteps, restarts>>

(***************************************************************************)
(* init 698-746 up to the node List of labelGPUNodes 444-456: on first    *)
(* use the Kubernetes version is fetched and the stages added; then the   *)
(* namespace is labelled and the nodes listed.  Any of these calls may    *)
(* fail, and init returns the error: Reconcile requeues (108-114).        *)
(***************************************************************************)
InitStart ==
  /\ pc = "init"
  /\ \/ /\ Fail
        /\ hasControls' \in {hasControls, TRUE}
        /\ ReturnRequeue
        /\ UNCHANGED <<todo, listed, dirty, nfdAcc, gpuAcc>>
     \/ /\ hasControls' = TRUE
        /\ pc' = "label"
        /\ todo' = Nodes
        /\ listed' = labels
        /\ dirty' = FALSE
        /\ nfdAcc' = FALSE
        /\ gpuAcc' = FALSE
        /\ UNCHANGED <<delayed, errors>>
  /\ UNCHANGED <<clusterVars, queue, singleton, idx, hasNFD, hasGPUNodes,
                 req, overall, notReady, failed, visited,
                 envSteps, restarts>>

(***************************************************************************)
(* One iteration of the labelGPUNodes node loop (458-531), on the labels  *)
(* of the List.  updateLabels is never reset between nodes, so once a     *)
(* node changed every later node is written too.  The Update carries the  *)
(* listed resourceVersion: it conflicts if the node changed since the     *)
(* List, and may fail as any call; either error aborts the loop and init. *)
(* A written label change is seen by the node watch, whose predicate may  *)
(* enqueue every policy.  After the last node init stores the two facts   *)
(* (749-754).                                                              *)
(***************************************************************************)
LabelNode(n) ==
  /\ pc = "label"
  /\ n \in todo
  /\ LET old == listed[n]
         new == LabelGPUNode(old, SandboxEnabled)
         upd == dirty \/ new # old
     IN  /\ nfdAcc' = (nfdAcc \/ hasNFDLabels(old))
         /\ gpuAcc' = (gpuAcc \/ hasCommonGPULabel(new))
         /\ dirty' = upd
         /\ \/ /\ upd
               /\ labels[n] # old
               /\ ReturnRequeue
               /\ UNCHANGED <<labels, queue, todo, hasNFD, hasGPUNodes, errors>>
            \/ /\ upd
               /\ Fail
               /\ ReturnRequeue
               /\ UNCHANGED <<labels, queue, todo, hasNFD, hasGPUNodes>>
            \/ /\ upd => labels[n] = old
               /\ labels' = IF upd THEN [labels EXCEPT ![n] = new] ELSE labels
               /\ queue' = IF upd /\ NodeUpdateNeedsReconcile(old, new)
                           THEN queue \cup policies ELSE queue
               /\ todo' = todo \ {n}
               /\ IF todo' = {}
                  THEN /\ pc' = "finish"
                       /\ hasNFD' = nfdAcc'
                       /\ hasGPUNodes' = gpuAcc'
                  ELSE UNCHANGED <<pc, hasNFD, hasGPUNodes>>
               /\ UNCHANGED <<delayed, errors>>
  /\ UNCHANGED <<policies, status, ready, dsOwner, singleton, hasControls,
                 idx, req, listed, overall, notReady, failed, visited,
                 envSteps, restarts>>

(***************************************************************************)
(* The rest of init (756-779): driver-upgrade annotations and the runtime *)
(* detection list the nodes again and may fail.  Then Reconcile starts    *)
(* the walk (127-129).                                                     *)
(***************************************************************************)
InitFinish ==
  /\ pc = "finish"
  /\ \/ /\ Fail
        /\ ReturnRequeue
        /\ UNCHANGED <<overall, notReady, failed, visited>>
     \/ /\ pc' = "step"
        /\ overall' = Ready
        /\ notReady' = {}
        /\ failed' = FALSE
        /\ visited' = {}
        /\ UNCHANGED <<delayed, errors>>
  /\ UNCHANGED <<clusterVars, queue, procVars, req, todo, listed, dirty,
                 nfdAcc, gpuAcc, envSteps, restarts>>

(***************************************************************************)
(* One iteration of the Reconcile loop (130-150) and step (826-845): the  *)
(* operations of stage idx+1 run in order; an error aborts the walk and   *)
(* the status NotReady is written before the error is returned; else the  *)
(* stage's status is NotReady if one of its operations is not ready, and  *)
(* Disabled for a disabled stage; the cursor advances and last() ends the *)
(* walk.  The operations set the policy as owner of what they create.     *)
(***************************************************************************)
StageStatus(s) ==
  IF ~StageEnabled[s] THEN Disabled
  ELSE IF ready[s] THEN Ready ELSE NotReady

(* Fault variant of last: the walk stops one stage early. *)
lastEarly(i) == i = NumStages - 1

(* last (851-856): the cursor has passed the final stage. *)
last(i) == i = NumStages

(* Fault variant of Aggregate: any status but Ready becomes the overall *)
(* status, as step does with the results of one stage's operations.      *)
AggregateAnyNonReady(o, st) == IF st # Ready THEN st ELSE o

(* Reconcile 139-140: the overall status after a stage reports st. *)
Aggregate(o, st) == IF st = NotReady THEN NotReady ELSE o

Step ==
  /\ pc = "step"
  /\ LET s == idx + 1 IN
     /\ dsOwner' = req
     /\ visited' = visited \cup {s}
     /\ \/ /\ Fail
           /\ failed' = TRUE
           /\ pc' = "status"
           /\ UNCHANGED <<idx, overall, notReady>>
        \/ /\ idx' = idx + 1
           /\ overall' = Aggregate(overall, StageStatus(s))
           /\ notReady' = IF StageStatus(s) = NotReady
                          THEN notReady \cup {s} ELSE notReady
           /\ pc' = IF last(idx') THEN "status" ELSE "step"
           /\ UNCHANGED <<failed, errors>>
  /\ UNCHANGED <<policies, status, labels, ready, queue, delayed,
                 singleton, hasControls, hasNFD, hasGPUNodes, req, todo,
                 listed, dirty, nfdAcc, gpuAcc, envSteps, restarts>>

(***************************************************************************)
(* updateCRState (190-210) and the return of Reconcile (133-187).  The    *)
(* policy is read again; a write is made only if the state differs, and   *)
(* its error is logged and dropped by every caller.  A written status is  *)
(* an update event of the policy watch.  Requeue: after an error or       *)
(* NotReady (5s), after Ready without NFD labels (45s); none otherwise.   *)
(***************************************************************************)
UpdateStatus ==
  /\ pc = "status"
  /\ LET write == req \in policies /\ status[req] # target
     IN  \/ /\ write
            /\ status' = [status EXCEPT ![req] = target]
            /\ queue' = queue \cup {req}
            /\ UNCHANGED errors
         \/ /\ req \in policies
            /\ StatusWriteFails
            /\ Fail
            /\ UNCHANGED <<status, queue>>
         \/ /\ ~write
            /\ UNCHANGED <<status, queue, errors>>
  /\ pc' = "idle"
  /\ delayed' = IF RequeueAfterWalk
                THEN delayed \cup {req} ELSE delayed
  /\ UNCHANGED <<policies, labels, ready, dsOwner, procVars, req, todo,
                 listed, dirty, nfdAcc, gpuAcc, overall, notReady, failed, visited,
                 envSteps, restarts>>

(* A RequeueAfter delay or the rate limiter's back-off expires. *)
Requeue(p) ==
  /\ p \in delayed
  /\ delayed' = delayed \ {p}
  /\ queue' = queue \cup {p}
  /\ UNCHANGED <<clusterVars, procVars, workVars, errors, envSteps, restarts>>

(***************************************************************************)
(* The cluster.  Creating or deleting a policy is an event of the policy  *)
(* watch.  DaemonSet readiness changes are events of the owner watch.     *)
(* NFD and administrators edit node labels; the node watch's predicate    *)
(* decides whether that enqueues the policies.                            *)
(***************************************************************************)
EnvStep == envSteps < MaxEnv /\ envSteps' = envSteps + 1

CreatePolicy(p) ==
  /\ EnvStep
  /\ p \notin policies
  /\ policies' = policies \cup {p}
  /\ status' = [status EXCEPT ![p] = NoStatus]
  /\ queue' = queue \cup {p}
  /\ UNCHANGED <<labels, ready, dsOwner, delayed, procVars, workVars,
                 errors, restarts>>

DeletePolicy(p) ==
  /\ EnvStep
  /\ p \in policies
  /\ policies' = policies \ {p}
  /\ status' = [status EXCEPT ![p] = NoStatus]
  /\ queue' = queue \cup {p}
  /\ UNCHANGED <<labels, ready, dsOwner, delayed, procVars, workVars,
                 errors, restarts>>

DaemonSetReadiness(s) ==
  /\ EnvStep
  /\ StageEnabled[s]
  /\ dsOwner \in policies
  /\ ready' = [ready EXCEPT ![s] = ~ready[s]]
  /\ queue' = queue \cup {dsOwner}
  /\ UNCHANGED <<policies, status, labels, dsOwner, delayed, procVars,
                 workVars, errors, restarts>>

EditNodeLabel(n, e) ==
  /\ EnvStep
  /\ labels[n][e[1]] # e[2]
  /\ LET new == [labels[n] EXCEPT ![e[1]] = e[2]] IN
     /\ labels' = [labels EXCEPT ![n] = new]
     /\ queue' = IF NodeUpdateNeedsReconcile(labels[n], new)
                 THEN queue \cup policies ELSE queue
  /\ UNCHANGED <<policies, status, ready, dsOwner, delayed, procVars,
                 workVars, errors, restarts>>

(***************************************************************************)
(* The operator process restarts: clusterPolicyCtrl is zeroed (singleton  *)
(* nil, no stages), the reconcile in progress is lost with its timers,    *)
(* and the informers' initial list enqueues every policy.                 *)
(***************************************************************************)
Restart ==
  /\ restarts < MaxRestarts
  /\ restarts' = restarts + 1
  /\ singleton' = NoPolicy
  /\ hasControls' = FALSE
  /\ idx' = 0
  /\ hasNFD' = FALSE
  /\ hasGPUNodes' = FALSE
  /\ pc' = "idle"
  /\ queue' = policies
  /\ delayed' = {}
  /\ UNCHANGED <<clusterVars, req, todo, listed, dirty, nfdAcc, gpuAcc, overall,
                 notReady, failed, visited, errors, envSteps>>

Worker ==
  \/ \E p \in Policies : ReconcileGet(p)
  \/ InitStart
  \/ \E n \in Nodes : LabelNode(n)
  \/ InitFinish
  \/ Step
  \/ UpdateStatus

Environment ==
  \/ \E p \in Policies : CreatePolicy(p) \/ DeletePolicy(p)
  \/ \E s \in Stages : DaemonSetReadiness(s)
  \/ \E n \in Nodes, e \in EnvEdits : EditNodeLabel(n, e)
  \/ Restart

Next ==
  \/ Worker
  \/ \E p \in Policies : Requeue(p)
  \/ Environment

(* The single worker runs whenever it has work, and timers expire; the  *)
(* cluster and restarts are not forced to happen.                        *)
Fairness ==
  /\ WF_vars(Worker)
  /\ \A p \in Policies : WF_vars(Requeue(p))

Spec == Init /\ [][Next]_vars /\ Fairness

-----------------------------------------------------------------------------
(* Type invariant of the reconcile loop: the store, the queue, the       *)
(* process-global clusterPolicyCtrl fields and the worker's locals keep  *)
(* their types; the cursor n.idx stays within 0..len(n.controls).        *)
TypeOK ==
  /\ policies \subseteq Policies
  /\ status \in [Policies -> {NoStatus, Ready, NotReady, Ignored}]
  /\ labels \in [Nodes -> Labels]
  /\ ready \in [Stages -> BOOLEAN]
  /\ dsOwner \in Policies \cup {NoPolicy}
  /\ queue \subseteq Policies
  /\ delayed \subseteq Policies
  /\ singleton \in Policies \cup {NoPolicy}
  /\ hasControls \in BOOLEAN
  /\ idx \in 0..NumStages
  /\ hasNFD \in BOOLEAN
  /\ hasGPUNodes \in BOOLEAN
  /\ pc \in PCs
  /\ req \in Policies \cup {NoPolicy}
  /\ todo \subseteq Nodes
  /\ listed \in [Nodes -> Labels]
  /\ dirty \in BOOLEAN
  /\ nfdAcc \in BOOLEAN
  /\ gpuAcc \in BOOLEAN
  /\ overall \in {Ready, NotReady}
  /\ notReady \subseteq Stages
  /\ failed \in BOOLEAN
  /\ visited \subseteq Stages
  /\ errors \in 0..MaxErrors
  /\ envSteps \in 0..MaxEnv
  /\ restarts \in 0..MaxRestarts

(* Aggregation (Reconcile 128-160, step, last): when Ready is about to  *)
(* be written, this reconcile stepped every stage, from the first, and   *)
(* none of them was NotReady.                                            *)
ReadyOnlyAfterFullWalk ==
  pc = "status" /\ target = Ready => visited = Stages /\ notReady = {}

(* The refinement mapping onto PolicyLatch: the abstract store, latch   *)
(* and restart count are the reconciler's own; everything else (nodes,  *)
(* stages, queue, the worker's place in Reconcile) is hidden.           *)
AbsLatch == INSTANCE PolicyLatch
              WITH Policies <- Policies, NoPolicy <- NoPolicy,
                   policies <- policies, status <- status,
                   singleton <- singleton, restarts <- restarts

(* The singleton latch (Reconcile 100-105, init 693, updateCRState):    *)
(* the reconciler implements PolicyLatch.  The first policy reconciled  *)
(* in a process lifetime stays effective until a restart, even once     *)
(* deleted, and statuses are written only for it, and only Ready or     *)
(* NotReady, however a reconcile interleaves with deletes and restarts. *)
ImplementsPolicyLatch == AbsLatch!Spec

(* Convergence under polling: once the cluster stops changing, the      *)
(* status stored for the latched policy reflects the readiness of its   *)
(* enabled stages.                                                       *)
StatusConverges ==
  <>[](singleton \in policies => status[singleton] = Expected)

(* NFD labels that appear anywhere are eventually noticed (the 45s poll *)
(* of Reconcile 162-174 when none were seen).                           *)
NFDNoticed ==
  <>[](singleton \in policies /\ ClusterHasNFD => hasNFD)

(* The spec: a ClusterPolicy other than the effective one is marked     *)
(* Ignored once it has been reconciled (Reconcile 100-105).              *)
OthersMarkedIgnored ==
  \A p \in policies :
    /\ singleton \notin {NoPolicy, p}
    /\ p \notin queue \cup delayed
    /\ ~(pc # "idle" /\ req = p)
    => status[p] = Ignored

=============================================================================
