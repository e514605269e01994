------------------------------ MODULE Operator ------------------------------
(***************************************************************************)
(* The Kubernetes operator: operator/internal/controller and the admission *)
(* webhook, for one OpenClawInstance and one PolicyBundle.                 *)
(*                                                                         *)
(* Users write the custom resources; a reconciler per kind writes the      *)
(* objects they own.  The reconcilers read from a cache that lags behind   *)
(* the API server, a write of an outdated copy conflicts, every request    *)
(* may fail (taken or not), and the operator may restart between any two.  *)
(* A name may be deleted and created again: its uid tells the difference.  *)
(*                                                                         *)
(* The API server, the garbage collector, the pods and the work queue of   *)
(* controller-runtime are external.  Contents stand for the fields that    *)
(* tell two specifications apart; timestamps are left out, so a status     *)
(* written again unchanged makes an event or, within a second, none.       *)
(***************************************************************************)
EXTENDS Naturals, Sequences, FiniteSets

CONSTANTS
  InstanceName, BundleName,    \* their names
  InstanceSpecs,               \* the specifications of the instance users write
  PolicyLists,                 \* the policies of the bundle users write
  SanitizeName,                \* the file name of each policy name
  DefaultGatewayImage,
  WebhookEnabled,              \* the flag --enable-webhook
  None,                        \* no object
  MaxLag,                      \* bound: the objects whose cached copy is outdated
  MaxEvents                    \* bound: writes of users, counted twice, and faults

VARIABLES
  store,        \* the objects in the API server
  seen,         \* the operator's cache of them
  queued,       \* the reconcilers' work queues: is the key in it?
  worker,       \* the reconciliation under way of each kind
  opa,          \* the policies that the OPA sidecars of the pods have loaded
  by,           \* history: the resource and generation each object was written for
  writes,       \* creations and edits so far
  faults        \* failed requests, drift and restarts so far

vars == <<store, seen, queued, worker, opa, by, writes, faults>>

Scopes == <<"enterprise", "org", "team", "user">>
Policy ==
  [scope : {Scopes[i] : i \in 1..4}, domain : STRING, name : DOMAIN SanitizeName,
   content : STRING]
InstanceSpec == [deploymentMode : {"single", "ha"}, replicas : Nat \ {0}, gateway : STRING]

Resources == {"instance", "bundle"}
Owned == {"deployment", "service", "configmap"}
Objects == Resources \cup Owned

\* The resource whose reconciler writes the object.
ResourceOf(o) == IF o = "configmap" THEN "bundle" ELSE "instance"

ConditionTypes == {"Ready", "Degraded", "PolicyReady", "PolicySynced"}

NoStatus ==
  [observedGeneration |-> 0, phase |-> "", conditions |-> [c \in ConditionTypes |-> ""]]

Idle == [at |-> "idle", cr |-> None]

ASSUME OperatorAssumption ==
  /\ InstanceSpecs \subseteq InstanceSpec
  /\ \A l \in PolicyLists : l \in Seq(Policy)
  /\ {MaxLag, MaxEvents} \subseteq Nat

Init ==
  /\ store = [o \in Objects |-> None]
  /\ seen = store
  /\ queued = [k \in Resources |-> FALSE]
  /\ worker = [k \in Resources |-> Idle]
  /\ opa = None
  /\ by = [o \in Owned |-> <<0, 0>>]
  /\ writes = 0 /\ faults = 0
-----------------------------------------------------------------------------
(* What the custom resources ask for.                                      *)

\* The Deployment of an instance: single mode is one replica, the instance may
\* override the image, and the OPA sidecar mounts a ConfigMap by name.
DesiredDeployment(spec) ==
  [replicas |-> IF spec.deploymentMode = "single" THEN 1 ELSE spec.replicas,
   gateway |-> IF spec.gateway = "" THEN DefaultGatewayImage ELSE spec.gateway,
   volume |-> InstanceName]

\* The Service is the same for every specification.
DesiredService == [selector |-> InstanceName]

ValidatePolicyBundle(policies) ==
  /\ policies # <<>>
  /\ \A i \in DOMAIN policies : policies[i].name # "" /\ policies[i].content # ""

ScopeOrder(s) == CHOOSE i \in 1..4 : Scopes[i] = s

\* The nearest of the broader scopes, 0 when there is none.
FindParentScope(scopes, child) ==
  LET broader == {ScopeOrder(s) : s \in scopes} \cap 0..(ScopeOrder(child) - 1) IN
  CHOOSE o \in broader \cup {0} : \A b \in broader : b <= o

ValidateHierarchy(child, parentOrder) == ScopeOrder(child) > parentOrder

\* The admission webhook: the hierarchy check compares the scopes of one bundle.
Admitted(policies) ==
  /\ ValidatePolicyBundle(policies)
  /\ \A i \in DOMAIN policies :
       LET d == policies[i].domain
           scopes == {policies[j].scope : j \in {j \in DOMAIN policies : policies[j].domain = d}}
       IN  ValidateHierarchy(policies[i].scope, FindParentScope(scopes, policies[i].scope))

KeyOf(p) == <<p.scope, p.domain, SanitizeName[p.name]>>

\* The ConfigMap of a bundle: of the policies with the same key the last one stays.
ConfigMapData(policies) ==
  [key \in {KeyOf(policies[i]) : i \in DOMAIN policies} |->
     LET same == {i \in DOMAIN policies : KeyOf(policies[i]) = key} IN
     policies[CHOOSE i \in same : \A j \in same : j <= i].content]

Desired(o, spec) ==
  CASE o = "deployment" -> DesiredDeployment(spec)
    [] o = "service"    -> DesiredService
    [] o = "configmap"  -> ConfigMapData(spec)
-----------------------------------------------------------------------------
(* Users, and what Kubernetes does.                                        *)

Specs(k) ==
  IF k = "instance" THEN InstanceSpecs
  ELSE {l \in PolicyLists : WebhookEnabled => Admitted(l)}

UserWrite == 2 * writes + faults + 2 <= MaxEvents /\ writes' = writes + 1

Fault == 2 * writes + faults < MaxEvents /\ faults' = faults + 1

Put(o, object) ==
  /\ Cardinality({p \in Objects \ {o} : seen[p] # store[p]}) < MaxLag
  /\ store' = [store EXCEPT ![o] = object]

Create(k) ==
  /\ store[k] = None /\ UserWrite
  /\ \E spec \in Specs(k) :
       Put(k, [uid |-> writes + 1, generation |-> 1, spec |-> spec, finalizer |-> FALSE,
               deleting |-> FALSE, status |-> NoStatus])
  /\ UNCHANGED <<seen, queued, worker, opa, by, faults>>

Edit(k) ==
  /\ store[k] # None /\ UserWrite
  /\ \E spec \in Specs(k) \ {store[k].spec} :
       Put(k, [store[k] EXCEPT !.spec = spec, !.generation = @ + 1])
  /\ UNCHANGED <<seen, queued, worker, opa, by, faults>>

\* A finalizer keeps a deleted object until it is removed.
Delete(k) ==
  /\ store[k] # None /\ ~store[k].deleting
  /\ Put(k, IF store[k].finalizer THEN [store[k] EXCEPT !.deleting = TRUE] ELSE None)
  /\ UNCHANGED <<seen, queued, worker, opa, by, writes, faults>>

\* Somebody changes or deletes an object the operator wrote, or pods fail.
Drift(o) ==
  /\ store[o] # None /\ Fault
  /\ \/ Put(o, None)
     \/ Put(o, [store[o] EXCEPT !.content = None, !.readyReplicas = 0])
  /\ UNCHANGED <<seen, queued, worker, opa, by, writes>>

\* An object goes with the resource that owns it.
Collect(o) ==
  LET k == ResourceOf(o) IN
  /\ store[o] # None
  /\ ~(store[k] # None /\ store[k].uid = store[o].owner)
  /\ Put(o, None)
  /\ UNCHANGED <<seen, queued, worker, opa, by, writes, faults>>

\* Pods start, when the ConfigMap they mount is there; OPA, started without
\* --watch, loads the policies once.
PodsStart ==
  /\ store["deployment"] # None /\ store["deployment"].content # None
  /\ store["deployment"].readyReplicas # store["deployment"].content.replicas
  /\ store["deployment"].content.volume = BundleName /\ store["configmap"] # None
  /\ Put("deployment", [store["deployment"] EXCEPT !.readyReplicas =
                         store["deployment"].content.replicas])
  /\ opa' = store["configmap"].content
  /\ UNCHANGED <<seen, queued, worker, by, writes, faults>>

\* A change reaches the cache; For and Owns queue the key of the resource.
Watch(o) ==
  /\ seen[o] # store[o]
  /\ seen' = [seen EXCEPT ![o] = store[o]]
  /\ queued' = [queued EXCEPT ![IF o \in Owned THEN ResourceOf(o) ELSE o] = TRUE]
  /\ UNCHANGED <<store, worker, opa, by, writes, faults>>

\* The manager queues every key again from time to time; while a reconciliation is
\* under way that makes no difference before it has ended.
Resync(k) ==
  /\ ~queued[k] /\ worker[k] = Idle /\ seen[k] # None
  /\ queued' = [queued EXCEPT ![k] = TRUE]
  /\ UNCHANGED <<store, seen, worker, opa, by, writes, faults>>

\* The operator restarts: it lists everything and queues what exists.
Restart ==
  /\ Fault
  /\ seen' = store
  /\ worker' = [k \in Resources |-> Idle]
  /\ queued' = [k \in Resources |-> store[k] # None]
  /\ UNCHANGED <<store, opa, by, writes>>
-----------------------------------------------------------------------------
(* Requests of a reconciler.                                               *)

\* A write of an outdated copy conflicts; any request may fail on the way there
\* or on the way back.
Taken(o, copy, object) == store[o] = copy /\ Put(o, object) /\ UNCHANGED faults

Rejected(o, copy, object) ==
  \/ store[o] # copy /\ UNCHANGED <<store, faults>>
  \/ /\ Fault
     /\ \/ UNCHANGED store
        \/ store[o] = copy /\ Put(o, object)

Continue(k, at, cr) ==
  /\ worker' = [worker EXCEPT ![k] = [at |-> at, cr |-> cr]]
  /\ UNCHANGED queued

Finish(k) == worker' = [worker EXCEPT ![k] = Idle] /\ UNCHANGED queued

\* An error that Reconcile returns queues the key again.
Requeue(k) ==
  /\ worker' = [worker EXCEPT ![k] = Idle]
  /\ queued' = [queued EXCEPT ![k] = TRUE]

WithCondition(status, type, value) == [status EXCEPT !.conditions[type] = value]

\* setCondition: a status that says what it said before may or may not make an
\* event, and an error is returned.
PersistStatus(k, status) ==
  LET cr == worker[k].cr
      new == [cr EXCEPT !.status = status]
  IN  \/ /\ Taken(k, cr, new)
         /\ worker' = [worker EXCEPT ![k] = Idle]
         /\ \/ UNCHANGED queued
            \/ new = cr /\ queued' = [queued EXCEPT ![k] = TRUE]
      \/ Rejected(k, cr, new) /\ Requeue(k)

\* Mutant of Written: an update sets the replicas and forgets the pod template.
WrittenReplicas(o, cr) ==
  IF seen[o] = None
  THEN [content |-> Desired(o, cr.spec), owner |-> cr.uid, readyReplicas |-> 0]
  ELSE IF o = "deployment" /\ seen[o].content # None
  THEN [seen[o] EXCEPT !.content.replicas = Desired(o, cr.spec).replicas]
  ELSE [seen[o] EXCEPT !.content = Desired(o, cr.spec)]

\* Create, or update of the fields the reconciler owns in the cached copy.
Written(o, cr) ==
  IF seen[o] = None
  THEN [content |-> Desired(o, cr.spec), owner |-> cr.uid, readyReplicas |-> 0]
  ELSE [seen[o] EXCEPT !.content = Desired(o, cr.spec)]

\* Mutant of WriteObject: after an error it goes on with the next object.
WriteObjectAnyhow(k, o, next, failed) ==
  LET cr == worker[k].cr
      new == Written(o, cr)
  IN  /\ worker[k].at = o
      /\ Taken(o, seen[o], new) \/ Rejected(o, seen[o], new)
      /\ Continue(k, next, cr)
      /\ by' = IF store'[o] = new THEN [by EXCEPT ![o] = <<cr.uid, cr.generation>>] ELSE by
      /\ UNCHANGED <<seen, opa, writes>>

\* A reconciler brings one object up to date, or records that it could not: that
\* error is not returned.
WriteObject(k, o, next, failed) ==
  LET cr == worker[k].cr
      new == Written(o, cr)
  IN  /\ worker[k].at = o
      /\ \/ Taken(o, seen[o], new) /\ Continue(k, next, cr)
         \/ Rejected(o, seen[o], new) /\ Continue(k, failed, cr)
      /\ by' = IF store'[o] = new THEN [by EXCEPT ![o] = <<cr.uid, cr.generation>>] ELSE by
      /\ UNCHANGED <<seen, opa, writes>>
-----------------------------------------------------------------------------
(* OpenClawInstanceReconciler.                                             *)

\* Mutant of FirstStep: no finalizer is set.
FirstStepUnheld(cr) == IF cr.deleting THEN "delete" ELSE "deployment"

FirstStep(cr) ==
  CASE ~cr.finalizer -> "finalizer"
    [] cr.finalizer /\ cr.deleting -> "delete"
    [] OTHER -> "deployment"

\* A reconciliation takes the key and reads the resource from the cache.
Begin(k, first) ==
  /\ worker[k].at = "idle" /\ queued[k]
  /\ queued' = [queued EXCEPT ![k] = FALSE]
  /\ worker' = IF seen[k] = None THEN worker
               ELSE [worker EXCEPT ![k] = [at |-> first, cr |-> seen[k]]]
  /\ UNCHANGED <<store, seen, opa, by, writes, faults>>

AddFinalizer ==
  LET cr == worker["instance"].cr
      new == [cr EXCEPT !.finalizer = TRUE]
  IN  /\ worker["instance"].at = "finalizer"
      /\ \/ Taken("instance", cr, new) /\ Continue("instance", FirstStep(new), new)
         \/ Rejected("instance", cr, new) /\ Requeue("instance")
      /\ UNCHANGED <<seen, opa, by, writes>>

ReconcileDelete ==
  LET cr == worker["instance"].cr IN
  /\ worker["instance"].at = "delete"
  /\ \/ Taken("instance", cr, None) /\ Finish("instance")
     \/ Rejected("instance", cr, None) /\ Requeue("instance")
  /\ UNCHANGED <<seen, opa, by, writes>>

DegradedStep ==
  /\ worker["instance"].at = "degraded"
  /\ PersistStatus("instance", WithCondition(worker["instance"].cr.status, "Degraded", "True"))
  /\ UNCHANGED <<seen, opa, by, writes>>

\* The phase compares the ready pods with the cached Deployment.
Phase ==
  LET d == seen["deployment"] IN
  CASE d = None -> "Pending"
    [] d # None /\ d.content # None /\ d.readyReplicas = d.content.replicas -> "Running"
    [] OTHER -> "Progressing"

Observed(cr) == [cr.status EXCEPT !.observedGeneration = cr.generation]

UpdateStatus ==
  LET cr == worker["instance"].cr IN
  /\ worker["instance"].at = "status"
  /\ PersistStatus("instance",
       WithCondition([Observed(cr) EXCEPT !.phase = Phase], "Ready", "True"))
  /\ UNCHANGED <<seen, opa, by, writes>>

ReconcileInstance ==
  \/ Begin("instance", FirstStep(seen["instance"]))
  \/ AddFinalizer \/ ReconcileDelete
  \/ WriteObject("instance", "deployment", "service", "degraded")
  \/ WriteObject("instance", "service", "status", "degraded")
  \/ DegradedStep \/ UpdateStatus
-----------------------------------------------------------------------------
(* PolicyBundleReconciler.                                                 *)

NotReadyStep ==
  /\ worker["bundle"].at = "invalid"
  /\ PersistStatus("bundle", WithCondition(worker["bundle"].cr.status, "PolicyReady", "False"))
  /\ UNCHANGED <<seen, opa, by, writes>>

NotSyncedStep ==
  /\ worker["bundle"].at = "unsynced"
  /\ PersistStatus("bundle", WithCondition(worker["bundle"].cr.status, "PolicySynced", "False"))
  /\ UNCHANGED <<seen, opa, by, writes>>

SyncedStep ==
  /\ worker["bundle"].at = "status"
  /\ PersistStatus("bundle", WithCondition(Observed(worker["bundle"].cr), "PolicySynced", "True"))
  /\ UNCHANGED <<seen, opa, by, writes>>

\* Mutant of ReconcileBundle: a failure takes the step of the other reconciler.
ReconcileBundleMixed ==
  \/ Begin("bundle", "configmap")
  \/ WriteObject("bundle", "configmap", "status", "degraded")
  \/ SyncedStep

ReconcileBundle ==
  \/ Begin("bundle",
           IF ValidatePolicyBundle(seen["bundle"].spec) THEN "configmap" ELSE "invalid")
  \/ WriteObject("bundle", "configmap", "status", "unsynced")
  \/ NotReadyStep \/ NotSyncedStep \/ SyncedStep
-----------------------------------------------------------------------------
Users == \E k \in Resources : Create(k) \/ Edit(k) \/ Delete(k)

Next ==
  \/ Users \/ Restart \/ PodsStart
  \/ ReconcileInstance \/ ReconcileBundle
  \/ \E o \in Owned : Drift(o) \/ Collect(o)
  \/ \E o \in Objects : Watch(o)
  \/ \E k \in Resources : Resync(k)

Spec == Init /\ [][Next]_vars

\* The reconcilers run, watches deliver, keys are queued again in the end, the
\* garbage collector works and pods that can start do.  Users need do nothing.
Fairness ==
  /\ WF_vars(ReconcileInstance) /\ WF_vars(ReconcileBundle) /\ WF_vars(PodsStart)
  /\ \A o \in Objects : WF_vars(Watch(o))
  /\ \A o \in Owned : WF_vars(Collect(o))
  /\ \A k \in Resources : WF_vars(Resync(k))

FairSpec == Spec /\ Fairness
-----------------------------------------------------------------------------
(* What the code keeps.                                                    *)

Ordered(a, b) == a[1] < b[1] \/ (a[1] = b[1] /\ a[2] <= b[2])

CustomResource(k) ==
  [uid : 1..MaxEvents, generation : 1..MaxEvents, spec : Specs(k),
   finalizer : BOOLEAN, deleting : BOOLEAN,
   status : [observedGeneration : 0..MaxEvents,
             phase : {"", "Pending", "Progressing", "Running"},
             conditions : [ConditionTypes -> {"", "True", "False"}]]]

\* None is none of the custom resources.
ASSUME NoneAssumption == \A k \in Resources : None \notin CustomResource(k)

Steps == [instance |-> {"idle", "finalizer", "delete", "deployment", "service", "status",
                        "degraded"},
          bundle |-> {"idle", "configmap", "status", "invalid", "unsynced"}]

\* Every variable has its type.
TypeOK ==
  /\ \A s \in {store, seen} :
       /\ \A k \in Resources : s[k] = None \/ s[k] \in CustomResource(k)
       /\ \A o \in Owned : s[o] = None \/ s[o].owner \in 1..MaxEvents
  /\ queued \in [Resources -> BOOLEAN]
  /\ \A k \in Resources :
       /\ worker[k].at \in Steps[k]
       /\ worker[k] = Idle \/ worker[k].cr \in CustomResource(k)
  /\ by \in [Owned -> (0..MaxEvents) \X (0..MaxEvents)]
  /\ 2 * writes + faults <= MaxEvents

\* A status is never ahead of the objects: once it says that a generation has been
\* observed, whatever stands in the cluster was written for that generation or a
\* later one, through conflicts, lost answers and restarts.
StatusNeverAhead ==
  \A o \in Owned :
    LET cr == store[ResourceOf(o)] IN
    store[o] # None /\ cr # None /\ cr.status.observedGeneration > 0
      => Ordered(<<cr.uid, cr.status.observedGeneration>>, by[o])

\* The operator makes no Deployment and no Service for an instance that has gone:
\* the finalizer holds the instance until the reconciliation under way has ended.
NothingMadeForTheGone ==
  [][\A o \in {"deployment", "service"} :
       store[o] = None /\ store'[o] # None =>
         store["instance"] # None /\ store["instance"].uid = store'[o].owner]_vars

\* What users ask for comes about once they leave off.
Settled ==
  /\ LET i == store["instance"] IN
     IF i = None THEN store["deployment"] = None /\ store["service"] = None
     ELSE /\ ~i.deleting /\ i.status.observedGeneration = i.generation
          /\ \A o \in {"deployment", "service"} :
               store[o] # None /\ store[o].owner = i.uid /\ store[o].content = Desired(o, i.spec)
          /\ (i.status.phase = "Running")
               <=> store["deployment"].readyReplicas = store["deployment"].content.replicas
  /\ LET b == store["bundle"] IN
     IF b = None THEN store["configmap"] = None
     ELSE ValidatePolicyBundle(b.spec) =>
            /\ b.status.observedGeneration = b.generation
            /\ b.status.conditions["PolicySynced"] = "True"
            /\ store["configmap"] # None /\ store["configmap"].content = ConfigMapData(b.spec)

\* The reconcilers converge: although most errors are not returned, and so not
\* retried by the queue, every change, drift, failure and restart is made good.
Converges == <>[]Settled
-----------------------------------------------------------------------------
(* What the documents say.                                                 *)

\* The policies that the bundle's status calls synced reach the OPA sidecar.
PoliciesReachOPA ==
  \A l \in PolicyLists :
    []( /\ store["bundle"] # None /\ store["bundle"].spec = l
        /\ store["bundle"].status.conditions["PolicySynced"] = "True"
        /\ store["deployment"] # None
      => <>( \/ opa = ConfigMapData(l) \/ store["deployment"] = None
            \/ store["bundle"] = None \/ store["bundle"].spec # l))
=============================================================================
