--------------------------- MODULE PrometheusDeploy ---------------------------
(***************************************************************************)
(* The Prometheus feature of one ClusterSummary on its workload cluster:   *)
(* deployPrometheus and the functions it calls (controllers/set_test.go,   *)
(* lines 101-412), run by the reconciler's deployPrometheus / deployFeature*)
(* on every pass until the feature is Provisioned.                         *)
(*                                                                         *)
(* A pass is one action: within it the code makes a fixed sequence of      *)
(* calls to the workload cluster, each of which may fail and end the       *)
(* function early.  What happens between passes is the environment:       *)
(* deployments becoming ready, and edits of the PrometheusConfiguration.   *)
(* The referenced ConfigMaps do not change here (ClusterSummaryReconciler  *)
(* covers that), so prometheusHash is the same on every pass and the       *)
(* hash short-circuit of deployFeature skips every pass after a success.   *)
(***************************************************************************)
EXTENDS Naturals, FiniteSets

CONSTANTS
    SpecChoices,     \* PrometheusConfiguration values: [mode, storage]
    StorageClasses,  \* StorageClassName values
    NoStorage,       \* StorageClassName nil or "", or Spec.Storage nil
    NoFault,         \* no call of the pass fails
    NoSpec,          \* nothing was deployed yet
    MaxFaults,       \* failed calls to the workload cluster
    MaxEdits         \* edits of the PrometheusConfiguration

\* InstallationMode; "Custom" stands for every value other than the two
\* the code tests for.
Modes == {"KubePrometheus", "KubeStateMetrics", "Custom"}

ASSUME SpecChoices \subseteq [mode : Modes, storage : StorageClasses \cup {NoStorage}]

\* Manifests and namespaces the code applies to the workload cluster.
Docs == {"PromNamespace", "PrometheusYAML", "KubePrometheusYAML", "KSMNamespace",
         "KubeStateMetricsYAML", "ClusterRole", "ClusterRoleBinding",
         "PrometheusInstance", "KSMServiceMonitor"}

\* Every call of a pass that can return an error.
Calls == Docs \cup {"getClient", "operatorCheck", "ksmCheck", "getInstance", "update"}

Deployments == {"operator", "ksm"}

VARIABLES
    spec,             \* the ClusterSummary's PrometheusConfiguration
    docs,             \* SUBSET Docs: what is applied on the workload cluster
    ready,            \* SUBSET Deployments: deployments whose pods are ready
    instanceStorage,  \* StorageClassName in the Prometheus instance's Spec.Storage
    status,           \* FeatureSummary of the Prometheus feature
    queued,           \* a pass is due (event or RequeueAfter)
    deployedSpec,     \* history: the spec of the last successful deploy
    spent             \* how much of each bound is used

vars == <<spec, docs, ready, instanceStorage, status, queued, deployedSpec, spent>>

-----------------------------------------------------------------------------
(* The calls of a pass.  r is [docs, storage, err]; an operator returns    *)
(* r unchanged once err is set, as the code returns at the first error.    *)

\* shouldInstallPrometheusOperator / KubeStateMetrics / KubePrometheusStack
ShouldInstallPrometheusOperator(s) == s.mode # "KubePrometheus"
ShouldInstallKubeStateMetrics(s) == s.mode = "KubeStateMetrics"
ShouldInstallKubePrometheusStack(s) == s.mode = "KubePrometheus"

\* isPrometheusOperatorReady / isKubeStateMetricsReady: the deployment is
\* present once its manifest is applied (the kube-prometheus stack brings
\* the operator too).
Present(x, D) ==
    IF x = "operator" THEN D \cap {"PrometheusYAML", "KubePrometheusYAML"} # {}
                      ELSE "KubeStateMetricsYAML" \in D

\* getPrometheusInstance: the Prometheus instance exists once applied alone
\* or as part of the kube-prometheus stack.
InstanceExists(D) == D \cap {"PrometheusInstance", "KubePrometheusYAML"} # {}

\* A call that only reads: it fails when it is the faulty one.
Call(r, x, f) == IF r.err THEN r ELSE [r EXCEPT !.err = (x = f)]

\* createNamespace / deployDoc: apply one object.
DeployDoc(r, d, f) ==
    IF r.err \/ d = f THEN [r EXCEPT !.err = TRUE] ELSE [r EXCEPT !.docs = @ \cup {d}]

\* deploy*InWorklaodCluster: the namespace, then the manifest.
DeployInWorkloadCluster(r, ns, yaml, f) == DeployDoc(DeployDoc(r, ns, f), yaml, f)

\* Mutants of the install-and-wait shape: the "if !ready" check dropped;
\* the "if !present" test inverted.
InstallAndWaitNoReadyCheck(r, x, ns, yaml, rd, f) ==
    LET r1 == Call(r, IF x = "operator" THEN "operatorCheck" ELSE "ksmCheck", f)
    IN  IF r1.err \/ Present(x, r.docs) THEN r1 ELSE DeployInWorkloadCluster(r1, ns, yaml, f)
InstallAndWaitIfPresent(r, x, ns, yaml, rd, f) ==
    LET r1 == Call(r, IF x = "operator" THEN "operatorCheck" ELSE "ksmCheck", f)
        r2 == IF r1.err \/ ~Present(x, r.docs) THEN r1
              ELSE DeployInWorkloadCluster(r1, ns, yaml, f)
    IN  IF r2.err \/ x \in rd THEN r2 ELSE [r2 EXCEPT !.err = TRUE]

\* deployPrometheusOperator / deployKubePrometheusStack and the second half
\* of deployKubeStateMetrics: check the deployment, apply it if it is not
\* present, and fail while it is not ready.
InstallAndWait(r, x, ns, yaml, rd, f) ==
    LET r1 == Call(r, IF x = "operator" THEN "operatorCheck" ELSE "ksmCheck", f)
        r2 == IF r1.err \/ Present(x, r.docs) THEN r1
              ELSE DeployInWorkloadCluster(r1, ns, yaml, f)
    IN  IF r2.err \/ x \in rd THEN r2 ELSE [r2 EXCEPT !.err = TRUE]

DeployPrometheusOperator(r, rd, f) ==
    InstallAndWait(r, "operator", "PromNamespace", "PrometheusYAML", rd, f)

DeployKubePrometheusStack(r, rd, f) ==
    InstallAndWait(r, "operator", "PromNamespace", "KubePrometheusYAML", rd, f)

\* deployPrometheusClusterRole: the ClusterRole, then its binding.
DeployPrometheusClusterRole(r, f) ==
    DeployDoc(DeployDoc(r, "ClusterRole", f), "ClusterRoleBinding", f)

\* deployKubeStateMetrics: an error applying the ClusterRole, the
\* Prometheus instance or the ServiceMonitor returns nil.
DeployKubeStateMetrics(r, rd, f) ==
    LET r1 == DeployDoc(DeployPrometheusClusterRole(r, f), "PrometheusInstance", f)
        r2 == DeployDoc(r1, "KSMServiceMonitor", f)
    IN  IF r2.err THEN [r2 EXCEPT !.err = FALSE]
        ELSE InstallAndWait(r2, "ksm", "KSMNamespace", "KubeStateMetricsYAML", rd, f)

\* addStorageConfig: with a StorageClassName, get the Prometheus instance,
\* set Spec.Storage only if it is nil, and update the instance.
AddStorageConfig(r, s, f) ==
    IF s.storage = NoStorage THEN r
    ELSE LET r1 == IF InstanceExists(r.docs) THEN Call(r, "getInstance", f)
                   ELSE [r EXCEPT !.err = TRUE]
         IN  IF r1.err \/ f = "update" THEN [r1 EXCEPT !.err = TRUE]
             ELSE [r1 EXCEPT !.storage = IF @ = NoStorage THEN s.storage ELSE @]

\* deployPrometheus: read the ClusterSummary and the cluster client, install
\* what the installation mode asks for, then the storage configuration.
DeployPrometheus(r, s, rd, f) ==
    LET r0 == Call(r, "getClient", f)
        r1 == IF ShouldInstallPrometheusOperator(s) THEN DeployPrometheusOperator(r0, rd, f) ELSE r0
        r2 == IF ShouldInstallKubeStateMetrics(s) /\ ~r1.err
              THEN DeployKubeStateMetrics(r1, rd, f) ELSE r1
        r3 == IF ShouldInstallKubePrometheusStack(s) THEN DeployKubePrometheusStack(r2, rd, f) ELSE r2
    IN  IF r3.err THEN r3 ELSE AddStorageConfig(r3, s, f)

-----------------------------------------------------------------------------
(* Passes of the reconciler and the environment                            *)

Init ==
    /\ spec \in SpecChoices
    /\ docs = {}
    /\ ready = {}
    /\ instanceStorage = NoStorage
    /\ status = "NoSummary"
    /\ queued = TRUE
    /\ deployedSpec = NoSpec
    /\ spent = [faults |-> 0, edits |-> 0]

\* Mutant of deployFeature: a failed deploy leaves the status it set before
\* the call.
FeatureStatusNotOverwritten(err) == IF err THEN "Provisioning" ELSE "Provisioned"

\* deployFeature: the FeatureSummary a deploy call leaves behind.
FeatureStatus(err) == IF err THEN "Failed" ELSE "Provisioned"

\* deployFeature's short-circuit: a Provisioned feature with an unchanged
\* hash is not deployed again.
Skip ==
    /\ queued
    /\ status = "Provisioned"
    /\ queued' = FALSE
    /\ UNCHANGED <<spec, docs, ready, instanceStorage, status, deployedSpec, spent>>

\* The reconciler's deployPrometheus: deployFeature calls deployPrometheus,
\* with at most one call of it failing, records the outcome, and a failed
\* pass is requeued after normalRequeueAfter.
DeployPass ==
    /\ queued
    /\ status # "Provisioned"
    /\ \E f \in {NoFault} \cup (IF spent.faults < MaxFaults THEN Calls ELSE {}) :
          LET r == DeployPrometheus([docs |-> docs, storage |-> instanceStorage,
                                     err |-> FALSE], spec, ready, f)
          IN  /\ docs' = r.docs
              /\ instanceStorage' = r.storage
              /\ status' = FeatureStatus(r.err)
              /\ queued' = r.err
              /\ deployedSpec' = IF r.err THEN deployedSpec ELSE spec
              /\ spent' = [spent EXCEPT !.faults = @ + (IF f = NoFault THEN 0 ELSE 1)]
    /\ UNCHANGED <<spec, ready>>

\* A deployment on the workload cluster whose manifest is applied becomes
\* ready.
BecomeReady(x) ==
    /\ Present(x, docs)
    /\ x \notin ready
    /\ ready' = ready \cup {x}
    /\ UNCHANGED <<spec, docs, instanceStorage, status, queued, deployedSpec, spent>>

\* The user edits the PrometheusConfiguration; the watch queues the summary.
EditSpec(s) ==
    /\ s # spec
    /\ spent.edits < MaxEdits
    /\ spec' = s
    /\ queued' = TRUE
    /\ spent' = [spent EXCEPT !.edits = @ + 1]
    /\ UNCHANGED <<docs, ready, instanceStorage, status, deployedSpec>>

Next ==
    \/ Skip
    \/ DeployPass
    \/ \E x \in Deployments : BecomeReady(x)
    \/ \E s \in SpecChoices : EditSpec(s)

\* A queued pass runs (the work queue and RequeueAfter guarantee it), and
\* a deployment whose manifest is applied eventually has ready pods (the
\* workload cluster is assumed healthy).  Edits owe nothing.
Fairness ==
    /\ WF_vars(Skip \/ DeployPass)
    /\ \A x \in Deployments : WF_vars(BecomeReady(x))

Spec == Init /\ [][Next]_vars /\ Fairness

-----------------------------------------------------------------------------
(* Properties                                                              *)

\* Status is only ever at rest as one of these: a pass never leaves the
\* feature Provisioning.
TypeOK ==
    /\ spec \in SpecChoices
    /\ docs \subseteq Docs
    /\ ready \subseteq Deployments
    /\ instanceStorage \in StorageClasses \cup {NoStorage}
    /\ status \in {"NoSummary", "Provisioned", "Failed"}
    /\ queued \in BOOLEAN
    /\ deployedSpec \in SpecChoices \cup {NoSpec}

\* What the workload cluster holds when a configuration is installed: the
\* deployments its installation mode needs, present and ready; the other
\* objects that mode applies; and the storage class in the Prometheus
\* instance when one is asked for.
RequiredReady(s) == IF s.mode = "KubeStateMetrics" THEN Deployments ELSE {"operator"}
RequiredDocs(s) ==
    CASE s.mode = "KubePrometheus"   -> {"KubePrometheusYAML"}
      [] s.mode = "KubeStateMetrics" -> {"ClusterRole", "ClusterRoleBinding",
                                         "PrometheusInstance", "KSMServiceMonitor"}
      [] s.mode = "Custom"           -> {}
Installed(s) ==
    /\ \A x \in RequiredReady(s) : Present(x, docs) /\ x \in ready
    /\ RequiredDocs(s) \subseteq docs
    /\ s.storage # NoStorage => instanceStorage # NoStorage

\* Provisioned means installed (spec 4.3: Provisioned on a successful
\* deploy): when the feature is recorded Provisioned, everything the
\* configuration it was deployed for asks of deployPrometheus is on the
\* workload cluster and ready, whatever call failed on the way.
ProvisionedIsInstalled == status = "Provisioned" => Installed(deployedSpec)

\* Retries converge: with passes requeued after every failure and the
\* deployments eventually ready, the feature ends Provisioned for good.
EventuallyProvisioned == <>[](status = "Provisioned")
====
