-------------------- MODULE MC_ClusterSummaryReconciler --------------------
(* Instantiation of ClusterSummaryReconciler for TLC.                      *)
EXTENDS ClusterSummaryReconciler, TLC

CONSTANTS c1, c2, r1, r2, w1, w2, d1, d2, p1, p2

\* Spec choices: one WorkloadRole and no policies, or no roles and one
\* Kyverno ConfigMap.  An edit between them changes every reference, so
\* updatesMaps must both insert and erase.
MCSpecChoices ==
    { [Role |-> <<r1>>, Kyverno |-> NotConfigured, Prometheus |-> NotConfigured],
      [Role |-> <<>>,   Kyverno |-> <<r2>>,         Prometheus |-> NotConfigured] }

\* One summary asking for roles and for Kyverno policies.
MCSpecRoleAndKyverno ==
    { [Role |-> <<r1>>, Kyverno |-> <<r2>>, Prometheus |-> NotConfigured] }

\* Roles plus a Prometheus configuration with one ConfigMap.
MCSpecRoleAndPrometheus ==
    { [Role |-> <<r1>>, Kyverno |-> NotConfigured, Prometheus |-> <<r2>>] }

\* Roles, with and without a Prometheus configuration.
MCSpecPrometheusToggle ==
    { [Role |-> <<r1>>, Kyverno |-> NotConfigured, Prometheus |-> <<r2>>],
      [Role |-> <<r1>>, Kyverno |-> NotConfigured, Prometheus |-> NotConfigured] }

WorkerSymmetry == Permutations({w1, w2})
=============================================================================
