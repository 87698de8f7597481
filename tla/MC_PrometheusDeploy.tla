------------------------ MODULE MC_PrometheusDeploy ------------------------
(* Instantiation of PrometheusDeploy for TLC.                              *)
EXTENDS PrometheusDeploy

CONSTANTS sc1, sc2

\* Every configuration over two storage classes.
MCAllSpecs == [mode : Modes, storage : {NoStorage, sc1, sc2}]

\* KubePrometheus mode, whose deploy returns every error it meets, with
\* each storage setting: edits change only the storage class.
MCKubePrometheusSpecs == [mode : {"KubePrometheus"}, storage : {NoStorage, sc1, sc2}]

\* Configurations for which addStorageConfig can find a Prometheus
\* instance: all but Custom with a storage class.
MCInstallableSpecs ==
    {s \in MCAllSpecs : ~(s.mode = "Custom" /\ s.storage # NoStorage)}

\* KubeStateMetrics mode only.
MCKubeStateMetricsSpecs == [mode : {"KubeStateMetrics"}, storage : {NoStorage}]

\* Custom mode, then KubePrometheus mode, without storage.
MCModeSwitchSpecs == [mode : {"Custom", "KubePrometheus"}, storage : {NoStorage}]
=============================================================================
