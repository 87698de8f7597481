\* KubeStateMetrics mode with one failing call.
CONSTANTS
    sc1 = sc1  sc2 = sc2
    SpecChoices <- MCKubeStateMetricsSpecs
    StorageClasses = {sc1, sc2}
    NoStorage = NoStorage
    NoFault = NoFault
    NoSpec = NoSpec
    MaxFaults = 1
    MaxEdits = 0
SPECIFICATION Spec
INVARIANT ProvisionedIsInstalled
\* Once the feature is Provisioned and no pass is due the controller waits
\* for events: a bounded run ends there.
CHECK_DEADLOCK FALSE
