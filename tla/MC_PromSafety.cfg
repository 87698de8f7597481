\* KubePrometheus mode: any one failing call per pass, three of them, and a storage class edit.
CONSTANTS
    sc1 = sc1  sc2 = sc2
    SpecChoices <- MCKubePrometheusSpecs
    StorageClasses = {sc1, sc2}
    NoStorage = NoStorage
    NoFault = NoFault
    NoSpec = NoSpec
    MaxFaults = 3
    MaxEdits = 1
SPECIFICATION Spec
INVARIANT TypeOK ProvisionedIsInstalled
\* Once the feature is Provisioned and no pass is due the controller waits
\* for events: a bounded run ends there.
CHECK_DEADLOCK FALSE
