\* Retries with two failing calls: every installable configuration ends Provisioned.
CONSTANTS
    sc1 = sc1  sc2 = sc2
    SpecChoices <- MCInstallableSpecs
    StorageClasses = {sc1, sc2}
    NoStorage = NoStorage
    NoFault = NoFault
    NoSpec = NoSpec
    MaxFaults = 2
    MaxEdits = 0
SPECIFICATION Spec
PROPERTY EventuallyProvisioned
\* Once the feature is Provisioned and no pass is due the controller waits
\* for events: a bounded run ends there.
CHECK_DEADLOCK FALSE
