\* The installation mode is switched while the feature is Failed.
CONSTANTS
    sc1 = sc1  sc2 = sc2
    SpecChoices <- MCModeSwitchSpecs
    StorageClasses = {sc1, sc2}
    NoStorage = NoStorage
    NoFault = NoFault
    NoSpec = NoSpec
    MaxFaults = 0
    MaxEdits = 1
SPECIFICATION Spec
INVARIANT ProvisionedIsInstalled
\* Once the feature is Provisioned and no pass is due the controller waits
\* for events: a bounded run ends there.
CHECK_DEADLOCK FALSE
