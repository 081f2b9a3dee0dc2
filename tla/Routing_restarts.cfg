SPECIFICATION FairSpec
CONSTANTS
    Devices = {"d1", "d2"}
    Flaky = {"d1"}
    MaxCycles = 2
    MaxFaults = 1
INVARIANTS
    TypeOK
    FirstDevicesKnown
    AppearancesCountStarts
    AvailabilityKnown
PROPERTIES
    ConstructorReturns
CHECK_DEADLOCK FALSE
