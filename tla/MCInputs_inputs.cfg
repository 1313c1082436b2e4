\* Every input of MCInputs, each once.
SPECIFICATION Spec
CONSTANTS
    a1 = a1  a2 = a2  bad = bad  default = default
    Absent = Absent
    Panic = Panic
    NoPort = NoPort
    IntDigits = 3
    Unparsable = {bad}
    Default = default
    Identifiers <- ShortIdentifiers
    Addresses <- ShortAddresses
    Lines <- AllLines
    RuleFiles <- ShortFiles
    Paths <- ShortPaths
    Files <- ConfFiles
    LastPorts <- SomePorts
INVARIANTS
    SubdomainsAreNormal
    AddressesAreComplete
    RequestsFollowRules
    PortsAreInRange
CHECK_DEADLOCK FALSE
