\* What verify says of the records the service itself made.
CONSTANTS
    Hosts = {"h1"}
    Backends = {"b1", "b2"}
    Models = {"m1", "m2"}
    ModelOf <- MCModelOf
    Registered = {"h1", "b1"}
    Payloads = {1}
    Names = {"legacy"}
    MaxVersion = 3
    MaxHandoffs = 2
SPECIFICATION PortabilitySpec
CHECK_DEADLOCK FALSE
INVARIANTS RecordsVerify
