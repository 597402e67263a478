\* A provider that can be asked for a result but repeats a repeated call.
CONSTANTS
    NumCalls = 1
    Responses = {"accepted"}
    Capabilities <- MCQueryOnly
    HiddenErrors = FALSE
    MaxSends = 2
    MaxCrashes = 1
SPECIFICATION Spec
CHECK_DEADLOCK FALSE
INVARIANTS NoUnauthorisedRepeat
