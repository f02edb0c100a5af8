\* One create over either live transport.
SPECIFICATION Spec
CONSTANTS
    Processes = {api}
    Batches = {b1}
    Listed = {b1}
    Settings <- LiveSettings
    MaxCreateAttempts = 3
    MaxRestarts = 0
    None = None
PROPERTIES
    TimedOutCreatesAreRetried
CHECK_DEADLOCK FALSE
