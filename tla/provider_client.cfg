\* Three batches, one with a number off the allowlist, two processes that may each be
\* restarted with other settings.
SPECIFICATION Spec
CONSTANTS
    Processes = {api, worker}
    Batches = {b1, b2, b3}
    Listed = {b1, b2}
    Settings <- MCSettings
    MaxCreateAttempts = 3
    MaxRestarts = 2
    None = None
SYMMETRY Interchangeable
INVARIANTS
    TypeOK
    OneCallPerBatch
    IsLiveIsTruthful
    OnlyListedIsDialled
    OwnerIsAsked
PROPERTIES
    DefiniteErrorsEndTheCreate
CHECK_DEADLOCK FALSE
