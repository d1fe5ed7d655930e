SPECIFICATION Spec
CONSTANTS
    Jobs = {j1, j2}
    NoJob = none
    Owners = {ann, bob}
    MaxIds = 2
    MaxRuns = 4
INVARIANTS PendingHasOwner OneOwner 
