SPECIFICATION Spec
CONSTANTS
    a = a
    Names = {a}
    Lists <- AnyList
    Requests = {r1, r2}
    MaxProvider = 1
    MaxModel = 2
    MaxConf = 2
    Keys = {k1, k2, k3}
    NoKey = none
SYMMETRY Symmetry
INVARIANTS
    CacheIsCurrent
    EnabledAsListed
    
    ServedKeyIsStored
 
