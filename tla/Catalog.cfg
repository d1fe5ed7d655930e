\* Three requests at a time on a catalogue of two models and two pipelines.
SPECIFICATION Spec
CONSTANTS
    Requests = {r1, r2, r3}
    MaxProviders = 2
    MaxModels = 2
    MaxPipelines = 2
    MaxRows = 5
    Asked <- MCAsked
    Catalogs <- MCCatalogs
SYMMETRY Symmetry
INVARIANT OnlyRacesEmpty
PROPERTY DeletionsAreClean
PROPERTY PatchReplacesMembers
CHECK_DEADLOCK FALSE
