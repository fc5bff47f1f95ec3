SPECIFICATION Spec
CONSTANTS
    Configs <- BackendConfigs
    LoaderSets <- AllLoaders
INVARIANTS
    ComposedRunsThePayload
CHECK_DEADLOCK FALSE
